--------------------------- MODULE OutboxDelivery ---------------------------
(***************************************************************************)
(* From a delivery intent to a GitHub check: GitHubHostedRuntime's         *)
(* processNextDelivery, GitHubCheckDeliveryAdapter.deliver,                *)
(* GitHubCheckWriter.write and the statements on reverb_delivery_outbox.   *)
(*                                                                         *)
(* A delivery is claimed, the write switch, the authorization and the head *)
(* are read one after the other, the annotations are sent batch by batch,  *)
(* and only then the row is resolved.  Anything may change in between.     *)
(***************************************************************************)
EXTENDS LeasedRow

CONSTANTS
    Effects,            \* delivery intents (idempotency keys)
    Annotations,        \* e |-> number of annotations of its projection
    ChunkSize,          \* annotations per provider request
    MaximumAttempts     \* maximum_attempts of the rows

ASSUME OutboxAssumption ==
    /\ Annotations \in [Effects -> Nat]
    /\ {ChunkSize, MaximumAttempts} \subseteq Nat \ {0}

VARIABLES
    effects,          \* reverb_delivery_outbox
    mode,             \* of the envelope: what the plan asks for, or "invalid"
    dispatcher,       \* where each worker is inside processNextDelivery
    sent,             \* provider: batches of each check that were ever written
    headMoved,        \* provider: effects whose head is no longer the current one
    authorized,       \* authority.reauthorize's answer
    writeDisabled     \* HostedOperationalControls: the write switch

github == <<sent, headMoved, authorized>>

outbox == <<effects, mode, dispatcher, github, writeDisabled>>

-----------------------------------------------------------------------------
(* State. *)

\* chunks(annotations, 50): one empty batch when there is nothing to annotate.
Batches(e) ==
    IF Annotations[e] = 0 THEN 1 ELSE (Annotations[e] + ChunkSize - 1) \div ChunkSize

\* CheckWriteResult.state.
WriteResults ==
    {"delivered", "shadow", "not_eligible", "disabled", "unauthorized", "superseded"}

Modes == {"write", "shadow", "no_write", "invalid"}

IdleDispatcher == [pc |-> "idle"]

\* staleClaim is a history field: the head had moved before the claim.
DispatcherState ==
    {IdleDispatcher}
    \cup [pc : {"claimed", "authorizing", "checkingHead"},
          effect : Effects, attempt : 1 .. MaximumAttempts, staleClaim : BOOLEAN]
    \cup [pc : {"writing"}, batch : Nat \ {0},
          effect : Effects, attempt : 1 .. MaximumAttempts, staleClaim : BOOLEAN]
    \cup [pc : {"resolving"}, result : WriteResults,
          effect : Effects, attempt : 1 .. MaximumAttempts, staleClaim : BOOLEAN]

\* A row carries a lease exactly while it is leased; a request is for a batch
\* of the check.
OutboxTypeOK ==
    /\ effects \in [Effects -> Row(EffectStates, MaximumAttempts)]
    /\ \A e \in Effects : (effects[e].leaseOwner # NoWorker) <=> (effects[e].state = "leased")
    /\ mode \in [Effects -> Modes]
    /\ dispatcher \in [Workers -> DispatcherState]
    /\ \A w \in Workers :
         dispatcher[w].pc = "writing" => dispatcher[w].batch <= Batches(dispatcher[w].effect)
    /\ sent \in [Effects -> SUBSET Nat]
    /\ \A e \in Effects : sent[e] \subseteq 1 .. Batches(e)
    /\ headMoved \subseteq Effects
    /\ authorized \in BOOLEAN
    /\ writeDisabled \in BOOLEAN

\* HostedOperationalControls start with writes disabled.
OutboxInit ==
    /\ effects = [e \in Effects |-> AbsentRow]
    /\ mode \in [Effects -> Modes]
    /\ dispatcher = [w \in Workers |-> IdleDispatcher]
    /\ sent = [e \in Effects |-> {}]
    /\ headMoved = {}
    /\ authorized = TRUE
    /\ writeDisabled = TRUE

-----------------------------------------------------------------------------
(* What job execution, time, GitHub and the operator do. *)

\* enqueueDelivery with the state its producer chose.
EnqueueDelivery(e, state) ==
    /\ effects[e].state = "absent"
    /\ effects' = [effects EXCEPT ![e] = [InsertedRow EXCEPT !.state = state]]
    /\ UNCHANGED <<mode, dispatcher, github, writeDisabled>>

EffectLeaseExpires(e) ==
    /\ effects[e].state = "leased" /\ ~effects[e].leaseExpired
    /\ effects' = [effects EXCEPT ![e].leaseExpired = TRUE]
    /\ UNCHANGED <<mode, dispatcher, github, writeDisabled>>

EffectRetryDue(e) ==
    /\ effects[e].state = "available" /\ ~effects[e].due
    /\ effects' = [effects EXCEPT ![e].due = TRUE]
    /\ UNCHANGED <<mode, dispatcher, github, writeDisabled>>

\* The pull request gets a new head.
HeadMoves(e) ==
    /\ e \notin headMoved
    /\ headMoved' = headMoved \cup {e}
    /\ UNCHANGED <<mode, effects, dispatcher, sent, authorized, writeDisabled>>

\* The installation loses or regains access.
AuthorizationChanges ==
    /\ authorized' = ~authorized
    /\ UNCHANGED <<mode, effects, dispatcher, sent, headMoved, writeDisabled>>

\* setDisabled('write', _).
SetWriteDisabled ==
    /\ writeDisabled' = ~writeDisabled
    /\ UNCHANGED <<mode, effects, dispatcher, github>>

\* disablePendingDeliveries.
DisablePendingDeliveries ==
    /\ effects' = [e \in Effects |->
                     IF effects[e].state \in {"available", "leased"}
                     THEN SettledRow(effects[e], "disabled") ELSE effects[e]]
    /\ UNCHANGED <<mode, dispatcher, github, writeDisabled>>

-----------------------------------------------------------------------------
(* processNextDelivery. *)

\* The switch is read, then claimDelivery.  Which claimable row comes first
\* depends on instants the model leaves out.
ClaimDelivery(w, e) ==
    /\ ~writeDisabled
    /\ dispatcher[w].pc = "idle"
    /\ Claimable(effects[e], MaximumAttempts)
    /\ effects' = [effects EXCEPT ![e] = ClaimedRow(effects[e], w)]
    /\ dispatcher' = [dispatcher EXCEPT ![w] =
                        [pc |-> "claimed", effect |-> e, attempt |-> effects[e].attempt + 1,
                         staleClaim |-> e \in headMoved]]
    /\ UNCHANGED <<mode, github, writeDisabled>>

\* The dispatcher goes on, or write() returns with a result to be resolved.
Continue(w, pc) ==
    dispatcher' = [dispatcher EXCEPT ![w].pc = pc]

Return(w, result) ==
    dispatcher' = [dispatcher EXCEPT ![w] =
                     [pc |-> "resolving", result |-> result, effect |-> dispatcher[w].effect,
                      attempt |-> dispatcher[w].attempt,
                      staleClaim |-> dispatcher[w].staleClaim]]

\* deliver and write up to the first await: the mode, then the switch again.
StartWrite(w) ==
    LET planned == mode[dispatcher[w].effect]
    IN  /\ dispatcher[w].pc = "claimed"
        /\ \/ /\ planned \in {"shadow", "no_write"}
              /\ Return(w, IF planned = "shadow" THEN "shadow" ELSE "not_eligible")
           \/ planned = "write" /\ writeDisabled /\ Return(w, "disabled")
           \/ planned = "write" /\ ~writeDisabled /\ Continue(w, "authorizing")
        /\ UNCHANGED <<mode, effects, github, writeDisabled>>

Reauthorize(w) ==
    /\ dispatcher[w].pc = "authorizing"
    /\ IF authorized THEN Continue(w, "checkingHead") ELSE Return(w, "unauthorized")
    /\ UNCHANGED <<mode, effects, github, writeDisabled>>

StartBatches(w) ==
    dispatcher' = [dispatcher EXCEPT ![w] =
                     [pc |-> "writing", batch |-> 1, effect |-> dispatcher[w].effect,
                      attempt |-> dispatcher[w].attempt,
                      staleClaim |-> dispatcher[w].staleClaim]]

\* Mutant: the head is compared only on the first attempt.
CheckHeadOnce(w) ==
    /\ dispatcher[w].pc = "checkingHead"
    /\ IF dispatcher[w].effect \in headMoved /\ dispatcher[w].attempt = 1
       THEN Return(w, "superseded") ELSE StartBatches(w)
    /\ UNCHANGED <<mode, effects, github, writeDisabled>>

CheckHead(w) ==
    /\ dispatcher[w].pc = "checkingHead"
    /\ IF dispatcher[w].effect \in headMoved
       THEN Return(w, "superseded") ELSE StartBatches(w)
    /\ UNCHANGED <<mode, effects, github, writeDisabled>>

\* Mutant: the last batch is not sent.
UpsertCheckShort(w) ==
    LET e == dispatcher[w].effect
        b == dispatcher[w].batch
    IN  /\ dispatcher[w].pc = "writing"
        /\ sent' = [sent EXCEPT ![e] = @ \cup {b}]
        /\ IF b >= Batches(e) - 1 THEN Return(w, "delivered")
           ELSE dispatcher' = [dispatcher EXCEPT ![w].batch = b + 1]
        /\ UNCHANGED <<mode, effects, headMoved, authorized, writeDisabled>>

\* One upsertCheck.  Neither the switch nor the head is read again between
\* batches.
UpsertCheck(w) ==
    LET e == dispatcher[w].effect
        b == dispatcher[w].batch
    IN  /\ dispatcher[w].pc = "writing"
        /\ sent' = [sent EXCEPT ![e] = @ \cup {b}]
        /\ IF b = Batches(e) THEN Return(w, "delivered")
           ELSE dispatcher' = [dispatcher EXCEPT ![w].batch = b + 1]
        /\ UNCHANGED <<mode, effects, headMoved, authorized, writeDisabled>>

\* GitHubCheckDeliveryAdapter: every result that is neither delivered nor
\* superseded becomes the terminal state disabled.
DeliveryState(result) ==
    IF result \in {"delivered", "superseded"} THEN result ELSE "disabled"

\* resolveDelivery: a no-op (stale_claim) for a worker without the lease.
ResolveDelivery(w) ==
    LET e == dispatcher[w].effect
    IN  /\ dispatcher[w].pc = "resolving"
        /\ effects' = IF HeldBy(effects[e], w)
                      THEN [effects EXCEPT ![e] =
                              SettledRow(effects[e], DeliveryState(dispatcher[w].result))]
                      ELSE effects
        /\ dispatcher' = [dispatcher EXCEPT ![w] = IdleDispatcher]
        /\ UNCHANGED <<mode, github, writeDisabled>>

\* Something threw.  An invalid envelope is terminal at once; a provider, a
\* token broker or a statement that fails is retried.
FailDelivery(w) ==
    LET e == dispatcher[w].effect
    IN  /\ dispatcher[w].pc # "idle"
        /\ effects' = IF HeldBy(effects[e], w)
                      THEN [effects EXCEPT ![e] =
                              FailedRow(effects[e], mode[e] # "invalid", MaximumAttempts)]
                      ELSE effects
        /\ dispatcher' = [dispatcher EXCEPT ![w] = IdleDispatcher]
        /\ UNCHANGED <<mode, github, writeDisabled>>

\* An upsertCheck that reached GitHub and whose answer was lost.
UpsertCheckLost(w) ==
    LET e == dispatcher[w].effect
    IN  /\ dispatcher[w].pc = "writing"
        /\ sent' = [sent EXCEPT ![e] = @ \cup {dispatcher[w].batch}]
        /\ effects' = IF HeldBy(effects[e], w)
                      THEN [effects EXCEPT ![e] = FailedRow(effects[e], TRUE, MaximumAttempts)]
                      ELSE effects
        /\ dispatcher' = [dispatcher EXCEPT ![w] = IdleDispatcher]
        /\ UNCHANGED <<mode, headMoved, authorized, writeDisabled>>

\* The worker process dies; its lease stays.
CrashDispatcher(w) ==
    /\ dispatcher[w].pc # "idle"
    /\ dispatcher' = [dispatcher EXCEPT ![w] = IdleDispatcher]
    /\ UNCHANGED <<mode, effects, github, writeDisabled>>

EnvironmentStep ==
    \/ \E e \in Effects, state \in {"available", "disabled"} : EnqueueDelivery(e, state)
    \/ \E e \in Effects : EffectLeaseExpires(e) \/ EffectRetryDue(e) \/ HeadMoves(e)
    \/ AuthorizationChanges \/ SetWriteDisabled \/ DisablePendingDeliveries

ReportStep(w) ==
    \/ StartWrite(w) \/ Reauthorize(w) \/ CheckHead(w) \/ UpsertCheck(w)
    \/ ResolveDelivery(w) \/ FailDelivery(w) \/ UpsertCheckLost(w)

OutboxNext ==
    \/ EnvironmentStep
    \/ \E w \in Workers :
         (\E e \in Effects : ClaimDelivery(w, e)) \/ ReportStep(w) \/ CrashDispatcher(w)

OutboxSpec == OutboxInit /\ [][OutboxNext]_outbox

-----------------------------------------------------------------------------
(* Safety. *)

Working(w) == dispatcher[w].pc # "idle"

\* A row that says delivered stands for a check with all its annotations, even
\* when attempts were cut short and overlapped.
DeliveredIsWhole ==
    \A e \in Effects : effects[e].state = "delivered" => sent[e] = 1 .. Batches(e)

\* A delivery that is claimed after its head was replaced writes nothing: only
\* the window between the head check and the request is left.
StaleClaimNeverWrites ==
    \A w \in Workers : dispatcher[w].pc = "writing" => ~dispatcher[w].staleClaim

\* A leased row leaves its lease by disablePendingDeliveries or by the verdict
\* of the worker that runs its latest attempt.
OutboxVerdictOfLatestClaim ==
    [][\A e \in Effects :
         effects[e].state = "leased" /\ effects'[e].state \notin {"leased", "disabled"} =>
           \E w \in Workers :
               /\ Working(w) /\ dispatcher'[w].pc = "idle"
               /\ dispatcher[w].effect = e
               /\ dispatcher[w].attempt = effects[e].attempt]_outbox

-----------------------------------------------------------------------------
(* Liveness. *)

OutboxFairness ==
    /\ \A e \in Effects : WF_outbox(EffectLeaseExpires(e)) /\ WF_outbox(EffectRetryDue(e))
    /\ \A w \in Workers :
         WF_outbox(\E e \in Effects : ClaimDelivery(w, e)) /\ WF_outbox(ReportStep(w))

\* No worker dies with a lease in hand or overruns it.
OutboxCalmStep ==
    \A w \in Workers : \A e \in Effects :
        Working(w) /\ dispatcher[w].effect = e /\ HeldBy(effects[e], w)
        => \/ dispatcher'[w].pc # "idle" /\ effects'[e].leaseExpired = effects[e].leaseExpired
           \/ effects'[e].state # "leased"

\* Leased at its last attempt by a worker that is gone: no claim takes it.
Stranded(e) ==
    /\ effects[e].state = "leased" /\ effects[e].leaseExpired
    /\ effects[e].attempt = MaximumAttempts

\* Once crashes, overruns and the write switch stop interfering, every intent
\* settles, save one whose last attempt was lost.
DeliveriesSettleOrStrand ==
    (<>[]~writeDisabled /\ <>[][OutboxCalmStep]_outbox) => \A e \in Effects :
        effects[e].state \in {"available", "leased"}
            ~> effects[e].state \in EffectSettled \/ Stranded(e)
=============================================================================
