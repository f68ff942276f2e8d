----------------------------- MODULE LeasedRow -----------------------------
(***************************************************************************)
(* The row discipline that the three hosted work tables of                 *)
(* PostgresHostedStore share: webhook inbox, hosted jobs, delivery outbox. *)
(* Every operator is one SQL statement (one transaction of #workspace) as  *)
(* a function from row to row, so a module that applies one of them in an  *)
(* action models the whole statement atomically.                           *)
(*                                                                         *)
(* Time.  `now', `available_at' and `lease_expires_at' are instants that   *)
(* the calling hosts supply, so all a claim ever learns from them are two  *)
(* bits: `due' (available_at <= now) and `leaseExpired' (lease_expires_at  *)
(* <= now).  The modules that use the table turn the bits on at any moment *)
(* (time passing) and the statements below turn them off (a new instant).  *)
(***************************************************************************)
EXTENDS Naturals

CONSTANTS Workers,    \* workerId strings of the host's worker loops
          NoWorker    \* NULL in lease_owner

ASSUME WorkersAssumption == NoWorker \notin Workers

\* States of reverb_hosted_jobs and reverb_delivery_outbox (the union of the
\* two CHECK constraints); "absent" is a row that does not exist.
JobStates == {"absent", "available", "leased", "complete", "failed", "superseded"}

EffectStates == {"absent", "available", "leased", "delivered", "failed",
                 "disabled", "superseded"}

\* States nothing may leave.
JobSettled == {"complete", "failed", "superseded"}

EffectSettled == {"delivered", "failed", "disabled", "superseded"}

Row(states, maximumAttempts) ==
    [state        : states,
     attempt      : 0 .. maximumAttempts,
     due          : BOOLEAN,
     leaseOwner   : Workers \cup {NoWorker},
     leaseExpired : BOOLEAN]

AbsentRow ==
    [state |-> "absent", attempt |-> 0, due |-> FALSE,
     leaseOwner |-> NoWorker, leaseExpired |-> FALSE]

\* INSERT ... 'available' with available_at = the caller's now.
InsertedRow ==
    [state |-> "available", attempt |-> 0, due |-> TRUE,
     leaseOwner |-> NoWorker, leaseExpired |-> FALSE]

\* Mutant: an expired lease is not taken over.
ClaimableWhenAvailable(row, maximumAttempts) ==
    row.due /\ row.attempt < maximumAttempts /\ row.state = "available"

\* The WHERE clause of the claim: due, attempts left, free or lease expired.
Claimable(row, maximumAttempts) ==
    /\ row.due
    /\ row.attempt < maximumAttempts
    /\ \/ row.state = "available"
       \/ row.state = "leased" /\ row.leaseExpired

\* The SET clause of the claim.
ClaimedRow(row, worker) ==
    [row EXCEPT !.state = "leased", !.attempt = @ + 1,
                !.leaseOwner = worker, !.leaseExpired = FALSE]

\* The guard of every statement by which a worker gives a row back.
HeldBy(row, worker) ==
    row.state = "leased" /\ row.leaseOwner = worker

\* Any terminal UPDATE: the state and a cleared lease.
SettledRow(row, state) ==
    [row EXCEPT !.state = state, !.leaseOwner = NoWorker, !.leaseExpired = FALSE]

\* failJob / failDelivery: back to the queue for a later instant while
\* attempts are left, else terminal.
FailedRow(row, retryable, maximumAttempts) ==
    IF retryable /\ row.attempt < maximumAttempts
    THEN [SettledRow(row, "available") EXCEPT !.due = FALSE]
    ELSE SettledRow(row, "failed")
=============================================================================
