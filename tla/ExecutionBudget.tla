--------------------------- MODULE ExecutionBudget ---------------------------
(***************************************************************************)
(* ExecutionBudgetV2: the counters of one run.  reserve and release are    *)
(* synchronous, so each is part of the step of the port call around it.    *)
(* Model tokens, which only the reasoning engine reserves, are left out.   *)
(***************************************************************************)
EXTENDS Naturals, Sequences, FiniteSets

\* The dimensions in the order in which readBlob's reservation names them.
Dimensions == <<"providerRequests", "sourceBytes", "storageQueries", "artifacts">>

Dimension == {Dimensions[i] : i \in DOMAIN Dimensions}

CONSTANT BudgetLimits    \* limits a run may be given

ASSUME LimitsAssumption == BudgetLimits \subseteq [Dimension -> Nat]

VARIABLES
    limits,     \* limits of this run
    usage,      \* #usage
    exhausted,  \* #exhausted, with latencyMs
    late        \* elapsed() is past the latency limit

budget == <<limits, usage, exhausted, late>>

\* The limits are hard: no interleaving of reservations, answers and releases
\* takes a counter past its limit, or below zero.
BudgetTypeOK ==
    /\ limits \in [Dimension -> Nat]
    /\ DOMAIN usage = Dimension /\ \A d \in Dimension : usage[d] \in 0 .. limits[d]
    /\ exhausted \subseteq Dimension \cup {"latencyMs"}
    /\ late \in BOOLEAN

BudgetInit ==
    /\ limits \in BudgetLimits
    /\ usage = [d \in Dimension |-> 0]
    /\ exhausted = {}
    /\ late = FALSE

\* A delta of one dimension.
Just(dimension, amount) == [d \in Dimension |-> IF d = dimension THEN amount ELSE 0]

Remaining(d) == limits[d] - usage[d]

Exceeds(delta) == {i \in DOMAIN Dimensions : delta[Dimensions[i]] > Remaining(Dimensions[i])}

Fits(delta) == ~late /\ Exceeds(delta) = {}

\* reserve, when everything fits: all of the delta or nothing.
Reserve(delta) ==
    /\ Fits(delta)
    /\ usage' = [d \in Dimension |-> usage[d] + delta[d]]
    /\ UNCHANGED <<limits, exhausted, late>>

\* #exhaustedResult: the clock is looked at first, then the dimensions in order.
Exhaust(delta) ==
    /\ exhausted' = exhausted \cup
         {IF late THEN "latencyMs"
          ELSE Dimensions[CHOOSE i \in Exceeds(delta) : \A j \in Exceeds(delta) : i <= j]}
    /\ UNCHANGED <<limits, usage, late>>

Refuse(delta) == ~Fits(delta) /\ Exhaust(delta)

Release(dimension, amount) ==
    /\ usage' = [usage EXCEPT ![dimension] = @ - amount]
    /\ UNCHANGED <<limits, exhausted, late>>

\* The clock passes the deadline.
DeadlinePasses == ~late /\ late' = TRUE /\ UNCHANGED <<limits, usage, exhausted>>
=============================================================================
