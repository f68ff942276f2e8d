----------------------------- MODULE MCBudgets -----------------------------
(* The budgets for TLC: every budget that an index run of a small tree can  *)
(* use up or leave over, and one budget for the callers of the readers.     *)
EXTENDS Budgets

\* Every combination of limits up to a little more than the index run of a
\* two-entry tree can use.
AllLimits ==
    {[d \in Dimension |-> l[CHOOSE i \in 1 .. 4 : Dimensions[i] = d]] :
        l \in (0 .. 5) \X (0 .. 3) \X (0 .. 12) \X (0 .. 3)}

\* For the callers: enough requests for every byte to be asked for, and for some
\* to be refused.
SmallLimits ==
    {[d \in Dimension |->
        CASE d = "providerRequests" -> 5 [] d = "sourceBytes" -> 4 [] OTHER -> 1]}

EveryLimit == AllLimits \cup SmallLimits

BoundedInit ==
    BudgetsInit /\ (subject # "index" => limits \in SmallLimits /\ row = "absent")

BoundedSpec == BoundedInit /\ [][BudgetsNext]_all /\ WF_all(IndexProgress)
=============================================================================
