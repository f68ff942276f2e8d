------------------------------ MODULE ByteMeter ------------------------------
(***************************************************************************)
(* What a byte-bounded source reader promises its run: callers ask for     *)
(* blobs concurrently, every request in flight is bounded, and the bytes   *)
(* delivered plus the bounds in flight never exceed the limit, so no order *)
(* of answers can deliver more.                                            *)
(***************************************************************************)
EXTENDS Naturals, FiniteSetsExt

CONSTANT Callers

VARIABLES
    byteLimit,   \* fixed when the run starts
    delivered,   \* bytes handed to callers
    bound        \* bound of each caller's request in flight, 0 if none

meter == <<byteLimit, delivered, bound>>

InFlight == MapThenSumSet(LAMBDA c : bound[c], Callers)

Init == byteLimit \in Nat /\ delivered = 0 /\ bound = [c \in Callers |-> 0]

Ask(c, bytes) ==
    /\ bound[c] = 0
    /\ delivered + InFlight + bytes <= byteLimit
    /\ bound' = [bound EXCEPT ![c] = bytes]
    /\ UNCHANGED <<byteLimit, delivered>>

\* An answer, a failure (0 bytes) or an oversized answer that is dropped.
Answer(c, bytes) ==
    /\ bytes <= bound[c]
    /\ delivered' = delivered + bytes
    /\ bound' = [bound EXCEPT ![c] = 0]
    /\ UNCHANGED byteLimit

Next == \E c \in Callers, bytes \in 0 .. byteLimit : Ask(c, bytes) \/ Answer(c, bytes)

Spec == Init /\ [][Next]_meter
=============================================================================
