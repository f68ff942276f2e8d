--------------------------- MODULE Budgets_proofs ---------------------------
(***************************************************************************)
(* Proofs about the budgets: a run reports complete only if it was refused *)
(* nothing, and both readers implement the byte meter, for every limit and *)
(* any finite set of concurrent callers.                                   *)
(*                                                                         *)
(* The meter sums the bounds of the requests in flight, so the refinement  *)
(* needs what one request changes of a sum over all callers.  The sum is a *)
(* recursion over subsets; that it is defined, and how it changes, are     *)
(* shown with smallest counterexamples.                                    *)
(***************************************************************************)
EXTENDS Budgets, TLAPS, FiniteSetTheorems, WellFoundedInduction, NaturalsInduction

-----------------------------------------------------------------------------
(* Numbers. *)

\* The least-number principle, for sets.
LEMMA SmallestExists ==
    ASSUME NEW S \in SUBSET Nat, S # {}
    PROVE  \E x \in S : \A y \in S : x <= y
<1> DEFINE Less == {ss \in Nat \X Nat : ss[1] < ss[2]}
<1>1. IsWellFoundedOn(OpToRel(<, Nat), Nat)
  BY NatLessThanWellFounded
<1>2. OpToRel(<, Nat) = Less
  BY DEF OpToRel
<1>3. \E x \in S : \A y \in S : <<y, x>> \notin Less
  <2> HIDE DEF Less
  <2> QED
    BY <1>1, <1>2, WFMin
<1>4. \A x, y \in Nat : <<y, x>> \in Less <=> y < x
  OBVIOUS
<1> HIDE DEF Less
<1>5. \A x \in S : x \in Nat
  OBVIOUS
<1>6. PICK x \in S : \A y \in S : <<y, x>> \notin Less
  BY <1>3
<1>7. ASSUME NEW y \in S PROVE x <= y
  <2>1. ~(y < x)
    BY <1>4, <1>5, <1>6
  <2> QED
    BY <2>1, <1>5
<1> QED
  BY <1>7

\* Of any subsets of a finite set, one is smallest.
LEMMA SmallestSubset ==
    ASSUME NEW S, IsFiniteSet(S), NEW Bad \in SUBSET SUBSET S, Bad # {}
    PROVE  \E s \in Bad : \A t \in Bad : Cardinality(s) <= Cardinality(t)
<1> DEFINE sizes == {Cardinality(s) : s \in Bad}
<1>1. \A s \in Bad : Cardinality(s) \in Nat
  BY FS_Subset, FS_CardinalityType
<1>2. sizes \in SUBSET Nat /\ sizes # {}
  BY <1>1
<1>3. PICK n \in sizes : \A m \in sizes : n <= m
  BY <1>2, SmallestExists
<1>4. PICK s \in Bad : Cardinality(s) = n
  BY <1>3
<1> QED
  BY <1>3, <1>4

-----------------------------------------------------------------------------
(* Sums over a finite set. *)

One(s) == CHOOSE x \in s : TRUE

\* h sums f over every subset of S.
Sums(h, f, S) ==
    h = [s \in SUBSET S |-> IF s = {} THEN 0 ELSE f[One(s)] + h[s \ {One(s)}]]

Total(f, S) == MapThenSumSet(LAMBDA c : f[c], S)

LEMMA TotalIsSum ==
    ASSUME NEW f, NEW S, NEW k, Sums(k, f, S)
    PROVE  \E h : Sums(h, f, S) /\ Total(f, S) = h[S]
<1> DEFINE h == CHOOSE x : Sums(x, f, S)
<1>1. Total(f, S) = h[S]
  BY DEF Total, MapThenSumSet, MapThenFoldSet, Sums, One
<1>2. Sums(h, f, S)
  OBVIOUS
<1> HIDE DEF h
<1> QED
  BY <1>1, <1>2

LEMMA SumsAt ==
    ASSUME NEW f, NEW S, NEW h, Sums(h, f, S), NEW s \in SUBSET S
    PROVE  h[s] = IF s = {} THEN 0 ELSE f[One(s)] + h[s \ {One(s)}]
  BY DEF Sums

\* Without its one element a set is smaller by one.
LEMMA WithoutOne ==
    ASSUME NEW S, IsFiniteSet(S), NEW s \in SUBSET S, s # {}
    PROVE  /\ One(s) \in s /\ s \ {One(s)} \in SUBSET S
           /\ Cardinality(s) \in Nat /\ Cardinality(s) > 0
           /\ Cardinality(s \ {One(s)}) = Cardinality(s) - 1
<1>1. One(s) \in s
  BY DEF One
<1>2. IsFiniteSet(s)
  BY FS_Subset
<1>3. Cardinality(s) \in Nat /\ Cardinality(s) # 0
  BY <1>2, FS_CardinalityType, FS_EmptySet
<1>4. Cardinality(s \ {One(s)}) = Cardinality(s) - 1
  BY <1>1, <1>2, FS_RemoveElement
<1> QED
  BY <1>1, <1>3, <1>4

\* The recursion is defined: by induction on the size of the subsets.
LEMMA SumExists ==
    ASSUME NEW S, IsFiniteSet(S), NEW f
    PROVE  \E h : Sums(h, f, S)
<1> DEFINE Small(n) == {s \in SUBSET S : Cardinality(s) <= n}
           Step(h, s) == IF s = {} THEN 0 ELSE f[One(s)] + h[s \ {One(s)}]
           Upto(h, n) == \A s \in Small(n) : h[s] = Step(h, s)
           Bad == {n \in Nat : ~\E h : Upto(h, n)}
<1>1. Bad = {}
  <2> SUFFICES ASSUME Bad # {} PROVE FALSE
    OBVIOUS
  <2>1. PICK n \in Bad : \A m \in Bad : n <= m
    <3>1. Bad \in SUBSET Nat
      OBVIOUS
    <3> HIDE DEF Bad
    <3> QED
      BY <3>1, SmallestExists
  <2>2. n \in Nat /\ ~\E h : Upto(h, n)
    OBVIOUS
  <2>3. CASE n = 0
    <3> DEFINE h == [s \in SUBSET S |-> 0]
    <3>1. \A s \in Small(0) : s = {}
      <4> SUFFICES ASSUME NEW s \in SUBSET S, s # {} PROVE ~(Cardinality(s) <= 0)
        OBVIOUS
      <4>1. Cardinality(s) \in Nat /\ Cardinality(s) > 0
        <5> HIDE DEF Bad
        <5> QED
          BY WithoutOne
      <4> QED
        BY <4>1
    <3>2. Upto(h, 0)
      BY <3>1
    <3> QED
      BY <2>2, <2>3, <3>2
  <2>4. CASE n # 0
    <3>1. n - 1 \in Nat /\ n - 1 \notin Bad
      <4> HIDE DEF Bad
      <4> QED
        BY <2>1, <2>2, <2>4
    <3>2. PICK h : Upto(h, n - 1)
      BY <3>1
    <3> DEFINE k == [s \in SUBSET S |-> Step(h, s)]
    <3>3. ASSUME NEW s \in Small(n), s # {}
          PROVE  s \ {One(s)} \in Small(n - 1)
      BY <2>2, <3>3, WithoutOne
    <3>4. \A t \in Small(n - 1) : k[t] = h[t]
      BY <3>2
    <3>5. ASSUME NEW s \in Small(n) PROVE k[s] = Step(k, s)
      <4>1. CASE s = {}
        BY <4>1
      <4>2. CASE s # {}
        <5>1. k[s] = f[One(s)] + h[s \ {One(s)}]
          BY <4>2
        <5>2. k[s \ {One(s)}] = h[s \ {One(s)}]
          BY <4>2, <3>3, <3>4
        <5> HIDE DEF k
        <5> QED
          BY <4>2, <5>1, <5>2
      <4> QED
        BY <4>1, <4>2
    <3>6. Upto(k, n)
      BY <3>5
    <3> QED
      BY <2>2, <3>6
  <2> QED
    BY <2>3, <2>4
<1>2. Cardinality(S) \in Nat
  BY FS_CardinalityType
<1>3. PICK h : Upto(h, Cardinality(S))
  BY <1>1, <1>2
<1>4. \A s \in SUBSET S : s \in Small(Cardinality(S))
  BY FS_Subset
<1> DEFINE k == [s \in SUBSET S |-> h[s]]
<1>5. ASSUME NEW s \in SUBSET S PROVE k[s] = Step(k, s)
  <2>1. k[s] = Step(h, s)
    BY <1>3, <1>4
  <2>2. s # {} => k[s \ {One(s)}] = h[s \ {One(s)}]
    BY WithoutOne
  <2> QED
    BY <2>1, <2>2
<1>6. Sums(k, f, S)
  <2>1. k = [s \in SUBSET S |-> k[s]]
    OBVIOUS
  <2> HIDE DEF k
  <2>2. [s \in SUBSET S |-> k[s]] = [s \in SUBSET S |-> Step(k, s)]
    BY <1>5
  <2> QED
    BY <2>1, <2>2 DEF Sums
<1> QED
  BY <1>6

\* The sum of natural numbers is one.
LEMMA SumIsNumber ==
    ASSUME NEW S, IsFiniteSet(S), NEW f \in [S -> Nat], NEW h, Sums(h, f, S)
    PROVE  \A s \in SUBSET S : h[s] \in Nat
<1> DEFINE Bad == {s \in SUBSET S : h[s] \notin Nat}
<1>1. Bad = {}
  <2> SUFFICES ASSUME Bad # {} PROVE FALSE
    OBVIOUS
  <2>1. PICK s \in Bad : \A t \in Bad : Cardinality(s) <= Cardinality(t)
    <3>1. Bad \in SUBSET SUBSET S
      OBVIOUS
    <3> HIDE DEF Bad
    <3> QED
      BY <3>1, SmallestSubset
  <2>2. h[s] = IF s = {} THEN 0 ELSE f[One(s)] + h[s \ {One(s)}]
    BY SumsAt
  <2>3. s # {}
    BY <2>2
  <2>4. h[s \ {One(s)}] \in Nat
    BY <2>1, <2>3, WithoutOne
  <2>5. f[One(s)] \in Nat
    BY <2>3, WithoutOne
  <2> QED
    BY <2>2, <2>3, <2>4, <2>5
<1> QED
  BY <1>1

\* One value changes the sums that it is part of, and no others.
LEMMA SumChanges ==
    ASSUME NEW S, IsFiniteSet(S), NEW f \in [S -> Nat], NEW g \in [S -> Nat], NEW c \in S,
           \A x \in S \ {c} : g[x] = f[x],
           NEW h, NEW k, Sums(h, f, S), Sums(k, g, S)
    PROVE  \A s \in SUBSET S : IF c \in s THEN k[s] + f[c] = h[s] + g[c] ELSE k[s] = h[s]
<1> DEFINE Right(s) == IF c \in s THEN k[s] + f[c] = h[s] + g[c] ELSE k[s] = h[s]
           Bad == {s \in SUBSET S : ~Right(s)}
<1>1. \A s \in SUBSET S : h[s] \in Nat /\ k[s] \in Nat
  BY SumIsNumber
<1>2. Bad = {}
  <2> SUFFICES ASSUME Bad # {} PROVE FALSE
    OBVIOUS
  <2>1. PICK s \in Bad : \A t \in Bad : Cardinality(s) <= Cardinality(t)
    <3>1. Bad \in SUBSET SUBSET S
      OBVIOUS
    <3> HIDE DEF Bad
    <3> QED
      BY <3>1, SmallestSubset
  <2>2. /\ h[s] = IF s = {} THEN 0 ELSE f[One(s)] + h[s \ {One(s)}]
        /\ k[s] = IF s = {} THEN 0 ELSE g[One(s)] + k[s \ {One(s)}]
    BY SumsAt
  <2>3. s # {}
    BY <2>2
  <2> DEFINE o == One(s)
             t == s \ {o}
  <2>4. o \in s /\ t \in SUBSET S /\ t \notin Bad
    BY <2>1, <2>3, WithoutOne
  <2>5. Right(t)
    BY <2>4
  <2>6. h[s] = f[o] + h[t] /\ k[s] = g[o] + k[t]
    BY <2>2, <2>3
  <2>7. /\ f[o] \in Nat /\ g[o] \in Nat /\ f[c] \in Nat /\ g[c] \in Nat
        /\ h[t] \in Nat /\ k[t] \in Nat
    BY <2>4, <1>1
  <2>8. CASE o = c
    <3>1. k[t] = h[t] /\ c \in s
      BY <2>4, <2>5, <2>8
    <3> HIDE DEF o, t
    <3>2. k[s] + f[c] = h[s] + g[c]
      BY <2>6, <2>7, <2>8, <3>1
    <3> QED
      BY <2>1, <3>1, <3>2
  <2>9. CASE o # c
    <3>1. g[o] = f[o] /\ (c \in s <=> c \in t)
      BY <2>4, <2>9
    <3> HIDE DEF o, t
    <3>2. Right(s)
      BY <2>5, <2>6, <2>7, <3>1
    <3> QED
      BY <2>1, <3>2
  <2> QED
    BY <2>8, <2>9
<1> QED
  BY <1>2

\* The total of natural numbers, of none, and after a change of one.
LEMMA TotalIsNumber ==
    ASSUME NEW S, IsFiniteSet(S), NEW f \in [S -> Nat]
    PROVE  Total(f, S) \in Nat
<1>1. PICK h : Sums(h, f, S) /\ Total(f, S) = h[S]
  BY SumExists, TotalIsSum
<1> QED
  BY <1>1, SumIsNumber

LEMMA TotalChanges ==
    ASSUME NEW S, IsFiniteSet(S), NEW f \in [S -> Nat], NEW g \in [S -> Nat], NEW c \in S,
           \A x \in S \ {c} : g[x] = f[x]
    PROVE  Total(g, S) + f[c] = Total(f, S) + g[c]
<1>1. PICK h : Sums(h, f, S) /\ Total(f, S) = h[S]
  BY SumExists, TotalIsSum
<1>2. PICK k : Sums(k, g, S) /\ Total(g, S) = k[S]
  BY SumExists, TotalIsSum
<1>3. \A s \in SUBSET S : IF c \in s THEN k[s] + f[c] = h[s] + g[c] ELSE k[s] = h[s]
  BY <1>1, <1>2, SumChanges
<1> QED
  BY <1>1, <1>2, <1>3

LEMMA TotalOfNone ==
    ASSUME NEW S, IsFiniteSet(S), NEW f \in [S -> Nat], \A c \in S : f[c] = 0
    PROVE  Total(f, S) = 0
<1>1. PICK h : Sums(h, f, S) /\ Total(f, S) = h[S]
  BY SumExists, TotalIsSum
<1> DEFINE Bad == {s \in SUBSET S : h[s] # 0}
<1>2. Bad = {}
  <2> SUFFICES ASSUME Bad # {} PROVE FALSE
    OBVIOUS
  <2>1. PICK s \in Bad : \A t \in Bad : Cardinality(s) <= Cardinality(t)
    <3>1. Bad \in SUBSET SUBSET S
      OBVIOUS
    <3> HIDE DEF Bad
    <3> QED
      BY <3>1, SmallestSubset
  <2>2. h[s] = IF s = {} THEN 0 ELSE f[One(s)] + h[s \ {One(s)}]
    BY <1>1 DEF Sums
  <2>3. s # {}
    BY <2>2
  <2>4. h[s \ {One(s)}] = 0 /\ f[One(s)] = 0
    BY <2>1, <2>3, WithoutOne
  <2> QED
    BY <2>2, <2>3, <2>4
<1> QED
  BY <1>1, <1>2

-----------------------------------------------------------------------------
(* ExecutionBudgetV2. *)

LEMMA DimensionFacts ==
    /\ Dimension = {"providerRequests", "sourceBytes", "storageQueries", "artifacts"}
    /\ DOMAIN Dimensions = 1 .. 4
    /\ \A i \in 1 .. 4 : Dimensions[i] \in Dimension
    /\ \A d \in Dimension : \E i \in 1 .. 4 : d = Dimensions[i]
<1>1. DOMAIN Dimensions = 1 .. 4 /\ 1 .. 4 = {1, 2, 3, 4}
  BY DEF Dimensions
<1> QED
  BY <1>1 DEF Dimension, Dimensions

Delta == [Dimension -> Nat]

LEMMA JustIsDelta ==
    ASSUME NEW d, NEW n \in Nat
    PROVE  Just(d, n) \in Delta
  BY DEF Just, Delta

LEMMA MinOfTwo ==
    ASSUME NEW a \in Nat, NEW b \in Nat
    PROVE  Min({a, b}) = IF a <= b THEN a ELSE b
<1> DEFINE m == IF a <= b THEN a ELSE b
<1>1. m \in {a, b} /\ \A y \in {a, b} : m <= y
  OBVIOUS
<1>2. \A x \in {a, b} : (\A y \in {a, b} : x <= y) => x = m
  OBVIOUS
<1> HIDE DEF m
<1>3. Min({a, b}) = m
  BY <1>1, <1>2 DEF Min
<1> QED
  BY <1>3 DEF m

\* A reservation that fits stays within every limit.
LEMMA FitsMeans ==
    ASSUME BudgetTypeOK, NEW delta \in Delta, Fits(delta)
    PROVE  \A d \in Dimension : usage[d] + delta[d] \in 0 .. limits[d]
<1> SUFFICES ASSUME NEW d \in Dimension PROVE usage[d] + delta[d] \in 0 .. limits[d]
  OBVIOUS
<1>1. PICK i \in 1 .. 4 : d = Dimensions[i]
  BY DimensionFacts
<1>2. ~(delta[d] > Remaining(d))
  BY <1>1, DimensionFacts DEF Fits, Exceeds
<1>3. limits[d] \in Nat /\ usage[d] \in 0 .. limits[d] /\ delta[d] \in Nat
  BY DEF BudgetTypeOK, Delta
<1> QED
  BY <1>2, <1>3 DEF Remaining

LEMMA ReserveKeeps ==
    ASSUME BudgetTypeOK, NEW delta \in Delta, Reserve(delta)
    PROVE  BudgetTypeOK'
  BY FitsMeans DEF Reserve, BudgetTypeOK

\* What is recorded of a refusal is the clock, or a dimension that did not fit.
LEMMA ExhaustKeeps ==
    ASSUME BudgetTypeOK, NEW delta, ~late => Exceeds(delta) # {}, Exhaust(delta)
    PROVE  BudgetTypeOK'
<1> DEFINE first == CHOOSE i \in Exceeds(delta) : \A j \in Exceeds(delta) : i <= j
<1>1. ~late => Dimensions[first] \in Dimension
  <2> SUFFICES ASSUME ~late PROVE Dimensions[first] \in Dimension
    OBVIOUS
  <2>1. Exceeds(delta) \in SUBSET Nat /\ Exceeds(delta) # {} /\ Exceeds(delta) \subseteq 1 .. 4
    BY DimensionFacts DEF Exceeds
  <2>2. \E i \in Exceeds(delta) : \A j \in Exceeds(delta) : i <= j
    <3> HIDE DEF first
    <3> QED
      BY <2>1, SmallestExists
  <2>3. first \in Exceeds(delta)
    BY <2>2
  <2> QED
    BY <2>1, <2>3, DimensionFacts
<1> HIDE DEF first
<1>2. exhausted' = exhausted \cup {IF late THEN "latencyMs" ELSE Dimensions[first]}
  BY DEF Exhaust, first
<1> QED
  BY <1>1, <1>2 DEF Exhaust, BudgetTypeOK

LEMMA RefuseKeeps ==
    ASSUME BudgetTypeOK, NEW delta, Refuse(delta)
    PROVE  BudgetTypeOK'
  BY ExhaustKeeps DEF Refuse, Fits

LEMMA ReleaseKeeps ==
    ASSUME BudgetTypeOK, NEW d \in Dimension, NEW n \in Nat, n <= usage[d], Release(d, n)
    PROVE  BudgetTypeOK'
<1>1. limits[d] \in Nat /\ usage[d] \in 0 .. limits[d]
  BY DEF BudgetTypeOK
<1>2. usage[d] - n \in 0 .. limits[d]
  BY <1>1
<1> QED
  BY <1>2 DEF Release, BudgetTypeOK

LEMMA DeadlineKeeps ==
    ASSUME BudgetTypeOK, DeadlinePasses
    PROVE  BudgetTypeOK'
  BY DEF DeadlinePasses, BudgetTypeOK

LEMMA BudgetStart ==
    ASSUME BudgetInit
    PROVE  BudgetTypeOK
<1>1. limits \in [Dimension -> Nat]
  BY LimitsAssumption DEF BudgetInit
<1>2. \A d \in Dimension : 0 \in 0 .. limits[d]
  BY <1>1
<1> QED
  BY <1>1, <1>2 DEF BudgetInit, BudgetTypeOK

-----------------------------------------------------------------------------
(* The index run: its invariant. *)

Opening == {"resolve", "select", "existing", "begin"}

Reading == {"tree", "entries", "previous", "previousArtifacts"}

Filling == {"cache", "read", "store"}

Ended == {"report", "done"}

\* Nothing is done before the entries, and every entry is done or to do.
CountsOK ==
    /\ pc \in Opening \cup Reading => todo = Files /\ failedFiles = 0
    /\ pc \in Filling => todo > 0
    /\ pc \in {"put", "complete"} \/ row = "stored" => todo = 0
    /\ todo + failedFiles <= Files

\* Where the run is decides the row of the generation.
RowOK ==
    /\ pc \in Opening => row \in {"absent", "complete"}
    /\ pc = "existing" => row = "complete"
    /\ pc \in Reading \cup Filling \cup {"put", "fail"} => row = "building"
    /\ pc = "complete" => row = "stored"

\* The run resolves at its end, as the row says.
ResultOK ==
    /\ pc \in Ended <=> result # "none"
    /\ result = "failure" => row # "building"
    /\ result = "complete" => row = "complete" /\ failedFiles = 0
    /\ pc = "done" /\ result = "complete" => exhausted = {}

RunInv == TypeOK /\ CountsOK /\ RowOK /\ ResultOK

LEMMA RunStart ==
    ASSUME Init
    PROVE  RunInv
<1>1. BudgetTypeOK
  BY BudgetStart DEF Init
<1>2. Files \in Nat
  BY RunAssumption
<1>3. /\ pc = "resolve" /\ todo = Files /\ failedFiles = 0 /\ result = "none"
      /\ row \in {"absent", "complete"} /\ reusable \in BOOLEAN
  BY DEF Init
<1>4. TypeOK
  BY <1>1, <1>2, <1>3 DEF TypeOK, Steps
<1>5. CountsOK /\ RowOK /\ ResultOK
  BY <1>2, <1>3 DEF CountsOK, RowOK, ResultOK, Opening, Reading, Filling, Ended
<1> QED
  BY <1>4, <1>5 DEF RunInv

LEMMA CallKeeps ==
    ASSUME BudgetTypeOK, NEW at, NEW delta \in Delta, NEW next, NEW otherwise,
           Call(at, delta, next, otherwise)
    PROVE  BudgetTypeOK' /\ pc = at /\ pc' \in {next, otherwise}
  BY ReserveKeeps, RefuseKeeps DEF Call

LEMMA DeltasOfRun ==
    ASSUME BudgetTypeOK
    PROVE  Query \in Delta /\ Request \in Delta /\ Byte \in Delta /\ Just("artifacts", Files) \in Delta
<1>1. Query \in Delta /\ Request \in Delta /\ Just("sourceBytes", 1) \in Delta
      /\ Just("artifacts", Files) \in Delta
  BY JustIsDelta, RunAssumption DEF Query, Request
<1> QED
  BY <1>1 DEF Byte, Delta

-----------------------------------------------------------------------------
(* The steps of the index run. *)

LEMMA OpeningSteps ==
    ASSUME RunInv, ResolveCommit \/ SelectGeneration \/ BeginGeneration
    PROVE  RunInv'
<1>1. BudgetTypeOK'
  BY CallKeeps, DeltasOfRun DEF RunInv, TypeOK, ResolveCommit, SelectGeneration, BeginGeneration
<1>2. CASE ResolveCommit
  <2>1. pc = "resolve" /\ pc' \in {"select", "report"}
    BY <1>2, CallKeeps, DeltasOfRun DEF RunInv, TypeOK, ResolveCommit
  <2> QED
    BY <1>1, <1>2, <2>1 DEF ResolveCommit, FailsAtReport, RunInv, TypeOK, Steps, CountsOK, RowOK, ResultOK,
                            Opening, Reading, Filling, Ended
<1>3. CASE SelectGeneration
  <2>1. pc = "select" /\ pc' \in {IF row = "complete" THEN "existing" ELSE "begin", "report"}
    BY <1>3, CallKeeps, DeltasOfRun DEF RunInv, TypeOK, SelectGeneration
  <2> QED
    BY <1>1, <1>3, <2>1 DEF SelectGeneration, FailsAtReport, RunInv, TypeOK, Steps, CountsOK, RowOK, ResultOK,
                            Opening, Reading, Filling, Ended
<1>4. CASE BeginGeneration
  <2>1. pc = "begin" /\ pc' \in {"tree", "report"}
    BY <1>4, CallKeeps, DeltasOfRun DEF RunInv, TypeOK, BeginGeneration
  <2> QED
    BY <1>1, <1>4, <2>1 DEF BeginGeneration, FailsAtReport, RunInv, TypeOK, Steps, CountsOK, RowOK, ResultOK,
                            Opening, Reading, Filling, Ended
<1> QED
  BY <1>2, <1>3, <1>4

LEMMA ExistingStep ==
    ASSUME RunInv, ReadExisting
    PROVE  RunInv'
<1> DEFINE granted == IF late THEN 0 ELSE Min({3, Remaining("storageQueries")})
           q == "storageQueries"
<1>1. q \in Dimension /\ limits[q] \in Nat /\ usage[q] \in 0 .. limits[q]
  BY DimensionFacts DEF RunInv, TypeOK, BudgetTypeOK
<1>2. Remaining(q) \in Nat /\ usage[q] + Remaining(q) = limits[q]
  BY <1>1 DEF Remaining
<1>3. granted \in Nat /\ granted <= Remaining(q)
  BY <1>2, MinOfTwo
<1>4. usage' = [usage EXCEPT ![q] = @ + granted] /\ UNCHANGED <<limits, late>>
      /\ exhausted' \subseteq exhausted \cup {"latencyMs", q}
  BY DEF ReadExisting
<1>5. usage[q] + granted \in 0 .. limits[q]
  <2> HIDE DEF granted, q
  <2> QED
    BY <1>1, <1>2, <1>3
<1> HIDE DEF granted
<1>6. BudgetTypeOK'
  BY <1>1, <1>4, <1>5 DEF RunInv, TypeOK, BudgetTypeOK
<1> QED
  BY <1>6 DEF ReadExisting, RunInv, TypeOK, Steps, CountsOK, RowOK, ResultOK, Opening, Reading, Filling, Ended

LEMMA ReadingSteps ==
    ASSUME RunInv, ListTree \/ CountEntries \/ ReadPrevious
    PROVE  RunInv'
<1> USE DEF RunInv
<1>1. BudgetTypeOK /\ Files \in Nat /\ HasPrevious \in BOOLEAN
  BY RunAssumption DEF TypeOK
<1>2. BudgetTypeOK' /\ pc \in Reading
      /\ pc' \in {"entries", "fail", "previous", "previousArtifacts", FirstEntry}
  BY <1>1, CallKeeps, DeltasOfRun DEF ListTree, CountEntries, ReadPrevious, Reading
<1>3. UNCHANGED <<row, todo, failedFiles, result>> /\ reusable' \in BOOLEAN
  BY DEF ListTree, CountEntries, ReadPrevious, TypeOK
<1>4. \/ pc' \in {"entries", "fail", "previous", "previousArtifacts"}
      \/ pc' = "put" /\ Files = 0
      \/ pc' = "cache" /\ Files > 0
  BY <1>1, <1>2 DEF FirstEntry
<1> QED
  BY <1>1, <1>2, <1>3, <1>4 DEF TypeOK, Steps, CountsOK, RowOK, ResultOK, Opening, Reading, Filling, Ended

LEMMA FillingSteps ==
    ASSUME RunInv, ReuseEntry \/ (\E hit \in BOOLEAN : ReadCache(hit)) \/ ReadEntry
           \/ ReadIncomplete \/ WriteCache
    PROVE  RunInv'
<1> USE DEF RunInv
<1>1. BudgetTypeOK /\ Files \in Nat
  BY RunAssumption DEF TypeOK
<1>0. ASSUME ReadIncomplete PROVE Call("read", Request, NextEntry, "fail")
  BY <1>0 DEF ReadIncomplete, Call
<1>2. BudgetTypeOK'
  BY <1>0, <1>1, CallKeeps, DeltasOfRun
     DEF ReuseEntry, ReadCache, ReadEntry, ReadIncomplete, WriteCache, budget, BudgetTypeOK
<1>3. /\ pc \in Filling
      /\ \/ pc' \in {"read", "store", "fail"} /\ UNCHANGED <<todo, failedFiles>>
         \/ pc' = NextEntry /\ todo' = todo - 1 /\ failedFiles' \in {failedFiles, failedFiles + 1}
  <2>1. "store" # NextEntry /\ "fail" # NextEntry
    BY DEF NextEntry
  <2>2. CASE ReuseEntry
    BY <2>2 DEF ReuseEntry, Filling
  <2>3. ASSUME NEW hit \in BOOLEAN, ReadCache(hit)
        PROVE  /\ pc = "cache" /\ UNCHANGED failedFiles
               /\ \/ pc' \in {"read", "fail"} /\ UNCHANGED todo
                  \/ pc' = NextEntry /\ todo' = todo - 1
    BY <2>1, <2>3, <1>1, CallKeeps, DeltasOfRun DEF ReadCache, TypeOK
  <2>4. CASE ReadEntry
    BY <2>1, <2>4, <1>1, CallKeeps, DeltasOfRun DEF ReadEntry, Filling
  <2>5. CASE WriteCache
    BY <2>1, <2>5, <1>1, CallKeeps, DeltasOfRun DEF WriteCache, Filling
  <2>6. CASE ReadIncomplete
    BY <2>6 DEF ReadIncomplete, Filling
  <2> QED
    BY <2>2, <2>3, <2>4, <2>5, <2>6 DEF Filling
<1>4. UNCHANGED <<row, result, reusable>>
  BY DEF ReuseEntry, ReadCache, ReadEntry, ReadIncomplete, WriteCache
<1>5. todo \in Nat /\ failedFiles \in Nat /\ todo > 0 /\ todo + failedFiles <= Files
  BY <1>1, <1>3 DEF TypeOK, CountsOK
<1>6. CASE pc' \in {"read", "store", "fail"} /\ UNCHANGED <<todo, failedFiles>>
  BY <1>1, <1>2, <1>3, <1>4, <1>5, <1>6 DEF TypeOK, Steps, CountsOK, RowOK, ResultOK, Opening, Reading, Filling, Ended
<1>7. CASE pc' = NextEntry /\ todo' = todo - 1 /\ failedFiles' \in {failedFiles, failedFiles + 1}
  <2>1. /\ todo' \in 0 .. Files /\ failedFiles' \in 0 .. Files /\ todo' + failedFiles' <= Files
        /\ (pc' = "put" /\ todo' = 0) \/ (pc' = "cache" /\ todo' > 0)
    <3>1. todo' \in 0 .. Files /\ (todo = 1 \/ todo' > 0) /\ todo' = todo - 1
      BY <1>1, <1>5, <1>7
    <3>2. failedFiles' = failedFiles \/ failedFiles' = failedFiles + 1
      BY <1>7
    <3>3. failedFiles' \in 0 .. Files /\ todo' + failedFiles' <= Files
      BY <1>1, <1>5, <3>1, <3>2
    <3> QED
      BY <1>7, <3>1, <3>3 DEF NextEntry
  <2> QED
    BY <1>2, <1>3, <1>4, <2>1 DEF TypeOK, Steps, CountsOK, RowOK, ResultOK, Opening, Reading, Filling, Ended
<1> QED
  BY <1>3, <1>6, <1>7

LEMMA ClosingSteps ==
    ASSUME RunInv, PutArtifacts \/ CompleteGeneration \/ FailGeneration \/ Report
    PROVE  RunInv'
<1> USE DEF RunInv, TypeOK, Steps, CountsOK, RowOK, ResultOK, Opening, Reading, Filling, Ended
<1>1. CASE PutArtifacts
  <2>1. BudgetTypeOK' /\ pc = "put" /\ pc' \in {"complete", "fail"}
    BY <1>1, CallKeeps, DeltasOfRun DEF PutArtifacts
  <2> QED
    BY <1>1, <2>1 DEF PutArtifacts
<1>2. CASE CompleteGeneration
  <2>1. BudgetTypeOK' /\ pc = "complete" /\ pc' = "report"
    BY <1>2, CallKeeps, DeltasOfRun DEF CompleteGeneration
  <2>2. failedFiles \in Nat /\ (~(failedFiles > 0) => failedFiles = 0)
    BY RunAssumption
  <2> QED
    BY <1>2, <2>1, <2>2 DEF CompleteGeneration
<1>3. CASE FailGeneration
  BY <1>3 DEF FailGeneration, budget, BudgetTypeOK
<1>4. CASE Report
  <2>1. BudgetTypeOK'
    BY <1>4 DEF Report, BudgetTypeOK
  <2> QED
    BY <1>4, <2>1 DEF Report
<1> QED
  BY <1>1, <1>2, <1>3, <1>4

LEMMA RunKeeps ==
    ASSUME RunInv, [Next]_vars
    PROVE  RunInv'
<1>1. CASE RunStep
  BY <1>1, OpeningSteps, ExistingStep, ReadingSteps, FillingSteps, ClosingSteps DEF RunStep
<1>2. CASE pc # "done" /\ DeadlinePasses /\ UNCHANGED run
  <2>1. BudgetTypeOK' /\ UNCHANGED <<run, exhausted>>
    BY <1>2, DeadlineKeeps DEF RunInv, TypeOK, DeadlinePasses
  <2> QED
    BY <2>1 DEF run, RunInv, TypeOK, CountsOK, RowOK, ResultOK
<1>3. CASE UNCHANGED vars
  BY <1>3 DEF vars, budget, RunInv, TypeOK, BudgetTypeOK, CountsOK, RowOK, ResultOK
<1> QED
  BY <1>1, <1>2, <1>3 DEF Next

\* The limits of a run are hard, whatever they are, and its counts stay in range
\* (ExecutionBudgetV2.reserve, IndexRepositoryGeneration.execute).
THEOREM RunTypeCorrect == Spec => []TypeOK
<1>1. Init => RunInv
  BY RunStart
<1>2. RunInv /\ [Next]_vars => RunInv'
  BY RunKeeps
<1>3. RunInv => TypeOK
  BY DEF RunInv
<1> QED
  BY <1>1, <1>2, <1>3, PTL DEF Spec

\* Of any number of files and under any limits and deadline, a run that reports
\* complete was refused nothing and its generation is complete
\* (IndexRepositoryGenerationV2.execute).
THEOREM CompleteRunsWereRefusedNothing == Spec => []CompleteWasRefusedNothing
<1>1. Init => RunInv
  BY RunStart
<1>2. RunInv /\ [Next]_vars => RunInv'
  BY RunKeeps
<1>3. RunInv => CompleteWasRefusedNothing
  BY DEF RunInv, ResultOK, CompleteWasRefusedNothing
<1> QED
  BY <1>1, <1>2, <1>3, PTL DEF Spec

\* Whichever port call a budget refuses, a run that fails leaves its generation
\* building only when that call was completeGeneration, with every entry indexed
\* and every artifact stored (fail() and its absence at completion).
THEOREM OnlyCompletionStaysBuilding == Spec => []OnlyCompletionLeavesLease
<1>1. Init => RunInv
  BY RunStart
<1>2. RunInv /\ [Next]_vars => RunInv'
  BY RunKeeps
<1>3. RunInv => OnlyCompletionLeavesLease
  BY DEF RunInv, CountsOK, ResultOK, OnlyCompletionLeavesLease, StillBuilding
<1> QED
  BY <1>1, <1>2, <1>3, PTL DEF Spec

-----------------------------------------------------------------------------
(* The readers: sums of the bounds in flight. *)

BoundsOf(calls) == [c \in Callers |-> calls[c].bound]

InFlight(calls) == Total(BoundsOf(calls), Callers)

LEMMA MetersAgree ==
    /\ ReaderMeter!InFlight = InFlight(call)
    /\ SourceMeter!InFlight = InFlight(sourceCall)
    /\ BytesAreAccounted <=> usage["sourceBytes"] = delivered + forfeited + InFlight(call)
<1>1. ReaderMeter!InFlight = InFlight(call)
  BY DEF ReaderMeter!InFlight, ReaderMeter!MapThenSumSet, ReaderMeter!MapThenFoldSet,
         InFlight, Total, BoundsOf, MapThenSumSet, MapThenFoldSet
<1>2. SourceMeter!InFlight = InFlight(sourceCall)
  BY DEF SourceMeter!InFlight, SourceMeter!MapThenSumSet, SourceMeter!MapThenFoldSet,
         InFlight, Total, BoundsOf, MapThenSumSet, MapThenFoldSet
<1>3. BytesAreAccounted <=> usage["sourceBytes"] = delivered + forfeited + InFlight(call)
  BY DEF BytesAreAccounted, Bounds,
         InFlight, Total, BoundsOf, MapThenSumSet, MapThenFoldSet
<1> QED
  BY <1>1, <1>2, <1>3

LEMMA BoundsAre ==
    ASSUME NEW calls \in [Callers -> Calls]
    PROVE  BoundsOf(calls) \in [Callers -> Nat] /\ InFlight(calls) \in Nat
<1>1. BoundsOf(calls) \in [Callers -> Nat]
  BY DEF BoundsOf, Calls
<1> QED
  BY <1>1, TotalIsNumber, CallersAssumption DEF InFlight

\* One call begins or returns.
LEMMA BoundsMove ==
    ASSUME NEW calls \in [Callers -> Calls], NEW next \in [Callers -> Calls], NEW c \in Callers,
           \A d \in Callers \ {c} : next[d] = calls[d]
    PROVE  /\ BoundsOf(next) = [BoundsOf(calls) EXCEPT ![c] = next[c].bound]
           /\ InFlight(next) + calls[c].bound = InFlight(calls) + next[c].bound
           /\ calls[c].bound \in Nat /\ calls[c].bound <= InFlight(calls)
<1> DEFINE f == BoundsOf(calls)
           g == BoundsOf(next)
           z == [f EXCEPT ![c] = 0]
<1>1. f \in [Callers -> Nat] /\ g \in [Callers -> Nat] /\ Total(f, Callers) \in Nat
  BY BoundsAre DEF InFlight
<1>2. f[c] = calls[c].bound /\ g[c] = next[c].bound /\ \A d \in Callers \ {c} : g[d] = f[d]
  BY DEF BoundsOf
<1>3. z \in [Callers -> Nat] /\ z[c] = 0 /\ \A d \in Callers \ {c} : z[d] = f[d]
  <2> HIDE DEF f
  <2> QED
    BY <1>1
<1> HIDE DEF f, g, z
<1>4. g = [f EXCEPT ![c] = g[c]]
  BY <1>1, <1>2
<1>5. Total(g, Callers) + f[c] = Total(f, Callers) + g[c]
  BY <1>1, <1>2, TotalChanges, CallersAssumption
<1>6. Total(z, Callers) \in Nat
  BY <1>3, TotalIsNumber, CallersAssumption
<1>7. Total(z, Callers) + f[c] = Total(f, Callers) + z[c]
  BY <1>1, <1>3, TotalChanges, CallersAssumption
<1>8. f[c] \in Nat /\ f[c] <= Total(f, Callers)
  BY <1>1, <1>3, <1>6, <1>7
<1> QED
  BY <1>2, <1>4, <1>5, <1>8 DEF f, g, InFlight

LEMMA NothingInFlight ==
    ASSUME NEW calls \in [Callers -> Calls], \A c \in Callers : calls[c].bound = 0
    PROVE  InFlight(calls) = 0
<1>1. BoundsOf(calls) \in [Callers -> Nat] /\ \A c \in Callers : BoundsOf(calls)[c] = 0
  BY BoundsAre DEF BoundsOf
<1> QED
  BY <1>1, TotalOfNone, CallersAssumption DEF InFlight

-----------------------------------------------------------------------------
(* ExecutionBudgetRepositoryReaderV2. *)

\* Only a read has a bound, and it was reserved.
ReaderInv ==
    /\ ReaderTypeOK
    /\ \A c \in Callers :
          call[c].bound <= limits["sourceBytes"] /\ (call[c].op # "blob" => call[c].bound = 0)
    /\ subject = "reader" => usage["sourceBytes"] = delivered + forfeited + InFlight(call)

\* What the meter sees of a reader's state and of its step.
ReaderMeterStep == [ReaderMeter!Next]_(ReaderMeter!meter)

LEMMA ReaderStart ==
    ASSUME BudgetsInit
    PROVE  ReaderInv /\ ReaderMeter!Init
<1>1. BudgetTypeOK /\ limits["sourceBytes"] \in Nat /\ usage["sourceBytes"] = 0
  <2>1. BudgetInit
    BY DEF BudgetsInit, Init
  <2>2. BudgetTypeOK
    BY <2>1, BudgetStart
  <2> QED
    BY <2>1, <2>2, DimensionFacts DEF BudgetTypeOK, BudgetInit
<1>2. /\ call = [c \in Callers |-> NoCall] /\ delivered = 0 /\ forfeited = 0
  BY DEF BudgetsInit, CallsInit
<1>3. NoCall \in Calls /\ NoCall.bound = 0 /\ NoCall.op = "none"
  BY DEF NoCall, Calls
<1>4. call \in [Callers -> Calls] /\ \A c \in Callers : call[c] = NoCall
  <2> HIDE DEF Calls
  <2> QED
    BY <1>2, <1>3
<1>5. InFlight(call) = 0
  BY <1>3, <1>4, NothingInFlight
<1>6. ReaderInv
  BY <1>1, <1>2, <1>3, <1>4, <1>5 DEF ReaderInv, ReaderTypeOK
<1>7. ReaderMeter!Init
  BY <1>1, <1>2, <1>3 DEF ReaderMeter!Init
<1> QED
  BY <1>6, <1>7

LEMMA Balance ==
    ASSUME NEW u \in Nat, NEW v \in Nat, NEW d \in Nat, NEW e \in Nat, NEW f \in Nat, NEW g \in Nat,
           NEW a \in Nat, NEW b \in Nat, NEW i \in Nat, NEW j \in Nat,
           v + d + f + a = u + e + g + b, j + a = i + b, u = d + f + i
    PROVE  v = e + g + j
  OBVIOUS

\* A caller begins or ends a call, and the bytes in use follow.
LEMMA ReaderMoves ==
    ASSUME ReaderInv, UNCHANGED subject, NEW c \in Callers, NEW next \in Calls,
           next.bound <= limits["sourceBytes"], next.op # "blob" => next.bound = 0,
           call' = [call EXCEPT ![c] = next], BudgetTypeOK', UNCHANGED limits,
           delivered' \in Nat, forfeited' \in Nat,
           usage'["sourceBytes"] + delivered + forfeited + call[c].bound
             = usage["sourceBytes"] + delivered' + forfeited' + next.bound
    PROVE  ReaderInv'
<1>1. call \in [Callers -> Calls] /\ delivered \in Nat /\ forfeited \in Nat
  BY DEF ReaderInv, ReaderTypeOK
<1>2. call' \in [Callers -> Calls] /\ call'[c] = next /\ \A d \in Callers \ {c} : call'[d] = call[d]
  BY <1>1
<1>3. /\ InFlight(call') + call[c].bound = InFlight(call) + next.bound
      /\ call[c].bound \in Nat /\ next.bound \in Nat
      /\ InFlight(call) \in Nat /\ InFlight(call') \in Nat
  <2>1. next.bound \in Nat
    BY DEF Calls
  <2> QED
    BY <1>1, <1>2, <2>1, BoundsMove, BoundsAre
<1>4. usage["sourceBytes"] \in Nat /\ usage'["sourceBytes"] \in Nat
  BY DimensionFacts DEF ReaderInv, ReaderTypeOK, BudgetTypeOK
<1>5. (subject = "reader" => usage["sourceBytes"] = delivered + forfeited + InFlight(call))'
  <2>1. InFlight(call)' = InFlight(call')
    BY DEF InFlight, BoundsOf
  <2>2. subject = "reader" => usage["sourceBytes"] = delivered + forfeited + InFlight(call)
    BY DEF ReaderInv
  <2>3. ASSUME subject = "reader"
        PROVE  usage'["sourceBytes"] = delivered' + forfeited' + InFlight(call')
    <3> DEFINE v == usage'["sourceBytes"]
               u == usage["sourceBytes"]
               a == call[c].bound
               b == next.bound
               i == InFlight(call)
               j == InFlight(call')
               d == delivered
               e == delivered'
               f == forfeited
               g == forfeited'
    <3>1. v \in Nat /\ u \in Nat /\ a \in Nat /\ b \in Nat /\ i \in Nat /\ j \in Nat
          /\ d \in Nat /\ e \in Nat /\ f \in Nat /\ g \in Nat
      BY <1>1, <1>3, <1>4
    <3>2. v + d + f + a = u + e + g + b /\ j + a = i + b /\ u = d + f + i
      BY <1>3, <2>2, <2>3
    <3> HIDE DEF v, u, a, b, i, j, d, e, f, g
    <3>3. v = e + g + j
      BY ONLY <3>1, <3>2, Balance
    <3> QED
      BY <3>3 DEF v, j, e, g
  <2> QED
    BY <2>1, <2>3
<1>6. \A d \in Callers :
         call'[d].bound <= limits'["sourceBytes"] /\ (call'[d].op # "blob" => call'[d].bound = 0)
  BY <1>2 DEF ReaderInv
<1>7. ReaderTypeOK'
  BY <1>2 DEF ReaderTypeOK
<1> QED
  BY <1>5, <1>6, <1>7 DEF ReaderInv

\* The same step, for the meter: a request that fits, an answer within its bound,
\* or nothing.
LEMMA ReaderMeters ==
    ASSUME ReaderInv, NEW c \in Callers, NEW next \in Calls,
           call' = [call EXCEPT ![c] = next], UNCHANGED limits,
           \/ /\ call[c].bound = 0 /\ UNCHANGED delivered
              /\ delivered + InFlight(call) + next.bound <= limits["sourceBytes"]
              /\ next.bound <= limits["sourceBytes"]
           \/ /\ next.bound = 0
              /\ \E bytes \in Nat : bytes <= call[c].bound /\ delivered' = delivered + bytes
           \/ next.bound = call[c].bound /\ UNCHANGED delivered
    PROVE  ReaderMeterStep
<1> DEFINE B == limits["sourceBytes"]
<1>1. /\ call \in [Callers -> Calls] /\ call[c].bound \in Nat /\ call[c].bound <= B
      /\ next.bound \in Nat /\ B \in Nat
  BY DimensionFacts DEF ReaderInv, ReaderTypeOK, BudgetTypeOK, Calls
<1>2. call' \in [Callers -> Calls] /\ call'[c] = next /\ \A d \in Callers \ {c} : call'[d] = call[d]
  BY <1>1
<1>3. BoundsOf(call') = [BoundsOf(call) EXCEPT ![c] = next.bound]
  BY <1>1, <1>2, BoundsMove
<1>4. [d \in Callers |-> call[d].bound] = BoundsOf(call) /\ [d \in Callers |-> call'[d].bound] = BoundsOf(call')
  BY DEF BoundsOf
<1>5. BoundsOf(call)[c] = call[c].bound /\ BoundsOf(call) \in [Callers -> Nat]
  BY <1>1, BoundsAre DEF BoundsOf
<1>6. ASSUME call[c].bound = 0, UNCHANGED delivered,
             delivered + InFlight(call) + next.bound <= B, next.bound <= B
      PROVE  ReaderMeterStep
  <2>1. ReaderMeter!Ask(c, next.bound)
    <3>1. ReaderMeter!InFlight = InFlight(call)
      BY MetersAgree
    <3> QED
      BY <1>3, <1>4, <1>5, <1>6, <3>1 DEF ReaderMeter!Ask
  <2>2. next.bound \in 0 .. B
    BY <1>1, <1>6
  <2> QED
    BY <2>1, <2>2 DEF ReaderMeterStep, ReaderMeter!Next
<1>7. ASSUME next.bound = 0, NEW bytes \in Nat, bytes <= call[c].bound, delivered' = delivered + bytes
      PROVE  ReaderMeterStep
  <2>1. ReaderMeter!Answer(c, bytes)
    BY <1>3, <1>4, <1>5, <1>7 DEF ReaderMeter!Answer
  <2>2. bytes \in 0 .. B
    BY <1>1, <1>7
  <2> QED
    BY <2>1, <2>2 DEF ReaderMeterStep, ReaderMeter!Next
<1>8. ASSUME next.bound = call[c].bound, UNCHANGED delivered
      PROVE  ReaderMeterStep
  <2>1. BoundsOf(call') = BoundsOf(call)
    BY <1>3, <1>5, <1>8
  <2> QED
    BY <1>4, <1>8, <2>1 DEF ReaderMeterStep, ReaderMeter!meter
<1> QED
  BY <1>6, <1>7, <1>8

-----------------------------------------------------------------------------
(* The steps of a caller. *)

LEMMA ReaderFacts ==
    ASSUME ReaderInv
    PROVE  /\ BudgetTypeOK /\ call \in [Callers -> Calls] /\ delivered \in Nat /\ forfeited \in Nat
           /\ "sourceBytes" \in Dimension /\ limits["sourceBytes"] \in Nat
           /\ usage["sourceBytes"] \in Nat /\ usage["sourceBytes"] <= limits["sourceBytes"]
           /\ Remaining("sourceBytes") \in Nat
           /\ usage["sourceBytes"] + Remaining("sourceBytes") = limits["sourceBytes"]
           /\ InFlight(call) \in Nat
<1>1. BudgetTypeOK /\ call \in [Callers -> Calls] /\ delivered \in Nat /\ forfeited \in Nat
  BY DEF ReaderInv, ReaderTypeOK
<1>2. "sourceBytes" \in Dimension
  BY DimensionFacts
<1>3. limits["sourceBytes"] \in Nat /\ usage["sourceBytes"] \in 0 .. limits["sourceBytes"]
  BY <1>1, <1>2 DEF BudgetTypeOK
<1>4. InFlight(call) \in Nat
  BY <1>1, BoundsAre
<1> QED
  BY <1>1, <1>2, <1>3, <1>4 DEF Remaining

\* Nothing but the counters moves.
LEMMA CountersMove ==
    ASSUME ReaderInv, UNCHANGED <<subject, reader, limits>>, BudgetTypeOK',
           usage'["sourceBytes"] = usage["sourceBytes"] \/ subject # "reader"
    PROVE  ReaderInv' /\ ReaderMeterStep
<1>1. ReaderInv'
  BY DEF ReaderInv, ReaderTypeOK, reader, InFlight, BoundsOf
<1>2. ReaderMeterStep
  BY DEF ReaderMeterStep, ReaderMeter!meter, reader
<1> QED
  BY <1>1, <1>2

LEMMA ReserveEffect ==
    ASSUME BudgetTypeOK, NEW delta \in Delta, Reserve(delta) \/ Refuse(delta)
    PROVE  /\ BudgetTypeOK' /\ UNCHANGED limits
           /\ Reserve(delta) => usage'["sourceBytes"] = usage["sourceBytes"] + delta["sourceBytes"]
           /\ Refuse(delta) => UNCHANGED usage
<1>1. BudgetTypeOK'
  BY ReserveKeeps, RefuseKeeps
<1> QED
  BY <1>1, DimensionFacts DEF Reserve, Refuse, Exhaust

LEMMA JustElsewhere ==
    ASSUME NEW d, d # "sourceBytes", NEW n \in Nat
    PROVE  Just(d, n) \in Delta /\ Just(d, n)["sourceBytes"] = 0
  BY JustIsDelta, DimensionFacts DEF Just

LEMMA MetadataSteps ==
    ASSUME ReaderInv, UNCHANGED subject, NEW c \in Callers,
           \/ \E op \in {"metadata", "tree"} : RequestMetadata(c, op)
           \/ AnswerMetadata(c) \/ TreeFails(c)
           \/ \E entries \in 0 .. limits["artifacts"] + 1 : AnswerTree(c, entries)
           \/ QueryStorage(c)
    PROVE  ReaderInv' /\ ReaderMeterStep
<1> USE ReaderFacts
<1>1. call[c].op # "blob" /\ call[c].bound = 0
  <2>1. call[c].op # "blob"
    BY DEF RequestMetadata, AnswerMetadata, TreeFails, AnswerTree, QueryStorage
  <2> QED
    BY <2>1 DEF ReaderInv
<1>2. /\ NoCall \in Calls /\ NoCall.bound = 0 /\ NoCall.op = "none"
      /\ \A op \in {"metadata", "tree"} :
            LET next == [op |-> op, bound |-> 0] IN
            next \in Calls /\ next.bound = 0 /\ next.op # "blob"
  BY DEF NoCall, Calls
<1>3. ASSUME NEW next \in Calls, next.bound = 0, next.op # "blob", call' = [call EXCEPT ![c] = next],
             UNCHANGED <<limits, delivered, forfeited>>, BudgetTypeOK',
             usage'["sourceBytes"] = usage["sourceBytes"]
      PROVE  ReaderInv' /\ ReaderMeterStep
  <2>1. ReaderInv'
    <3>1. next.bound <= limits["sourceBytes"] /\ (next.op # "blob" => next.bound = 0)
      BY <1>3
    <3>2. UNCHANGED limits /\ delivered' = delivered /\ forfeited' = forfeited
      BY <1>3
    <3>3. delivered' \in Nat /\ forfeited' \in Nat
      BY <3>2
    <3>4. usage'["sourceBytes"] + delivered + forfeited + call[c].bound
            = usage["sourceBytes"] + delivered' + forfeited' + next.bound
      BY <1>1, <1>3, <3>2
    <3> QED
      BY <1>3, <3>1, <3>2, <3>3, <3>4, ReaderMoves
  <2>2. ReaderMeterStep
    BY <1>1, <1>3, ReaderMeters
  <2> QED
    BY <2>1, <2>2
<1>4. ASSUME NEW op \in {"metadata", "tree"}, RequestMetadata(c, op)
      PROVE  ReaderInv' /\ ReaderMeterStep
  <2> DEFINE delta == Just("providerRequests", 1)
             next == [op |-> op, bound |-> 0]
  <2>1. delta \in Delta /\ delta["sourceBytes"] = 0
    BY JustElsewhere
  <2>2. Reserve(delta) \/ Refuse(delta)
    BY <1>4 DEF RequestMetadata
  <2> HIDE DEF delta
  <2>3. BudgetTypeOK' /\ UNCHANGED limits /\ usage'["sourceBytes"] = usage["sourceBytes"]
    BY <2>1, <2>2, ReserveEffect
  <2>4. UNCHANGED <<delivered, forfeited>> /\ (call' = [call EXCEPT ![c] = next] \/ UNCHANGED call)
    BY <1>4 DEF RequestMetadata, Awaits
  <2>5. next \in Calls /\ next.bound = 0 /\ next.op # "blob"
    BY <1>2
  <2> HIDE DEF next
  <2> QED
    BY <1>3, <2>3, <2>4, <2>5, CountersMove DEF reader
<1>5. CASE AnswerMetadata(c) \/ TreeFails(c)
  <2>1. call' = [call EXCEPT ![c] = NoCall] /\ UNCHANGED <<budget, delivered, forfeited>>
    BY <1>5 DEF AnswerMetadata, TreeFails, Returns
  <2>2. BudgetTypeOK' /\ UNCHANGED <<limits, usage>>
    BY <2>1 DEF budget, BudgetTypeOK
  <2> QED
    BY <1>2, <1>3, <2>1, <2>2
<1>6. ASSUME NEW entries \in 0 .. limits["artifacts"] + 1, AnswerTree(c, entries)
      PROVE  ReaderInv' /\ ReaderMeterStep
  <2> DEFINE delta == Just("artifacts", entries)
  <2>1. entries \in Nat
    BY DimensionFacts DEF BudgetTypeOK
  <2>2. delta \in Delta /\ delta["sourceBytes"] = 0
    BY <2>1, JustElsewhere
  <2>3. (Reserve(delta) \/ Refuse(delta)) /\ call' = [call EXCEPT ![c] = NoCall]
        /\ UNCHANGED <<delivered, forfeited>>
    BY <1>6 DEF AnswerTree, Returns
  <2> HIDE DEF delta
  <2>4. BudgetTypeOK' /\ UNCHANGED limits /\ usage'["sourceBytes"] = usage["sourceBytes"]
    BY <2>2, <2>3, ReserveEffect
  <2> QED
    BY <1>2, <1>3, <2>3, <2>4
<1>7. CASE QueryStorage(c)
  <2> DEFINE delta == Just("storageQueries", 1)
  <2>1. delta \in Delta /\ delta["sourceBytes"] = 0
    BY JustElsewhere
  <2>2. (Reserve(delta) \/ Refuse(delta)) /\ UNCHANGED <<call, delivered, forfeited>>
    BY <1>7 DEF QueryStorage
  <2> HIDE DEF delta
  <2>3. BudgetTypeOK' /\ UNCHANGED limits /\ usage'["sourceBytes"] = usage["sourceBytes"]
    BY <2>1, <2>2, ReserveEffect
  <2> QED
    BY <2>2, <2>3, CountersMove DEF reader
<1> QED
  BY <1>4, <1>5, <1>6, <1>7

\* readBlob reserves the bound before it awaits the answer.
LEMMA ReadBlobStep ==
    ASSUME ReaderInv, UNCHANGED subject, subject = "reader", NEW c \in Callers,
           NEW maximum \in 0 .. MaxBlob, ReadBlob(c, maximum)
    PROVE  ReaderInv' /\ ReaderMeterStep
<1> USE ReaderFacts
<1> DEFINE remaining == Remaining("sourceBytes")
           bound == Min({maximum, remaining})
           delta == IF maximum > 0 /\ remaining = 0 THEN Just("sourceBytes", 1)
                    ELSE [Just("providerRequests", 1) EXCEPT !["sourceBytes"] = bound]
           next == [op |-> "blob", bound |-> bound]
<1>1. maximum \in Nat
  BY CallersAssumption
<1>2. bound \in Nat /\ bound <= remaining /\ (remaining = 0 => bound = 0)
  BY <1>1, MinOfTwo
<1>3. call[c].op = "none" /\ call[c].bound = 0 /\ UNCHANGED <<delivered, forfeited>>
  BY DEF ReadBlob, ReaderInv
<1>4. \/ Reserve(delta) /\ call' = [call EXCEPT ![c] = next]
      \/ Refuse(delta) /\ UNCHANGED call
  BY DEF ReadBlob, Awaits
<1> HIDE DEF bound
<1>5. delta \in Delta
  <2>1. Just("sourceBytes", 1) \in Delta /\ Just("providerRequests", 1) \in Delta
    BY JustIsDelta
  <2> QED
    BY <1>2, <2>1 DEF Delta
<1>6. delta["sourceBytes"] = IF maximum > 0 /\ remaining = 0 THEN 1 ELSE bound
  BY DimensionFacts DEF Just
<1>7. next \in Calls /\ next.bound = bound /\ next.op = "blob"
  BY <1>2 DEF Calls
<1>8. CASE Refuse(delta) /\ UNCHANGED call
  <2>1. BudgetTypeOK' /\ UNCHANGED <<limits, usage>>
    <3> HIDE DEF delta
    <3> QED
      BY <1>5, <1>8, ReserveEffect
  <2> QED
    BY <1>3, <1>8, <2>1, CountersMove DEF reader
<1>9. CASE Reserve(delta) /\ call' = [call EXCEPT ![c] = next]
  <2>1. BudgetTypeOK' /\ UNCHANGED limits
        /\ usage'["sourceBytes"] = usage["sourceBytes"] + delta["sourceBytes"]
    <3> HIDE DEF delta, next
    <3> QED
      BY <1>5, <1>9, ReserveEffect
  <2>2. delta["sourceBytes"] <= remaining
    <3>1. usage["sourceBytes"] + delta["sourceBytes"] \in 0 .. limits["sourceBytes"]
      <4> HIDE DEF delta, next
      <4> QED
        BY <1>5, <1>9, FitsMeans DEF Reserve
    <3>2. delta["sourceBytes"] \in Nat
      BY <1>5 DEF Delta
    <3> HIDE DEF delta, remaining
    <3> QED
      BY <3>1, <3>2 DEF remaining
  <2>3. delta["sourceBytes"] = bound
    <3> HIDE DEF delta
    <3> QED
      BY <1>2, <1>6, <2>2
  <2>4. bound <= limits["sourceBytes"] /\ delivered + InFlight(call) + bound <= limits["sourceBytes"]
    <3>1. usage["sourceBytes"] = delivered + forfeited + InFlight(call)
      BY DEF ReaderInv
    <3> QED
      BY <1>2, <3>1
  <2> HIDE DEF next, delta
  <2>5. ReaderInv'
    <3>1. next.bound <= limits["sourceBytes"] /\ (next.op # "blob" => next.bound = 0)
      BY <1>7, <2>4
    <3>2. delivered' = delivered /\ forfeited' = forfeited
      BY <1>3
    <3>3. delivered' \in Nat /\ forfeited' \in Nat
      BY <3>2
    <3>4. usage'["sourceBytes"] + delivered + forfeited + call[c].bound
            = usage["sourceBytes"] + delivered' + forfeited' + next.bound
      BY <1>2, <1>3, <1>7, <2>1, <2>3, <3>2
    <3> QED
      BY <1>7, <1>9, <2>1, <3>1, <3>3, <3>4, ReaderMoves
  <2>6. ReaderMeterStep
    BY <1>3, <1>7, <1>9, <2>1, <2>4, ReaderMeters
  <2> QED
    BY <2>5, <2>6
<1> QED
  BY <1>4, <1>8, <1>9

\* What is given back was reserved, and is given back once.
LEMMA BlobReturns ==
    ASSUME ReaderInv, UNCHANGED subject, subject = "reader", NEW c \in Callers,
           \/ \E bytes \in 0 .. MaxBlob : AnswerBlob(c, bytes)
           \/ BlobFails(c) \/ BlobOverruns(c)
    PROVE  ReaderInv' /\ ReaderMeterStep
<1> USE ReaderFacts
<1> DEFINE bound == call[c].bound
           used == usage["sourceBytes"]
<1>1. /\ NoCall \in Calls /\ NoCall.bound = 0 /\ NoCall.op = "none"
      /\ call' = [call EXCEPT ![c] = NoCall]
  BY DEF NoCall, Calls, AnswerBlob, BlobFails, BlobOverruns, Returns
<1>2. bound \in Nat /\ bound <= InFlight(call) /\ used = delivered + forfeited + InFlight(call)
      /\ bound <= used
  <2>1. bound \in Nat /\ bound <= InFlight(call)
    BY BoundsMove
  <2>2. used = delivered + forfeited + InFlight(call)
    BY DEF ReaderInv
  <2> QED
    BY <2>1, <2>2
<1>3. ASSUME NEW bytes \in Nat, bytes <= bound, Release("sourceBytes", bound - bytes),
             delivered' = delivered + bytes, UNCHANGED forfeited
      PROVE  ReaderInv' /\ ReaderMeterStep
  <2>1. bound - bytes \in Nat /\ bound - bytes <= used
    BY <1>2, <1>3
  <2>2. BudgetTypeOK'
    <3> HIDE DEF bound
    <3> QED
      BY <1>3, <2>1, ReleaseKeeps
  <2>3. UNCHANGED limits /\ usage'["sourceBytes"] = used - (bound - bytes)
    BY <1>3 DEF Release, BudgetTypeOK
  <2>4. delivered' \in Nat /\ forfeited' \in Nat
    BY <1>3
  <2>5. usage'["sourceBytes"] + delivered + forfeited + bound
          = usage["sourceBytes"] + delivered' + forfeited' + NoCall.bound
    BY <1>1, <1>2, <1>3, <2>1, <2>3
  <2>6. ReaderInv'
    <3>1. NoCall.bound <= limits["sourceBytes"] /\ (NoCall.op # "blob" => NoCall.bound = 0)
      BY <1>1
    <3> QED
      BY <1>1, <2>2, <2>3, <2>4, <2>5, <3>1, ReaderMoves
  <2>7. ReaderMeterStep
    BY <1>1, <1>3, <2>3, ReaderMeters
  <2> QED
    BY <2>6, <2>7
<1>4. CASE \E bytes \in 0 .. MaxBlob : AnswerBlob(c, bytes)
  <2>1. PICK bytes \in 0 .. MaxBlob : AnswerBlob(c, bytes)
    BY <1>4
  <2> QED
    BY <2>1, <1>3, CallersAssumption DEF AnswerBlob
<1>5. CASE BlobFails(c)
  <2>1. bound - 0 = bound /\ 0 <= bound /\ delivered + 0 = delivered
    BY <1>2
  <2> QED
    BY <1>3, <1>5, <2>1 DEF BlobFails
<1>6. CASE BlobOverruns(c)
  <2> DEFINE delta == Just("sourceBytes", Remaining("sourceBytes") + 1)
  <2>1. Exhaust(delta) /\ forfeited' = forfeited + bound /\ UNCHANGED delivered
    BY <1>6 DEF BlobOverruns
  <2>2. Exceeds(delta) # {}
    <3>1. PICK i \in 1 .. 4 : Dimensions[i] = "sourceBytes"
      BY DimensionFacts
    <3>2. delta[Dimensions[i]] = Remaining("sourceBytes") + 1
      BY <3>1, DimensionFacts DEF Just
    <3>3. i \in Exceeds(delta)
      <4> HIDE DEF delta
      <4> QED
        BY <3>1, <3>2, DimensionFacts DEF Exceeds
    <3> QED
      BY <3>3
  <2> HIDE DEF delta
  <2>3. BudgetTypeOK' /\ UNCHANGED <<limits, usage>>
    BY <2>1, <2>2, ExhaustKeeps DEF Exhaust
  <2>4. ReaderInv'
    <3>1. NoCall.bound <= limits["sourceBytes"] /\ (NoCall.op # "blob" => NoCall.bound = 0)
      BY <1>1
    <3>2. delivered' \in Nat /\ forfeited' \in Nat
      BY <1>2, <2>1
    <3>3. usage' = usage
      BY <2>3
    <3>4. usage'["sourceBytes"] + delivered + forfeited + call[c].bound
            = usage["sourceBytes"] + delivered' + forfeited' + NoCall.bound
      BY <1>1, <1>2, <2>1, <3>3
    <3> QED
      BY <1>1, <2>3, <3>1, <3>2, <3>4, ReaderMoves
  <2>5. \E bytes \in Nat : bytes <= call[c].bound /\ delivered' = delivered + bytes
    <3>1. 0 \in Nat /\ 0 <= call[c].bound /\ delivered' = delivered + 0
      BY <1>2, <2>1
    <3> QED
      BY <3>1
  <2>6. ReaderMeterStep
    BY <1>1, <2>3, <2>5, ReaderMeters
  <2> QED
    BY <2>4, <2>6
<1> QED
  BY <1>4, <1>5, <1>6

LEMMA LimitsAreFixed ==
    ASSUME Next
    PROVE  UNCHANGED limits
<1> USE DEF Call, Reserve, Refuse, Exhaust, budget
<1>1. CASE ResolveCommit \/ SelectGeneration \/ ReadExisting \/ BeginGeneration \/ ListTree
  BY <1>1 DEF ResolveCommit, SelectGeneration, ReadExisting, BeginGeneration, ListTree
<1>2. CASE CountEntries \/ ReadPrevious \/ ReuseEntry \/ (\E hit \in BOOLEAN : ReadCache(hit)) \/ ReadEntry
              \/ ReadIncomplete
  BY <1>2 DEF CountEntries, ReadPrevious, ReuseEntry, ReadCache, ReadEntry, ReadIncomplete
<1>3. CASE WriteCache \/ PutArtifacts \/ CompleteGeneration \/ FailGeneration \/ Report
  BY <1>3 DEF WriteCache, PutArtifacts, CompleteGeneration, FailGeneration, Report
<1>4. CASE DeadlinePasses
  BY <1>4 DEF DeadlinePasses
<1> QED
  BY <1>1, <1>2, <1>3, <1>4 DEF Next, RunStep

LEMMA ReaderKeeps ==
    ASSUME ReaderInv, subject = "index" => RunInv, [BudgetsNext]_all
    PROVE  ReaderInv' /\ ReaderMeterStep
<1>1. ASSUME UNCHANGED subject, subject = "reader", NEW c \in Callers, CallerStep(c)
      PROVE  ReaderInv' /\ ReaderMeterStep
  BY <1>1, MetadataSteps, ReadBlobStep, BlobReturns DEF CallerStep
<1>2. CASE UNCHANGED subject /\ DeadlinePasses /\ UNCHANGED reader
  BY <1>2, CountersMove, DeadlineKeeps, ReaderFacts DEF DeadlinePasses
<1>3. CASE UNCHANGED <<subject, budget, reader>>
  <2>1. BudgetTypeOK'
    BY <1>3, ReaderFacts DEF budget, BudgetTypeOK
  <2> QED
    BY <1>3, <2>1, CountersMove DEF budget
<1>4. CASE UNCHANGED subject /\ subject = "index" /\ Next /\ UNCHANGED reader
  <2>1. BudgetTypeOK' /\ UNCHANGED limits
    BY <1>4, RunKeeps, LimitsAreFixed DEF RunInv, TypeOK
  <2> QED
    BY <1>4, <2>1, CountersMove
<1> QED
  BY <1>1, <1>2, <1>3, <1>4 DEF BudgetsNext, ReaderNext, all, vars

-----------------------------------------------------------------------------
(* BudgetedRepositoryReader. *)

\* The bytes reserved are the bounds in flight, and what was delivered was counted.
SourceInv ==
    /\ blobBytes \in Nat /\ reservedBlobBytes \in Nat /\ sourceDelivered \in Nat
    /\ sourceCall \in [Callers -> Calls]
    /\ \A c \in Callers :
          sourceCall[c].bound <= MaximumBlobBytes
          /\ (sourceCall[c].op # "blob" => sourceCall[c].bound = 0)
    /\ reservedBlobBytes = InFlight(sourceCall)
    /\ sourceDelivered <= blobBytes

SourceMeterStep == [SourceMeter!Next]_(SourceMeter!meter)

LEMMA SourceStart ==
    ASSUME BudgetsInit
    PROVE  SourceInv /\ SourceMeter!Init
<1>1. /\ sourceCall = [c \in Callers |-> NoCall]
      /\ blobBytes = 0 /\ reservedBlobBytes = 0 /\ sourceDelivered = 0
  BY DEF BudgetsInit, Source!Init, Source!NoCall, NoCall
<1>2. NoCall \in Calls /\ NoCall.bound = 0 /\ NoCall.op = "none"
  BY DEF NoCall, Calls
<1>3. sourceCall \in [Callers -> Calls] /\ \A c \in Callers : sourceCall[c] = NoCall
  BY <1>1, <1>2
<1>4. InFlight(sourceCall) = 0
  BY <1>2, <1>3, NothingInFlight
<1>5. SourceInv
  BY <1>1, <1>2, <1>3, <1>4, CallersAssumption DEF SourceInv
<1>6. SourceMeter!Init
  BY <1>1, <1>2, CallersAssumption DEF SourceMeter!Init
<1> QED
  BY <1>5, <1>6

\* A caller begins or ends a call, and the bytes reserved follow.
LEMMA SourceMoves ==
    ASSUME SourceInv, NEW c \in Callers, NEW next \in Calls,
           next.bound <= MaximumBlobBytes, next.op # "blob" => next.bound = 0,
           sourceCall' = [sourceCall EXCEPT ![c] = next],
           blobBytes' \in Nat, sourceDelivered' \in Nat, sourceDelivered' <= blobBytes',
           reservedBlobBytes' = reservedBlobBytes - sourceCall[c].bound + next.bound
    PROVE  SourceInv'
<1>1. sourceCall \in [Callers -> Calls] /\ reservedBlobBytes = InFlight(sourceCall)
  BY DEF SourceInv
<1>2. /\ sourceCall' \in [Callers -> Calls] /\ sourceCall'[c] = next
      /\ \A d \in Callers \ {c} : sourceCall'[d] = sourceCall[d]
  BY <1>1
<1>3. next.bound \in Nat
  BY DEF Calls
<1>4. /\ InFlight(sourceCall') + sourceCall[c].bound = InFlight(sourceCall) + next.bound
      /\ sourceCall[c].bound \in Nat
      /\ InFlight(sourceCall) \in Nat /\ InFlight(sourceCall') \in Nat
  BY <1>1, <1>2, BoundsMove, BoundsAre
<1>5. reservedBlobBytes' = InFlight(sourceCall')
  BY <1>1, <1>3, <1>4
<1>6. InFlight(sourceCall)' = InFlight(sourceCall')
  BY DEF InFlight, BoundsOf
<1>7. \A d \in Callers :
         sourceCall'[d].bound <= MaximumBlobBytes
         /\ (sourceCall'[d].op # "blob" => sourceCall'[d].bound = 0)
  BY <1>2 DEF SourceInv
<1> QED
  BY <1>2, <1>4, <1>5, <1>6, <1>7 DEF SourceInv

\* The same step, for the meter.
LEMMA SourceMeters ==
    ASSUME SourceInv, NEW c \in Callers, NEW next \in Calls,
           sourceCall' = [sourceCall EXCEPT ![c] = next],
           \/ /\ sourceCall[c].bound = 0 /\ UNCHANGED sourceDelivered
              /\ sourceDelivered + InFlight(sourceCall) + next.bound <= MaximumBlobBytes
              /\ next.bound <= MaximumBlobBytes
           \/ /\ next.bound = 0
              /\ \E bytes \in Nat :
                    bytes <= sourceCall[c].bound /\ sourceDelivered' = sourceDelivered + bytes
           \/ next.bound = sourceCall[c].bound /\ UNCHANGED sourceDelivered
    PROVE  SourceMeterStep
<1> DEFINE B == MaximumBlobBytes
<1>1. /\ sourceCall \in [Callers -> Calls] /\ sourceCall[c].bound \in Nat /\ sourceCall[c].bound <= B
      /\ next.bound \in Nat /\ B \in Nat
  BY CallersAssumption DEF SourceInv, Calls
<1>2. /\ sourceCall' \in [Callers -> Calls] /\ sourceCall'[c] = next
      /\ \A d \in Callers \ {c} : sourceCall'[d] = sourceCall[d]
  BY <1>1
<1>3. BoundsOf(sourceCall') = [BoundsOf(sourceCall) EXCEPT ![c] = next.bound]
  BY <1>1, <1>2, BoundsMove
<1>4. /\ [d \in Callers |-> sourceCall[d].bound] = BoundsOf(sourceCall)
      /\ [d \in Callers |-> sourceCall'[d].bound] = BoundsOf(sourceCall')
  BY DEF BoundsOf
<1>5. BoundsOf(sourceCall)[c] = sourceCall[c].bound /\ BoundsOf(sourceCall) \in [Callers -> Nat]
  BY <1>1, BoundsAre DEF BoundsOf
<1>6. ASSUME sourceCall[c].bound = 0, UNCHANGED sourceDelivered,
             sourceDelivered + InFlight(sourceCall) + next.bound <= B, next.bound <= B
      PROVE  SourceMeterStep
  <2>1. SourceMeter!Ask(c, next.bound)
    <3>1. SourceMeter!InFlight = InFlight(sourceCall)
      BY MetersAgree
    <3> QED
      BY <1>3, <1>4, <1>5, <1>6, <3>1 DEF SourceMeter!Ask
  <2>2. next.bound \in 0 .. B
    BY <1>1, <1>6
  <2> QED
    BY <2>1, <2>2 DEF SourceMeterStep, SourceMeter!Next
<1>7. ASSUME next.bound = 0, NEW bytes \in Nat, bytes <= sourceCall[c].bound,
             sourceDelivered' = sourceDelivered + bytes
      PROVE  SourceMeterStep
  <2>1. SourceMeter!Answer(c, bytes)
    BY <1>3, <1>4, <1>5, <1>7 DEF SourceMeter!Answer
  <2>2. bytes \in 0 .. B
    BY <1>1, <1>7
  <2> QED
    BY <2>1, <2>2 DEF SourceMeterStep, SourceMeter!Next
<1>8. ASSUME next.bound = sourceCall[c].bound, UNCHANGED sourceDelivered
      PROVE  SourceMeterStep
  <2>1. BoundsOf(sourceCall') = BoundsOf(sourceCall)
    BY <1>3, <1>5, <1>8
  <2> QED
    BY <1>4, <1>8, <2>1 DEF SourceMeterStep, SourceMeter!meter
<1> QED
  BY <1>6, <1>7, <1>8

LEMMA SourceFacts ==
    ASSUME SourceInv, NEW c \in Callers
    PROVE  /\ sourceCall[c].bound \in Nat /\ blobBytes \in Nat /\ sourceDelivered \in Nat
           /\ sourceCall \in [Callers -> Calls] /\ reservedBlobBytes \in Nat
           /\ reservedBlobBytes = InFlight(sourceCall) /\ sourceDelivered <= blobBytes
           /\ sourceCall[c].op # "blob" => sourceCall[c].bound = 0
           /\ MaximumBlobBytes \in Nat /\ MaxBlob \in Nat
  BY CallersAssumption DEF SourceInv, Calls

\* A bound is reserved only out of what remains.
LEMMA SourceReads ==
    ASSUME SourceInv, NEW c \in Callers, NEW maximum \in 0 .. MaxBlob, Source!ReadBlob(c, maximum)
    PROVE  SourceInv' /\ SourceMeterStep
<1> USE SourceFacts
<1> DEFINE remaining == MaximumBlobBytes - blobBytes - reservedBlobBytes
           bound == Min({maximum, remaining})
           next == [op |-> "blob", bound |-> bound]
<1>1. /\ sourceCall[c].op = "none" /\ remaining > 0
      /\ reservedBlobBytes' = reservedBlobBytes + bound
      /\ sourceCall' = [sourceCall EXCEPT ![c] = next]
      /\ blobBytes' = blobBytes /\ sourceDelivered' = sourceDelivered
  BY DEF Source!ReadBlob, Source!RemainingBytes, Source!Min, Min
<1>2. maximum \in Nat /\ remaining \in Nat
  BY <1>1
<1> HIDE DEF remaining
<1>3. bound \in Nat /\ bound <= remaining
  BY <1>2, MinOfTwo
<1> HIDE DEF bound
<1>4. next \in Calls /\ next.bound = bound /\ next.op = "blob"
  BY <1>3 DEF Calls
<1> HIDE DEF next
<1>5. sourceCall[c].bound = 0
  BY <1>1
<1>6. /\ bound <= MaximumBlobBytes
      /\ sourceDelivered + InFlight(sourceCall) + bound <= MaximumBlobBytes
  BY <1>3 DEF remaining
<1>7. SourceInv'
  <2>1. next.bound <= MaximumBlobBytes /\ (next.op # "blob" => next.bound = 0)
    BY <1>4, <1>6
  <2>2. reservedBlobBytes' = reservedBlobBytes - sourceCall[c].bound + next.bound
    BY <1>1, <1>3, <1>4, <1>5
  <2>3. blobBytes' \in Nat /\ sourceDelivered' \in Nat /\ sourceDelivered' <= blobBytes'
    BY <1>1
  <2> QED
    BY <1>1, <1>4, <2>1, <2>2, <2>3, SourceMoves
<1>8. SourceMeterStep
  BY <1>1, <1>4, <1>5, <1>6, SourceMeters
<1> QED
  BY <1>7, <1>8

\* The finally block gives back what the call reserved.
LEMMA SourceReturns ==
    ASSUME SourceInv, NEW c \in Callers,
           \/ Source!RequestMetadata(c) \/ Source!AnswerMetadata(c) \/ Source!BlobFails(c)
           \/ \E bytes \in 0 .. MaxBlob : Source!AnswerBlob(c, bytes)
    PROVE  SourceInv' /\ SourceMeterStep
<1> USE SourceFacts
<1>1. ASSUME NEW next \in Calls, next.bound = 0, NEW bytes \in Nat, NEW counted \in Nat,
             bytes <= sourceCall[c].bound, bytes <= counted,
             sourceCall' = [sourceCall EXCEPT ![c] = next],
             reservedBlobBytes' = reservedBlobBytes - sourceCall[c].bound,
             blobBytes' = blobBytes + counted, sourceDelivered' = sourceDelivered + bytes
      PROVE  SourceInv' /\ SourceMeterStep
  <2>1. SourceInv'
    <3>1. next.bound <= MaximumBlobBytes /\ (next.op # "blob" => next.bound = 0)
      BY <1>1
    <3>2. reservedBlobBytes' = reservedBlobBytes - sourceCall[c].bound + next.bound
      BY <1>1
    <3>3. blobBytes' \in Nat /\ sourceDelivered' \in Nat /\ sourceDelivered' <= blobBytes'
      BY <1>1
    <3> QED
      BY <1>1, <3>1, <3>2, <3>3, SourceMoves
  <2>2. SourceMeterStep
    BY <1>1, SourceMeters
  <2> QED
    BY <2>1, <2>2
<1>2. /\ NoCall \in Calls /\ NoCall.bound = 0 /\ Source!NoCall = NoCall
      /\ [op |-> "metadata", bound |-> 0] \in Calls
      /\ [op |-> "metadata", bound |-> 0].bound = 0
  BY DEF NoCall, Calls, Source!NoCall
<1>3. /\ blobBytes + 0 = blobBytes /\ sourceDelivered + 0 = sourceDelivered
      /\ reservedBlobBytes - 0 = reservedBlobBytes /\ 0 <= sourceCall[c].bound
  OBVIOUS
<1>4. CASE Source!RequestMetadata(c)
  <2> DEFINE next == [op |-> "metadata", bound |-> 0]
  <2>1. /\ sourceCall' = [sourceCall EXCEPT ![c] = next] /\ sourceCall[c].bound = 0
        /\ blobBytes' = blobBytes /\ sourceDelivered' = sourceDelivered
        /\ reservedBlobBytes' = reservedBlobBytes
    BY <1>4 DEF Source!RequestMetadata
  <2>2. next \in Calls /\ next.bound = 0
    BY <1>2
  <2> HIDE DEF next
  <2> QED
    BY <1>1, <1>3, <2>1, <2>2
<1>5. CASE Source!AnswerMetadata(c)
  <2>1. /\ sourceCall' = [sourceCall EXCEPT ![c] = NoCall] /\ sourceCall[c].bound = 0
        /\ blobBytes' = blobBytes /\ sourceDelivered' = sourceDelivered
        /\ reservedBlobBytes' = reservedBlobBytes
    BY <1>2, <1>5 DEF Source!AnswerMetadata
  <2> QED
    BY <1>1, <1>2, <1>3, <2>1
<1>6. CASE Source!BlobFails(c)
  <2>1. /\ sourceCall' = [sourceCall EXCEPT ![c] = NoCall]
        /\ reservedBlobBytes' = reservedBlobBytes - sourceCall[c].bound
        /\ blobBytes' = blobBytes /\ sourceDelivered' = sourceDelivered
    BY <1>2, <1>6 DEF Source!BlobFails, Source!Returns
  <2>2. blobBytes' = blobBytes + 0 /\ sourceDelivered' = sourceDelivered + 0
    BY <1>3, <2>1
  <2>3. 0 \in Nat /\ 0 <= 0
    OBVIOUS
  <2> HIDE DEF NoCall
  <2> QED
    BY <1>1, <1>2, <1>3, <2>1, <2>2, <2>3
<1>7. ASSUME NEW bytes \in 0 .. MaxBlob, Source!AnswerBlob(c, bytes)
      PROVE  SourceInv' /\ SourceMeterStep
  <2>1. /\ sourceCall' = [sourceCall EXCEPT ![c] = NoCall]
        /\ reservedBlobBytes' = reservedBlobBytes - sourceCall[c].bound
        /\ blobBytes' = blobBytes + bytes
        /\ sourceDelivered' = IF bytes <= sourceCall[c].bound THEN sourceDelivered + bytes
                              ELSE sourceDelivered
    BY <1>2, <1>7 DEF Source!AnswerBlob, Source!Returns
  <2>2. CASE bytes <= sourceCall[c].bound
    <3>1. bytes \in Nat /\ bytes <= bytes /\ sourceDelivered' = sourceDelivered + bytes
      BY <2>1, <2>2
    <3> QED
      BY <1>1, <1>2, <2>1, <2>2, <3>1
  <2>3. CASE ~(bytes <= sourceCall[c].bound)
    <3>1. sourceDelivered' = sourceDelivered + 0 /\ 0 <= bytes /\ bytes \in Nat /\ 0 \in Nat
      BY <2>1, <2>3
    <3> QED
      BY <1>1, <1>2, <1>3, <2>1, <3>1
  <2> QED
    BY <2>2, <2>3
<1> QED
  BY <1>4, <1>5, <1>6, <1>7

LEMMA SourceKeeps ==
    ASSUME SourceInv, [BudgetsNext]_all
    PROVE  SourceInv' /\ SourceMeterStep
<1>1. CASE Source!Next
  BY <1>1, SourceReads, SourceReturns DEF Source!Next
<1>2. CASE UNCHANGED source
  <2>1. SourceInv'
    BY <1>2 DEF source, SourceInv, InFlight, BoundsOf
  <2>2. SourceMeterStep
    BY <1>2 DEF source, SourceMeterStep, SourceMeter!meter
  <2> QED
    BY <2>1, <2>2
<1> QED
  BY <1>1, <1>2 DEF BudgetsNext, all

-----------------------------------------------------------------------------
(* The three subjects together. *)

BudgetsInv ==
    /\ ReaderInv /\ SourceInv
    /\ subject = "index" => RunInv

LEMMA BudgetsKeep ==
    ASSUME BudgetsInv, [BudgetsNext]_all
    PROVE  BudgetsInv' /\ ReaderMeterStep /\ SourceMeterStep
<1>1. ReaderInv' /\ ReaderMeterStep /\ SourceInv' /\ SourceMeterStep
  BY ReaderKeeps, SourceKeeps DEF BudgetsInv
<1>2. (subject = "index" => RunInv)'
  BY RunKeeps DEF BudgetsInv, BudgetsNext, all
<1> QED
  BY <1>1, <1>2 DEF BudgetsInv

\* Any number of callers, of either reader and with any limits: what is delivered
\* and what is in flight stays within the byte limit, every step is a step of the
\* meter, and no byte is given back twice (ExecutionBudgetRepositoryReaderV2.readBlob,
\* BudgetedRepositoryReader.readBlob).
THEOREM ReadersMeterTheirBytes == BudgetsSpec => ReadersImplementMeter
<1>1. BudgetsInit => BudgetsInv /\ ReaderMeter!Init /\ SourceMeter!Init
  BY ReaderStart, SourceStart, RunStart DEF BudgetsInv, BudgetsInit
<1>2. BudgetsInv /\ [BudgetsNext]_all => BudgetsInv' /\ ReaderMeterStep /\ SourceMeterStep
  BY BudgetsKeep
<1>3. BudgetsInv => (subject = "reader" => BytesAreAccounted)
  BY MetersAgree DEF BudgetsInv, ReaderInv
<1> QED
  BY <1>1, <1>2, <1>3, PTL DEF BudgetsSpec, ReadersImplementMeter, ReaderMeterStep, SourceMeterStep,
                               ReaderMeter!Spec, SourceMeter!Spec
=============================================================================
