--------------------------- MODULE ReadBudgetProof ---------------------------
(***************************************************************************)
(* Two results about the budgets, for all builds, documents and budgets of *)
(* at least six largest documents.                                         *)
(*                                                                         *)
(* WindowsFit: the arithmetic of caps.go leaves a window for each build.   *)
(*                                                                         *)
(* TypeCorrect and WeightsBack: each semaphore counts what is held.  The   *)
(* invariant says of a semaphore that its queue is a sequence of requests  *)
(* without repetition, and that it counts the units of the other requests  *)
(* (Semaphore); the four operations keep that for any set of requests.     *)
(* The requests for weight are then those of the documents whose stage     *)
(* asks for it, one lane at a time; those for windows are those of the     *)
(* builds that wait or run.  What a step of a lane may do is said once     *)
(* (Becomes): a document that leaves gives back what it held, a document   *)
(* that waits stays.                                                       *)
(***************************************************************************)
EXTENDS ReadBudget, TLAPS, WellFoundedInduction, FiniteSetTheorems, SequenceTheorems

(* A quotient is the largest number whose product stays below.             *)
LEMMA DivBounds ==
    ASSUME NEW i \in Nat, NEW k \in Nat \ {0}
    PROVE  i \div k \in Nat /\ k * (i \div k) <= i /\ i < k * (i \div k) + k
BY SMT

(* So a number whose product stays below is at most the quotient.          *)
LEMMA DivLeast ==
    ASSUME NEW i \in Nat, NEW k \in Nat \ {0}, NEW m \in Nat, k * m <= i
    PROVE  m <= i \div k
<1> DEFINE q == i \div k
<1>1. q \in Nat /\ i < k * q + k
  BY DivBounds
<1>2. SUFFICES ASSUME q + 1 <= m PROVE FALSE
  BY <1>1
<1>3. k * (q + 1) <= k * m
  BY <1>1, <1>2
<1>4. k * (q + 1) = k * q + k
  BY <1>1
<1> QED
  BY <1>1, <1>3, <1>4

(* A command has a build that shares, and as many as share can each hold   *)
(* two largest documents.                                                  *)
LEMMA SharersFit ==
    ASSUME NEW b \in Builds
    PROVE  /\ Sharers(b) \in Nat \ {0}
           /\ 2 * MaxWeight * Sharers(b) <= Budget - 2 * MaxWeight
<1> DEFINE room == Budget - 2 * MaxWeight
<1>1. MaxWeight \in Nat \ {0} /\ room \in Nat /\ room >= 4 * MaxWeight
  BY BudgetAssumption
<1>2. room \div (2 * MaxWeight) \in Nat /\ (2 * MaxWeight) * (room \div (2 * MaxWeight)) <= room
  BY <1>1, DivBounds
<1>3. 2 <= room \div (2 * MaxWeight)
  BY <1>1, DivLeast
<1>4. BuildSlotLimit = room \div (2 * MaxWeight)
  BY <1>2, <1>3 DEF BuildSlotLimit, Most
<1>5. Sharers(b) \in Nat \ {0} /\ Sharers(b) <= BuildSlotLimit
  BY <1>2, <1>3, <1>4, BudgetAssumption DEF Sharers, Least, Most
<1>6. (2 * MaxWeight) * Sharers(b) <= (2 * MaxWeight) * BuildSlotLimit
  BY <1>1, <1>2, <1>4, <1>5
<1> QED
  BY <1>1, <1>2, <1>4, <1>5, <1>6

(* caps.go, indexWindowFor, and the checks of its constants: for every     *)
(* budget and every number of nodes, a window holds one largest document,  *)
(* the windows of all builds of a command leave room for two more, and the *)
(* two windows that a build asks for never exceed what there is, so no     *)
(* request waits for windows that do not exist.                            *)
THEOREM WindowsFit ==
    ASSUME NEW b \in Builds
    PROVE  /\ MaxWeight <= IndexWindow(b)
           /\ 2 * Sharers(b) * IndexWindow(b) + 2 * MaxWeight <= Budget
           /\ SlotWeight(b) = 2 * IndexWindow(b)
           /\ SlotWeight(b) <= BuildWindows
<1> DEFINE room == Budget - 2 * MaxWeight
           n == Sharers(b)
           window == IndexWindow(b)
<1>1. MaxWeight \in Nat \ {0} /\ room \in Nat /\ room >= 4 * MaxWeight
  BY BudgetAssumption
<1>2. n \in Nat \ {0} /\ (2 * n) * MaxWeight <= room
  BY <1>1, SharersFit
<1>3. window = room \div (2 * n)
  BY DEF IndexWindow
<1>4. window \in Nat /\ (2 * n) * window <= room
  <2>1. 2 * n \in Nat \ {0}
    BY <1>2
  <2> QED
    BY <1>1, <1>3, <2>1, DivBounds
<1>5. MaxWeight <= window
  BY <1>1, <1>2, <1>3, DivLeast
<1>6. 2 * window <= (2 * n) * window
  BY <1>2, <1>4
<1>7. BuildWindows = room
  BY <1>1 DEF BuildWindows, Most
<1>8. SlotWeight(b) = 2 * window
  <2>1. 2 * window <= room
    BY <1>1, <1>2, <1>4, <1>6
  <2>2. Most(2 * window, 1) = 2 * window
    BY <1>1, <1>4, <1>5 DEF Most
  <2>3. Least(2 * window, room) = 2 * window
    BY <1>1, <1>4, <2>1 DEF Least
  <2> QED
    BY <1>7, <2>2, <2>3 DEF SlotWeight
<1>9. (2 * n) * window + 2 * MaxWeight <= Budget
  BY <1>1, <1>2, <1>4, BudgetAssumption, SMTT(30)
<1>10. 2 * window <= BuildWindows
  BY <1>2, <1>4, <1>6, <1>7
<1> QED
  BY <1>5, <1>8, <1>9, <1>10
(***************************************************************************)
(* The fold of a sum, whatever element it takes next.                      *)
(***************************************************************************)

\* A set of natural numbers that is not empty has a least one.
LEMMA LeastNumber ==
    ASSUME NEW T \in SUBSET Nat, T # {}
    PROVE  \E m \in T : \A n \in T : m <= n
<1> DEFINE R == OpToRel(<, Nat)
<1>1. IsWellFoundedOn(R, Nat)
  BY NatLessThanWellFounded
<1>2. \A x, y \in Nat : x < y => <<x, y>> \in R
  BY DEF OpToRel
<1> HIDE DEF R
<1>3. PICK m \in T : \A y \in T : <<y, m>> \notin R
  BY <1>1, WFMin
<1>4. ASSUME NEW n \in T PROVE m <= n
  <2>1. m \in Nat /\ n \in Nat
    OBVIOUS
  <2>2. ~(n < m)
    BY <1>2, <1>3, <2>1
  <2> QED
    BY <2>1, <2>2
<1> QED
  BY <1>4

\* The greatest of some numbers up to n.
LEMMA Greatest ==
    ASSUME NEW n \in Nat, NEW T \in SUBSET (0..n), T # {}
    PROVE  Max(T) \in T /\ \A k \in T : k <= Max(T)
<1> DEFINE D == {n - k : k \in T}
<1>1. D \in SUBSET Nat /\ D # {}
  <2>1. \A k \in T : n - k \in Nat /\ n - k \in D
    OBVIOUS
  <2> QED
    BY <2>1
<1>2. PICK d \in D : \A e \in D : d <= e
  BY <1>1, LeastNumber
<1>3. PICK m \in T : d = n - m
  BY <1>2
<1>4. \A k \in T : m >= k
  <2> TAKE k \in T
  <2>1. n - m <= n - k
    BY <1>2, <1>3
  <2> QED
    BY <2>1
<1>5. \E x \in T : \A y \in T : x >= y
  BY <1>4
<1> QED
  BY <1>5 DEF Max

\* A fold of a sum: what it gives for a part s, from what it gives without the next element.
Folds(h, S, pick, w) ==
    h = [s \in SUBSET S |-> IF s = {} THEN 0 ELSE h[s \ {pick[s]}] + w[pick[s]]]

FoldsBack(h, S, pick, w) ==
    h = [s \in SUBSET S |-> IF s = {} THEN 0 ELSE w[pick[s]] + h[s \ {pick[s]}]]

Picks(pick, S) == \A s \in SUBSET S : s # {} => pick[s] \in s

\* A measure that an element raises by its number.
Measures(m, S, w) ==
    /\ m \in [SUBSET S -> Nat] /\ w \in [S -> Nat] /\ m[{}] = 0
    /\ \A s \in SUBSET S : \A x \in s : m[s] = m[s \ {x}] + w[x]

\* The measure is the only value that the fold can have.
LEMMA FoldIsMeasure ==
    ASSUME NEW S, IsFiniteSet(S), NEW pick, Picks(pick, S), NEW w, NEW m, Measures(m, S, w)
    PROVE  /\ Folds(m, S, pick, w) /\ FoldsBack(m, S, pick, w)
           /\ \A h : Folds(h, S, pick, w) \/ FoldsBack(h, S, pick, w) => h[S] = m[S]
<1>0. ASSUME NEW s \in SUBSET S, s # {}
      PROVE  /\ m[s] = m[s \ {pick[s]}] + w[pick[s]]
             /\ m[s \ {pick[s]}] + w[pick[s]] = w[pick[s]] + m[s \ {pick[s]}]
  <2>1. pick[s] \in s /\ s \ {pick[s]} \in SUBSET S /\ pick[s] \in S
    BY <1>0 DEF Picks
  <2>2. m[s \ {pick[s]}] \in Nat /\ w[pick[s]] \in Nat /\ m[s] = m[s \ {pick[s]}] + w[pick[s]]
    BY <2>1 DEF Measures
  <2> QED
    BY <2>2
<1>1. Folds(m, S, pick, w) /\ FoldsBack(m, S, pick, w)
  <2>1. /\ \A s \in SUBSET S : m[s] = IF s = {} THEN 0 ELSE m[s \ {pick[s]}] + w[pick[s]]
        /\ \A s \in SUBSET S : m[s] = IF s = {} THEN 0 ELSE w[pick[s]] + m[s \ {pick[s]}]
    BY <1>0 DEF Measures
  <2>2. m = [s \in SUBSET S |-> m[s]]
    BY DEF Measures
  <2> QED
    BY <2>1, <2>2 DEF Folds, FoldsBack
<1>2. ASSUME NEW h, Folds(h, S, pick, w) \/ FoldsBack(h, S, pick, w) PROVE h[S] = m[S]
  <2> DEFINE Bad == {n \in Nat : \E s \in SUBSET S : Cardinality(s) = n /\ h[s] # m[s]}
  <2>1. ASSUME NEW s \in SUBSET S
        PROVE  /\ s = {} => h[s] = 0
               /\ s # {} => \/ h[s] = h[s \ {pick[s]}] + w[pick[s]]
                           \/ h[s] = w[pick[s]] + h[s \ {pick[s]}]
    BY <1>2 DEF Folds, FoldsBack
  <2>2. Bad = {}
    <3> SUFFICES ASSUME Bad # {} PROVE FALSE
      OBVIOUS
    <3>1. PICK n \in Bad : \A k \in Bad : n <= k
      BY LeastNumber
    <3>2. PICK s \in SUBSET S : Cardinality(s) = n /\ h[s] # m[s]
      BY <3>1
    <3>3. s # {}
      BY <2>1, <3>2 DEF Measures
    <3> DEFINE t == s \ {pick[s]}
    <3>4. pick[s] \in s /\ t \in SUBSET S
      BY <3>3 DEF Picks
    <3>5. IsFiniteSet(s) /\ Cardinality(s) \in Nat /\ Cardinality(t) = Cardinality(s) - 1
          /\ Cardinality(t) \in Nat
      <4>1. IsFiniteSet(s) /\ IsFiniteSet(t)
        BY <3>4, FS_Subset
      <4> QED
        BY <3>4, <4>1, FS_RemoveElement, FS_CardinalityType
    <3>6. h[t] = m[t]
      <4> SUFFICES ASSUME h[t] # m[t] PROVE FALSE
        OBVIOUS
      <4>1. Cardinality(t) \in Bad
        BY <3>4, <3>5
      <4>2. n \in Nat /\ n <= Cardinality(t)
        BY <3>1, <4>1
      <4> QED
        BY <3>2, <3>5, <4>2
    <3>7. h[s] = h[t] + w[pick[s]] \/ h[s] = w[pick[s]] + h[t]
      BY <2>1, <3>3
    <3> QED
      BY <1>0, <3>2, <3>3, <3>6, <3>7
  <2>3. Cardinality(S) \in Nat /\ S \in SUBSET S
    BY FS_CardinalityType
  <2> QED
    BY <2>2, <2>3
<1> QED
  BY <1>1, <1>2

(***************************************************************************)
(* Requests, and the units of their weight.                                *)
(***************************************************************************)
Weighed(R) == \A e \in R : e.weight \in Nat

\* A holder has one request.
Distinct(R) == \A e, f \in R : e.who = f.who => e = f

UnitsOf(R) == UNION {{e.who} \X (1..e.weight) : e \in R}
CostOf(R)  == Cardinality(UnitsOf(R))

\* Finitely many requests have finitely many units.
LEMMA UnitsFinite ==
    ASSUME NEW R, IsFiniteSet(R), Weighed(R)
    PROVE  IsFiniteSet(UnitsOf(R)) /\ CostOf(R) \in Nat
<1> DEFINE Of(e) == {e.who} \X (1..e.weight)
<1>1. IsFiniteSet({Of(e) : e \in R})
  <2> DEFINE T == {Of(e) : e \in R}
             f == [e \in R |-> Of(e)]
  <2>1. f \in Surjection(R, T)
    <3> HIDE DEF Of
    <3> QED
      BY DEF Surjection
  <2> HIDE DEF T, f
  <2>2. IsFiniteSet(T)
    BY <2>1, FS_Surjection
  <2> QED
    BY <2>2 DEF T
<1>2. \A e \in R : IsFiniteSet(Of(e))
  <2> SUFFICES ASSUME NEW e \in R PROVE IsFiniteSet(Of(e))
    OBVIOUS
  <2>1. e.weight \in Int /\ 1 \in Int
    BY DEF Weighed
  <2>2. IsFiniteSet(1..e.weight)
    BY <2>1, FS_Interval
  <2> QED
    BY <2>2, FS_Singleton, FS_Product
<1>3. IsFiniteSet(UNION {Of(e) : e \in R})
  <2> HIDE DEF Of
  <2> QED
    BY <1>1, <1>2, FS_UNION
<1>4. IsFiniteSet(UnitsOf(R))
  BY <1>3 DEF UnitsOf
<1> QED
  BY <1>4, FS_CardinalityType DEF CostOf

\* One request weighs what it says.
LEMMA CostOfOne ==
    ASSUME NEW e, e.weight \in Nat
    PROVE  CostOf({e}) = e.weight
<1>1. UnitsOf({e}) = {e.who} \X (1..e.weight)
  BY DEF UnitsOf
<1>2. IsFiniteSet(1..e.weight) /\ Cardinality(1..e.weight) = e.weight
  <2>1. e.weight \in Int /\ 1 \in Int
    OBVIOUS
  <2> QED
    BY <2>1, FS_Interval
<1>3. IsFiniteSet({e.who}) /\ Cardinality({e.who}) = 1
  BY FS_Singleton
<1>4. Cardinality({e.who} \X (1..e.weight)) = 1 * e.weight
  BY <1>2, <1>3, FS_Product
<1>5. CostOf({e}) = 1 * e.weight
  BY <1>1, <1>4 DEF CostOf
<1> QED
  BY <1>5

\* The requests of other holders weigh apart.
LEMMA CostOfBoth ==
    ASSUME NEW R, NEW Q, IsFiniteSet(R), IsFiniteSet(Q), Weighed(R \cup Q), Distinct(R \cup Q),
           R \cap Q = {}
    PROVE  CostOf(R \cup Q) = CostOf(R) + CostOf(Q)
<1>1. IsFiniteSet(UnitsOf(R)) /\ IsFiniteSet(UnitsOf(Q)) /\ CostOf(R) \in Nat /\ CostOf(Q) \in Nat
  BY UnitsFinite DEF Weighed
<1>2. UnitsOf(R \cup Q) = UnitsOf(R) \cup UnitsOf(Q)
  BY DEF UnitsOf
<1>3. UnitsOf(R) \cap UnitsOf(Q) = {}
  <2> SUFFICES ASSUME NEW u, u \in UnitsOf(R), u \in UnitsOf(Q) PROVE FALSE
    OBVIOUS
  <2>1. PICK e \in R : u \in {e.who} \X (1..e.weight)
    BY DEF UnitsOf
  <2>2. PICK f \in Q : u \in {f.who} \X (1..f.weight)
    BY DEF UnitsOf
  <2>3. e.who = f.who
    BY <2>1, <2>2
  <2> QED
    BY <2>3 DEF Distinct
<1>4. Cardinality(UnitsOf(R) \cup UnitsOf(Q)) = Cardinality(UnitsOf(R)) + Cardinality(UnitsOf(Q))
                                                 - Cardinality(UnitsOf(R) \cap UnitsOf(Q))
  BY <1>1, FS_Union
<1>5. Cardinality(UnitsOf(R) \cap UnitsOf(Q)) = 0
  BY <1>3, FS_EmptySet
<1>6. CostOf(R \cup Q) = Cardinality(UnitsOf(R) \cup UnitsOf(Q))
  BY <1>2 DEF CostOf
<1>7. CostOf(R) = Cardinality(UnitsOf(R)) /\ CostOf(Q) = Cardinality(UnitsOf(Q))
  BY DEF CostOf
<1>8. Cardinality(UnitsOf(R)) \in Nat /\ Cardinality(UnitsOf(Q)) \in Nat
  BY <1>1, <1>7
<1>9. Cardinality(UnitsOf(R) \cup UnitsOf(Q)) = Cardinality(UnitsOf(R)) + Cardinality(UnitsOf(Q))
  BY <1>4, <1>5, <1>8
<1> QED
  BY <1>6, <1>7, <1>9

\* One request more.
LEMMA CostOfMore ==
    ASSUME NEW R, IsFiniteSet(R), NEW e, e \notin R, Weighed(R \cup {e}), Distinct(R \cup {e})
    PROVE  CostOf(R \cup {e}) = CostOf(R) + e.weight
<1>1. IsFiniteSet({e}) /\ e.weight \in Nat /\ R \cap {e} = {}
  BY FS_Singleton DEF Weighed
<1>2. CostOf({e}) = e.weight
  BY <1>1, CostOfOne
<1>3. CostOf(R \cup {e}) = CostOf(R) + CostOf({e})
  BY <1>1, CostOfBoth
<1> QED
  BY <1>2, <1>3

\* Fewer requests: what is left weighs the rest.
LEMMA CostOfRest ==
    ASSUME NEW R, IsFiniteSet(R), Weighed(R), Distinct(R), NEW Q \in SUBSET R
    PROVE  CostOf(R \ Q) = CostOf(R) - CostOf(Q) /\ CostOf(Q) <= CostOf(R)
<1>1. IsFiniteSet(Q) /\ IsFiniteSet(R \ Q) /\ (R \ Q) \cup Q = R /\ (R \ Q) \cap Q = {}
  BY FS_Subset
<1>2. CostOf(R) = CostOf(R \ Q) + CostOf(Q)
  BY <1>1, CostOfBoth
<1>3. CostOf(R \ Q) \in Nat /\ CostOf(Q) \in Nat
  BY <1>1, UnitsFinite DEF Weighed
<1> QED
  BY <1>2, <1>3

(***************************************************************************)
(* The semaphore (golang.org/x/sync/semaphore): it counts the requests     *)
(* that it granted, and those in its queue are the rest of R.              *)
(***************************************************************************)
OneEach(q) == \A i, j \in DOMAIN q : q[i] = q[j] => i = j

Semaphore(sem, size, R) ==
    /\ sem = [used |-> sem.used, queue |-> sem.queue]
    /\ IsFiniteSet(R) /\ Weighed(R) /\ Distinct(R)
    /\ sem.queue \in Seq(R) /\ OneEach(sem.queue)
    /\ sem.used = CostOf(R \ ToSet(sem.queue)) /\ sem.used <= size

\* The weight of a queue is what its requests weigh.
LEMMA QueueWeightIs ==
    ASSUME NEW R, IsFiniteSet(R), Weighed(R), Distinct(R), NEW q \in Seq(R), OneEach(q)
    PROVE  QueueWeight(q) = CostOf(ToSet(q)) /\ IsFiniteSet(ToSet(q)) /\ ToSet(q) \subseteq R
<1> DEFINE n == Len(q)
           S == 1..n
           At1(s) == {q[i] : i \in s}
           w == [i \in S |-> q[i].weight]
           pick == [s \in SUBSET S |-> Max(s)]
           m == [s \in SUBSET S |-> CostOf(At1(s))]
           Is(h) == h = [s \in SUBSET (DOMAIN q) |-> IF s = {} THEN 0
                            ELSE h[s \ {Max(s)}] + q[Max(s)].weight]
           fold == CHOOSE h : Is(h)
<1>1. n \in Nat /\ DOMAIN q = S /\ IsFiniteSet(S) /\ \A i \in S : q[i] \in R
  <2>1. n \in Nat /\ DOMAIN q = S /\ \A i \in S : q[i] \in R
    OBVIOUS
  <2>2. n \in Int /\ 1 \in Int
    BY <2>1
  <2> QED
    BY <2>1, <2>2, FS_Interval
<1>2. \A s \in SUBSET S : At1(s) \subseteq R /\ IsFiniteSet(At1(s))
  BY <1>1, FS_Subset
<1>3. Measures(m, S, w)
  <2>1. m \in [SUBSET S -> Nat]
    <3>1. \A s \in SUBSET S : CostOf(At1(s)) \in Nat
      <4> SUFFICES ASSUME NEW s \in SUBSET S PROVE CostOf(At1(s)) \in Nat
        OBVIOUS
      <4> HIDE DEF At1, S
      <4>1. Weighed(At1(s))
        BY <1>2 DEF Weighed
      <4> QED
        BY <1>2, <4>1, UnitsFinite
    <3> HIDE DEF At1, S
    <3> QED
      BY <3>1
  <2>2. w \in [S -> Nat]
    BY <1>1 DEF Weighed
  <2>3. m[{}] = 0
    <3>1. UnitsOf(At1({})) = {}
      BY DEF UnitsOf
    <3>2. CostOf(At1({})) = 0
      BY <3>1, FS_EmptySet DEF CostOf
    <3> HIDE DEF At1
    <3> QED
      BY <3>2
  <2>4. ASSUME NEW s \in SUBSET S, NEW x \in s PROVE m[s] = m[s \ {x}] + w[x]
    <3> DEFINE t == s \ {x}
    <3>1. At1(s) = At1(t) \cup {q[x]} /\ q[x] \notin At1(t)
      BY <1>1 DEF OneEach
    <3>2. t \in SUBSET S /\ At1(t) \subseteq R /\ IsFiniteSet(At1(t)) /\ q[x] \in R
      BY <1>1, <1>2
    <3> HIDE DEF At1
    <3>3. Weighed(At1(t) \cup {q[x]}) /\ Distinct(At1(t) \cup {q[x]})
      BY <3>2 DEF Weighed, Distinct
    <3>4. CostOf(At1(s)) = CostOf(At1(t)) + q[x].weight
      BY <3>1, <3>2, <3>3, CostOfMore
    <3> HIDE DEF t
    <3>5. m[t] = CostOf(At1(t)) /\ m[s] = CostOf(At1(s)) /\ w[x] = q[x].weight
      BY <3>2
    <3> QED
      BY <3>4, <3>5 DEF t
  <2> HIDE DEF m, w, S
  <2> QED
    BY <2>1, <2>2, <2>3, <2>4 DEF Measures
<1>4. ASSUME NEW s \in SUBSET S, s # {} PROVE Max(s) \in s
  <2>1. s \in SUBSET (0..n)
    BY <1>1
  <2> QED
    BY <1>1, <1>4, <2>1, Greatest
<1>5. Picks(pick, S)
  BY <1>4 DEF Picks
<1>6. \A h : Is(h) <=> Folds(h, S, pick, w)
  <2> TAKE h
  <2>1. ASSUME NEW s \in SUBSET S, s # {} PROVE pick[s] = Max(s) /\ w[Max(s)] = q[Max(s)].weight
    BY <1>4, <2>1
  <2>2. [s \in SUBSET S |-> IF s = {} THEN 0 ELSE h[s \ {Max(s)}] + q[Max(s)].weight]
        = [s \in SUBSET S |-> IF s = {} THEN 0 ELSE h[s \ {pick[s]}] + w[pick[s]]]
    <3> HIDE DEF pick, w, S
    <3> QED
      BY <2>1
  <2> HIDE DEF pick, w, S
  <2> QED
    BY <1>1, <2>2 DEF Folds
<1>7. Folds(m, S, pick, w) /\ \A h : Folds(h, S, pick, w) => h[S] = m[S]
  <2> HIDE DEF m, S, pick, w
  <2> QED
    BY <1>1, <1>3, <1>5, FoldIsMeasure
<1>8. Is(fold)
  <2>1. Is(m)
    <3> HIDE DEF Is, m, S, pick, w
    <3> QED
      BY <1>6, <1>7
  <2> HIDE DEF Is, m
  <2> QED
    BY <2>1
<1>9. QueueWeight(q) = fold[DOMAIN q]
  BY DEF QueueWeight, FoldLeft, MapThenFoldSet
<1>10. fold[S] = m[S]
  <2> HIDE DEF Is, fold, m, S, pick, w
  <2> QED
    BY <1>6, <1>7, <1>8
<1>11. At1(S) = ToSet(q)
  BY <1>1 DEF ToSet
<1>12. m[S] = CostOf(At1(S)) /\ S \in SUBSET S
  <2> HIDE DEF At1, S
  <2> QED
    OBVIOUS
<1> HIDE DEF fold, m, S, At1
<1> QED
  BY <1>1, <1>2, <1>9, <1>10, <1>11, <1>12

\* What it grants is a front of the queue.
LEMMA Grants ==
    ASSUME NEW size \in Nat, NEW R, NEW sem, Semaphore(sem, size, R)
    PROVE  Semaphore(Notify(sem, size), size, R) /\ ToSet(Notify(sem, size).queue) \subseteq ToSet(sem.queue)
<1> DEFINE q == sem.queue
           H == R \ ToSet(q)
           fits == {n \in 0..Len(q) : sem.used + QueueWeight(SubSeq(q, 1, n)) <= size}
           n == Max(fits)
           front == SubSeq(q, 1, n)
           back == SubSeq(q, n + 1, Len(q))
<1>1. /\ IsFiniteSet(R) /\ Weighed(R) /\ Distinct(R) /\ q \in Seq(R) /\ OneEach(q)
      /\ sem.used = CostOf(H) /\ sem.used <= size
  BY DEF Semaphore
<1>2. Len(q) \in Nat /\ DOMAIN q = 1..Len(q) /\ \A i \in 1..Len(q) : q[i] \in R
  BY <1>1
<1>3. IsFiniteSet(H) /\ Weighed(H) /\ CostOf(H) \in Nat
  <2>1. IsFiniteSet(H) /\ Weighed(H)
    BY <1>1, FS_Subset DEF Weighed
  <2> QED
    BY <2>1, UnitsFinite
<1>4. ASSUME NEW k \in 0..Len(q)
      PROVE  LET a == SubSeq(q, 1, k)
                 b == SubSeq(q, k + 1, Len(q))
             IN  /\ a \in Seq(R) /\ OneEach(a) /\ b \in Seq(R) /\ OneEach(b)
                 /\ ToSet(a) \cap ToSet(b) = {} /\ ToSet(a) \cup ToSet(b) = ToSet(q)
  <2> DEFINE a == SubSeq(q, 1, k)
             b == SubSeq(q, k + 1, Len(q))
  <2>1. /\ a \in Seq(R) /\ Len(a) = k /\ DOMAIN a = 1..k /\ \A i \in 1..k : a[i] = q[i]
    BY <1>1, <1>2
  <2>2. /\ b \in Seq(R) /\ Len(b) = Len(q) - k /\ DOMAIN b = 1..(Len(q) - k)
        /\ \A i \in 1..(Len(q) - k) : b[i] = q[k + i]
    <3>1. b \in Seq(R) /\ Len(b) = Len(q) - k
      BY <1>1, <1>2
    <3>2. \A i \in 1..(Len(q) - k) : b[i] = q[k + i]
      BY <1>1, <1>2
    <3> QED
      BY <1>2, <3>1, <3>2
  <2> HIDE DEF a, b
  <2>3. OneEach(a)
    BY <1>1, <1>2, <2>1 DEF OneEach
  <2>4. OneEach(b)
    <3> SUFFICES ASSUME NEW i \in DOMAIN b, NEW j \in DOMAIN b, b[i] = b[j] PROVE i = j
      BY DEF OneEach
    <3>1. k + i \in DOMAIN q /\ k + j \in DOMAIN q /\ q[k + i] = q[k + j]
      BY <1>2, <2>2, SMTT(30)
    <3>2. k + i = k + j
      BY <1>1, <3>1 DEF OneEach
    <3> QED
      BY <2>2, <3>2
  <2>5. ToSet(a) = {q[i] : i \in 1..k}
    BY <2>1 DEF ToSet
  <2>6. ToSet(b) = {q[i] : i \in (k + 1)..Len(q)}
    <3>1. ASSUME NEW i \in 1..(Len(q) - k) PROVE b[i] \in {q[j] : j \in (k + 1)..Len(q)}
      <4>1. k + i \in (k + 1)..Len(q) /\ b[i] = q[k + i]
        BY <1>2, <2>2
      <4> QED
        BY <4>1
    <3>2. ASSUME NEW i \in (k + 1)..Len(q) PROVE q[i] \in {b[j] : j \in 1..(Len(q) - k)}
      <4>1. i - k \in 1..(Len(q) - k) /\ b[i - k] = q[k + (i - k)] /\ k + (i - k) = i
        BY <1>2, <2>2
      <4> QED
        BY <4>1
    <3> QED
      BY <2>2, <3>1, <3>2 DEF ToSet
  <2>7. ToSet(q) = {q[i] : i \in 1..Len(q)}
    BY <1>2 DEF ToSet
  <2>8. 1..Len(q) = (1..k) \cup ((k + 1)..Len(q)) /\ (1..k) \cap ((k + 1)..Len(q)) = {}
    BY <1>2
  <2>9. ToSet(a) \cap ToSet(b) = {}
    <3> SUFFICES ASSUME NEW i \in 1..k, NEW j \in (k + 1)..Len(q), q[i] = q[j] PROVE FALSE
      BY <2>5, <2>6
    <3>1. i \in DOMAIN q /\ j \in DOMAIN q /\ i # j
      BY <1>2
    <3> QED
      BY <1>1, <3>1 DEF OneEach
  <2>10. ToSet(a) \cup ToSet(b) = ToSet(q)
    BY <2>5, <2>6, <2>7, <2>8
  <2> QED
    BY <2>1, <2>2, <2>3, <2>4, <2>9, <2>10 DEF a, b
<1>5. n \in 0..Len(q) /\ sem.used + QueueWeight(front) <= size
  <2>1. QueueWeight(SubSeq(q, 1, 0)) = 0
    <3>1. SubSeq(q, 1, 0) = <<>>
      BY <1>1, <1>2
    <3>2. <<>> \in Seq(R) /\ OneEach(<<>>) /\ ToSet(<<>>) = {}
      BY DEF OneEach, ToSet
    <3>3. QueueWeight(<<>>) = CostOf({})
      BY <1>1, <3>2, QueueWeightIs
    <3>4. UnitsOf({}) = {}
      BY DEF UnitsOf
    <3> QED
      BY <3>1, <3>3, <3>4, FS_EmptySet DEF CostOf
  <2>2. 0 \in fits
    BY <1>1, <1>2, <1>3, <2>1
  <2>3. fits \in SUBSET (0..Len(q))
    OBVIOUS
  <2>4. n \in fits
    <3> HIDE DEF fits, q
    <3> QED
      BY <1>2, <2>2, <2>3, Greatest
  <2> HIDE DEF n
  <2> QED
    BY <2>4
<1> HIDE DEF n
<1>6. /\ front \in Seq(R) /\ OneEach(front) /\ back \in Seq(R) /\ OneEach(back)
      /\ ToSet(front) \cap ToSet(back) = {} /\ ToSet(front) \cup ToSet(back) = ToSet(q)
  BY <1>4, <1>5
<1> DEFINE s == Notify(sem, size)
<1>7. s = [used |-> sem.used + QueueWeight(front), queue |-> back]
  BY DEF Notify, n
<1> HIDE DEF front, back, q, s, H
<1>8. QueueWeight(front) = CostOf(ToSet(front)) /\ IsFiniteSet(ToSet(front)) /\ ToSet(front) \subseteq R
  BY <1>1, <1>6, QueueWeightIs
<1>9. ToSet(q) \subseteq R /\ ToSet(back) \subseteq R
  BY <1>1, <1>6, QueueWeightIs
<1>10. R \ ToSet(back) = H \cup ToSet(front) /\ H \cap ToSet(front) = {}
  BY <1>6, <1>8, <1>9 DEF H
<1>11. CostOf(R \ ToSet(back)) = CostOf(H) + CostOf(ToSet(front))
  <2>1. Weighed(H \cup ToSet(front)) /\ Distinct(H \cup ToSet(front))
    BY <1>1, <1>8 DEF Weighed, Distinct, H
  <2> QED
    BY <1>3, <1>8, <1>10, <2>1, CostOfBoth
<1>12. s.used = CostOf(R \ ToSet(s.queue)) /\ s.used <= size /\ s = [used |-> s.used, queue |-> s.queue]
  BY <1>1, <1>5, <1>7, <1>8, <1>11
<1>13. Semaphore(s, size, R)
  BY <1>1, <1>6, <1>7, <1>12 DEF Semaphore
<1>14. ToSet(s.queue) \subseteq ToSet(q)
  BY <1>6, <1>7
<1> QED
  BY <1>13, <1>14 DEF s, q

\* A request is granted or waits.
LEMMA Acquires ==
    ASSUME NEW size \in Nat, NEW R, NEW sem, Semaphore(sem, size, R),
           NEW e, e \notin R, e.weight \in Nat, \A f \in R : f.who # e.who
    PROVE  LET s == Acquire(sem, size, e)
           IN  Semaphore(s, size, R \cup {e}) /\ ToSet(s.queue) \subseteq ToSet(sem.queue) \cup {e}
<1> DEFINE q == sem.queue
           asked == [sem EXCEPT !.queue = Append(@, e)]
           Q == R \cup {e}
<1>1. /\ IsFiniteSet(R) /\ Weighed(R) /\ Distinct(R) /\ q \in Seq(R) /\ OneEach(q)
      /\ sem = [used |-> sem.used, queue |-> q] /\ sem.used = CostOf(R \ ToSet(q)) /\ sem.used <= size
  BY DEF Semaphore
<1>2. asked = [used |-> sem.used, queue |-> Append(q, e)]
  <2>1. \A x : [sem EXCEPT !.queue = x] = [used |-> sem.used, queue |-> x]
    BY <1>1
  <2>2. asked = [sem EXCEPT !.queue = Append(q, e)]
    OBVIOUS
  <2> HIDE DEF asked
  <2> QED
    BY <2>1, <2>2
<1>3. Len(q) \in Nat /\ DOMAIN q = 1..Len(q) /\ \A i \in 1..Len(q) : q[i] \in R
  BY <1>1
<1>4. q \in Seq(Q) /\ Append(q, e) \in Seq(Q) /\ DOMAIN Append(q, e) = 1..(Len(q) + 1)
      /\ \A i \in 1..(Len(q) + 1) : Append(q, e)[i] = IF i = Len(q) + 1 THEN e ELSE q[i]
  <2>1. q \in Seq(Q) /\ e \in Q
    BY <1>1, SeqMonotonic
  <2> HIDE DEF Q
  <2>2. Append(q, e) \in Seq(Q)
    BY <2>1
  <2> QED
    BY <1>3, <2>1, <2>2, AppendProperties
<1>5. OneEach(Append(q, e))
  <2> SUFFICES ASSUME NEW i \in 1..(Len(q) + 1), NEW j \in 1..(Len(q) + 1),
                      Append(q, e)[i] = Append(q, e)[j]
               PROVE  i = j
    BY <1>4 DEF OneEach
  <2>1. CASE i = Len(q) + 1 \/ j = Len(q) + 1
    BY <1>3, <1>4, <2>1
  <2>2. CASE i # Len(q) + 1 /\ j # Len(q) + 1
    <3>1. i \in DOMAIN q /\ j \in DOMAIN q /\ q[i] = q[j]
      BY <1>3, <1>4, <2>2
    <3> QED
      BY <1>1, <3>1 DEF OneEach
  <2> QED
    BY <2>1, <2>2
<1>6. ToSet(Append(q, e)) = ToSet(q) \cup {e}
  <2>1. ToSet(Append(q, e)) = {Append(q, e)[i] : i \in 1..(Len(q) + 1)} /\ ToSet(q) = {q[i] : i \in 1..Len(q)}
    BY <1>3, <1>4 DEF ToSet
  <2>2. \A i \in 1..(Len(q) + 1) : i = Len(q) + 1 \/ i \in 1..Len(q)
    BY <1>3
  <2>3. Len(q) + 1 \in 1..(Len(q) + 1) /\ \A i \in 1..Len(q) : i \in 1..(Len(q) + 1) /\ i # Len(q) + 1
    BY <1>3
  <2> QED
    BY <1>4, <2>1, <2>2, <2>3
<1>7. IsFiniteSet(Q) /\ Weighed(Q) /\ Distinct(Q)
  BY <1>1, FS_AddElement DEF Weighed, Distinct
<1>8. Q \ ToSet(Append(q, e)) = R \ ToSet(q)
  BY <1>6
<1>9. Semaphore(asked, size, Q)
  <2> HIDE DEF Q, q
  <2> QED
    BY <1>1, <1>2, <1>4, <1>5, <1>7, <1>8 DEF Semaphore
<1>10. Acquire(sem, size, e) = Notify(asked, size)
  BY DEF Acquire
<1> HIDE DEF asked, Q, q
<1>11. /\ Semaphore(Notify(asked, size), size, Q)
       /\ ToSet(Notify(asked, size).queue) \subseteq ToSet(asked.queue)
  BY <1>9, Grants
<1> QED
  BY <1>2, <1>6, <1>10, <1>11 DEF q, Q

\* Weight that was granted comes back.
LEMMA Releases ==
    ASSUME NEW size \in Nat, NEW R, NEW sem, Semaphore(sem, size, R),
           NEW G, G \subseteq R \ ToSet(sem.queue)
    PROVE  LET s == Release(sem, size, CostOf(G))
           IN  Semaphore(s, size, R \ G) /\ ToSet(s.queue) \subseteq ToSet(sem.queue)
<1> DEFINE q == sem.queue
           less == [sem EXCEPT !.used = @ - CostOf(G)]
           Q == R \ G
           H == R \ ToSet(q)
<1>1. /\ IsFiniteSet(R) /\ Weighed(R) /\ Distinct(R) /\ q \in Seq(R) /\ OneEach(q)
      /\ sem = [used |-> sem.used, queue |-> q] /\ sem.used = CostOf(H) /\ sem.used <= size
  BY DEF Semaphore
<1>2. less = [used |-> CostOf(H) - CostOf(G), queue |-> q]
  BY <1>1
<1>3. IsFiniteSet(H) /\ Weighed(H) /\ Distinct(H) /\ G \in SUBSET H
  BY <1>1, FS_Subset DEF Weighed, Distinct
<1>4. CostOf(H \ G) = CostOf(H) - CostOf(G) /\ CostOf(G) \in Nat /\ CostOf(H) \in Nat
  <2>1. IsFiniteSet(G) /\ Weighed(G)
    BY <1>3, FS_Subset DEF Weighed
  <2> HIDE DEF H
  <2> QED
    BY <1>3, <2>1, CostOfRest, UnitsFinite
<1>5. Q \ ToSet(q) = H \ G
  OBVIOUS
<1>6. q \in Seq(Q)
  <2>1. Len(q) \in Nat /\ DOMAIN q = 1..Len(q) /\ \A i \in 1..Len(q) : q[i] \in R
    BY <1>1
  <2>2. \A i \in 1..Len(q) : q[i] \in Q
    BY <2>1 DEF ToSet
  <2> HIDE DEF Q
  <2> QED
    BY <1>1, <2>1, <2>2, ElementOfSeq, IsASeq
<1>7. IsFiniteSet(Q) /\ Weighed(Q) /\ Distinct(Q)
  BY <1>1, FS_Subset DEF Weighed, Distinct
<1>8. CostOf(H) - CostOf(G) <= size
  BY <1>1, <1>4
<1>9. Semaphore(less, size, Q)
  <2> HIDE DEF Q, q, H
  <2> QED
    BY <1>1, <1>2, <1>4, <1>5, <1>6, <1>7, <1>8 DEF Semaphore
<1>10. Release(sem, size, CostOf(G)) = Notify(less, size)
  BY DEF Release
<1> HIDE DEF less, Q, q
<1>11. /\ Semaphore(Notify(less, size), size, Q)
       /\ ToSet(Notify(less, size).queue) \subseteq ToSet(less.queue)
  BY <1>9, Grants
<1> QED
  BY <1>2, <1>10, <1>11 DEF q, Q

\* A request that waits is taken back.
LEMMA Withdraws ==
    ASSUME NEW size \in Nat, NEW R, NEW sem, Semaphore(sem, size, R), NEW e \in ToSet(sem.queue)
    PROVE  LET s == Withdraw(sem, size, e)
           IN  Semaphore(s, size, R \ {e}) /\ ToSet(s.queue) \subseteq ToSet(sem.queue) \ {e}
<1> DEFINE q == sem.queue
           n == CHOOSE i \in DOMAIN q : q[i] = e
           rest == RemoveAt(q, n)
           less == [sem EXCEPT !.queue = RemoveAt(@, n)]
           Q == R \ {e}
<1>1. /\ IsFiniteSet(R) /\ Weighed(R) /\ Distinct(R) /\ q \in Seq(R) /\ OneEach(q)
      /\ sem = [used |-> sem.used, queue |-> q] /\ sem.used = CostOf(R \ ToSet(q)) /\ sem.used <= size
  BY DEF Semaphore
<1>2. n \in DOMAIN q /\ q[n] = e
  BY DEF ToSet
<1>3. less = [used |-> sem.used, queue |-> rest]
  BY <1>1
<1>4. Len(q) \in Nat /\ DOMAIN q = 1..Len(q) /\ \A i \in 1..Len(q) : q[i] \in R
  BY <1>1
<1> HIDE DEF n
<1> DEFINE a == SubSeq(q, 1, n - 1)
           b == SubSeq(q, n + 1, Len(q))
           At1(i) == IF i < n THEN i ELSE i + 1
<1>5. n \in 1..Len(q) /\ rest = a \o b
  BY <1>2, <1>4 DEF RemoveAt
<1>6. a \in Seq(R) /\ Len(a) = n - 1 /\ \A i \in 1..(n - 1) : a[i] = q[i]
  BY <1>1, <1>4, <1>5
<1>7. b \in Seq(R) /\ Len(b) = Len(q) - n /\ \A i \in 1..(Len(q) - n) : b[i] = q[n + i]
  <2>1. b \in Seq(R) /\ Len(b) = Len(q) - n
    BY <1>1, <1>4, <1>5
  <2>2. \A i \in 1..(Len(q) - n) : b[i] = q[n + i]
    BY <1>1, <1>4, <1>5, SMTT(30)
  <2> QED
    BY <2>1, <2>2
<1>8. /\ rest \in Seq(R) /\ DOMAIN rest = 1..(Len(q) - 1)
      /\ \A i \in 1..(Len(q) - 1) : At1(i) \in DOMAIN q /\ At1(i) # n /\ rest[i] = q[At1(i)]
  <2> HIDE DEF a, b, rest
  <2>1. a \o b \in Seq(R) /\ Len(a \o b) = Len(q) - 1
    <3>1. a \o b \in Seq(R) /\ Len(a \o b) = Len(a) + Len(b)
      BY <1>6, <1>7, ConcatProperties
    <3>2. (n - 1) + (Len(q) - n) = Len(q) - 1
      BY <1>4, <1>5
    <3> QED
      BY <1>6, <1>7, <3>1, <3>2
  <2>2. DOMAIN rest = 1..(Len(q) - 1)
    BY <1>4, <1>5, <2>1
  <2>3. \A i \in 1..(Len(q) - 1) : (a \o b)[i] = IF i <= n - 1 THEN a[i] ELSE b[i - (n - 1)]
    BY <1>4, <1>5, <1>6, <1>7, SMTT(30)
  <2>4. ASSUME NEW i \in 1..(Len(q) - 1)
        PROVE  At1(i) \in DOMAIN q /\ At1(i) # n /\ rest[i] = q[At1(i)]
    <3>1. CASE i < n
      BY <1>4, <1>5, <1>6, <2>3, <3>1
    <3>2. CASE ~(i < n)
      <4>1. i - (n - 1) \in 1..(Len(q) - n) /\ n + (i - (n - 1)) = i + 1 /\ ~(i <= n - 1)
        BY <1>4, <1>5, <3>2
      <4>2. rest[i] = b[i - (n - 1)] /\ b[i - (n - 1)] = q[n + (i - (n - 1))]
        BY <1>5, <1>7, <2>3, <4>1
      <4>3. At1(i) = i + 1 /\ i + 1 \in 1..Len(q) /\ i + 1 # n
        BY <1>4, <1>5, <3>2
      <4> QED
        BY <1>4, <4>1, <4>2, <4>3
    <3> QED
      BY <3>1, <3>2
  <2> QED
    BY <1>5, <2>1, <2>2, <2>4
<1> HIDE DEF a, b, rest
<1>9. OneEach(rest)
  <2> SUFFICES ASSUME NEW i \in 1..(Len(q) - 1), NEW j \in 1..(Len(q) - 1), rest[i] = rest[j] PROVE i = j
    BY <1>8 DEF OneEach
  <2>1. At1(i) = At1(j)
    BY <1>1, <1>8 DEF OneEach
  <2> QED
    BY <1>4, <1>5, <2>1
<1>10. ToSet(rest) = ToSet(q) \ {e}
  <2>1. ASSUME NEW i \in 1..(Len(q) - 1) PROVE rest[i] \in ToSet(q) /\ rest[i] # e
    BY <1>1, <1>2, <1>8 DEF OneEach, ToSet
  <2>2. ASSUME NEW j \in DOMAIN q, q[j] # e PROVE \E i \in 1..(Len(q) - 1) : rest[i] = q[j]
    <3>1. j # n
      BY <1>2, <2>2
    <3>2. CASE j < n
      <4>1. j \in 1..(Len(q) - 1) /\ At1(j) = j
        BY <1>4, <1>5, <3>2
      <4> QED
        BY <1>8, <4>1
    <3>3. CASE j > n
      <4>1. j - 1 \in 1..(Len(q) - 1) /\ At1(j - 1) = j
        BY <1>4, <1>5, <3>3
      <4> QED
        BY <1>8, <4>1
    <3>4. j < n \/ j > n
      BY <1>4, <1>5, <3>1
    <3> QED
      BY <3>2, <3>3, <3>4
  <2>3. ToSet(rest) = {rest[i] : i \in 1..(Len(q) - 1)} /\ ToSet(q) = {q[j] : j \in DOMAIN q}
    BY <1>8 DEF ToSet
  <2> HIDE DEF At1, q
  <2> QED
    BY <2>1, <2>2, <2>3
<1>11. rest \in Seq(Q)
  <2>1. \A i \in 1..(Len(q) - 1) : rest[i] \in Q
    <3> SUFFICES ASSUME NEW i \in 1..(Len(q) - 1) PROVE rest[i] \in Q
      OBVIOUS
    <3>1. rest[i] \in R
      BY <1>4, <1>8
    <3>2. rest[i] # e
      BY <1>8, <1>10 DEF ToSet
    <3> QED
      BY <3>1, <3>2
  <2> HIDE DEF Q
  <2> QED
    BY <1>4, <1>8, <2>1, ElementOfSeq, IsASeq, LenProperties
<1>12. IsFiniteSet(Q) /\ Weighed(Q) /\ Distinct(Q)
  BY <1>1, FS_Subset DEF Weighed, Distinct
<1>13. Q \ ToSet(rest) = R \ ToSet(q)
  BY <1>10
<1>14. Semaphore(less, size, Q)
  <2> HIDE DEF Q, q
  <2> QED
    BY <1>1, <1>3, <1>9, <1>11, <1>12, <1>13 DEF Semaphore
<1>15. Withdraw(sem, size, e) = Notify(less, size)
  BY DEF Withdraw, n
<1> HIDE DEF less, Q, q
<1>16. /\ Semaphore(Notify(less, size), size, Q)
       /\ ToSet(Notify(less, size).queue) \subseteq ToSet(less.queue)
  BY <1>14, Grants
<1> QED
  BY <1>3, <1>10, <1>15, <1>16 DEF q, Q

\* The total that MapThenSumSet gives for the builds is the cost of their requests.
LEMMA SlotTotal ==
    ASSUME NEW S \in SUBSET Builds
    PROVE  /\ MapThenSumSet(SlotWeight, S) = CostOf({SlotRequest(b) : b \in S})
           /\ IsFiniteSet({SlotRequest(b) : b \in S}) /\ Weighed({SlotRequest(b) : b \in S})
           /\ Distinct({SlotRequest(b) : b \in S})
<1> DEFINE Of(s) == {SlotRequest(b) : b \in s}
           w == [b \in S |-> SlotWeight(b)]
           First(s) == CHOOSE x \in s : TRUE
           pick == [s \in SUBSET S |-> First(s)]
           m == [s \in SUBSET S |-> CostOf(Of(s))]
           Is(h) == h = [s \in SUBSET S |-> IF s = {} THEN 0
                            ELSE SlotWeight(First(s)) + h[s \ {First(s)}]]
           fold == CHOOSE h : Is(h)
<1>1. IsFiniteSet(S) /\ \A b \in S : SlotWeight(b) \in Nat
  <2>1. IsFiniteSet(S)
    BY BudgetAssumption, FS_Subset
  <2>2. ASSUME NEW b \in S PROVE SlotWeight(b) \in Nat
    <3>1. BuildWindows \in Nat
      BY BudgetAssumption DEF BuildWindows, Most
    <3>2. IndexWindow(b) \in Nat
      <4>1. Sharers(b) \in Nat \ {0} /\ Budget - 2 * MaxWeight \in Nat
        BY SharersFit, BudgetAssumption
      <4>2. 2 * Sharers(b) \in Nat \ {0}
        BY <4>1
      <4> QED
        BY <4>1, <4>2, DivBounds DEF IndexWindow
    <3> QED
      BY <3>1, <3>2 DEF SlotWeight, Least, Most
  <2> QED
    BY <2>1, <2>2
<1>2. ASSUME NEW s \in SUBSET S PROVE IsFiniteSet(Of(s)) /\ Weighed(Of(s)) /\ Distinct(Of(s))
  <2>1. Weighed(Of(s)) /\ Distinct(Of(s))
    BY <1>1 DEF Weighed, Distinct, SlotRequest
  <2>2. IsFiniteSet(s)
    BY <1>1, FS_Subset
  <2> DEFINE f == [b \in s |-> SlotRequest(b)]
  <2>3. f \in Surjection(s, Of(s))
    BY DEF Surjection
  <2> HIDE DEF f, Of
  <2> QED
    BY <2>1, <2>2, <2>3, FS_Surjection
<1>3. Measures(m, S, w)
  <2>1. m \in [SUBSET S -> Nat]
    <3> HIDE DEF Of
    <3>1. \A s \in SUBSET S : CostOf(Of(s)) \in Nat
      BY <1>2, UnitsFinite
    <3> QED
      BY <3>1
  <2>2. w \in [S -> Nat]
    BY <1>1
  <2>3. m[{}] = 0
    <3>1. UnitsOf(Of({})) = {}
      BY DEF UnitsOf
    <3>2. CostOf(Of({})) = 0
      BY <3>1, FS_EmptySet DEF CostOf
    <3> HIDE DEF Of
    <3> QED
      BY <3>2
  <2>4. ASSUME NEW s \in SUBSET S, NEW x \in s PROVE m[s] = m[s \ {x}] + w[x]
    <3> DEFINE t == s \ {x}
    <3>1. Of(s) = Of(t) \cup {SlotRequest(x)} /\ SlotRequest(x) \notin Of(t)
          /\ SlotRequest(x).weight = SlotWeight(x)
      BY DEF SlotRequest
    <3>2. t \in SUBSET S /\ IsFiniteSet(Of(t)) /\ Weighed(Of(s)) /\ Distinct(Of(s))
      <4> HIDE DEF Of
      <4> QED
        BY <1>2
    <3> HIDE DEF Of, t
    <3>3. CostOf(Of(s)) = CostOf(Of(t)) + SlotRequest(x).weight
      BY <3>1, <3>2, CostOfMore
    <3>4. m[t] = CostOf(Of(t)) /\ m[s] = CostOf(Of(s)) /\ w[x] = SlotWeight(x)
      BY <3>2
    <3> QED
      BY <3>1, <3>3, <3>4 DEF t
  <2> HIDE DEF m, w
  <2> QED
    BY <2>1, <2>2, <2>3, <2>4 DEF Measures
<1>4. Picks(pick, S)
  BY DEF Picks
<1>5. \A h : Is(h) <=> FoldsBack(h, S, pick, w)
  <2> TAKE h
  <2>1. ASSUME NEW s \in SUBSET S, s # {}
        PROVE  pick[s] = First(s) /\ w[First(s)] = SlotWeight(First(s))
    BY <2>1
  <2>2. [s \in SUBSET S |-> IF s = {} THEN 0
            ELSE SlotWeight(First(s)) + h[s \ {First(s)}]]
        = [s \in SUBSET S |-> IF s = {} THEN 0 ELSE w[pick[s]] + h[s \ {pick[s]}]]
    <3> HIDE DEF pick, w, First
    <3> QED
      BY <2>1
  <2> HIDE DEF pick, w
  <2> QED
    BY <2>2 DEF FoldsBack
<1>6. FoldsBack(m, S, pick, w) /\ \A h : FoldsBack(h, S, pick, w) => h[S] = m[S]
  <2> HIDE DEF m, pick, w
  <2> QED
    BY <1>1, <1>3, <1>4, FoldIsMeasure
<1>7. Is(fold)
  <2>1. Is(m)
    <3> HIDE DEF Is, m, pick, w
    <3> QED
      BY <1>5, <1>6
  <2> HIDE DEF Is, m
  <2> QED
    BY <2>1
<1>8. MapThenSumSet(SlotWeight, S) = fold[S]
  BY DEF MapThenSumSet, MapThenFoldSet
<1>9. fold[S] = m[S]
  <2> HIDE DEF Is, fold, m, pick, w
  <2> QED
    BY <1>5, <1>6, <1>7
<1>10. m[S] = CostOf(Of(S))
  <2> HIDE DEF Of
  <2> QED
    OBVIOUS
<1> HIDE DEF fold, m
<1> QED
  BY <1>2, <1>8, <1>9, <1>10

(***************************************************************************)
(* The requests of the documents.                                          *)
(***************************************************************************)
Modes  == {"full", "delta", "grown", "over", "vectors"}
Stages == {"unread", "asked", "named", "marked", "hand", "hand name", "pending", "model", "gone"}
Doings == {"receive", "finish", "switch", "add", "drain", "last", "delta", "send", "over"}
Asking == Weighs \cup {"asked"}

Typed(l, r) ==
    /\ r = [mode |-> r.mode, at |-> r.at, doing |-> r.doing, window |-> r.window,
            stop |-> r.stop, failed |-> r.failed]
    /\ r.mode \in Modes /\ r.at \in [DOMAIN Sizes[l[1]][r.mode] -> Stages]
    /\ r.doing \in Doings /\ r.window \in {"none", "normal", "large"}
    /\ r.stop \in BOOLEAN /\ r.failed \in BOOLEAN

AtOf(r, stages) == {d \in DOMAIN r.at : r.at[d] \in stages}
Req(l, r, d)    == [who |-> <<l, d>>, weight |-> Weight(Sizes[l[1]][r.mode][d])]
Asks(l, r)      == {Req(l, r, d) : d \in AtOf(r, Asking)}
Queues(l, r)    == {Req(l, r, d) : d \in AtOf(r, {"asked"})}

\* A document weighs what it holds, at most the largest weight.
LEMMA SizesAre ==
    ASSUME NEW l \in Lanes, NEW r, Typed(l, r), NEW d \in DOMAIN r.at
    PROVE  Sizes[l[1]][r.mode][d] \in Nat /\ Req(l, r, d).weight \in 0..MaxWeight
<1> DEFINE b == l[1]
<1>1. b \in Builds
  BY DEF Lanes
<1>2. d \in DOMAIN Sizes[b][r.mode] /\ r.mode \in Modes
  BY DEF Typed
<1>3. Sizes[b] = [full |-> Text[b], delta |-> Delta[b], grown |-> Grown[b], over |-> <<>>,
                  vectors |-> [e \in DOMAIN Vectors[b] |-> Vectors[b][e].size]]
  BY <1>1 DEF Sizes
<1>4. Text[b] \in Seq(Nat) /\ Delta[b] \in Seq(Nat) /\ Grown[b] \in Seq(Nat)
      /\ Vectors[b] \in Seq([size : Nat, rows : Nat])
  BY <1>1, BudgetAssumption
<1>5. Sizes[b][r.mode][d] \in Nat
  <2>1. CASE r.mode = "full"
    BY <1>2, <1>3, <1>4, <2>1
  <2>2. CASE r.mode = "delta"
    BY <1>2, <1>3, <1>4, <2>2
  <2>3. CASE r.mode = "grown"
    BY <1>2, <1>3, <1>4, <2>3
  <2>4. CASE r.mode = "over"
    BY <1>2, <1>3, <2>4
  <2>5. CASE r.mode = "vectors"
    <3>1. Sizes[b][r.mode] = [e \in DOMAIN Vectors[b] |-> Vectors[b][e].size]
      BY <1>3, <2>5
    <3>2. d \in DOMAIN Vectors[b] /\ Sizes[b][r.mode][d] = Vectors[b][d].size
      BY <1>2, <3>1
    <3>3. Vectors[b][d] \in [size : Nat, rows : Nat]
      <4> DEFINE v == Vectors[b]
                 T == [size : Nat, rows : Nat]
      <4>1. v \in Seq(T) /\ d \in DOMAIN v
        BY <1>4, <3>2
      <4> HIDE DEF v, T
      <4>2. v[d] \in T
        BY <4>1
      <4> QED
        BY <4>2 DEF v, T
    <3> QED
      BY <3>2, <3>3
  <2> QED
    BY <1>2, <2>1, <2>2, <2>3, <2>4, <2>5 DEF Modes
<1> HIDE DEF b
<1>6. MaxWeight \in Nat
  BY BudgetAssumption
<1> QED
  BY <1>5, <1>6 DEF Req, Weight, Least, b

\* What the documents D[l] of the lanes in L hold, and their requests.
UnitsIn(L, D) == UNION {Units(l, D[l]) : l \in L}
RequestsIn(L, D) == UNION {{Request(l, d) : d \in D[l]} : l \in L}

\* The units that some documents of some lanes hold are those of their requests.
LEMMA UnitsAreCost ==
    ASSUME NEW L \in SUBSET Lanes, NEW D,
           \A l \in L : Typed(l, lane[l]) /\ D[l] \subseteq DOMAIN lane[l].at,
           IsFiniteSet(RequestsIn(L, D))
    PROVE  Cardinality(UnitsIn(L, D)) = CostOf(RequestsIn(L, D))
<1> DEFINE R == RequestsIn(L, D)
           U == UnitsIn(L, D)
           V == UnitsOf(R)
           f == [v \in V |-> <<v[1][1], v[1][2], v[2]>>]
<1>1. ASSUME NEW l \in L, NEW d \in D[l]
      PROVE  /\ Request(l, d) \in R /\ Request(l, d).who = <<l, d>>
             /\ Request(l, d).weight \in 0..MaxWeight /\ Request(l, d).weight = Weight(Size(l, d))
  <2>1. Request(l, d) = Req(l, lane[l], d)
    BY DEF Request, Req, Size
  <2>2. Request(l, d).weight \in 0..MaxWeight
    BY <2>1, SizesAre
  <2> QED
    BY <2>2 DEF Request, RequestsIn
<1>2. ASSUME NEW e \in R PROVE \E l \in L : \E d \in D[l] : e = Request(l, d)
  BY DEF RequestsIn
<1> HIDE DEF R
<1>3. Weighed(R)
  BY <1>1, <1>2, BudgetAssumption DEF Weighed
<1>4. IsFiniteSet(V)
  BY <1>3, UnitsFinite DEF R
<1>5. ASSUME NEW v \in V
      PROVE  \E l \in L : \E d \in D[l] : \E k \in 1..Weight(Size(l, d)) :
                 v = <<<<l, d>>, k>> /\ f[v] = <<l, d, k>>
  <2>1. PICK e \in R : v \in {e.who} \X (1..e.weight)
    BY DEF UnitsOf
  <2>0. PICK l \in L : \E d \in D[l] : e = Request(l, d)
    BY <1>2
  <2>2. PICK d \in D[l] : e = Request(l, d)
    BY <2>0
  <2>3. v = <<<<l, d>>, v[2]>> /\ v[2] \in 1..Weight(Size(l, d))
    BY <1>1, <2>1, <2>2
  <2>4. f[v] = <<l, d, v[2]>>
    BY <2>3
  <2> QED
    BY <2>3, <2>4
<1>6. ASSUME NEW l \in L, NEW d \in D[l], NEW k \in 1..Weight(Size(l, d))
      PROVE  <<<<l, d>>, k>> \in V /\ <<l, d, k>> \in U
  <2>1. <<<<l, d>>, k>> \in {Request(l, d).who} \X (1..Request(l, d).weight)
    BY <1>1
  <2>2. <<<<l, d>>, k>> \in V
    BY <1>1, <2>1 DEF UnitsOf
  <2>3. k \in 1..MaxWeight /\ k <= Weight(Size(l, d))
    BY <1>1, BudgetAssumption
  <2>4. <<l, d, k>> \in Units(l, D[l])
    BY <2>3 DEF Units
  <2> QED
    BY <2>2, <2>4 DEF UnitsIn
<1>7. ASSUME NEW u \in U
      PROVE  \E l \in L : \E d \in D[l] : \E k \in 1..Weight(Size(l, d)) : u = <<l, d, k>>
  <2>1. PICK l \in L : u \in Units(l, D[l])
    BY DEF UnitsIn
  <2>2. u \in {l} \X D[l] \X (1..MaxWeight) /\ u[3] <= Weight(Size(l, u[2]))
    BY <2>1 DEF Units
  <2>3. u = <<l, u[2], u[3]>> /\ u[2] \in D[l] /\ u[3] \in 1..MaxWeight
    BY <2>2
  <2>4. u[3] \in 1..Weight(Size(l, u[2]))
    BY <1>1, <2>2, <2>3, BudgetAssumption
  <2> QED
    BY <2>3, <2>4
<1> HIDE DEF U, V
<1>8. f \in [V -> U]
  <2>1. \A v \in V : f[v] \in U
    BY <1>5, <1>6
  <2>2. f = [v \in V |-> f[v]]
    OBVIOUS
  <2> HIDE DEF f
  <2> QED
    BY <2>1, <2>2
<1>9. \A u \in U : \E v \in V : f[v] = u
  <2> SUFFICES ASSUME NEW u \in U PROVE \E v \in V : f[v] = u
    OBVIOUS
  <2>0. PICK l \in L : \E d \in D[l] : \E k \in 1..Weight(Size(l, d)) : u = <<l, d, k>>
    BY <1>7
  <2>4. PICK d \in D[l] : \E k \in 1..Weight(Size(l, d)) : u = <<l, d, k>>
    BY <2>0
  <2>1. PICK k \in 1..Weight(Size(l, d)) : u = <<l, d, k>>
    BY <2>4
  <2>2. <<<<l, d>>, k>> \in V
    BY <1>6
  <2>3. f[<<<<l, d>>, k>>] = <<l, d, k>>
    BY <2>2
  <2> QED
    BY <2>1, <2>2, <2>3
<1>10. \A v, x \in V : f[v] = f[x] => v = x
  <2> SUFFICES ASSUME NEW v \in V, NEW x \in V, f[v] = f[x] PROVE v = x
    OBVIOUS
  <2>1. \E l, d, k : v = <<<<l, d>>, k>> /\ f[v] = <<l, d, k>>
    BY <1>5
  <2>2. \E l, d, k : x = <<<<l, d>>, k>> /\ f[x] = <<l, d, k>>
    BY <1>5
  <2> HIDE DEF f
  <2>3. \A l, d, k, m, e, j : <<l, d, k>> = <<m, e, j>> => l = m /\ d = e /\ k = j
    OBVIOUS
  <2> QED
    BY <2>1, <2>2, <2>3
<1> HIDE DEF f
<1>11. f \in Bijection(V, U)
  BY <1>8, <1>9, <1>10 DEF Bijection, Injection, Surjection, IsInjective
<1>12. Cardinality(U) = Cardinality(V)
  BY <1>4, <1>11, FS_Bijection DEF ExistsBijection
<1> QED
  BY <1>12 DEF CostOf, R, U, V

(***************************************************************************)
(* The inductive invariant.                                                *)
(***************************************************************************)
AllAsks   == UNION {Asks(l, lane[l]) : l \in Lanes}
AllQueues == UNION {Queues(l, lane[l]) : l \in Lanes}

\* The reads count what the documents hold; only a document that asks is in the queue.
ReadsInv ==
    /\ Semaphore(reads, Budget, AllAsks)
    /\ ToSet(reads.queue) \subseteq AllQueues

SlotsOf(phases) == {SlotRequest(b) : b \in {b \in Builds : phase[b] \in phases}}

\* The same for the windows and the builds.
SlotsInv ==
    /\ Semaphore(slots, BuildWindows, SlotsOf({"wait", "run"}))
    /\ ToSet(slots.queue) \subseteq SlotsOf({"wait"})

\* No reader of the lane has a document and none starts another.
Closes(l, r) ==
    /\ \A d \in DOMAIN r.at : r.at[d] \notin InFlight
    /\ r.stop \/ l[1] \in broken \/ \A d \in DOMAIN r.at : r.at[d] # "unread"

\* What the consumer of a lane does in each mode.
DoingOK(r) ==
    /\ r.mode = "full" => r.doing \in {"receive", "finish", "switch", "add", "drain", "last"}
    /\ r.mode \in {"delta", "grown"} => r.doing \in {"receive", "drain", "delta"}
    /\ r.mode = "vectors" => r.doing \in {"receive", "send", "drain", "last"}
    /\ r.mode = "over" => r.doing = "over"

\* It has one document in hand, while it closes the window of the other kind.
HandOK(r) ==
    \A d \in DOMAIN r.at : r.at[d] \in {"hand", "hand name"} =>
        /\ r.mode = "full" /\ r.doing \in {"switch", "add"}
        /\ \A e \in DOMAIN r.at : r.at[e] \in {"hand", "hand name"} => e = d

\* Only the vectors go to the model; a full build holds what its open window holds.
ModelOK(r)  == \A d \in DOMAIN r.at : r.at[d] = "model" => r.mode = "vectors"
WindowOK(r) == r.mode = "full" /\ r.window = "none" => \A d \in DOMAIN r.at : r.at[d] # "pending"

\* The last steps follow a closed channel, and a batch that is sent has documents.
ClosedOK(l, r) == r.doing \in {"last", "delta"} => Closes(l, r)
SendOK(r)      == r.doing = "send" => \E d \in DOMAIN r.at : r.at[d] = "pending"

\* A lane that is not over belongs to a build that runs.
RunsOK(l, r) == r.mode # "over" => phase[l[1]] = "run"

LaneOK(l, r) ==
    /\ Typed(l, r) /\ DoingOK(r) /\ HandOK(r) /\ ModelOK(r) /\ WindowOK(r)
    /\ ClosedOK(l, r) /\ SendOK(r) /\ RunsOK(l, r)

LanesInv == lane = [l \in Lanes |-> lane[l]] /\ \A l \in Lanes : LaneOK(l, lane[l])

Inv == TypeOK /\ LanesInv /\ ReadsInv /\ SlotsInv

\* What the semaphores count is in their range.
LEMMA UsedFits ==
    ASSUME NEW size \in Nat, NEW R, NEW sem, Semaphore(sem, size, R)
    PROVE  sem.used \in 0..size
<1>1. IsFiniteSet(R \ ToSet(sem.queue)) /\ Weighed(R \ ToSet(sem.queue))
  BY FS_Subset DEF Semaphore, Weighed
<1>2. CostOf(R \ ToSet(sem.queue)) \in Nat
  BY <1>1, UnitsFinite
<1> QED
  BY <1>2 DEF Semaphore

\* Weight that no document of a lane asks is no weight of that lane.
LEMMA OneLane ==
    ASSUME LanesInv, NEW l \in Lanes, NEW r, lane' = [lane EXCEPT ![l] = r]
    PROVE  /\ lane'[l] = r /\ \A k \in Lanes : k # l => lane'[k] = lane[k]
           /\ lane' = [k \in Lanes |-> lane'[k]]
           /\ AllAsks' = (AllAsks \ Asks(l, lane[l])) \cup Asks(l, r)
           /\ (AllQueues \ Queues(l, lane[l])) \cup Queues(l, r) \subseteq AllQueues'
           /\ Asks(l, lane[l]) \subseteq AllAsks /\ AllQueues \subseteq AllAsks
           /\ \A e \in AllAsks : \A d : e.who = <<l, d>> => e \in Asks(l, lane[l])
<1>1. /\ lane'[l] = r /\ \A k \in Lanes : k # l => lane'[k] = lane[k]
      /\ lane' = [k \in Lanes |-> lane'[k]]
  BY DEF LanesInv
<1>2. \A k \in Lanes : \A q, e : e \in Asks(k, q) => e.who[1] = k
  BY DEF Asks, Req
<1>3. AllAsks' = UNION {Asks(k, lane'[k]) : k \in Lanes} /\ AllQueues' = UNION {Queues(k, lane'[k]) : k \in Lanes}
  BY DEF AllAsks, AllQueues
<1>4. AllAsks' = (AllAsks \ Asks(l, lane[l])) \cup Asks(l, r)
  <2>1. ASSUME NEW k \in Lanes, NEW e \in Asks(k, lane'[k])
        PROVE  e \in (AllAsks \ Asks(l, lane[l])) \cup Asks(l, r)
    <3>1. CASE k = l
      BY <1>1, <3>1
    <3>2. CASE k # l
      BY <1>1, <1>2, <3>2 DEF AllAsks
    <3> QED
      BY <3>1, <3>2
  <2>2. ASSUME NEW e \in (AllAsks \ Asks(l, lane[l])) \cup Asks(l, r)
        PROVE  \E k \in Lanes : e \in Asks(k, lane'[k])
    <3>1. CASE e \in Asks(l, r)
      BY <1>1, <3>1
    <3>2. CASE e \in AllAsks /\ e \notin Asks(l, lane[l])
      <4>1. PICK k \in Lanes : e \in Asks(k, lane[k])
        BY <3>2 DEF AllAsks
      <4>2. k # l
        BY <3>2, <4>1
      <4> QED
        BY <1>1, <4>1, <4>2
    <3> QED
      BY <2>2, <3>1, <3>2
  <2> QED
    BY <1>3, <2>1, <2>2
<1>5. (AllQueues \ Queues(l, lane[l])) \cup Queues(l, r) \subseteq AllQueues'
  <2> SUFFICES ASSUME NEW e \in (AllQueues \ Queues(l, lane[l])) \cup Queues(l, r)
               PROVE  \E k \in Lanes : e \in Queues(k, lane'[k])
    BY <1>3
  <2>1. CASE e \in Queues(l, r)
    BY <1>1, <2>1
  <2>2. CASE e \in AllQueues /\ e \notin Queues(l, lane[l])
    <3>1. PICK k \in Lanes : e \in Queues(k, lane[k])
      BY <2>2 DEF AllQueues
    <3>2. k # l
      BY <2>2, <3>1
    <3> QED
      BY <1>1, <3>1, <3>2
  <2> QED
    BY <2>1, <2>2
<1>6. Asks(l, lane[l]) \subseteq AllAsks
  BY DEF AllAsks
<1>7. AllQueues \subseteq AllAsks
  <2>1. \A k, q : Queues(k, q) \subseteq Asks(k, q)
    BY DEF Queues, Asks, AtOf, Asking
  <2> QED
    BY <2>1 DEF AllQueues, AllAsks
<1>8. \A e \in AllAsks : \A d : e.who = <<l, d>> => e \in Asks(l, lane[l])
  <2> SUFFICES ASSUME NEW e \in AllAsks, NEW d, e.who = <<l, d>> PROVE e \in Asks(l, lane[l])
    OBVIOUS
  <2>1. PICK k \in Lanes : e \in Asks(k, lane[k])
    BY DEF AllAsks
  <2>2. e.who[1] = k
    BY <1>2, <2>1
  <2> QED
    BY <2>1, <2>2
<1> QED
  BY <1>1, <1>4, <1>5, <1>6, <1>7, <1>8

\* What holds weight is what asked and does not wait.
LEMMA HeldIs ==
    ASSUME LanesInv, ReadsInv, NEW l \in Lanes
    PROVE  /\ Held(l) = {d \in AtOf(lane[l], Asking) : Request(l, d) \notin ToSet(reads.queue)}
           /\ Waiting(l) = {d \in AtOf(lane[l], Asking) : Request(l, d) \in ToSet(reads.queue)}
           /\ \A d : Request(l, d) = Req(l, lane[l], d)
<1>1. \A d : Request(l, d) = Req(l, lane[l], d)
  BY DEF Request, Req, Size
<1>2. ASSUME NEW d \in AtOf(lane[l], Asking), Request(l, d) \in ToSet(reads.queue)
      PROVE  lane[l].at[d] = "asked"
  <2>1. PICK k \in Lanes : Request(l, d) \in Queues(k, lane[k])
    BY <1>2 DEF ReadsInv, AllQueues
  <2>2. PICK e \in AtOf(lane[k], {"asked"}) : Request(l, d) = Req(k, lane[k], e)
    BY <2>1 DEF Queues
  <2>3. <<l, d>> = <<k, e>>
    BY <2>2 DEF Request, Req
  <2> QED
    BY <2>2, <2>3 DEF AtOf
<1>3. At(l, Weighs) = {d \in DOMAIN lane[l].at : lane[l].at[d] \in Weighs}
      /\ At(l, {"asked"}) = {d \in DOMAIN lane[l].at : lane[l].at[d] = "asked"}
      /\ AtOf(lane[l], Asking) = At(l, Weighs) \cup At(l, {"asked"})
  BY DEF At, AtOf, Asking
<1>4. Waiting(l) = {d \in AtOf(lane[l], Asking) : Request(l, d) \in ToSet(reads.queue)}
  BY <1>2, <1>3 DEF Waiting, Waits
<1>5. "asked" \notin Weighs
  BY DEF Weighs
<1>6. Held(l) = {d \in AtOf(lane[l], Asking) : Request(l, d) \notin ToSet(reads.queue)}
  BY <1>2, <1>3, <1>4, <1>5 DEF Held, Granted
<1> QED
  BY <1>1, <1>4, <1>6

\* A lane gives back the weight of some documents: what it still asks is the rest.
LEMMA GivesBack ==
    ASSUME LanesInv, ReadsInv, NEW l \in Lanes, NEW r, NEW docs,
           lane' = [lane EXCEPT ![l] = r],
           reads' = Release(reads, Budget, WeightOf(l, docs \cap Held(l))),
           Asks(l, r) = Asks(l, lane[l]) \ {Request(l, d) : d \in docs \cap Held(l)},
           {Request(l, d) : d \in Waiting(l)} \subseteq Queues(l, r)
    PROVE  ReadsInv'
<1> DEFINE back == docs \cap Held(l)
           G == {Request(l, d) : d \in back}
<1>1. G \subseteq Asks(l, lane[l]) \ ToSet(reads.queue) /\ back \subseteq DOMAIN lane[l].at
  BY HeldIs DEF Asks, AtOf
<1>2. Asks(l, lane[l]) \subseteq AllAsks
  BY OneLane
<1>3. Semaphore(reads, Budget, AllAsks) /\ IsFiniteSet(G) /\ Budget \in Nat
  <2>1. Semaphore(reads, Budget, AllAsks) /\ G \subseteq AllAsks /\ Budget \in Nat
    BY <1>1, <1>2, BudgetAssumption DEF ReadsInv
  <2> HIDE DEF G
  <2> QED
    BY <2>1, FS_Subset DEF Semaphore
<1>4. WeightOf(l, back) = CostOf(G)
  <2> DEFINE L == {l}
             D == [k \in {l} |-> back]
  <2>1. L \in SUBSET Lanes /\ \A k \in L : Typed(k, lane[k]) /\ D[k] \subseteq DOMAIN lane[k].at
    BY <1>1 DEF LanesInv, LaneOK
  <2>2. G = RequestsIn(L, D)
    BY DEF RequestsIn
  <2>3. UnitsIn(L, D) = Units(l, back)
    <3> HIDE DEF back
    <3> QED
      BY DEF UnitsIn
  <2> HIDE DEF L, D, G, back
  <2>4. Cardinality(UnitsIn(L, D)) = CostOf(G)
    BY <1>3, <2>1, <2>2, UnitsAreCost
  <2> QED
    BY <2>3, <2>4 DEF WeightOf
<1> HIDE DEF G
<1>5. AllAsks' = AllAsks \ G
  <2>1. AllAsks' = (AllAsks \ Asks(l, lane[l])) \cup Asks(l, r)
    BY OneLane
  <2>2. Asks(l, r) = Asks(l, lane[l]) \ G
    BY DEF G
  <2> QED
    BY <1>1, <1>2, <2>1, <2>2
<1>6. Semaphore(reads', Budget, AllAsks') /\ ToSet(reads'.queue) \subseteq ToSet(reads.queue)
  <2>1. reads' = Release(reads, Budget, CostOf(G))
    BY <1>4
  <2>2. G \subseteq AllAsks \ ToSet(reads.queue)
    BY <1>1, <1>2
  <2> HIDE DEF back
  <2>3. /\ Semaphore(Release(reads, Budget, CostOf(G)), Budget, AllAsks \ G)
        /\ ToSet(Release(reads, Budget, CostOf(G)).queue) \subseteq ToSet(reads.queue)
    BY <1>3, <2>2, Releases
  <2> QED
    BY <1>5, <2>1, <2>3
<1>7. ToSet(reads'.queue) \subseteq AllQueues'
  <2> SUFFICES ASSUME NEW e \in ToSet(reads.queue) PROVE e \in AllQueues'
    BY <1>6
  <2>1. e \in AllQueues
    BY DEF ReadsInv
  <2>2. CASE e \in Queues(l, lane[l])
    <3>1. PICK d \in AtOf(lane[l], {"asked"}) : e = Req(l, lane[l], d)
      BY <2>2 DEF Queues
    <3>2. d \in Waiting(l) /\ e = Request(l, d)
      BY <3>1, HeldIs DEF AtOf, Asking
    <3>3. e \in Queues(l, r)
      BY <3>2
    <3> QED
      BY <3>3, OneLane
  <2>3. CASE e \notin Queues(l, lane[l])
    BY <2>1, <2>3, OneLane
  <2> QED
    BY <2>2, <2>3
<1> QED
  BY <1>6, <1>7 DEF ReadsInv

(***************************************************************************)
(* What every step of a lane does.                                         *)
(***************************************************************************)

\* One field of a lane changes.
LaneRecord(m, a, g, w, x, y) ==
    [mode |-> m, at |-> a, doing |-> g, window |-> w, stop |-> x, failed |-> y]
PutAt(r, a)     == [r EXCEPT !.at = a]
PutDoing(r, g)  == [r EXCEPT !.doing = g]
PutWindow(r, w) == [r EXCEPT !.window = w]
PutStop(r, x)   == [r EXCEPT !.stop = x]
PutFailed(r, y) == [r EXCEPT !.failed = y]

Yes == TRUE

\* What the changes make of a lane record.
LEMMA Puts ==
    /\ \A m, a, g, w, x, y, v : PutAt(LaneRecord(m, a, g, w, x, y), v) = LaneRecord(m, v, g, w, x, y)
    /\ \A m, a, g, w, x, y, v : PutDoing(LaneRecord(m, a, g, w, x, y), v) = LaneRecord(m, a, v, w, x, y)
    /\ \A m, a, g, w, x, y, v : PutWindow(LaneRecord(m, a, g, w, x, y), v) = LaneRecord(m, a, g, v, x, y)
    /\ \A m, a, g, w, x, y, v : PutStop(LaneRecord(m, a, g, w, x, y), v) = LaneRecord(m, a, g, w, v, y)
    /\ \A m, a, g, w, x, y, v : PutFailed(LaneRecord(m, a, g, w, x, y), v) = LaneRecord(m, a, g, w, x, v)
<1>1. \A m, a, g, w, x, y, v : PutAt(LaneRecord(m, a, g, w, x, y), v) = LaneRecord(m, v, g, w, x, y)
  BY DEF PutAt, LaneRecord
<1>2. \A m, a, g, w, x, y, v : PutDoing(LaneRecord(m, a, g, w, x, y), v) = LaneRecord(m, a, v, w, x, y)
  BY DEF PutDoing, LaneRecord
<1>3. \A m, a, g, w, x, y, v : PutWindow(LaneRecord(m, a, g, w, x, y), v) = LaneRecord(m, a, g, v, x, y)
  BY DEF PutWindow, LaneRecord
<1>4. \A m, a, g, w, x, y, v : PutStop(LaneRecord(m, a, g, w, x, y), v) = LaneRecord(m, a, g, w, v, y)
  BY DEF PutStop, LaneRecord
<1>5. \A m, a, g, w, x, y, v : PutFailed(LaneRecord(m, a, g, w, x, y), v) = LaneRecord(m, a, g, w, x, v)
  BY DEF PutFailed, LaneRecord
<1> QED
  BY <1>1, <1>2, <1>3, <1>4, <1>5

\* In r, a lane asks for the weight that it held and does not give back.
Frees(l, r, docs) ==
    \/ /\ r.mode = lane[l].mode /\ DOMAIN r.at = DOMAIN lane[l].at
       /\ \A d \in DOMAIN r.at :
             /\ d \in Waiting(l) => r.at[d] = "asked"
             /\ d \notin Waiting(l) => (r.at[d] \in Asking <=> d \in Held(l) \ docs)
    \/ /\ Waiting(l) = {} /\ Held(l) \subseteq docs
       /\ \A d \in DOMAIN r.at : r.at[d] = "unread"

\* So every such step keeps the invariant.
LEMMA Becomes ==
    ASSUME Inv, NEW l \in Lanes, NEW r, NEW docs,
           Become(l, r, docs), Frees(l, r, docs), LaneOK(l, r), faults' \in 0..MaxFaults
    PROVE  Inv'
<1>1. /\ lane' = [lane EXCEPT ![l] = r] /\ UNCHANGED <<slots, phase, broken>>
      /\ reads' = Release(reads, Budget, WeightOf(l, docs \cap Held(l)))
      /\ LanesInv /\ ReadsInv /\ SlotsInv /\ TypeOK
  BY DEF Become, Inv
<1>2. /\ Held(l) = {d \in AtOf(lane[l], Asking) : Request(l, d) \notin ToSet(reads.queue)}
      /\ Waiting(l) = {d \in AtOf(lane[l], Asking) : Request(l, d) \in ToSet(reads.queue)}
      /\ \A d : Request(l, d) = Req(l, lane[l], d)
  BY <1>1, HeldIs
<1>3. /\ Held(l) \subseteq AtOf(lane[l], Asking) /\ Waiting(l) \subseteq AtOf(lane[l], Asking)
      /\ AtOf(lane[l], Asking) = Held(l) \cup Waiting(l) /\ Held(l) \cap Waiting(l) = {}
  BY <1>2
<1>4. Asks(l, lane[l]) = {Request(l, d) : d \in Held(l) \cup Waiting(l)}
  BY <1>2, <1>3 DEF Asks
<1>5. \A d, e : Request(l, d) = Request(l, e) => d = e
  BY DEF Request
<1>6. /\ Asks(l, r) = Asks(l, lane[l]) \ {Request(l, d) : d \in docs \cap Held(l)}
      /\ {Request(l, d) : d \in Waiting(l)} \subseteq Queues(l, r)
  <2>1. CASE /\ r.mode = lane[l].mode /\ DOMAIN r.at = DOMAIN lane[l].at
             /\ \A d \in DOMAIN r.at :
                   /\ d \in Waiting(l) => r.at[d] = "asked"
                   /\ d \notin Waiting(l) => (r.at[d] \in Asking <=> d \in Held(l) \ docs)
    <3>1. \A d : Req(l, r, d) = Request(l, d)
      BY <1>2, <2>1 DEF Req
    <3>2. AtOf(r, Asking) = Waiting(l) \cup (Held(l) \ docs)
      BY <1>3, <2>1 DEF AtOf, Asking
    <3>3. Waiting(l) \subseteq AtOf(r, {"asked"})
      BY <1>3, <2>1 DEF AtOf
    <3>4. Asks(l, r) = {Request(l, d) : d \in Waiting(l) \cup (Held(l) \ docs)}
      BY <3>1, <3>2 DEF Asks
    <3>5. {Request(l, d) : d \in Waiting(l)} \subseteq Queues(l, r)
      BY <3>1, <3>3 DEF Queues
    <3> QED
      BY <1>3, <1>4, <1>5, <3>4, <3>5
  <2>2. CASE /\ Waiting(l) = {} /\ Held(l) \subseteq docs
             /\ \A d \in DOMAIN r.at : r.at[d] = "unread"
    <3>1. AtOf(r, Asking) = {}
      BY <2>2 DEF AtOf, Asking, Weighs
    <3>2. Asks(l, r) = {}
      BY <3>1 DEF Asks
    <3> QED
      BY <1>4, <2>2, <3>2
  <2> QED
    BY <2>1, <2>2 DEF Frees
<1>7. ReadsInv'
  BY <1>1, <1>6, GivesBack
<1>8. /\ lane'[l] = r /\ \A k \in Lanes : k # l => lane'[k] = lane[k]
      /\ lane' = [k \in Lanes |-> lane'[k]]
  BY <1>1, OneLane
<1>9. LanesInv'
  <2>1. ASSUME NEW k \in Lanes PROVE LaneOK(k, lane[k])'
    <3>1. LaneOK(k, lane'[k])
      BY <1>1, <1>8 DEF LanesInv
    <3> QED
      BY <1>1, <3>1 DEF LaneOK, RunsOK, ClosedOK, Closes
  <2> QED
    BY <1>8, <2>1 DEF LanesInv
<1>10. SlotsInv'
  BY <1>1 DEF SlotsInv, SlotsOf
<1>11. TypeOK'
  <2>1. reads'.used \in 0..Budget
    BY <1>7, UsedFits, BudgetAssumption DEF ReadsInv
  <2> QED
    BY <1>1, <1>8, <2>1 DEF TypeOK
<1> QED
  BY <1>7, <1>9, <1>10, <1>11 DEF Inv

\* A lane whose documents in M move to a stage.
After(l, M, s, doing, window, stop, failed) ==
    [mode |-> lane[l].mode, at |-> Move(l, M, s), doing |-> doing, window |-> window,
     stop |-> stop, failed |-> failed]

\* The documents of a lane, by what they hold.
LEMMA Docs ==
    ASSUME Inv, NEW l \in Lanes
    PROVE  /\ LaneOK(l, lane[l])
           /\ \A d \in DOMAIN lane[l].at :
                 /\ d \in Held(l) <=> lane[l].at[d] \in Asking /\ d \notin Waiting(l)
                 /\ d \in Waiting(l) => lane[l].at[d] = "asked"
           /\ Held(l) \subseteq DOMAIN lane[l].at /\ Waiting(l) \subseteq DOMAIN lane[l].at
           /\ Closed(l) <=> Closes(l, lane[l])
           /\ \A stages : \A d : d \in At(l, stages) <=> d \in DOMAIN lane[l].at /\ lane[l].at[d] \in stages
<1>1. LaneOK(l, lane[l]) /\ LanesInv /\ ReadsInv
  BY DEF Inv, LanesInv
<1>2. /\ Held(l) = {d \in AtOf(lane[l], Asking) : Request(l, d) \notin ToSet(reads.queue)}
      /\ Waiting(l) = {d \in AtOf(lane[l], Asking) : Request(l, d) \in ToSet(reads.queue)}
  BY <1>1, HeldIs
<1>3. \A stages : \A d : d \in At(l, stages) <=> d \in DOMAIN lane[l].at /\ lane[l].at[d] \in stages
  BY DEF At
<1>4. \A d \in Waiting(l) : lane[l].at[d] = "asked"
  BY DEF Waiting, At
<1>5. Closed(l) <=> Closes(l, lane[l])
  BY <1>3 DEF Closed, Closes, Stopped
<1> QED
  BY <1>1, <1>2, <1>3, <1>4, <1>5 DEF AtOf

\* Documents that do not wait move, and keep or give back their weight.
LEMMA Moved ==
    ASSUME Inv, NEW l \in Lanes, NEW M, NEW s, NEW doing, NEW window, NEW stop, NEW failed, NEW docs,
           Become(l, After(l, M, s, doing, window, stop, failed), docs), faults' \in 0..MaxFaults,
           M \cap Waiting(l) = {}, docs \cap Held(l) \subseteq M,
           \A d \in M : d \in DOMAIN lane[l].at => (s \in Asking <=> d \in Held(l) \ docs),
           LaneOK(l, After(l, M, s, doing, window, stop, failed))
    PROVE  Inv'
<1> DEFINE r == After(l, M, s, doing, window, stop, failed)
<1>1. r.mode = lane[l].mode /\ DOMAIN r.at = DOMAIN lane[l].at
      /\ \A d \in DOMAIN lane[l].at : r.at[d] = IF d \in M THEN s ELSE lane[l].at[d]
  BY DEF After, Move
<1> HIDE DEF r
<1>2. Frees(l, r, docs)
  <2>1. ASSUME NEW d \in DOMAIN lane[l].at
        PROVE  /\ d \in Waiting(l) => r.at[d] = "asked"
               /\ d \notin Waiting(l) => (r.at[d] \in Asking <=> d \in Held(l) \ docs)
    BY <1>1, Docs
  <2> QED
    BY <1>1, <2>1 DEF Frees
<1> QED
  BY <1>2, Becomes DEF r

\* A lane that is over.
LEMMA OverIs ==
    ASSUME NEW l, NEW failed
    PROVE  Over(l, failed) = [mode |-> "over", at |-> [d \in DOMAIN Sizes[l[1]]["over"] |-> "unread"],
                              doing |-> "over", window |-> "none", stop |-> FALSE, failed |-> failed]
<1>1. Fresh(l, "over") = [mode |-> "over", at |-> [d \in DOMAIN Sizes[l[1]]["over"] |-> "unread"],
                          doing |-> "receive", window |-> "none", stop |-> FALSE, failed |-> FALSE]
  BY DEF Fresh
<1>2. Over(l, failed) = PutFailed(PutDoing(Fresh(l, "over"), "over"), failed)
  BY DEF Over, PutDoing, PutFailed
<1> DEFINE a == [d \in DOMAIN Sizes[l[1]]["over"] |-> "unread"]
<1>3. Fresh(l, "over") = LaneRecord("over", a, "receive", "none", FALSE, FALSE)
  BY <1>1 DEF LaneRecord
<1> HIDE DEF a
<1> DEFINE no == FALSE
<1> HIDE DEF no
<1>5. PutDoing(LaneRecord("over", a, "receive", "none", no, no), "over")
      = LaneRecord("over", a, "over", "none", no, no)
  BY Puts
<1>6. PutFailed(LaneRecord("over", a, "over", "none", no, no), failed)
      = LaneRecord("over", a, "over", "none", no, failed)
  BY Puts
<1>4. Over(l, failed) = LaneRecord("over", a, "over", "none", FALSE, failed)
  BY <1>2, <1>3, <1>5, <1>6 DEF no
<1> QED
  BY <1>4 DEF LaneRecord, a

\* A lane begins a mode or is over: nothing that it held is left.
LEMMA Begins ==
    ASSUME Inv, NEW l \in Lanes, NEW mode, NEW docs, NEW failed,
           \/ mode = "full" /\ Become(l, Fresh(l, mode), docs)
           \/ mode = "over" /\ Become(l, Over(l, failed), docs) /\ failed \in BOOLEAN,
           faults' \in 0..MaxFaults, lane[l].mode # "over",
           Waiting(l) = {}, Held(l) \subseteq docs
    PROVE  Inv'
<1>1. CASE mode = "full" /\ Become(l, Fresh(l, mode), docs)
  <2> DEFINE r == Fresh(l, "full")
  <2>1. r = [mode |-> "full", at |-> [d \in DOMAIN Sizes[l[1]]["full"] |-> "unread"],
             doing |-> "receive", window |-> "none", stop |-> FALSE, failed |-> FALSE]
    BY DEF Fresh
  <2> HIDE DEF r
  <2>2. LaneOK(l, r)
    BY <2>1, Docs DEF LaneOK, DoingOK, HandOK, ModelOK, WindowOK, ClosedOK, SendOK, RunsOK, Typed,
       Modes, Stages, Doings
  <2>3. Frees(l, r, docs)
    BY <2>1 DEF Frees
  <2> QED
    BY <1>1, <2>2, <2>3, Becomes DEF r
<1>2. CASE mode = "over" /\ Become(l, Over(l, failed), docs) /\ failed \in BOOLEAN
  <2> DEFINE r == Over(l, failed)
  <2>1. r = [mode |-> "over", at |-> [d \in DOMAIN Sizes[l[1]]["over"] |-> "unread"],
             doing |-> "over", window |-> "none", stop |-> FALSE, failed |-> failed]
    BY OverIs
  <2> HIDE DEF r
  <2>2. LaneOK(l, r)
    BY <1>2, <2>1 DEF LaneOK, DoingOK, HandOK, ModelOK, WindowOK, ClosedOK, SendOK, RunsOK, Typed,
       Modes, Stages, Doings
  <2>3. Frees(l, r, docs)
    BY <2>1 DEF Frees
  <2> QED
    BY <1>2, <2>2, <2>3, Becomes DEF r
<1> QED
  BY <1>1, <1>2

\* A fault counts, other steps do not.
LEMMA FaultsCount ==
    ASSUME Inv
    PROVE  (NoFault => faults' \in 0..MaxFaults) /\ \A kind : Fault(kind) => faults' \in 0..MaxFaults
BY BudgetAssumption DEF NoFault, Fault, Inv, TypeOK

(***************************************************************************)
(* The readers and the consumers, one document at a time.                  *)
(***************************************************************************)

\* A lane is such a record, and one document moves as a set of one does.
LEMMA LaneIs ==
    ASSUME Inv, NEW l \in Lanes
    PROVE  /\ lane[l] = LaneRecord(lane[l].mode, lane[l].at, lane[l].doing, lane[l].window,
                                   lane[l].stop, lane[l].failed)
           /\ \A M, s, g, w, x, y : After(l, M, s, g, w, x, y) = LaneRecord(lane[l].mode, Move(l, M, s), g, w, x, y)
           /\ \A d \in DOMAIN lane[l].at : \A s : [lane[l].at EXCEPT ![d] = s] = Move(l, {d}, s)
           /\ \A s : Move(l, {}, s) = lane[l].at
<1>1. Typed(l, lane[l])
  BY Docs DEF LaneOK
<1>2. \A d \in DOMAIN lane[l].at : \A s : [lane[l].at EXCEPT ![d] = s] = Move(l, {d}, s)
  BY <1>1 DEF Typed, Move
<1>3. \A s : Move(l, {}, s) = lane[l].at
  BY <1>1 DEF Typed, Move
<1> QED
  BY <1>1, <1>2, <1>3 DEF Typed, LaneRecord, After

\* The other changes that the actions make of a lane record.
Stops(r, g)      == [r EXCEPT !.doing = g, !.stop = TRUE, !.failed = TRUE]
Halts(r)         == [r EXCEPT !.doing = "drain", !.stop = TRUE]
Empties(r, a, g) == [r EXCEPT !.at = a, !.window = "none", !.doing = g]
Loses(r, a)      == [r EXCEPT !.at = a, !.window = "none", !.doing = "drain", !.stop = TRUE, !.failed = TRUE]
Sends(r, a, g)   == [r EXCEPT !.at = a, !.doing = g]
Fails(r, g, a)   == [r EXCEPT !.stop = TRUE, !.failed = TRUE, !.doing = g, !.at = a]
Places(r, d, s, w)   == [r EXCEPT !.at[d] = s, !.window = w]
Switches(r, d, s)    == [r EXCEPT !.doing = "switch", !.at[d] = s]
Batches(r, d, g)     == [r EXCEPT !.at[d] = "pending", !.doing = g]
Cut(r, d)            == [r EXCEPT !.at[d] = "gone", !.stop = TRUE, !.failed = TRUE]

\* What they make of it.
LEMMA Changes ==
    ASSUME NEW m, NEW a, NEW g, NEW w, NEW x, NEW y, NEW r, r = LaneRecord(m, a, g, w, x, y),
           NEW b, NEW h
    PROVE  /\ Stops(r, h) = LaneRecord(m, a, h, w, Yes, Yes)
           /\ Halts(r) = LaneRecord(m, a, "drain", w, Yes, y)
           /\ Empties(r, b, h) = LaneRecord(m, b, h, "none", x, y)
           /\ Loses(r, b) = LaneRecord(m, b, "drain", "none", Yes, Yes)
           /\ Sends(r, b, h) = LaneRecord(m, b, h, w, x, y)
           /\ Fails(r, h, b) = LaneRecord(m, b, h, w, Yes, Yes)
<1>1. Stops(r, h) = PutFailed(PutStop(PutDoing(r, h), Yes), Yes)
  BY DEF Stops, PutFailed, PutStop, PutDoing, Yes
<1>2. Halts(r) = PutStop(PutDoing(r, "drain"), Yes)
  BY DEF Halts, PutStop, PutDoing, Yes
<1>3. Empties(r, b, h) = PutDoing(PutWindow(PutAt(r, b), "none"), h)
  BY DEF Empties, PutAt, PutWindow, PutDoing
<1>4. Loses(r, b) = PutFailed(PutStop(PutDoing(PutWindow(PutAt(r, b), "none"), "drain"), Yes), Yes)
  BY DEF Loses, PutAt, PutWindow, PutDoing, PutStop, PutFailed, Yes
<1>5. Sends(r, b, h) = PutDoing(PutAt(r, b), h)
  BY DEF Sends, PutAt, PutDoing
<1>6. Fails(r, h, b) = PutAt(PutDoing(PutFailed(PutStop(r, Yes), Yes), h), b)
  BY DEF Fails, PutAt, PutDoing, PutStop, PutFailed, Yes
<1>7. /\ PutFailed(PutStop(PutDoing(r, h), Yes), Yes) = LaneRecord(m, a, h, w, Yes, Yes)
      /\ PutStop(PutDoing(r, "drain"), Yes) = LaneRecord(m, a, "drain", w, Yes, y)
      /\ PutDoing(PutWindow(PutAt(r, b), "none"), h) = LaneRecord(m, b, h, "none", x, y)
  BY Puts
<1>8. /\ PutFailed(PutStop(PutDoing(PutWindow(PutAt(r, b), "none"), "drain"), Yes), Yes)
         = LaneRecord(m, b, "drain", "none", Yes, Yes)
      /\ PutDoing(PutAt(r, b), h) = LaneRecord(m, b, h, w, x, y)
      /\ PutAt(PutDoing(PutFailed(PutStop(r, Yes), Yes), h), b) = LaneRecord(m, b, h, w, Yes, Yes)
  BY Puts
<1> QED
  BY <1>1, <1>2, <1>3, <1>4, <1>5, <1>6, <1>7, <1>8

\* The records that the actions make of a lane in which one document moves.
LEMMA OneDoc ==
    ASSUME Inv, NEW l \in Lanes, NEW d \in DOMAIN lane[l].at, NEW s, NEW g
    PROVE  LET r == lane[l] IN
           /\ [r EXCEPT !.at[d] = s] = After(l, {d}, s, r.doing, r.window, r.stop, r.failed)
           /\ Switches(r, d, s) = After(l, {d}, s, "switch", r.window, r.stop, r.failed)
           /\ Batches(r, d, g) = After(l, {d}, "pending", g, r.window, r.stop, r.failed)
           /\ Cut(r, d) = After(l, {d}, "gone", r.doing, r.window, Yes, Yes)
           /\ Draining(r, d) = After(l, {d}, "gone", "drain", r.window, Yes, Yes)
<1> DEFINE r == lane[l]
           a == [r.at EXCEPT ![d] = s]
           b == [r.at EXCEPT ![d] = "gone"]
           c == [r.at EXCEPT ![d] = "pending"]
<1>1. /\ r = LaneRecord(r.mode, r.at, r.doing, r.window, r.stop, r.failed)
      /\ \A p, q, t, u : After(l, {d}, s, p, q, t, u) = LaneRecord(r.mode, a, p, q, t, u)
  BY LaneIs
<1>2. /\ \A p, q, t, u : After(l, {d}, "gone", p, q, t, u) = LaneRecord(r.mode, b, p, q, t, u)
      /\ \A p, q, t, u : After(l, {d}, "pending", p, q, t, u) = LaneRecord(r.mode, c, p, q, t, u)
  BY LaneIs
<1>3. [r EXCEPT !.at[d] = s] = PutAt(r, a)
  BY DEF PutAt
<1>5. Switches(r, d, s) = PutAt(PutDoing(r, "switch"), a)
  <2>1. Switches(r, d, s) = PutAt(PutDoing(r, "switch"), [PutDoing(r, "switch").at EXCEPT ![d] = s])
    BY DEF PutAt, PutDoing, Switches
  <2>2. PutDoing(r, "switch") = LaneRecord(r.mode, r.at, "switch", r.window, r.stop, r.failed)
    BY <1>1, Puts
  <2>3. PutDoing(r, "switch").at = r.at
    BY <2>2 DEF LaneRecord
  <2> QED
    BY <2>1, <2>3
<1>6. Batches(r, d, g) = PutDoing(PutAt(r, c), g)
  BY DEF PutAt, PutDoing, Batches
<1>7. /\ Cut(r, d) = PutFailed(PutStop(PutAt(r, b), Yes), Yes)
      /\ Draining(r, d) = PutFailed(PutStop(PutDoing(PutAt(r, b), "drain"), Yes), Yes)
  BY DEF Cut, Draining, PutAt, PutDoing, PutStop, PutFailed, Yes
<1> HIDE DEF a, b, c, r
<1>10. /\ PutAt(r, a) = After(l, {d}, s, r.doing, r.window, r.stop, r.failed)
       /\ PutAt(PutDoing(r, "switch"), a) = After(l, {d}, s, "switch", r.window, r.stop, r.failed)
       /\ PutDoing(PutAt(r, c), g) = After(l, {d}, "pending", g, r.window, r.stop, r.failed)
  BY <1>1, <1>2, Puts
<1>11. /\ PutFailed(PutStop(PutAt(r, b), Yes), Yes) = After(l, {d}, "gone", r.doing, r.window, Yes, Yes)
       /\ PutFailed(PutStop(PutDoing(PutAt(r, b), "drain"), Yes), Yes)
          = After(l, {d}, "gone", "drain", r.window, Yes, Yes)
  BY <1>1, <1>2, Puts
<1>12. /\ [r EXCEPT !.at[d] = s] = After(l, {d}, s, r.doing, r.window, r.stop, r.failed)
       /\ Switches(r, d, s) = After(l, {d}, s, "switch", r.window, r.stop, r.failed)
       /\ Batches(r, d, g) = After(l, {d}, "pending", g, r.window, r.stop, r.failed)
       /\ Cut(r, d) = After(l, {d}, "gone", r.doing, r.window, Yes, Yes)
       /\ Draining(r, d) = After(l, {d}, "gone", "drain", r.window, Yes, Yes)
  BY <1>3, <1>5, <1>6, <1>7, <1>10, <1>11
<1> QED
  BY <1>12 DEF r

\* The records that adding one makes.
LEMMA PlacesAre ==
    ASSUME Inv, NEW l \in Lanes, NEW d \in DOMAIN lane[l].at, NEW s, NEW w, NEW g
    PROVE  /\ PutDoing(Places(lane[l], d, s, w), g)
              = After(l, {d}, s, g, w, lane[l].stop, lane[l].failed)
           /\ Stops(Places(lane[l], d, s, w), g) = After(l, {d}, s, g, w, Yes, Yes)
<1> DEFINE r == lane[l]
           a == [r.at EXCEPT ![d] = s]
<1>1. /\ r = LaneRecord(r.mode, r.at, r.doing, r.window, r.stop, r.failed)
      /\ \A p, q, t, u : After(l, {d}, s, p, q, t, u) = LaneRecord(r.mode, a, p, q, t, u)
  BY LaneIs
<1>2. Places(r, d, s, w) = PutWindow(PutAt(r, a), w)
  BY DEF PutAt, PutWindow, Places
<1> HIDE DEF a, r
<1>3. Places(r, d, s, w) = LaneRecord(r.mode, a, r.doing, w, r.stop, r.failed)
  BY <1>1, <1>2, Puts
<1>4. PutDoing(Places(r, d, s, w), g) = LaneRecord(r.mode, a, g, w, r.stop, r.failed)
  BY <1>3, Puts
<1>5. Stops(Places(r, d, s, w), g) = LaneRecord(r.mode, a, g, w, Yes, Yes)
  BY <1>3, Changes
<1>6. /\ PutDoing(Places(r, d, s, w), g) = After(l, {d}, s, g, w, r.stop, r.failed)
      /\ Stops(Places(r, d, s, w), g) = After(l, {d}, s, g, w, Yes, Yes)
  BY <1>1, <1>4, <1>5
<1> QED
  BY <1>6 DEF r

\* A document that a reader has: the lane is not closed.
LEMMA InHand ==
    ASSUME Inv, NEW l \in Lanes
    PROVE  /\ \A d \in Granted(l) : /\ d \in DOMAIN lane[l].at /\ lane[l].at[d] = "asked"
                                    /\ d \in Held(l) /\ d \notin Waiting(l)
           /\ \A d \in Offered(l) : /\ d \in DOMAIN lane[l].at /\ lane[l].at[d] \in InFlight
                                    /\ d \notin Waiting(l)
                                    /\ d \in Held(l) <=> lane[l].at[d] \in {"asked", "marked"}
                                    /\ lane[l].doing \notin {"last", "delta"}
<1>1. \A d \in Granted(l) : /\ d \in DOMAIN lane[l].at /\ lane[l].at[d] = "asked"
                            /\ d \in Held(l) /\ d \notin Waiting(l)
  BY Docs DEF Granted, Asking
<1>2. ASSUME NEW d \in Offered(l)
      PROVE  d \in DOMAIN lane[l].at /\ lane[l].at[d] \in InFlight /\ d \notin Waiting(l)
  BY <1>1, Docs DEF Offered, InFlight
<1>3. ASSUME NEW d \in Offered(l)
      PROVE  /\ d \in Held(l) <=> lane[l].at[d] \in {"asked", "marked"}
             /\ lane[l].doing \notin {"last", "delta"}
  BY <1>2, Docs DEF LaneOK, ClosedOK, Closes, Asking, Weighs, InFlight
<1> QED
  BY <1>1, <1>2, <1>3

\* A lane that is over has no documents.
LEMMA OverHasNone ==
    ASSUME Inv, NEW l \in Lanes
    PROVE  lane[l].mode = "over" => DOMAIN lane[l].at = {}
<1> SUFFICES ASSUME lane[l].mode = "over" PROVE DOMAIN lane[l].at = {}
  OBVIOUS
<1>1. DOMAIN lane[l].at = DOMAIN Sizes[l[1]]["over"]
  <2>1. Typed(l, lane[l])
    BY Docs DEF LaneOK
  <2> QED
    BY <2>1 DEF Typed
<1>2. l[1] \in Builds
  BY DEF Lanes
<1>3. Sizes[l[1]]["over"] = <<>>
  BY <1>2 DEF Sizes
<1> QED
  BY <1>1, <1>3

\* A lane in which documents of the readers move to a stage that no consumer holds.
LEMMA Leaves ==
    ASSUME Inv, NEW l \in Lanes, NEW M \in SUBSET DOMAIN lane[l].at,
           \A e \in M : lane[l].at[e] \in InFlight \cup {"unread"}, NEW d \in M,
           lane[l].at[d] \in InFlight \/ (lane[l].at[d] = "unread" /\ ~Stopped(l)),
           NEW s \in {"asked", "named", "marked", "gone"}, NEW doing, NEW stop \in BOOLEAN, NEW failed \in BOOLEAN,
           doing = lane[l].doing \/ doing = "drain",
           doing = "drain" => \A e \in DOMAIN lane[l].at : lane[l].at[e] \notin {"hand", "hand name"}
    PROVE  LaneOK(l, After(l, M, s, doing, lane[l].window, stop, failed))
<1> DEFINE r == After(l, M, s, doing, lane[l].window, stop, failed)
<1>1. /\ r = [mode |-> r.mode, at |-> r.at, doing |-> r.doing, window |-> r.window,
              stop |-> r.stop, failed |-> r.failed]
      /\ r.mode = lane[l].mode /\ r.doing = doing /\ r.window = lane[l].window
      /\ r.stop = stop /\ r.failed = failed /\ DOMAIN r.at = DOMAIN lane[l].at
      /\ r.at = [e \in DOMAIN lane[l].at |-> IF e \in M THEN s ELSE lane[l].at[e]]
  BY DEF After, Move
<1> HIDE DEF r
<1>2. LaneOK(l, lane[l])
  BY Docs
<1>3. Typed(l, r)
  <2>1. lane[l].at \in [DOMAIN Sizes[l[1]][lane[l].mode] -> Stages] /\ lane[l].mode \in Modes
        /\ lane[l].window \in {"none", "normal", "large"} /\ lane[l].doing \in Doings
    BY <1>2 DEF LaneOK, Typed
  <2>2. s \in Stages /\ doing \in Doings
    BY <2>1 DEF Stages, Doings
  <2>3. r.at \in [DOMAIN Sizes[l[1]][lane[l].mode] -> Stages]
    <3> DEFINE D == DOMAIN Sizes[l[1]][lane[l].mode]
    <3>1. DOMAIN lane[l].at = D /\ \A e \in D : lane[l].at[e] \in Stages
      BY <2>1
    <3> HIDE DEF D
    <3>2. r.at = [e \in D |-> IF e \in M THEN s ELSE lane[l].at[e]]
      BY <1>1, <3>1
    <3>3. \A e \in D : (IF e \in M THEN s ELSE lane[l].at[e]) \in Stages
      BY <2>2, <3>1
    <3>4. r.at \in [D -> Stages]
      BY <3>2, <3>3
    <3> QED
      BY <3>4 DEF D
  <2> QED
    BY <1>1, <2>1, <2>2, <2>3 DEF Typed
<1>4. lane[l].doing \notin {"last", "delta"} /\ \A e \in M : lane[l].at[e] \notin {"pending", "hand", "hand name", "model"}
  BY <1>2 DEF LaneOK, ClosedOK, Closes, InFlight, Stopped
<1>5. lane[l].mode # "over"
  BY OverHasNone
<1>6. \A e \in DOMAIN r.at : /\ e \notin M => r.at[e] = lane[l].at[e]
                             /\ e \in M => r.at[e] = s
  BY <1>1
<1>7. \A e \in DOMAIN r.at : r.at[e] \in {"pending", "hand", "hand name", "model"} => e \notin M
  BY <1>6
<1>8. DoingOK(r) /\ RunsOK(l, r) /\ r.doing \notin {"last", "delta"}
  <2>1. lane[l].mode \in {"full", "delta", "grown", "vectors"} /\ (doing = lane[l].doing \/ doing = "drain")
    BY <1>2, <1>5 DEF LaneOK, Typed, Modes
  <2>2. /\ lane[l].mode = "full" => lane[l].doing \in {"receive", "finish", "switch", "add", "drain", "last"}
        /\ lane[l].mode \in {"delta", "grown"} => lane[l].doing \in {"receive", "drain", "delta"}
        /\ lane[l].mode = "vectors" => lane[l].doing \in {"receive", "send", "drain", "last"}
        /\ phase[l[1]] = "run"
    BY <1>2, <1>5 DEF LaneOK, DoingOK, RunsOK
  <2> QED
    BY <1>1, <1>4, <2>1, <2>2 DEF DoingOK, RunsOK
<1>9. HandOK(r)
  <2> SUFFICES ASSUME NEW e \in DOMAIN r.at, r.at[e] \in {"hand", "hand name"}
               PROVE  /\ r.mode = "full" /\ r.doing \in {"switch", "add"}
                      /\ \A f \in DOMAIN r.at : r.at[f] \in {"hand", "hand name"} => f = e
    BY DEF HandOK
  <2>1. e \in DOMAIN lane[l].at /\ lane[l].at[e] \in {"hand", "hand name"}
    BY <1>1, <1>6, <1>7
  <2>2. /\ lane[l].mode = "full" /\ lane[l].doing \in {"switch", "add"}
        /\ \A f \in DOMAIN lane[l].at : lane[l].at[f] \in {"hand", "hand name"} => f = e
    BY <1>2, <2>1 DEF LaneOK, HandOK
  <2>3. \A f \in DOMAIN r.at : r.at[f] \in {"hand", "hand name"} => f = e
    BY <1>1, <1>6, <1>7, <2>2
  <2> QED
    BY <1>1, <2>1, <2>2, <2>3
<1>10. ModelOK(r)
  BY <1>1, <1>2, <1>6, <1>7 DEF LaneOK, ModelOK
<1>11. WindowOK(r)
  BY <1>1, <1>2, <1>6, <1>7 DEF LaneOK, WindowOK
<1>12. SendOK(r)
  <2>1. r.doing = "send" => \E e \in DOMAIN lane[l].at : lane[l].at[e] = "pending"
    BY <1>1, <1>2 DEF LaneOK, SendOK
  <2> QED
    BY <1>1, <1>4, <1>6, <2>1 DEF SendOK
<1>13. ClosedOK(l, r)
  BY <1>8 DEF ClosedOK
<1>14. LaneOK(l, r)
  BY <1>3, <1>8, <1>9, <1>10, <1>11, <1>12, <1>13 DEF LaneOK
<1> QED
  BY <1>14 DEF r

\* A document in hand leaves, or joins the window: no other is in hand.
LEMMA Placed ==
    ASSUME Inv, NEW l \in Lanes, NEW d \in DOMAIN lane[l].at,
           NEW s \in {"gone", "pending", "hand", "hand name"}, NEW doing, NEW window \in {"none", "normal", "large"},
           NEW stop \in BOOLEAN, NEW failed \in BOOLEAN,
           lane[l].mode = "full", lane[l].at[d] \in InFlight \cup {"hand", "hand name"},
           \A e \in DOMAIN lane[l].at : e # d => lane[l].at[e] \notin {"hand", "hand name"},
           doing \in {"receive", "finish", "drain"} \/ (doing = "switch" /\ s \in {"hand", "hand name"}),
           s \in {"hand", "hand name"} => doing = "switch",
           window = "none" => lane[l].window = "none" /\ s # "pending"
    PROVE  LaneOK(l, After(l, {d}, s, doing, window, stop, failed))
<1> DEFINE r == After(l, {d}, s, doing, window, stop, failed)
<1>1. /\ r = [mode |-> r.mode, at |-> r.at, doing |-> r.doing, window |-> r.window,
              stop |-> r.stop, failed |-> r.failed]
      /\ r.mode = "full" /\ r.doing = doing /\ r.window = window
      /\ r.stop = stop /\ r.failed = failed /\ DOMAIN r.at = DOMAIN lane[l].at
      /\ r.at = [e \in DOMAIN lane[l].at |-> IF e = d THEN s ELSE lane[l].at[e]]
  BY DEF After, Move
<1> HIDE DEF r
<1>2. LaneOK(l, lane[l])
  BY Docs
<1>3. Typed(l, r)
  <2>1. lane[l].at \in [DOMAIN Sizes[l[1]][lane[l].mode] -> Stages]
    BY <1>2 DEF LaneOK, Typed
  <2>2. s \in Stages /\ doing \in Doings /\ r.mode \in Modes
    BY <1>1 DEF Stages, Doings, Modes
  <2>3. r.at \in [DOMAIN Sizes[l[1]][lane[l].mode] -> Stages]
    BY <1>1, <2>1, <2>2
  <2> QED
    BY <1>1, <2>2, <2>3 DEF Typed
<1>4. \A e \in DOMAIN r.at : (e # d => r.at[e] = lane[l].at[e]) /\ r.at[d] = s
  BY <1>1
<1>5. DoingOK(r) /\ ClosedOK(l, r) /\ SendOK(r)
  BY <1>1 DEF DoingOK, ClosedOK, SendOK
<1>6. RunsOK(l, r)
  BY <1>1, <1>2 DEF LaneOK, RunsOK
<1>7. HandOK(r)
  BY <1>1, <1>4 DEF HandOK
<1>8. ModelOK(r)
  BY <1>1, <1>2, <1>4 DEF LaneOK, ModelOK
<1>9. WindowOK(r)
  BY <1>1, <1>2, <1>4 DEF LaneOK, WindowOK
<1>10. LaneOK(l, r)
  BY <1>3, <1>5, <1>6, <1>7, <1>8, <1>9 DEF LaneOK
<1> QED
  BY <1>10 DEF r

\* What the readers do never changes what the consumer does.
LEMMA ReadersLeave ==
    ASSUME Inv, NEW l \in Lanes, NEW M \in SUBSET DOMAIN lane[l].at,
           \A e \in M : lane[l].at[e] \in InFlight \cup {"unread"}, NEW d \in M,
           lane[l].at[d] \in InFlight \/ (lane[l].at[d] = "unread" /\ ~Stopped(l)),
           NEW s \in {"asked", "named", "marked", "gone"}, NEW stop \in BOOLEAN, NEW failed \in BOOLEAN
    PROVE  LaneOK(l, After(l, M, s, lane[l].doing, lane[l].window, stop, failed))
<1>1. lane[l].doing = "drain" => \A e \in DOMAIN lane[l].at : lane[l].at[e] \notin {"hand", "hand name"}
  BY Docs DEF LaneOK, HandOK
<1> QED
  BY <1>1, Leaves

\* Binary content, a failed read, and a document that is dropped.
LEMMA ReadersKeep ==
    ASSUME Inv, NEW l \in Lanes, NEW d,
           \/ d \in Granted(l) /\ (ReadBinary(l, d) \/ ReadError(l, d))
           \/ d \in Offered(l) /\ Drop(l, d)
    PROVE  Inv'
<1> DEFINE r == lane[l]
<1>1. /\ d \in DOMAIN r.at /\ d \notin Waiting(l) /\ r.at[d] \in InFlight
      /\ d \in Held(l) <=> r.at[d] \in {"asked", "marked"}
  BY InHand DEF InFlight
<1>2. r.stop \in BOOLEAN /\ r.failed \in BOOLEAN
  BY Docs DEF LaneOK, Typed
<1>3. ASSUME NEW s \in {"named", "marked", "gone"}, NEW x \in BOOLEAN, NEW y \in BOOLEAN, NEW docs,
             Become(l, After(l, {d}, s, r.doing, r.window, x, y), docs), faults' \in 0..MaxFaults,
             docs \subseteq {d}, s \in Asking <=> d \in Held(l) \ docs
      PROVE  Inv'
  <2>1. LaneOK(l, After(l, {d}, s, r.doing, r.window, x, y))
    <3>1. {d} \in SUBSET DOMAIN r.at /\ d \in {d} /\ \A e \in {d} : r.at[e] \in InFlight \cup {"unread"}
      BY <1>1
    <3> QED
      BY <1>1, <3>1, ReadersLeave
  <2> QED
    BY <1>1, <1>3, <2>1, Moved
<1>4. {"marked", "asked"} \subseteq Asking /\ "named" \notin Asking /\ "gone" \notin Asking
  BY DEF Asking, Weighs
<1>5. CASE d \in Granted(l) /\ ReadBinary(l, d)
  <2>1. r.at[d] = "asked" /\ faults' \in 0..MaxFaults
    BY <1>5, InHand, FaultsCount DEF ReadBinary
  <2>2. CASE Become(l, [r EXCEPT !.at[d] = "marked"], {})
    <3>1. Become(l, After(l, {d}, "marked", r.doing, r.window, r.stop, r.failed), {})
      BY <1>1, <2>2, OneDoc
    <3> QED
      BY <1>1, <1>2, <1>3, <1>4, <2>1, <3>1
  <2>3. CASE Become(l, [r EXCEPT !.at[d] = "named"], {d})
    <3>1. Become(l, After(l, {d}, "named", r.doing, r.window, r.stop, r.failed), {d})
      BY <1>1, <2>3, OneDoc
    <3> QED
      BY <1>1, <1>2, <1>3, <1>4, <2>1, <3>1
  <2> QED
    BY <1>5, <2>2, <2>3 DEF ReadBinary
<1>6. CASE d \in Granted(l) /\ ReadError(l, d)
  <2>1. r.at[d] = "asked" /\ faults' \in 0..MaxFaults
    BY <1>6, InHand, FaultsCount DEF ReadError
  <2>2. CASE Become(l, [r EXCEPT !.at = Move(l, At(l, {"unread"}) \cup {d}, "gone"), !.failed = TRUE], {d})
    <3> DEFINE M == At(l, {"unread"}) \cup {d}
    <3>1. [r EXCEPT !.at = Move(l, M, "gone"), !.failed = TRUE]
          = After(l, M, "gone", r.doing, r.window, r.stop, TRUE)
      <4> DEFINE yes == TRUE
      <4>1. [r EXCEPT !.at = Move(l, M, "gone"), !.failed = yes] = PutFailed(PutAt(r, Move(l, M, "gone")), yes)
        BY DEF PutFailed, PutAt
      <4> HIDE DEF yes
      <4>2. PutFailed(PutAt(r, Move(l, M, "gone")), yes) = After(l, M, "gone", r.doing, r.window, r.stop, yes)
        BY LaneIs, Puts
      <4> QED
        BY <4>1, <4>2 DEF yes
    <3>2. M \cap Waiting(l) = {} /\ d \in Held(l) /\ M \cap Held(l) = {d}
      BY <1>1, <1>4, <2>1, Docs DEF Asking, Weighs
    <3>3. LaneOK(l, After(l, M, "gone", r.doing, r.window, r.stop, TRUE))
      <4>1. \A e \in M : r.at[e] \in InFlight \cup {"unread"}
        BY <1>1, Docs
      <4>2. M \in SUBSET DOMAIN r.at /\ d \in M
        BY <1>1, Docs
      <4> HIDE DEF M
      <4> QED
        BY <1>1, <1>2, <4>1, <4>2, ReadersLeave
    <3>4. Become(l, After(l, M, "gone", r.doing, r.window, r.stop, TRUE), {d})
      BY <2>2, <3>1
    <3> HIDE DEF M
    <3>5. \A e \in M : e \in DOMAIN r.at => ("gone" \in Asking <=> e \in Held(l) \ {d})
      BY <1>4, <3>2
    <3>6. {d} \cap Held(l) \subseteq M
      BY <3>2
    <3> QED
      BY <2>1, <3>2, <3>3, <3>4, <3>5, <3>6, Moved, ZenonT(30)
  <2>3. CASE Become(l, [r EXCEPT !.at[d] = "gone", !.stop = TRUE, !.failed = TRUE], {d})
    <3>1. Become(l, Cut(r, d), {d})
      BY <2>3 DEF Cut
    <3>2. Become(l, After(l, {d}, "gone", r.doing, r.window, Yes, Yes), {d})
      BY <1>1, <3>1, OneDoc
    <3>3. Yes \in BOOLEAN
      BY DEF Yes
    <3> QED
      BY <1>1, <1>2, <1>3, <1>4, <2>1, <3>2, <3>3
  <2>4. CASE Become(l, [r EXCEPT !.at[d] = "marked"], {})
    <3>1. Become(l, After(l, {d}, "marked", r.doing, r.window, r.stop, r.failed), {})
      BY <1>1, <2>4, OneDoc
    <3> QED
      BY <1>1, <1>2, <1>3, <1>4, <2>1, <3>1
  <2> QED
    BY <1>6, <2>2, <2>3, <2>4 DEF ReadError
<1>7. CASE d \in Offered(l) /\ Drop(l, d)
  <2>1. faults' \in 0..MaxFaults /\ Become(l, [r EXCEPT !.at[d] = "gone"], {d})
    BY <1>7, FaultsCount DEF Drop
  <2>2. Become(l, After(l, {d}, "gone", r.doing, r.window, r.stop, r.failed), {d})
    BY <1>1, <2>1, OneDoc
  <2> QED
    BY <1>1, <1>2, <1>3, <1>4, <2>1, <2>2
<1> QED
  BY <1>5, <1>6, <1>7

(***************************************************************************)
(* The consumer of a full build.                                           *)
(***************************************************************************)

\* One document moves and keeps its weight or gives it back.
LEMMA DocMoves ==
    ASSUME Inv, NEW l \in Lanes, NEW d \in DOMAIN lane[l].at, d \notin Waiting(l),
           NEW s, NEW g, NEW w, NEW x, NEW y, NEW docs \in SUBSET {d},
           Become(l, After(l, {d}, s, g, w, x, y), docs), faults' \in 0..MaxFaults,
           s \in Asking <=> d \in Held(l) \ docs,
           LaneOK(l, After(l, {d}, s, g, w, x, y))
    PROVE  Inv'
<1>1. {d} \cap Waiting(l) = {} /\ docs \cap Held(l) \subseteq {d}
  OBVIOUS
<1>2. \A e \in {d} : e \in DOMAIN lane[l].at => (s \in Asking <=> e \in Held(l) \ docs)
  OBVIOUS
<1> QED
  BY <1>1, <1>2, Moved

\* The stages in which a document asks for weight.
LEMMA AskingIs ==
    /\ {"asked", "marked", "hand", "pending", "model"} \subseteq Asking
    /\ "unread" \notin Asking /\ "named" \notin Asking /\ "hand name" \notin Asking /\ "gone" \notin Asking
BY DEF Asking, Weighs

\* What becomes of a document that is added, and what it gives back.
Adding(l, d, s, w, given) ==
    /\ s \in {"gone", "pending"} /\ w \in {"normal", "large"} /\ given \in SUBSET {d}
    /\ s \in Asking <=> d \in Held(l) \ given

\* A document that is added, or the builder that fails with it, keeps the invariant.
LEMMA AddsOne ==
    ASSUME Inv, NEW l \in Lanes, NEW d \in DOMAIN lane[l].at, d \notin Waiting(l),
           lane[l].mode = "full", lane[l].at[d] \in InFlight \cup {"hand", "hand name"},
           \A e \in DOMAIN lane[l].at : e # d => lane[l].at[e] \notin {"hand", "hand name"},
           NEW s, NEW w, NEW given, Adding(l, d, s, w, given), faults' \in 0..MaxFaults,
           \/ Become(l, PutDoing(Places(lane[l], d, s, w), "receive"), given)
           \/ Become(l, PutDoing(Places(lane[l], d, s, w), "finish"), given)
           \/ lane[l].window = "none" /\ Become(l, Draining(lane[l], d), {d})
           \/ Become(l, Stops(Places(lane[l], d, s, w), "drain"), given)
    PROVE  Inv'
<1> DEFINE r == lane[l]
<1>1. r.stop \in BOOLEAN /\ r.failed \in BOOLEAN /\ r.window \in {"none", "normal", "large"}
  BY Docs DEF LaneOK, Typed
<1>2. \/ Become(l, After(l, {d}, s, "receive", w, r.stop, r.failed), given)
      \/ Become(l, After(l, {d}, s, "finish", w, r.stop, r.failed), given)
      \/ r.window = "none" /\ Become(l, After(l, {d}, "gone", "drain", "none", Yes, Yes), {d})
      \/ Become(l, After(l, {d}, s, "drain", w, Yes, Yes), given)
  <2>1. /\ PutDoing(Places(r, d, s, w), "receive") = After(l, {d}, s, "receive", w, r.stop, r.failed)
        /\ PutDoing(Places(r, d, s, w), "finish") = After(l, {d}, s, "finish", w, r.stop, r.failed)
    BY PlacesAre
  <2>3. Stops(Places(r, d, s, w), "drain") = After(l, {d}, s, "drain", w, Yes, Yes)
    BY PlacesAre, ZenonT(30)
  <2>2. Draining(r, d) = After(l, {d}, "gone", "drain", r.window, Yes, Yes)
    BY OneDoc
  <2> QED
    BY <2>1, <2>2, <2>3
<1>3. ASSUME NEW t \in {"gone", "pending"}, NEW g \in {"receive", "finish", "drain"},
             NEW v \in {"none", "normal", "large"}, NEW x \in BOOLEAN, NEW y \in BOOLEAN,
             NEW docs \in SUBSET {d}, v = "none" => r.window = "none" /\ t # "pending",
             t \in Asking <=> d \in Held(l) \ docs,
             Become(l, After(l, {d}, t, g, v, x, y), docs)
      PROVE  Inv'
  <2>1. LaneOK(l, After(l, {d}, t, g, v, x, y))
    BY <1>3, Placed
  <2> QED
    BY <1>3, <2>1, DocMoves
<1>6. Yes \in BOOLEAN
  BY DEF Yes
<1>4. CASE r.window = "none" /\ Become(l, After(l, {d}, "gone", "drain", "none", Yes, Yes), {d})
  BY <1>3, <1>4, <1>6, AskingIs
<1>5. CASE \/ Become(l, After(l, {d}, s, "receive", w, r.stop, r.failed), given)
           \/ Become(l, After(l, {d}, s, "finish", w, r.stop, r.failed), given)
           \/ Become(l, After(l, {d}, s, "drain", w, Yes, Yes), given)
  <2>1. /\ s \in {"gone", "pending"} /\ w \in {"none", "normal", "large"} /\ w # "none"
        /\ given \in SUBSET {d} /\ (s \in Asking <=> d \in Held(l) \ given)
    BY DEF Adding
  <2>2. CASE Become(l, After(l, {d}, s, "receive", w, r.stop, r.failed), given)
    BY <1>1, <1>3, <2>1, <2>2, ZenonT(30)
  <2>3. CASE Become(l, After(l, {d}, s, "finish", w, r.stop, r.failed), given)
    BY <1>1, <1>3, <2>1, <2>3, ZenonT(30)
  <2>4. CASE Become(l, After(l, {d}, s, "drain", w, Yes, Yes), given)
    BY <1>3, <1>6, <2>1, <2>4
  <2> QED
    BY <1>5, <2>2, <2>3, <2>4
<1> QED
  BY <1>2, <1>4, <1>5

\* A document in hand is added to a window, or the consumer drains.
LEMMA Adds ==
    ASSUME Inv, NEW l \in Lanes, NEW d \in DOMAIN lane[l].at, d \notin Waiting(l),
           lane[l].mode = "full", lane[l].at[d] \in InFlight \cup {"hand", "hand name"},
           \A e \in DOMAIN lane[l].at : e # d => lane[l].at[e] \notin {"hand", "hand name"},
           Add(l, d)
    PROVE  Inv'
<1>1. faults' \in 0..MaxFaults
  BY FaultsCount DEF Add
<1>2. CASE Large(l, d)
  <2>1. d \in Held(l)
    <3>1. lane[l].at[d] \in {"asked", "hand"}
      BY <1>2 DEF Large
    <3>2. d \in Held(l) <=> lane[l].at[d] \in Asking
      BY Docs
    <3> QED
      BY <3>1, <3>2, AskingIs
  <2>2. Kind(l, d) = "large"
    BY <1>2 DEF Kind
  <2>3. \/ Become(l, PutDoing(Places(lane[l], d, "pending", "large"), "receive"), {})
        \/ Become(l, PutDoing(Places(lane[l], d, "pending", "large"), "finish"), {})
        \/ lane[l].window = "none" /\ Become(l, Draining(lane[l], d), {d})
        \/ Become(l, Stops(Places(lane[l], d, "pending", "large"), "drain"), {})
    BY <1>2, <2>2 DEF Add, PutDoing, Places, Stops
  <2>4. Adding(l, d, "pending", "large", {})
    BY <2>1, AskingIs DEF Adding
  <2> QED
    BY <1>1, <2>3, <2>4, AddsOne
<1>3. CASE ~Large(l, d)
  <2>2. Kind(l, d) = "normal"
    BY <1>3 DEF Kind
  <2>3. \/ Become(l, PutDoing(Places(lane[l], d, "gone", "normal"), "receive"), {d})
        \/ Become(l, PutDoing(Places(lane[l], d, "gone", "normal"), "finish"), {d})
        \/ lane[l].window = "none" /\ Become(l, Draining(lane[l], d), {d})
        \/ Become(l, Stops(Places(lane[l], d, "gone", "normal"), "drain"), {d})
    BY <1>3, <2>2 DEF Add, PutDoing, Places, Stops
  <2>4. Adding(l, d, "gone", "normal", {d})
    BY AskingIs DEF Adding
  <2> QED
    BY <1>1, <2>3, <2>4, AddsOne
<1> QED
  BY <1>2, <1>3

\* A full build receives a document, adds the one in hand, or drains.
LEMMA FullReceives ==
    ASSUME Inv, NEW l \in Lanes, NEW d,
           \/ d \in Offered(l) /\ (Receive(l, d) \/ Drain(l, d))
           \/ d \in At(l, {"hand", "hand name"}) /\ AddHand(l, d)
    PROVE  Inv'
<1> DEFINE r == lane[l]
<1>1. r.stop \in BOOLEAN /\ r.failed \in BOOLEAN /\ r.window \in {"none", "normal", "large"}
  BY Docs DEF LaneOK, Typed
<1>2. HandOK(r)
  BY Docs DEF LaneOK
<1>3. CASE d \in At(l, {"hand", "hand name"}) /\ AddHand(l, d)
  <2>1. d \in DOMAIN r.at /\ r.at[d] \in {"hand", "hand name"}
    BY <1>3, Docs
  <2>2. d \notin Waiting(l)
    BY <2>1, Docs
  <2>3. r.mode = "full" /\ \A e \in DOMAIN r.at : e # d => r.at[e] \notin {"hand", "hand name"}
    BY <1>2, <2>1 DEF HandOK
  <2> QED
    BY <1>3, <2>1, <2>2, <2>3, Adds DEF AddHand
<1>4. CASE d \in Offered(l) /\ Drain(l, d)
  <2>1. d \in DOMAIN r.at /\ r.at[d] \in InFlight /\ d \notin Waiting(l)
    BY <1>4, InHand
  <2>2. r.doing = "drain" /\ faults' \in 0..MaxFaults /\ Become(l, [r EXCEPT !.at[d] = "gone"], {d})
    BY <1>4, FaultsCount DEF Drain
  <2>3. Become(l, After(l, {d}, "gone", r.doing, r.window, r.stop, r.failed), {d})
    BY <2>1, <2>2, OneDoc
  <2>4. LaneOK(l, After(l, {d}, "gone", r.doing, r.window, r.stop, r.failed))
    <3>1. {d} \in SUBSET DOMAIN r.at /\ d \in {d} /\ \A e \in {d} : r.at[e] \in InFlight \cup {"unread"}
      BY <2>1
    <3> QED
      BY <1>1, <2>1, <3>1, ReadersLeave
  <2> QED
    BY <2>1, <2>2, <2>3, <2>4, AskingIs, DocMoves
<1>5. CASE d \in Offered(l) /\ Receive(l, d)
  <2>1. d \in DOMAIN r.at /\ r.at[d] \in InFlight /\ d \notin Waiting(l)
        /\ (d \in Held(l) <=> r.at[d] \in {"asked", "marked"})
    BY <1>5, InHand
  <2>2. r.mode = "full" /\ r.doing = "receive"
    BY <1>5 DEF Receive
  <2>3. \A e \in DOMAIN r.at : r.at[e] \notin {"hand", "hand name"}
    BY <1>2, <2>2 DEF HandOK
  <2>4. CASE Add(l, d)
    BY <2>1, <2>2, <2>3, <2>4, Adds
  <2>5. CASE NoFault /\ Become(l, Draining(r, d), {d})
    <3>1. Become(l, After(l, {d}, "gone", "drain", r.window, Yes, Yes), {d})
      BY <2>1, <2>5, OneDoc
    <3>2. LaneOK(l, After(l, {d}, "gone", "drain", r.window, Yes, Yes))
      <4>1. Yes \in BOOLEAN
        BY DEF Yes
      <4> QED
        BY <1>1, <2>1, <2>2, <2>3, <4>1, Placed
    <3> QED
      BY <2>1, <2>5, <3>1, <3>2, AskingIs, FaultsCount, DocMoves
  <2>6. CASE /\ NoFault /\ r.window \notin {"none", Kind(l, d)}
             /\ Become(l, [r EXCEPT !.doing = "switch",
                              !.at[d] = IF r.at[d] = "asked" THEN "hand" ELSE "hand name"],
                       IF r.at[d] = "marked" THEN {d} ELSE {})
    <3>1. ASSUME NEW s \in {"hand", "hand name"}, NEW docs \in SUBSET {d}, NEW x \in BOOLEAN, NEW y \in BOOLEAN,
                 s \in Asking <=> d \in Held(l) \ docs,
                 Become(l, After(l, {d}, s, "switch", r.window, x, y), docs)
          PROVE  Inv'
      <4>1. s \in {"gone", "pending", "hand", "hand name"} /\ r.window # "none"
            /\ \A e \in DOMAIN r.at : e # d => r.at[e] \notin {"hand", "hand name"}
        BY <2>3, <2>6
      <4>2. LaneOK(l, After(l, {d}, s, "switch", r.window, x, y))
        BY <1>1, <2>1, <2>2, <4>1, Placed
      <4>3. faults' \in 0..MaxFaults
        BY <2>6, FaultsCount
      <4> QED
        BY <2>1, <3>1, <4>2, <4>3, DocMoves
    <3>2. CASE r.at[d] = "asked"
      <4>1. Become(l, Switches(r, d, "hand"), {})
        BY <2>6, <3>2 DEF Switches
      <4>2. Become(l, After(l, {d}, "hand", "switch", r.window, r.stop, r.failed), {})
        BY <2>1, <4>1, OneDoc
      <4>3. "hand" \in Asking <=> d \in Held(l) \ {}
        BY <2>1, <3>2, AskingIs
      <4> QED
        BY <1>1, <3>1, <4>2, <4>3
    <3>3. CASE r.at[d] # "asked"
      <4> DEFINE docs == IF r.at[d] = "marked" THEN {d} ELSE {}
      <4>1. Become(l, Switches(r, d, "hand name"), docs)
        BY <2>6, <3>3 DEF Switches
      <4>2. docs \in SUBSET {d} /\ ("hand name" \in Asking <=> d \in Held(l) \ docs)
        BY <2>1, <3>3, AskingIs
      <4> HIDE DEF docs
      <4>3. Become(l, After(l, {d}, "hand name", "switch", r.window, r.stop, r.failed), docs)
        BY <2>1, <4>1, OneDoc
      <4> QED
        BY <1>1, <3>1, <4>2, <4>3
    <3> QED
      BY <3>2, <3>3
  <2> QED
    BY <1>5, <2>4, <2>5, <2>6 DEF Receive
<1> QED
  BY <1>3, <1>4, <1>5

(***************************************************************************)
(* The steps of a consumer that move all documents of a stage.             *)
(***************************************************************************)

\* What a consumer may do in a mode.
Does(mode, doing) ==
    /\ mode = "full" => doing \in {"receive", "finish", "switch", "add", "drain", "last"}
    /\ mode \in {"delta", "grown"} => doing \in {"receive", "drain", "delta"}
    /\ mode = "vectors" => doing \in {"receive", "send", "drain", "last"}
    /\ mode = "over" => doing = "over"

\* A batch that is sent has documents: those that join it, or those that stay in it.
Sending(l, M, s, doing) ==
    doing = "send" => (s = "pending" /\ M # {}) \/ At(l, {"pending"}) \ M # {}

\* A consumer that keeps what it must keep, when documents leave it or join its batch.
LEMMA Keeps ==
    ASSUME Inv, NEW l \in Lanes, NEW M \in SUBSET DOMAIN lane[l].at,
           NEW s \in {"gone", "pending", "model"}, NEW doing \in Doings,
           NEW window \in {"none", "normal", "large"}, NEW stop \in BOOLEAN, NEW failed \in BOOLEAN,
           Does(lane[l].mode, doing),
           At(l, {"hand", "hand name"}) \subseteq M
              \/ (lane[l].mode = "full" /\ doing \in {"switch", "add"}),
           s = "model" => lane[l].mode = "vectors",
           lane[l].mode = "full" /\ window = "none" => s # "pending" /\ At(l, {"pending"}) \subseteq M,
           doing \in {"last", "delta"} => Closes(l, lane[l]) /\ (lane[l].stop => stop),
           Sending(l, M, s, doing)
    PROVE  LaneOK(l, After(l, M, s, doing, window, stop, failed))
<1> DEFINE r == After(l, M, s, doing, window, stop, failed)
<1>1. /\ r = [mode |-> r.mode, at |-> r.at, doing |-> r.doing, window |-> r.window,
              stop |-> r.stop, failed |-> r.failed]
      /\ r.mode = lane[l].mode /\ r.doing = doing /\ r.window = window
      /\ r.stop = stop /\ r.failed = failed /\ DOMAIN r.at = DOMAIN lane[l].at
      /\ r.at = [e \in DOMAIN lane[l].at |-> IF e \in M THEN s ELSE lane[l].at[e]]
  BY DEF After, Move
<1> HIDE DEF r
<1>2. LaneOK(l, lane[l])
  BY Docs
<1>3. Typed(l, r)
  <2>1. lane[l].at \in [DOMAIN Sizes[l[1]][lane[l].mode] -> Stages] /\ lane[l].mode \in Modes
    BY <1>2 DEF LaneOK, Typed
  <2>2. s \in Stages
    BY DEF Stages
  <2>3. r.at \in [DOMAIN Sizes[l[1]][lane[l].mode] -> Stages]
    <3> DEFINE D == DOMAIN Sizes[l[1]][lane[l].mode]
    <3>1. DOMAIN lane[l].at = D /\ \A e \in D : lane[l].at[e] \in Stages
      BY <2>1
    <3> HIDE DEF D
    <3>2. r.at = [e \in D |-> IF e \in M THEN s ELSE lane[l].at[e]]
      BY <1>1, <3>1
    <3>3. \A e \in D : (IF e \in M THEN s ELSE lane[l].at[e]) \in Stages
      BY <2>2, <3>1
    <3>4. r.at \in [D -> Stages]
      BY <3>2, <3>3
    <3> QED
      BY <3>4 DEF D
  <2> QED
    BY <1>1, <2>1, <2>3 DEF Typed
<1>4. /\ \A e \in DOMAIN r.at : /\ e \in M => r.at[e] = s
                                /\ e \notin M => r.at[e] = lane[l].at[e]
      /\ \A e \in M : e \in DOMAIN r.at
  BY <1>1
<1>5. DoingOK(r)
  BY <1>1 DEF DoingOK, Does
<1>6. RunsOK(l, r)
  BY <1>1, <1>2 DEF LaneOK, RunsOK
<1>7. HandOK(r)
  <2> SUFFICES ASSUME NEW e \in DOMAIN r.at, r.at[e] \in {"hand", "hand name"}
               PROVE  /\ r.mode = "full" /\ r.doing \in {"switch", "add"}
                      /\ \A f \in DOMAIN r.at : r.at[f] \in {"hand", "hand name"} => f = e
    BY DEF HandOK
  <2>1. \A f \in DOMAIN r.at : r.at[f] \in {"hand", "hand name"} =>
            f \notin M /\ f \in DOMAIN lane[l].at /\ lane[l].at[f] \in {"hand", "hand name"}
    BY <1>1, <1>4
  <2>2. e \in At(l, {"hand", "hand name"}) /\ e \notin M
    BY <2>1 DEF At
  <2>3. \A f \in DOMAIN lane[l].at : lane[l].at[f] \in {"hand", "hand name"} => f = e
    BY <1>2, <2>1 DEF LaneOK, HandOK
  <2> QED
    BY <1>1, <2>1, <2>2, <2>3
<1>8. ModelOK(r)
  <2> SUFFICES ASSUME NEW e \in DOMAIN r.at, r.at[e] = "model" PROVE r.mode = "vectors"
    BY DEF ModelOK
  <2>1. CASE e \in M
    BY <1>1, <1>4, <2>1
  <2>2. CASE e \notin M
    BY <1>1, <1>2, <1>4, <2>2 DEF LaneOK, ModelOK
  <2> QED
    BY <2>1, <2>2
<1>9. WindowOK(r)
  <2> SUFFICES ASSUME r.mode = "full", r.window = "none", NEW e \in DOMAIN r.at PROVE r.at[e] # "pending"
    BY DEF WindowOK
  <2>1. s # "pending" /\ At(l, {"pending"}) \subseteq M
    BY <1>1
  <2> QED
    BY <1>1, <1>4, <2>1 DEF At
<1>10. ClosedOK(l, r)
  <2> SUFFICES ASSUME doing \in {"last", "delta"} PROVE Closes(l, r)
    BY <1>1 DEF ClosedOK
  <2>1. Closes(l, lane[l]) /\ (lane[l].stop => stop)
    OBVIOUS
  <2>2. s \notin InFlight /\ s # "unread"
    BY DEF InFlight
  <2> QED
    BY <1>1, <1>4, <2>1, <2>2 DEF Closes
<1>11. SendOK(r)
  <2> SUFFICES ASSUME doing = "send" PROVE \E e \in DOMAIN r.at : r.at[e] = "pending"
    BY <1>1 DEF SendOK
  <2>3. (s = "pending" /\ M # {}) \/ At(l, {"pending"}) \ M # {}
    BY DEF Sending
  <2>1. CASE s = "pending" /\ M # {}
    BY <1>4, <2>1
  <2>2. CASE At(l, {"pending"}) \ M # {}
    BY <1>1, <1>4, <2>2 DEF At
  <2> QED
    BY <2>1, <2>2, <2>3
<1>12. LaneOK(l, r)
  BY <1>3, <1>5, <1>6, <1>7, <1>8, <1>9, <1>10, <1>11 DEF LaneOK
<1> QED
  BY <1>12 DEF r

\* The records that such steps make.
LEMMA AllAre ==
    ASSUME Inv, NEW l \in Lanes, NEW M, NEW s, NEW g
    PROVE  LET r == lane[l] IN
           /\ Empties(r, Move(l, M, s), g) = After(l, M, s, g, "none", r.stop, r.failed)
           /\ Loses(r, Move(l, M, s)) = After(l, M, s, "drain", "none", Yes, Yes)
           /\ Sends(r, Move(l, M, s), g) = After(l, M, s, g, r.window, r.stop, r.failed)
           /\ Fails(r, g, Move(l, M, s)) = After(l, M, s, g, r.window, Yes, Yes)
<1> DEFINE r == lane[l]
           a == Move(l, M, s)
<1>1. /\ r = LaneRecord(r.mode, r.at, r.doing, r.window, r.stop, r.failed)
      /\ \A p, q, t, u : After(l, M, s, p, q, t, u) = LaneRecord(r.mode, a, p, q, t, u)
  BY LaneIs
<1> HIDE DEF r, a
<1>2. /\ Empties(r, a, g) = LaneRecord(r.mode, a, g, "none", r.stop, r.failed)
      /\ Loses(r, a) = LaneRecord(r.mode, a, "drain", "none", Yes, Yes)
  BY <1>1, Changes
<1>3. /\ Sends(r, a, g) = LaneRecord(r.mode, a, g, r.window, r.stop, r.failed)
      /\ Fails(r, g, a) = LaneRecord(r.mode, a, g, r.window, Yes, Yes)
  BY <1>1, Changes
<1>4. /\ Empties(r, a, g) = After(l, M, s, g, "none", r.stop, r.failed)
      /\ Loses(r, a) = After(l, M, s, "drain", "none", Yes, Yes)
      /\ Sends(r, a, g) = After(l, M, s, g, r.window, r.stop, r.failed)
      /\ Fails(r, g, a) = After(l, M, s, g, r.window, Yes, Yes)
  BY <1>1, <1>2, <1>3
<1> QED
  BY <1>4 DEF r, a

\* A consumer that goes on without a document, and one whose lane only changes what it does.
LEMMA DoesNext ==
    ASSUME Inv, NEW l \in Lanes, NEW g
    PROVE  [lane[l] EXCEPT !.doing = g] = After(l, {}, "gone", g, lane[l].window, lane[l].stop, lane[l].failed)
<1> DEFINE r == lane[l]
<1>1. /\ r = LaneRecord(r.mode, r.at, r.doing, r.window, r.stop, r.failed)
      /\ \A p, q, t, u : After(l, {}, "gone", p, q, t, u) = LaneRecord(r.mode, r.at, p, q, t, u)
  BY LaneIs
<1>2. [r EXCEPT !.doing = g] = PutDoing(r, g)
  BY DEF PutDoing
<1>3. PutDoing(r, g) = LaneRecord(r.mode, r.at, g, r.window, r.stop, r.failed)
  <2> HIDE DEF r
  <2> QED
    BY <1>1, Puts
<1> QED
  BY <1>1, <1>2, <1>3

\* When the channel is closed, the consumer holds all weight of the lane.
LEMMA ClosedHolds ==
    ASSUME Inv, NEW l \in Lanes, Closes(l, lane[l])
    PROVE  /\ Waiting(l) = {}
           /\ Held(l) \subseteq At(l, {"hand", "pending", "model"})
           /\ lane[l].mode # "vectors" => Held(l) \subseteq At(l, {"hand", "pending"})
           /\ lane[l].doing \notin {"switch", "add"} => Held(l) \subseteq At(l, {"pending", "model"})
<1>1. \A d \in DOMAIN lane[l].at : lane[l].at[d] \notin {"asked", "named", "marked"}
  BY DEF Closes, InFlight
<1>2. Waiting(l) = {}
  BY <1>1, Docs
<1>3. Held(l) \subseteq At(l, {"hand", "pending", "model"})
  <2>1. \A d \in Held(l) : d \in DOMAIN lane[l].at /\ lane[l].at[d] \in Asking
    BY Docs
  <2> QED
    BY <1>1, <2>1 DEF At, Asking, Weighs
<1>4. HandOK(lane[l]) /\ ModelOK(lane[l])
  BY Docs DEF LaneOK
<1> QED
  BY <1>2, <1>3, <1>4 DEF At, HandOK, ModelOK

\* Documents of a lane move, and it gives back what they held.
LEMMA DocsMove ==
    ASSUME Inv, NEW l \in Lanes, NEW M \in SUBSET DOMAIN lane[l].at,
           NEW s \in {"gone", "pending", "model"}, NEW doing \in Doings,
           NEW window \in {"none", "normal", "large"}, NEW stop \in BOOLEAN, NEW failed \in BOOLEAN, NEW docs,
           Become(l, After(l, M, s, doing, window, stop, failed), docs), faults' \in 0..MaxFaults,
           \A d \in M : lane[l].at[d] \in {"hand", "hand name", "pending", "model"},
           docs = (IF s = "gone" THEN M ELSE {}), s # "gone" => \A d \in M : lane[l].at[d] = "pending",
           Does(lane[l].mode, doing),
           At(l, {"hand", "hand name"}) \subseteq M
              \/ (lane[l].mode = "full" /\ doing \in {"switch", "add"}),
           s = "model" => lane[l].mode = "vectors",
           lane[l].mode = "full" /\ window = "none" => s # "pending" /\ At(l, {"pending"}) \subseteq M,
           doing \in {"last", "delta"} => Closes(l, lane[l]) /\ (lane[l].stop => stop),
           Sending(l, M, s, doing)
    PROVE  Inv'
<1>1. LaneOK(l, After(l, M, s, doing, window, stop, failed))
  BY Keeps, ZenonT(30)
<1>2. M \cap Waiting(l) = {} /\ docs \cap Held(l) \subseteq M
  BY Docs
<1>3. ASSUME NEW d \in M PROVE s \in Asking <=> d \in Held(l) \ docs
  <2>1. d \in Held(l) <=> lane[l].at[d] \in Asking
    BY <1>2, Docs
  <2>2. CASE s = "gone"
    BY <2>2, AskingIs
  <2>3. CASE s # "gone"
    BY <2>1, <2>3, AskingIs
  <2> QED
    BY <2>2, <2>3
<1> QED
  BY <1>1, <1>2, <1>3, Moved

\* A full build closes a window.
LEMMA Finishes ==
    ASSUME Inv, NEW l \in Lanes, Finish(l)
    PROVE  Inv'
<1> DEFINE r == lane[l]
           pending == At(l, {"pending"})
           inHand == At(l, {"hand", "hand name"})
<1>1. r.stop \in BOOLEAN /\ r.failed \in BOOLEAN /\ r.window \in {"none", "normal", "large"}
  BY Docs DEF LaneOK, Typed
<1>2. r.mode = "full" /\ r.doing \in {"finish", "switch", "last"} /\ faults' \in 0..MaxFaults
  BY FaultsCount DEF Finish
<1>3. Yes \in BOOLEAN /\ "receive" \in Doings /\ "add" \in Doings /\ "drain" \in Doings
  BY DEF Yes, Doings
<1>4. r.doing # "switch" => inHand = {}
  BY <1>2, Docs DEF LaneOK, HandOK, At
<1>5. /\ pending \in SUBSET DOMAIN r.at /\ inHand \in SUBSET DOMAIN r.at
      /\ \A d \in pending : r.at[d] = "pending"
      /\ \A d \in inHand : r.at[d] \in {"hand", "hand name"}
  BY DEF At
<1>6. CASE r.doing = "last"
  <2>1. Waiting(l) = {} /\ Held(l) \subseteq pending
    <3>1. Closes(l, r)
      BY <1>6, Docs DEF LaneOK, ClosedOK
    <3>2. Held(l) \subseteq At(l, {"hand", "pending"})
      BY <1>2, <3>1, ClosedHolds
    <3>3. At(l, {"hand", "pending"}) \subseteq pending \cup inHand
      BY DEF At
    <3> QED
      BY <1>4, <1>6, <3>1, <3>2, <3>3, ClosedHolds
  <2>2. \E failed \in BOOLEAN : \E docs : Become(l, Over(l, failed), docs) /\ pending \subseteq docs
    BY <1>1, <1>6 DEF Finish
  <2>3. PICK failed \in BOOLEAN : \E docs : Become(l, Over(l, failed), docs) /\ pending \subseteq docs
    BY <2>2
  <2>4. PICK docs : Become(l, Over(l, failed), docs) /\ pending \subseteq docs
    BY <2>3
  <2>5. Held(l) \subseteq docs /\ r.mode # "over"
    BY <1>2, <2>1, <2>4
  <2> QED
    BY <1>2, <2>1, <2>4, <2>5, Begins
<1>7. CASE r.doing # "last"
  <2> DEFINE next == IF r.doing = "finish" THEN "receive" ELSE "add"
  <2>1. \/ Become(l, Empties(r, Move(l, pending, "gone"), next), pending)
        \/ Become(l, Loses(r, Move(l, pending \cup inHand, "gone")), pending \cup inHand)
    <3>1. r.doing \in {"finish", "switch"}
      BY <1>2, <1>7
    <3> DEFINE after == [finish |-> "receive", switch |-> "add", last |-> "over"]
    <3>4. after["finish"] = "receive" /\ after["switch"] = "add"
      OBVIOUS
    <3>5. \/ Become(l, IF r.doing = "last" THEN Over(l, r.failed)
                        ELSE [r EXCEPT !.at = Move(l, pending, "gone"),
                                       !.window = "none", !.doing = after[r.doing]], pending)
          \/ Become(l, IF r.doing = "last" THEN Over(l, TRUE)
                        ELSE [r EXCEPT !.at = Move(l, pending \cup inHand, "gone"),
                                       !.window = "none", !.doing = "drain",
                                       !.stop = TRUE, !.failed = TRUE], pending \cup inHand)
      BY DEF Finish
    <3> HIDE DEF after, pending, inHand
    <3>6. \/ Become(l, [r EXCEPT !.at = Move(l, pending, "gone"),
                                 !.window = "none", !.doing = after[r.doing]], pending)
          \/ Become(l, [r EXCEPT !.at = Move(l, pending \cup inHand, "gone"), !.window = "none",
                                 !.doing = "drain", !.stop = TRUE, !.failed = TRUE], pending \cup inHand)
      BY <1>7, <3>5
    <3>7. after[r.doing] = next
      BY <3>1, <3>4
    <3>2. CASE r.doing = "finish"
      BY <3>6, <3>7 DEF Empties, Loses
    <3>3. CASE r.doing = "switch"
      BY <3>6, <3>7 DEF Empties, Loses
    <3> QED
      BY <3>1, <3>2, <3>3
  <2>2. CASE Become(l, Empties(r, Move(l, pending, "gone"), next), pending)
    <3>1. ASSUME NEW g \in {"receive", "add"}, g = next, NEW M, M = pending,
                 NEW x \in BOOLEAN, x = r.stop, NEW y \in BOOLEAN, y = r.failed
          PROVE  Inv'
      <4>1. Become(l, After(l, M, "gone", g, "none", x, y), M)
        BY <2>2, <3>1, AllAre
      <4>2. Does(r.mode, g) /\ g \in Doings
        BY <1>2, <1>3 DEF Does
      <4>3. inHand \subseteq M \/ (r.mode = "full" /\ g \in {"switch", "add"})
        BY <1>2, <1>4, <1>7, <3>1
      <4>4. M \in SUBSET DOMAIN r.at /\ \A d \in M : r.at[d] \in {"hand", "hand name", "pending", "model"}
        BY <1>5, <3>1
      <4> QED
        BY <1>2, <3>1, <4>1, <4>2, <4>3, <4>4, DocsMove DEF Sending
    <3> HIDE DEF pending
    <3> QED
      BY <1>1, <3>1
  <2>3. CASE Become(l, Loses(r, Move(l, pending \cup inHand, "gone")), pending \cup inHand)
    <3> HIDE DEF pending, inHand
    <3>1. ASSUME NEW M, M = pending \cup inHand PROVE Inv'
      <4>1. Become(l, After(l, M, "gone", "drain", "none", Yes, Yes), M)
        BY <2>3, <3>1, AllAre
      <4>2. Does(r.mode, "drain")
        BY <1>2 DEF Does
      <4>3. M \in SUBSET DOMAIN r.at /\ \A d \in M : r.at[d] \in {"hand", "hand name", "pending", "model"}
        <5>1. \A d \in M : d \in pending \/ d \in inHand
          BY <3>1
        <5>2. M \in SUBSET DOMAIN r.at
          BY <1>5, <5>1
        <5>3. \A d \in M : r.at[d] \in {"hand", "hand name", "pending", "model"}
          <6> SUFFICES ASSUME NEW d \in M PROVE r.at[d] \in {"hand", "hand name", "pending", "model"}
            OBVIOUS
          <6>1. CASE d \in pending
            BY <1>5, <6>1
          <6>2. CASE d \in inHand
            BY <6>2 DEF inHand, At
          <6> QED
            BY <5>1, <6>1, <6>2
        <5> QED
          BY <5>2, <5>3
      <4> QED
        BY <1>2, <1>3, <3>1, <4>1, <4>2, <4>3, DocsMove DEF Sending, pending, inHand
    <3> QED
      BY <3>1
  <2> QED
    BY <2>1, <2>2, <2>3
<1> QED
  BY <1>6, <1>7

\* The channel of a full build is closed.
LEMMA FullEnds ==
    ASSUME Inv, NEW l \in Lanes, EndFull(l)
    PROVE  Inv'
<1> DEFINE r == lane[l]
<1>1. r.stop \in BOOLEAN /\ r.failed \in BOOLEAN /\ r.window \in {"none", "normal", "large"}
  BY Docs DEF LaneOK, Typed
<1>2. r.mode = "full" /\ r.doing \in {"receive", "drain"} /\ Closes(l, r) /\ faults' \in 0..MaxFaults
  BY Docs, FaultsCount DEF EndFull
<1>3. Waiting(l) = {} /\ Held(l) \subseteq At(l, {"pending", "model"})
  BY <1>2, ClosedHolds
<1>4. CASE r.window = "none" /\ Become(l, Over(l, r.failed), {})
  <2>1. Held(l) = {}
    <3>1. WindowOK(r) /\ ModelOK(r)
      BY Docs DEF LaneOK
    <3> QED
      BY <1>2, <1>3, <1>4, <3>1 DEF WindowOK, ModelOK, At
  <2> QED
    BY <1>1, <1>2, <1>3, <1>4, <2>1, Begins
<1>5. CASE r.window # "none" /\ Become(l, [r EXCEPT !.doing = "last"], {})
  <2>1. ASSUME NEW w \in {"none", "normal", "large"}, w = r.window,
               NEW x \in BOOLEAN, x = r.stop, NEW y \in BOOLEAN, y = r.failed
        PROVE  Inv'
    <3>1. Become(l, After(l, {}, "gone", "last", w, x, y), {})
      BY <1>5, <2>1, DoesNext
    <3>2. At(l, {"hand", "hand name"}) = {}
      BY <1>2, Docs DEF LaneOK, HandOK, At
    <3>3. Does(r.mode, "last") /\ "last" \in Doings
      BY <1>2 DEF Does, Doings
    <3> QED
      BY <1>2, <1>5, <2>1, <3>1, <3>2, <3>3, DocsMove DEF Sending
  <2> QED
    BY <1>1, <2>1
<1> QED
  BY <1>4, <1>5 DEF EndFull

(***************************************************************************)
(* The consumer of a delta.                                                *)
(***************************************************************************)

\* A delta collects a document.
LEMMA DeltaCollects ==
    ASSUME Inv, NEW l \in Lanes, NEW d \in Offered(l), CollectDelta(l, d)
    PROVE  Inv'
<1> DEFINE r == lane[l]
           c == Source[l[1]] = "dirty"
                /\ WeightOf(l, At(l, {"pending"}) \cup ({d} \cap At(l, {"asked"}))) >= IndexWindow(l[1])
<1>1. r.stop \in BOOLEAN /\ r.failed \in BOOLEAN /\ r.window \in {"none", "normal", "large"}
  BY Docs DEF LaneOK, Typed
<1>2. /\ d \in DOMAIN r.at /\ r.at[d] \in {"asked", "named", "marked"} /\ d \notin Waiting(l)
      /\ d \in Held(l) <=> r.at[d] \in {"asked", "marked"}
  BY InHand DEF InFlight
<1>3. r.mode \in {"delta", "grown"} /\ r.doing = "receive" /\ faults' \in 0..MaxFaults
  BY FaultsCount DEF CollectDelta
<1>4. Does(r.mode, "receive") /\ Does(r.mode, "drain") /\ "receive" \in Doings /\ "drain" \in Doings /\ Yes \in BOOLEAN
  BY <1>3 DEF Does, Doings, Yes
<1>10. ASSUME NEW s \in {"gone", "pending"}, NEW g \in {"receive", "drain"}, NEW x \in BOOLEAN, NEW y \in BOOLEAN,
              NEW w \in {"none", "normal", "large"},
              NEW docs \in SUBSET {d}, s \in Asking <=> d \in Held(l) \ docs,
              Become(l, After(l, {d}, s, g, w, x, y), docs)
       PROVE  Inv'
  <2>1. Does(r.mode, g) /\ g \in Doings
    BY <1>4
  <2>2. g \notin {"last", "delta"} /\ (g = "send" => s = "pending") /\ r.mode \in {"delta", "grown", "vectors"}
    BY <1>3
  <2>3. s \in Asking <=> d \in Held(l) \ docs
    BY <1>10
  <2>4. Become(l, After(l, {d}, s, g, w, x, y), docs)
    BY <1>10
  <2>5. d \in DOMAIN r.at /\ d \notin Waiting(l) /\ faults' \in 0..MaxFaults
    BY <1>2, <1>3
  <2>6. LaneOK(l, After(l, {d}, s, g, w, x, y))
    <3>1. {d} \in SUBSET DOMAIN r.at
      BY <2>5
    <3>2. At(l, {"hand", "hand name"}) \subseteq {d}
      BY <1>3, Docs DEF LaneOK, HandOK, At
    <3> QED
      BY <2>1, <2>2, <3>1, <3>2, Keeps, ZenonT(30) DEF Sending
  <2> QED
    BY <2>3, <2>4, <2>5, <2>6, DocMoves
<1>5. ASSUME NEW s \in {"gone", "pending"}, NEW docs \in SUBSET {d},
             s \in Asking <=> d \in Held(l) \ docs,
             Become(l, IF c THEN Halts([r EXCEPT !.at[d] = s]) ELSE [r EXCEPT !.at[d] = s], docs)
      PROVE  Inv'
  <2>1. [r EXCEPT !.at[d] = s] = After(l, {d}, s, r.doing, r.window, r.stop, r.failed)
    BY <1>2, OneDoc
  <2>2. After(l, {d}, s, r.doing, r.window, r.stop, r.failed)
        = LaneRecord(r.mode, Move(l, {d}, s), r.doing, r.window, r.stop, r.failed)
    BY LaneIs
  <2>3. After(l, {d}, s, "drain", r.window, Yes, r.failed)
        = LaneRecord(r.mode, Move(l, {d}, s), "drain", r.window, Yes, r.failed)
    BY LaneIs
  <2> DEFINE p == [r EXCEPT !.at[d] = s]
  <2>4. Halts(p) = After(l, {d}, s, "drain", r.window, Yes, r.failed)
    <3> HIDE DEF p, r
    <3> QED
      BY <2>1, <2>2, <2>3, Changes DEF p
  <2>5. Become(l, IF c THEN Halts(p) ELSE p, docs)
    BY <1>5
  <2> HIDE DEF c, p
  <2>6. CASE c
    <3>1. Become(l, After(l, {d}, s, "drain", r.window, Yes, r.failed), docs)
      BY <2>4, <2>5, <2>6
    <3> QED
      BY <1>1, <1>4, <1>5, <1>10, <3>1
  <2>7. CASE ~c
    <3>1. Become(l, After(l, {d}, s, "receive", r.window, r.stop, r.failed), docs)
      BY <1>3, <2>1, <2>5, <2>7 DEF p
    <3> QED
      BY <1>1, <1>4, <1>5, <1>10, <3>1
  <2> QED
    BY <2>6, <2>7
<1>6. LET s == IF r.at[d] = "asked" THEN "pending" ELSE "gone"
          docs == IF r.at[d] = "marked" THEN {d} ELSE {}
      IN  Become(l, IF c THEN Halts([r EXCEPT !.at[d] = s]) ELSE [r EXCEPT !.at[d] = s], docs)
  BY DEF CollectDelta, Halts
<1> HIDE DEF c
<1>7. CASE r.at[d] = "asked"
  BY <1>2, <1>5, <1>6, <1>7, AskingIs
<1>8. CASE r.at[d] = "marked"
  BY <1>2, <1>5, <1>6, <1>8, AskingIs
<1>9. CASE r.at[d] = "named"
  <2>1. "gone" \in Asking <=> d \in Held(l) \ {}
    BY <1>2, <1>9, AskingIs
  <2>2. Become(l, IF c THEN Halts([r EXCEPT !.at[d] = "gone"]) ELSE [r EXCEPT !.at[d] = "gone"], {})
    BY <1>6, <1>9
  <2> QED
    BY <1>5, <2>1, <2>2
<1> QED
  BY <1>2, <1>7, <1>8, <1>9

\* The channel of a delta is closed: it is over, a full build begins, or it is indexed.
LEMMA CollectEnds ==
    ASSUME Inv, NEW l \in Lanes, EndCollect(l)
    PROVE  Inv'
<1> DEFINE r == lane[l]
           pending == At(l, {"pending"})
<1>1. r.stop \in BOOLEAN /\ r.failed \in BOOLEAN /\ r.window \in {"none", "normal", "large"}
  BY Docs DEF LaneOK, Typed
<1>2. r.mode \in {"delta", "grown"} /\ r.doing \in {"receive", "drain"} /\ Closes(l, r) /\ faults' \in 0..MaxFaults
  BY Docs, FaultsCount DEF EndCollect
<1>3. Waiting(l) = {} /\ Held(l) \subseteq pending
  <2>1. At(l, {"pending", "model"}) = pending
    BY <1>2, Docs DEF LaneOK, ModelOK, At
  <2> QED
    BY <1>2, <2>1, ClosedHolds
<1>4. \/ Become(l, Over(l, TRUE), pending) \/ Become(l, Fresh(l, "full"), pending)
      \/ Become(l, [r EXCEPT !.doing = "delta"], {})
  BY DEF EndCollect
<1>5. CASE Become(l, Over(l, TRUE), pending)
  BY <1>2, <1>3, <1>5, Begins
<1>6. CASE Become(l, Fresh(l, "full"), pending)
  BY <1>2, <1>3, <1>6, Begins
<1>7. CASE Become(l, [r EXCEPT !.doing = "delta"], {})
  <2>1. ASSUME NEW w \in {"none", "normal", "large"}, w = r.window,
               NEW x \in BOOLEAN, x = r.stop, NEW y \in BOOLEAN, y = r.failed
        PROVE  Inv'
    <3>1. Become(l, After(l, {}, "gone", "delta", w, x, y), {})
      BY <1>7, <2>1, DoesNext
    <3>2. At(l, {"hand", "hand name"}) = {}
      BY <1>2, Docs DEF LaneOK, HandOK, At
    <3>3. Does(r.mode, "delta") /\ "delta" \in Doings
      BY <1>2 DEF Does, Doings
    <3> QED
      BY <1>2, <2>1, <3>1, <3>2, <3>3, DocsMove DEF Sending
  <2> QED
    BY <1>1, <2>1
<1> QED
  BY <1>4, <1>5, <1>6, <1>7

\* A delta is indexed, or a full build begins.
LEMMA DeltaEnds ==
    ASSUME Inv, NEW l \in Lanes, IndexDelta(l)
    PROVE  Inv'
<1> DEFINE pending == At(l, {"pending"})
<1>1. lane[l].doing = "delta" /\ faults' \in 0..MaxFaults
  BY FaultsCount DEF IndexDelta
<1>2. lane[l].mode \in {"delta", "grown"} /\ Closes(l, lane[l])
  BY <1>1, Docs DEF LaneOK, ClosedOK, DoingOK, Typed, Modes
<1>3. Waiting(l) = {} /\ Held(l) \subseteq pending
  <2>1. At(l, {"pending", "model"}) = pending
    BY <1>2, Docs DEF LaneOK, ModelOK, At
  <2> QED
    BY <1>1, <1>2, <2>1, ClosedHolds
<1>4. CASE Become(l, Over(l, FALSE), pending)
  BY <1>1, <1>2, <1>3, <1>4, Begins
<1>5. CASE Become(l, Fresh(l, "full"), pending)
  BY <1>1, <1>2, <1>3, <1>5, Begins
<1> QED
  BY <1>4, <1>5 DEF IndexDelta

(***************************************************************************)
(* The consumer of the vectors.                                            *)
(***************************************************************************)

\* A document joins the batch, or leaves.
LEMMA VectorTaken ==
    ASSUME Inv, NEW l \in Lanes, NEW d \in Offered(l), TakeVector(l, d)
    PROVE  Inv'
<1> DEFINE r == lane[l]
<1>1. r.stop \in BOOLEAN /\ r.failed \in BOOLEAN /\ r.window \in {"none", "normal", "large"} /\ Yes \in BOOLEAN
  BY Docs DEF LaneOK, Typed, Yes
<1>2. /\ d \in DOMAIN r.at /\ d \notin Waiting(l)
      /\ d \in Held(l) <=> r.at[d] \in {"asked", "marked"}
  BY InHand
<1>3. r.mode = "vectors" /\ r.doing = "receive" /\ faults' \in 0..MaxFaults
  BY FaultsCount DEF TakeVector
<1>4. ASSUME NEW s \in {"gone", "pending"}, NEW g \in {"receive", "drain", "send"},
             NEW w \in {"none", "normal", "large"}, NEW x \in BOOLEAN, NEW y \in BOOLEAN,
             NEW docs \in SUBSET {d}, s \in Asking <=> d \in Held(l) \ docs, g = "send" => s = "pending",
             Become(l, After(l, {d}, s, g, w, x, y), docs)
      PROVE  Inv'
  <2>1. Does(r.mode, g) /\ g \in Doings /\ g \notin {"last", "delta"}
    BY <1>3 DEF Does, Doings
  <2>2. {d} \in SUBSET DOMAIN r.at /\ {d} # {} /\ At(l, {"hand", "hand name"}) \subseteq {d}
    BY <1>2, <1>3, Docs DEF LaneOK, HandOK, At
  <2>3. LaneOK(l, After(l, {d}, s, g, w, x, y))
    BY <1>3, <1>4, <2>1, <2>2, Keeps DEF Sending
  <2> QED
    BY <1>2, <1>3, <1>4, <2>3, DocMoves
<1>5. CASE Become(l, Draining(r, d), {d})
  <2>1. Become(l, After(l, {d}, "gone", "drain", r.window, Yes, Yes), {d})
    BY <1>2, <1>5, OneDoc
  <2> QED
    BY <1>1, <1>4, <2>1, AskingIs
<1>6. CASE Become(l, [r EXCEPT !.at[d] = "gone"], {d})
  <2>2. Become(l, After(l, {d}, "gone", r.doing, r.window, r.stop, r.failed), {d})
    BY <1>2, <1>6, OneDoc
  <2>1. Become(l, After(l, {d}, "gone", "receive", r.window, r.stop, r.failed), {d})
    BY <1>3, <2>2
  <2> QED
    BY <1>1, <1>4, <2>1, AskingIs, ZenonT(30)
<1>7. CASE r.at[d] = "asked" /\ (Become(l, Batches(r, d, "send"), {}) \/ Become(l, Batches(r, d, "receive"), {}))
  <2>1. \/ Become(l, After(l, {d}, "pending", "send", r.window, r.stop, r.failed), {})
        \/ Become(l, After(l, {d}, "pending", "receive", r.window, r.stop, r.failed), {})
    BY <1>2, <1>7, OneDoc
  <2>2. ("pending" \in Asking <=> d \in Held(l) \ {}) /\ {} \in SUBSET {d}
    BY <1>2, <1>7, AskingIs
  <2>5. ASSUME NEW g \in {"send", "receive"}, NEW w \in {"none", "normal", "large"}, NEW x \in BOOLEAN, NEW y \in BOOLEAN,
               Become(l, After(l, {d}, "pending", g, w, x, y), {})
        PROVE  Inv'
    BY <1>4, <2>2, <2>5, ZenonT(30)
  <2>3. CASE Become(l, After(l, {d}, "pending", "send", r.window, r.stop, r.failed), {})
    BY <1>1, <2>3, <2>5
  <2>4. CASE Become(l, After(l, {d}, "pending", "receive", r.window, r.stop, r.failed), {})
    BY <1>1, <2>4, <2>5
  <2> QED
    BY <2>1, <2>3, <2>4
<1>8. \/ Become(l, Draining(r, d), {d})
      \/ Become(l, [r EXCEPT !.at[d] = "gone"], {d})
      \/ r.at[d] = "asked" /\ (Become(l, Batches(r, d, "send"), {}) \/ Become(l, Batches(r, d, "receive"), {}))
  <2> DEFINE full == Rows(l, At(l, {"pending"}) \cup {d}) >= BatchRows
  <2>1. \/ Become(l, Draining(r, d), {d})
        \/ Become(l, [r EXCEPT !.at[d] = "gone"], {d})
        \/ r.at[d] = "asked" /\ Become(l, [r EXCEPT !.at[d] = "pending", !.doing = IF full THEN "send" ELSE @], {})
    BY DEF TakeVector
  <2> HIDE DEF full
  <2>2. [r EXCEPT !.at[d] = "pending", !.doing = IF full THEN "send" ELSE @]
        = Batches(r, d, IF full THEN "send" ELSE r.doing)
    BY DEF Batches
  <2> QED
    BY <1>3, <2>1, <2>2
<1> QED
  BY <1>5, <1>6, <1>7, <1>8

\* A batch goes to the model, or the lane is over.
LEMMA BatchSent ==
    ASSUME Inv, NEW l \in Lanes, SendBatch(l)
    PROVE  Inv'
<1> DEFINE r == lane[l]
           batch == At(l, {"pending"})
<1>1. r.stop \in BOOLEAN /\ r.failed \in BOOLEAN /\ r.window \in {"none", "normal", "large"}
  BY Docs DEF LaneOK, Typed
<1>2. r.mode = "vectors" /\ r.doing \in {"send", "last"} /\ At(l, {"model"}) = {} /\ faults' \in 0..MaxFaults
  BY FaultsCount DEF SendBatch
<1>3. /\ r.doing = "send" => batch # {}
      /\ r.doing = "last" => Closes(l, r)
  BY Docs DEF LaneOK, SendOK, ClosedOK, At
<1>4. CASE batch = {} /\ Become(l, Over(l, r.failed), {})
  <2>1. Closes(l, r) /\ r.doing = "last"
    BY <1>2, <1>3, <1>4
  <2>2. Held(l) \subseteq At(l, {"pending", "model"}) /\ Waiting(l) = {}
    BY <2>1, ClosedHolds
  <2>3. At(l, {"pending", "model"}) \subseteq batch \cup At(l, {"model"})
    BY DEF At
  <2> QED
    BY <1>1, <1>2, <1>4, <2>2, <2>3, Begins
<1>5. CASE Become(l, Sends(r, Move(l, batch, "model"), IF r.doing = "last" THEN "last" ELSE "receive"), {})
  <2>1. ASSUME NEW M, M = batch, NEW g \in {"last", "receive"}, g = (IF r.doing = "last" THEN "last" ELSE "receive"),
               NEW w \in {"none", "normal", "large"}, w = r.window,
               NEW x \in BOOLEAN, x = r.stop, NEW y \in BOOLEAN, y = r.failed
        PROVE  Inv'
    <3>1. Become(l, After(l, M, "model", g, w, x, y), {})
      BY <1>5, <2>1, AllAre
    <3>2. M \in SUBSET DOMAIN r.at /\ \A d \in M : r.at[d] = "pending"
      BY <2>1 DEF At
    <3>3. At(l, {"hand", "hand name"}) = {}
      BY <1>2, Docs DEF LaneOK, HandOK, At
    <3>4. Does(r.mode, g) /\ g \in Doings
      BY <1>2 DEF Does, Doings
    <3>5. g \in {"last", "delta"} => Closes(l, r) /\ (r.stop => x)
      BY <1>3, <2>1
    <3>6. /\ \A d \in M : r.at[d] \in {"hand", "hand name", "pending", "model"}
          /\ {} = (IF "model" = "gone" THEN M ELSE {}) /\ Sending(l, M, "model", g)
      BY <3>2 DEF Sending
    <3>7. At(l, {"hand", "hand name"}) \subseteq M
      BY <3>3
    <3> QED
      BY <1>2, <3>1, <3>2, <3>4, <3>5, <3>6, <3>7, DocsMove
  <2> HIDE DEF batch
  <2> QED
    BY <1>1, <2>1
<1> QED
  BY <1>4, <1>5 DEF SendBatch, Sends

\* The model has read a batch, or failed.
LEMMA ModelCalled ==
    ASSUME Inv, NEW l \in Lanes, CallModel(l)
    PROVE  Inv'
<1> DEFINE r == lane[l]
           read == At(l, {"model"})
           lost == read \cup At(l, {"pending"})
           back == PutAt(r, Move(l, read, "gone"))
           next == IF r.doing = "last" THEN "last" ELSE "drain"
<1>1. r.stop \in BOOLEAN /\ r.failed \in BOOLEAN /\ r.window \in {"none", "normal", "large"} /\ r.doing \in Doings
  BY Docs DEF LaneOK, Typed
<1>2. r.mode = "vectors" /\ At(l, {"hand", "hand name"}) = {} /\ faults' \in 0..MaxFaults
  <2>1. r.mode = "vectors"
    BY Docs DEF CallModel, LaneOK, ModelOK, At
  <2> QED
    BY <2>1, Docs, FaultsCount DEF CallModel, LaneOK, HandOK, At
<1>3. /\ Does(r.mode, r.doing) /\ (r.doing \in {"last", "delta"} => Closes(l, r))
      /\ r.doing = "send" => At(l, {"pending"}) \ read # {}
  BY Docs DEF LaneOK, DoingOK, Does, ClosedOK, SendOK, At
<1>4. /\ read \in SUBSET DOMAIN r.at /\ lost \in SUBSET DOMAIN r.at
      /\ \A d \in read : r.at[d] = "model"
      /\ \A d \in lost : r.at[d] \in {"hand", "hand name", "pending", "model"}
  BY DEF At
<1>5. Become(l, back, read) \/ Become(l, Fails(back, next, Move(l, lost, "gone")), lost)
  BY DEF CallModel, PutAt, Fails
<1>6. back = LaneRecord(r.mode, Move(l, read, "gone"), r.doing, r.window, r.stop, r.failed)
  BY LaneIs, Puts
<1> HIDE DEF back, read, lost, next
<1>7. CASE Become(l, back, read)
  <2>1. ASSUME NEW M, M = read, NEW g \in Doings, g = r.doing,
               NEW w \in {"none", "normal", "large"}, w = r.window,
               NEW x \in BOOLEAN, x = r.stop, NEW y \in BOOLEAN, y = r.failed
        PROVE  Inv'
    <3>1. After(l, M, "gone", g, w, x, y) = LaneRecord(r.mode, Move(l, M, "gone"), g, w, x, y)
      BY LaneIs
    <3>2. Become(l, After(l, M, "gone", g, w, x, y), M)
      BY <1>6, <1>7, <2>1, <3>1
    <3>3. M \in SUBSET DOMAIN r.at /\ \A d \in M : r.at[d] \in {"hand", "hand name", "pending", "model"}
      BY <1>4, <2>1
    <3>4. /\ Does(r.mode, g) /\ (g \in {"last", "delta"} => Closes(l, r) /\ (r.stop => x))
          /\ g = "send" => At(l, {"pending"}) \ M # {}
      BY <1>3, <2>1
    <3> QED
      BY <1>2, <3>2, <3>3, <3>4, DocsMove DEF Sending
  <2> QED
    BY <1>1, <2>1
<1>8. CASE Become(l, Fails(back, next, Move(l, lost, "gone")), lost)
  <2>0. next \in {"last", "drain"} /\ Yes \in BOOLEAN /\ Yes
    BY DEF next, Yes
  <2>1. ASSUME NEW M, M = lost, NEW g \in {"last", "drain"}, g = next,
               NEW w \in {"none", "normal", "large"}, w = r.window
        PROVE  Inv'
    <3>1. After(l, M, "gone", g, w, Yes, Yes) = LaneRecord(r.mode, Move(l, M, "gone"), g, w, Yes, Yes)
      BY LaneIs
    <3>0. Fails(back, g, Move(l, M, "gone")) = LaneRecord(r.mode, Move(l, M, "gone"), g, w, Yes, Yes)
      BY <1>6, <2>1, Changes
    <3>2. Become(l, After(l, M, "gone", g, w, Yes, Yes), M)
      BY <1>8, <2>1, <3>0, <3>1
    <3>3. M \in SUBSET DOMAIN r.at /\ \A d \in M : r.at[d] \in {"hand", "hand name", "pending", "model"}
      BY <1>4, <2>1
    <3>4. Does(r.mode, g) /\ g \in Doings /\ g # "send"
      BY <1>2 DEF Does, Doings
    <3>5. g \in {"last", "delta"} => Closes(l, r) /\ (r.stop => Yes)
      BY <1>3, <2>0, <2>1 DEF next
    <3> QED
      BY <1>2, <2>0, <3>2, <3>3, <3>4, <3>5, DocsMove DEF Sending
  <2> QED
    BY <1>1, <2>0, <2>1
<1> QED
  BY <1>5, <1>7, <1>8

\* The channel of the vectors is closed.
LEMMA VectorsEnd ==
    ASSUME Inv, NEW l \in Lanes, EndVectors(l)
    PROVE  Inv'
<1> DEFINE r == lane[l]
           pending == At(l, {"pending"})
<1>1. r.stop \in BOOLEAN /\ r.failed \in BOOLEAN /\ r.window \in {"none", "normal", "large"}
  BY Docs DEF LaneOK, Typed
<1>2. r.mode = "vectors" /\ r.doing \in {"receive", "drain"} /\ Closes(l, r) /\ faults' \in 0..MaxFaults
  BY Docs, FaultsCount DEF EndVectors
<1>3. Does(r.mode, "last") /\ "last" \in Doings /\ At(l, {"hand", "hand name"}) = {}
  BY <1>2, Docs DEF Does, Doings, LaneOK, HandOK, At
<1>4. Become(l, Sends(r, Move(l, pending, "gone"), "last"), pending) \/ Become(l, [r EXCEPT !.doing = "last"], {})
  BY DEF EndVectors, Sends
<1>5. ASSUME NEW M, M = pending \/ M = {}, Become(l, After(l, M, "gone", "last", r.window, r.stop, r.failed), M)
      PROVE  Inv'
  <2>1. ASSUME NEW w \in {"none", "normal", "large"}, w = r.window,
               NEW x \in BOOLEAN, x = r.stop, NEW y \in BOOLEAN, y = r.failed
        PROVE  Inv'
    <3>1. Become(l, After(l, M, "gone", "last", w, x, y), M)
      BY <1>5, <2>1
    <3>2. M \in SUBSET DOMAIN r.at /\ \A d \in M : r.at[d] \in {"hand", "hand name", "pending", "model"}
      BY <1>5 DEF At
    <3> QED
      BY <1>2, <1>3, <2>1, <3>1, <3>2, DocsMove DEF Sending
  <2> QED
    BY <1>1, <2>1
<1>6. CASE Become(l, Sends(r, Move(l, pending, "gone"), "last"), pending)
  <2>1. ASSUME NEW M, M = pending PROVE Inv'
    <3>1. Become(l, After(l, M, "gone", "last", r.window, r.stop, r.failed), M)
      BY <1>6, <2>1, AllAre
    <3> QED
      BY <1>5, <2>1, <3>1
  <2> QED
    BY <2>1
<1>7. CASE Become(l, [r EXCEPT !.doing = "last"], {})
  <2>1. Become(l, After(l, {}, "gone", "last", r.window, r.stop, r.failed), {})
    BY <1>7, DoesNext
  <2> QED
    BY <1>5, <2>1
<1> QED
  BY <1>4, <1>6, <1>7

(***************************************************************************)
(* A reader asks for weight, or takes its request back.                    *)
(***************************************************************************)

\* A step of one lane that keeps the count of the reads keeps the rest.
LEMMA OneLaneKeeps ==
    ASSUME Inv, NEW l \in Lanes, NEW r, lane' = [lane EXCEPT ![l] = r], LaneOK(l, r),
           UNCHANGED <<slots, phase, broken, faults>>, ReadsInv'
    PROVE  Inv'
<1>1. LanesInv /\ SlotsInv /\ TypeOK
  BY DEF Inv
<1>2. /\ lane'[l] = r /\ \A k \in Lanes : k # l => lane'[k] = lane[k]
      /\ lane' = [k \in Lanes |-> lane'[k]]
  BY <1>1, OneLane
<1>3. LanesInv'
  <2>1. ASSUME NEW k \in Lanes PROVE LaneOK(k, lane[k])'
    <3>1. LaneOK(k, lane'[k])
      BY <1>1, <1>2 DEF LanesInv
    <3> QED
      BY <3>1 DEF LaneOK, RunsOK, ClosedOK, Closes
  <2> QED
    BY <1>2, <2>1 DEF LanesInv
<1>4. SlotsInv'
  BY <1>1 DEF SlotsInv, SlotsOf
<1>5. TypeOK'
  <2>1. reads'.used \in 0..Budget
    BY UsedFits, BudgetAssumption DEF ReadsInv
  <2> QED
    BY <1>1, <1>2, <2>1 DEF TypeOK
<1> QED
  BY <1>3, <1>4, <1>5 DEF Inv

\* A document that a reader begins with, or that gives up its place in the queue.
LEMMA Queued ==
    ASSUME Inv, NEW l \in Lanes, NEW d \in DOMAIN lane[l].at,
           lane[l].at[d] \in InFlight \/ (lane[l].at[d] = "unread" /\ ~Stopped(l)),
           NEW s \in {"asked", "gone"}, lane' = [lane EXCEPT ![l].at[d] = s]
    PROVE  LET r == After(l, {d}, s, lane[l].doing, lane[l].window, lane[l].stop, lane[l].failed)
           IN  /\ lane' = [lane EXCEPT ![l] = r] /\ LaneOK(l, r)
               /\ r.mode = lane[l].mode /\ DOMAIN r.at = DOMAIN lane[l].at
               /\ \A e \in DOMAIN lane[l].at : r.at[e] = IF e = d THEN s ELSE lane[l].at[e]
<1> DEFINE r == After(l, {d}, s, lane[l].doing, lane[l].window, lane[l].stop, lane[l].failed)
<1>1. lane' = [lane EXCEPT ![l] = r]
  <2>1. r = [lane[l] EXCEPT !.at[d] = s]
    BY OneDoc
  <2>2. lane' = [lane EXCEPT ![l] = [lane[l] EXCEPT !.at[d] = s]]
    OBVIOUS
  <2> HIDE DEF r
  <2> QED
    BY <2>1, <2>2
<1>2. LaneOK(l, r)
  <2>1. {d} \in SUBSET DOMAIN lane[l].at /\ d \in {d} /\ \A e \in {d} : lane[l].at[e] \in InFlight \cup {"unread"}
    OBVIOUS
  <2>2. lane[l].stop \in BOOLEAN /\ lane[l].failed \in BOOLEAN
    BY Docs DEF LaneOK, Typed
  <2> QED
    BY <2>1, <2>2, ReadersLeave
<1>3. r.mode = lane[l].mode /\ r.at = [e \in DOMAIN lane[l].at |-> IF e = d THEN s ELSE lane[l].at[e]]
  BY DEF After, Move
<1> HIDE DEF r
<1>4. DOMAIN r.at = DOMAIN lane[l].at
      /\ \A e \in DOMAIN lane[l].at : r.at[e] = IF e = d THEN s ELSE lane[l].at[e]
  BY <1>3
<1> QED
  BY <1>1, <1>2, <1>3, <1>4 DEF r

\* A reader asks for the weight of a document that it did not read.
LEMMA Asked ==
    ASSUME Inv, NEW l \in Lanes, NEW d \in At(l, {"unread"}), Ask(l, d)
    PROVE  Inv'
<1> DEFINE e == Request(l, d)
<1>1. d \in DOMAIN lane[l].at /\ lane[l].at[d] = "unread" /\ ~Stopped(l) /\ LanesInv /\ ReadsInv
  BY DEF At, Ask, Inv
<1>2. PICK r : /\ lane' = [lane EXCEPT ![l] = r] /\ LaneOK(l, r)
               /\ r.mode = lane[l].mode /\ DOMAIN r.at = DOMAIN lane[l].at
               /\ \A f \in DOMAIN lane[l].at : r.at[f] = IF f = d THEN "asked" ELSE lane[l].at[f]
  <2>1. lane' = [lane EXCEPT ![l].at[d] = "asked"]
    BY DEF Ask
  <2> DEFINE w == After(l, {d}, "asked", lane[l].doing, lane[l].window, lane[l].stop, lane[l].failed)
  <2>2. /\ lane' = [lane EXCEPT ![l] = w] /\ LaneOK(l, w)
        /\ w.mode = lane[l].mode /\ DOMAIN w.at = DOMAIN lane[l].at
        /\ \A f \in DOMAIN lane[l].at : w.at[f] = IF f = d THEN "asked" ELSE lane[l].at[f]
    BY <1>1, <2>1, Queued
  <2> HIDE DEF w
  <2> QED
    BY <2>2
<1>3. /\ \A f : Req(l, r, f) = Req(l, lane[l], f)
      /\ e = Req(l, lane[l], d) /\ e.who = <<l, d>>
  BY <1>2 DEF Req, Request, Size
<1>4. AtOf(r, Asking) = AtOf(lane[l], Asking) \cup {d} /\ AtOf(r, {"asked"}) = AtOf(lane[l], {"asked"}) \cup {d}
      /\ d \notin AtOf(lane[l], Asking)
  BY <1>1, <1>2, AskingIs DEF AtOf
<1>5. Asks(l, r) = Asks(l, lane[l]) \cup {e} /\ Queues(l, r) = Queues(l, lane[l]) \cup {e}
  BY <1>3, <1>4 DEF Asks, Queues
<1>6. \A f \in AllAsks : f.who # e.who
  <2> SUFFICES ASSUME NEW f \in AllAsks, f.who = <<l, d>> PROVE FALSE
    BY <1>3
  <2>1. f \in Asks(l, lane[l])
    BY <1>1, <1>2, OneLane
  <2> QED
    BY <1>4, <2>1 DEF Asks, Req
<1>7. e.weight \in Nat
  <2>1. e.weight \in 0..MaxWeight
    BY <1>1, <1>3, SizesAre DEF LanesInv, LaneOK
  <2> QED
    BY <2>1, BudgetAssumption
<1> HIDE DEF e
<1>8. /\ AllAsks' = AllAsks \cup {e} /\ AllQueues \cup {e} \subseteq AllQueues'
  <2>1. /\ AllAsks' = (AllAsks \ Asks(l, lane[l])) \cup Asks(l, r)
        /\ (AllQueues \ Queues(l, lane[l])) \cup Queues(l, r) \subseteq AllQueues'
        /\ Asks(l, lane[l]) \subseteq AllAsks
    BY <1>1, <1>2, OneLane
  <2> QED
    BY <1>5, <2>1
<1>9. ReadsInv'
  <2>1. Semaphore(reads, Budget, AllAsks) /\ Budget \in Nat /\ e \notin AllAsks
    BY <1>1, <1>6, BudgetAssumption DEF ReadsInv
  <2>2. /\ Semaphore(Acquire(reads, Budget, e), Budget, AllAsks \cup {e})
        /\ ToSet(Acquire(reads, Budget, e).queue) \subseteq ToSet(reads.queue) \cup {e}
    BY <1>6, <1>7, <2>1, Acquires
  <2>3. reads' = Acquire(reads, Budget, e) /\ ToSet(reads.queue) \subseteq AllQueues
    BY <1>1 DEF Ask, ReadsInv, e
  <2>4. Semaphore(reads', Budget, AllAsks') /\ ToSet(reads'.queue) \subseteq AllQueues'
    BY <1>8, <2>2, <2>3
  <2> QED
    BY <2>4 DEF ReadsInv
<1> QED
  BY <1>2, <1>9, OneLaneKeeps DEF Ask

\* A reader gives up: its request leaves the queue.
LEMMA AskCancelled ==
    ASSUME Inv, NEW l \in Lanes, NEW d \in Waiting(l), CancelAsk(l, d)
    PROVE  Inv'
<1> DEFINE e == Request(l, d)
<1>1. /\ d \in DOMAIN lane[l].at /\ lane[l].at[d] = "asked" /\ LanesInv /\ ReadsInv
      /\ e \in ToSet(reads.queue)
  BY Docs DEF Inv, Waiting, Waits
<1>2. PICK r : /\ lane' = [lane EXCEPT ![l] = r] /\ LaneOK(l, r)
               /\ r.mode = lane[l].mode /\ DOMAIN r.at = DOMAIN lane[l].at
               /\ \A f \in DOMAIN lane[l].at : r.at[f] = IF f = d THEN "gone" ELSE lane[l].at[f]
  <2>1. lane' = [lane EXCEPT ![l].at[d] = "gone"] /\ lane[l].at[d] \in InFlight
    BY <1>1 DEF CancelAsk, InFlight
  <2> DEFINE w == After(l, {d}, "gone", lane[l].doing, lane[l].window, lane[l].stop, lane[l].failed)
  <2>2. /\ lane' = [lane EXCEPT ![l] = w] /\ LaneOK(l, w)
        /\ w.mode = lane[l].mode /\ DOMAIN w.at = DOMAIN lane[l].at
        /\ \A f \in DOMAIN lane[l].at : w.at[f] = IF f = d THEN "gone" ELSE lane[l].at[f]
    BY <1>1, <2>1, Queued
  <2> HIDE DEF w
  <2> QED
    BY <2>2
<1>3. /\ \A f : Req(l, r, f) = Req(l, lane[l], f)
      /\ e = Req(l, lane[l], d) /\ \A f, g : Req(l, lane[l], f) = Req(l, lane[l], g) => f = g
  BY <1>2 DEF Req, Request, Size
<1>4. AtOf(r, Asking) = AtOf(lane[l], Asking) \ {d} /\ AtOf(r, {"asked"}) = AtOf(lane[l], {"asked"}) \ {d}
  BY <1>1, <1>2, AskingIs DEF AtOf
<1>5. Asks(l, r) = Asks(l, lane[l]) \ {e} /\ Queues(l, r) = Queues(l, lane[l]) \ {e}
  BY <1>3, <1>4 DEF Asks, Queues
<1>6. e \in Asks(l, lane[l])
  BY <1>1, <1>3, AskingIs DEF Asks, AtOf
<1> HIDE DEF e
<1>7. /\ AllAsks' = AllAsks \ {e} /\ AllQueues \ {e} \subseteq AllQueues'
  <2>1. /\ AllAsks' = (AllAsks \ Asks(l, lane[l])) \cup Asks(l, r)
        /\ (AllQueues \ Queues(l, lane[l])) \cup Queues(l, r) \subseteq AllQueues'
        /\ Asks(l, lane[l]) \subseteq AllAsks
    BY <1>1, <1>2, OneLane
  <2> QED
    BY <1>5, <1>6, <2>1
<1>8. ReadsInv'
  <2>1. Semaphore(reads, Budget, AllAsks) /\ Budget \in Nat
    BY <1>1, BudgetAssumption DEF ReadsInv
  <2>2. /\ Semaphore(Withdraw(reads, Budget, e), Budget, AllAsks \ {e})
        /\ ToSet(Withdraw(reads, Budget, e).queue) \subseteq ToSet(reads.queue) \ {e}
    BY <1>1, <2>1, Withdraws
  <2>3. reads' = Withdraw(reads, Budget, e) /\ ToSet(reads.queue) \subseteq AllQueues
    BY <1>1 DEF CancelAsk, ReadsInv, e
  <2>4. Semaphore(reads', Budget, AllAsks') /\ ToSet(reads'.queue) \subseteq AllQueues'
    BY <1>7, <2>2, <2>3
  <2> QED
    BY <2>4 DEF ReadsInv
<1> QED
  BY <1>2, <1>8, OneLaneKeeps DEF CancelAsk

(***************************************************************************)
(* The builds and their windows.                                           *)
(***************************************************************************)

\* A window is a number, and each build asks for its own.
LEMMA WindowsAre ==
    /\ BuildWindows \in Nat
    /\ \A b, c : SlotRequest(b) = SlotRequest(c) => b = c
    /\ \A b : SlotRequest(b).who = b /\ SlotRequest(b).weight = SlotWeight(b)
BY BudgetAssumption DEF BuildWindows, Most, SlotRequest

\* A build changes its phase: so do the requests for windows.
LEMMA PhaseMoves ==
    ASSUME Inv, NEW b \in Builds, NEW p, phase' = [phase EXCEPT ![b] = p]
    PROVE  /\ phase'[b] = p /\ \A c \in Builds : c # b => phase'[c] = phase[c]
           /\ \A S : p \in S => SlotsOf(S)' = SlotsOf(S) \cup {SlotRequest(b)}
           /\ \A S : p \notin S => SlotsOf(S)' = SlotsOf(S) \ {SlotRequest(b)}
           /\ \A S : SlotRequest(b) \in SlotsOf(S) <=> phase[b] \in S
<1>1. phase'[b] = p /\ \A c \in Builds : c # b => phase'[c] = phase[c]
  BY DEF Inv, TypeOK
<1>2. \A S : SlotsOf(S)' = {SlotRequest(c) : c \in {c \in Builds : phase'[c] \in S}}
  BY DEF SlotsOf
<1>3. \A S : SlotsOf(S) = {SlotRequest(c) : c \in {c \in Builds : phase[c] \in S}}
  BY DEF SlotsOf
<1>4. \A S : SlotRequest(b) \in SlotsOf(S) <=> phase[b] \in S
  BY <1>3, WindowsAre
<1>5. ASSUME NEW S, p \in S PROVE SlotsOf(S)' = SlotsOf(S) \cup {SlotRequest(b)}
  BY <1>1, <1>2, <1>3, <1>5
<1>6. ASSUME NEW S, p \notin S PROVE SlotsOf(S)' = SlotsOf(S) \ {SlotRequest(b)}
  BY <1>1, <1>2, <1>3, <1>6, WindowsAre
<1> QED
  BY <1>1, <1>4, <1>5, <1>6

\* The same for the two sets that matter.
LEMMA PhaseIs ==
    ASSUME Inv, NEW b \in Builds, NEW p, phase' = [phase EXCEPT ![b] = p]
    PROVE  /\ p = "over" => /\ SlotsOf({"wait", "run"})' = SlotsOf({"wait", "run"}) \ {SlotRequest(b)}
                            /\ SlotsOf({"wait"})' = SlotsOf({"wait"}) \ {SlotRequest(b)}
           /\ p = "wait" => /\ SlotsOf({"wait", "run"})' = SlotsOf({"wait", "run"}) \cup {SlotRequest(b)}
                            /\ SlotsOf({"wait"})' = SlotsOf({"wait"}) \cup {SlotRequest(b)}
           /\ p = "run" => /\ SlotsOf({"wait", "run"})' = SlotsOf({"wait", "run"}) \cup {SlotRequest(b)}
                           /\ SlotsOf({"wait"})' = SlotsOf({"wait"}) \ {SlotRequest(b)}
           /\ phase[b] \in {"wait", "run"} <=> SlotRequest(b) \in SlotsOf({"wait", "run"})
           /\ phase[b] = "wait" <=> SlotRequest(b) \in SlotsOf({"wait"})
<1> DEFINE A == {"wait", "run"}
           B == {"wait"}
<1>1. /\ \A q : q \in A <=> q = "wait" \/ q = "run"
      /\ \A q : q \in B <=> q = "wait"
  OBVIOUS
<1>2. /\ \A S : p \in S => SlotsOf(S)' = SlotsOf(S) \cup {SlotRequest(b)}
      /\ \A S : p \notin S => SlotsOf(S)' = SlotsOf(S) \ {SlotRequest(b)}
      /\ \A S : SlotRequest(b) \in SlotsOf(S) <=> phase[b] \in S
  BY PhaseMoves
<1> HIDE DEF A, B
<1>3. (p \in A => SlotsOf(A)' = SlotsOf(A) \cup {SlotRequest(b)}) /\ (p \in B => SlotsOf(B)' = SlotsOf(B) \cup {SlotRequest(b)})
  BY <1>2
<1>4. (p \notin A => SlotsOf(A)' = SlotsOf(A) \ {SlotRequest(b)}) /\ (p \notin B => SlotsOf(B)' = SlotsOf(B) \ {SlotRequest(b)})
  BY <1>2
<1>5. (SlotRequest(b) \in SlotsOf(A) <=> phase[b] \in A) /\ (SlotRequest(b) \in SlotsOf(B) <=> phase[b] \in B)
  BY <1>2
<1>6. p = "over" => p \notin A /\ p \notin B
  BY <1>1
<1>7. p = "wait" => p \in A /\ p \in B
  BY <1>1
<1>8. p = "run" => p \in A /\ p \notin B
  BY <1>1
<1> QED
  BY <1>3, <1>4, <1>5, <1>6, <1>7, <1>8 DEF A, B

\* A step that leaves the lanes alone, and the phases of the builds that run them.
LEMMA LanesStay ==
    ASSUME Inv, UNCHANGED <<lane, reads>>, broken \subseteq broken', broken' \subseteq Builds,
           \A l \in Lanes : lane[l].mode # "over" => phase'[l[1]] = "run",
           phase' \in [Builds -> {"begin", "wait", "run", "over"}], faults' \in 0..MaxFaults, SlotsInv'
    PROVE  Inv'
<1>1. LanesInv /\ ReadsInv /\ TypeOK
  BY DEF Inv
<1>2. LanesInv'
  <2>1. ASSUME NEW k \in Lanes PROVE LaneOK(k, lane[k])'
    <3>1. LaneOK(k, lane[k])
      BY <1>1 DEF LanesInv
    <3>2. ClosedOK(k, lane[k])' /\ RunsOK(k, lane[k])'
      BY <3>1 DEF LaneOK, ClosedOK, Closes, RunsOK
    <3> QED
      BY <3>1, <3>2 DEF LaneOK
  <2> QED
    BY <1>1, <2>1 DEF LanesInv
<1>3. ReadsInv'
  BY <1>1 DEF ReadsInv, AllAsks, AllQueues
<1>4. TypeOK'
  <2>1. slots'.used \in 0..BuildWindows
    BY UsedFits, WindowsAre DEF SlotsInv
  <2> QED
    BY <1>1, <2>1 DEF TypeOK
<1> QED
  BY <1>2, <1>3, <1>4 DEF Inv

\* The lanes of a build that does not run are over.
LEMMA LanesRun ==
    ASSUME Inv, NEW b \in Builds, NEW p, phase' = [phase EXCEPT ![b] = p],
           phase[b] # "run" \/ \A l \in Lanes : l[1] = b => lane[l].mode = "over"
    PROVE  \A l \in Lanes : lane[l].mode # "over" => phase'[l[1]] = "run"
<1> SUFFICES ASSUME NEW l \in Lanes, lane[l].mode # "over" PROVE phase'[l[1]] = "run"
  OBVIOUS
<1>1. phase[l[1]] = "run" /\ l[1] \in Builds
  BY Docs DEF LaneOK, RunsOK, Lanes
<1>2. l[1] # b
  BY <1>1
<1> QED
  BY <1>1, <1>2, PhaseMoves

\* A build asks for its windows, gives up, or gives them back.
LEMMA SlotsMove ==
    ASSUME Inv, NEW b \in Builds, AskSlot(b) \/ CancelSlot(b) \/ EndBuild(b)
    PROVE  Inv'
<1> DEFINE e == SlotRequest(b)
           R == SlotsOf({"wait", "run"})
<1>1. /\ Semaphore(slots, BuildWindows, R) /\ ToSet(slots.queue) \subseteq SlotsOf({"wait"})
      /\ phase \in [Builds -> {"begin", "wait", "run", "over"}] /\ broken \subseteq Builds
      /\ faults \in 0..MaxFaults /\ BuildWindows \in Nat
  BY WindowsAre DEF Inv, SlotsInv, TypeOK
<1>2. \A f \in R : f.who = b => f = e
  BY WindowsAre DEF SlotsOf
<1>3. ASSUME NEW p \in {"wait", "over"}, phase' = [phase EXCEPT ![b] = p],
             phase[b] # "run" \/ \A l \in Lanes : l[1] = b => lane[l].mode = "over",
             UNCHANGED <<reads, lane, broken, faults>>, SlotsInv'
      PROVE  Inv'
  <2>1. phase' \in [Builds -> {"begin", "wait", "run", "over"}]
    BY <1>1, <1>3
  <2>2. \A l \in Lanes : lane[l].mode # "over" => phase'[l[1]] = "run"
    BY <1>3, LanesRun
  <2>3. /\ UNCHANGED <<lane, reads>> /\ broken \subseteq broken' /\ broken' \subseteq Builds
        /\ faults' \in 0..MaxFaults
    BY <1>1, <1>3
  <2> QED
    BY <1>3, <2>1, <2>2, <2>3, LanesStay
<1>4. CASE AskSlot(b)
  <2>1. phase[b] = "begin" /\ UNCHANGED <<reads, lane, broken, faults>>
    BY <1>4 DEF AskSlot
  <2>2. CASE phase' = [phase EXCEPT ![b] = "over"] /\ UNCHANGED slots
    <3>1. SlotsOf({"wait", "run"})' = R \ {e} /\ SlotsOf({"wait"})' = SlotsOf({"wait"}) \ {e}
      BY <2>2, PhaseIs
    <3>2. e \notin R /\ e \notin SlotsOf({"wait"})
      BY <2>1, <2>2, PhaseIs
    <3> HIDE DEF R, e
    <3>3. SlotsOf({"wait", "run"})' = R /\ SlotsOf({"wait"})' = SlotsOf({"wait"})
      BY <3>1, <3>2
    <3>4. SlotsInv'
      BY <1>1, <2>2, <3>3 DEF SlotsInv
    <3> QED
      BY <1>3, <2>1, <2>2, <3>4
  <2>3. CASE phase' = [phase EXCEPT ![b] = "wait"] /\ slots' = Acquire(slots, BuildWindows, e)
    <3>1. SlotsOf({"wait", "run"})' = R \cup {e} /\ SlotsOf({"wait"})' = SlotsOf({"wait"}) \cup {e}
      BY <2>3, PhaseIs
    <3>2. e \notin R
      BY <2>1, <2>3, PhaseIs
    <3>3. e.weight \in Nat /\ \A f \in R : f.who # e.who
      <4>1. SlotWeight(b) \in Nat
        <5>1. {b} \in SUBSET Builds
          OBVIOUS
        <5>2. Weighed({SlotRequest(c) : c \in {b}})
          BY <5>1, SlotTotal
        <5> QED
          BY <5>2, WindowsAre DEF Weighed
      <4>2. e.who = b
        BY WindowsAre
      <4> QED
        BY <1>2, <3>2, <4>1, <4>2, WindowsAre
    <3> HIDE DEF R, e
    <3>4. /\ Semaphore(Acquire(slots, BuildWindows, e), BuildWindows, R \cup {e})
          /\ ToSet(Acquire(slots, BuildWindows, e).queue) \subseteq ToSet(slots.queue) \cup {e}
      BY <1>1, <3>2, <3>3, Acquires
    <3>5. /\ Semaphore(slots', BuildWindows, SlotsOf({"wait", "run"})')
          /\ ToSet(slots'.queue) \subseteq SlotsOf({"wait"})'
      BY <1>1, <2>3, <3>1, <3>4
    <3>6. SlotsInv'
      BY <3>5 DEF SlotsInv
    <3> QED
      BY <1>3, <2>1, <2>3, <3>6
  <2> QED
    BY <1>4, <2>2, <2>3 DEF AskSlot
<1>5. CASE CancelSlot(b)
  <2>1. /\ phase[b] = "wait" /\ UNCHANGED <<reads, lane, broken, faults>> /\ e \in ToSet(slots.queue)
        /\ phase' = [phase EXCEPT ![b] = "over"] /\ slots' = Withdraw(slots, BuildWindows, e)
    BY <1>5 DEF CancelSlot, Waits
  <2>2. SlotsOf({"wait", "run"})' = R \ {e} /\ SlotsOf({"wait"})' = SlotsOf({"wait"}) \ {e}
    BY <2>1, PhaseIs
  <2> HIDE DEF R, e
  <2>3. /\ Semaphore(Withdraw(slots, BuildWindows, e), BuildWindows, R \ {e})
        /\ ToSet(Withdraw(slots, BuildWindows, e).queue) \subseteq ToSet(slots.queue) \ {e}
    BY <1>1, <2>1, Withdraws
  <2>4. /\ Semaphore(slots', BuildWindows, SlotsOf({"wait", "run"})')
        /\ ToSet(slots'.queue) \subseteq SlotsOf({"wait"})'
    BY <1>1, <2>1, <2>2, <2>3
  <2>5. SlotsInv'
    BY <2>4 DEF SlotsInv
  <2> QED
    BY <1>3, <2>1, <2>5
<1>6. CASE EndBuild(b)
  <2>1. /\ phase[b] = "run" /\ UNCHANGED <<reads, lane, broken, faults>>
        /\ \A l \in Lanes : l[1] = b => lane[l].mode = "over"
        /\ phase' = [phase EXCEPT ![b] = "over"] /\ slots' = Release(slots, BuildWindows, SlotWeight(b))
    BY <1>6 DEF EndBuild
  <2>2. /\ SlotsOf({"wait", "run"})' = R \ {e} /\ SlotsOf({"wait"})' = SlotsOf({"wait"}) \ {e}
        /\ e \in R /\ e \notin SlotsOf({"wait"})
    BY <2>1, PhaseIs
  <2>3. SlotWeight(b) = CostOf({e})
    <3>1. e.weight \in Nat
      BY <1>1, <2>2 DEF Semaphore, Weighed
    <3> QED
      BY <3>1, CostOfOne, WindowsAre
  <2>4. {e} \subseteq R \ ToSet(slots.queue)
    BY <1>1, <2>2
  <2> HIDE DEF R, e
  <2>5. /\ Semaphore(Release(slots, BuildWindows, CostOf({e})), BuildWindows, R \ {e})
        /\ ToSet(Release(slots, BuildWindows, CostOf({e})).queue) \subseteq ToSet(slots.queue)
    BY <1>1, <2>4, Releases
  <2>6. /\ Semaphore(slots', BuildWindows, SlotsOf({"wait", "run"})')
        /\ ToSet(slots'.queue) \subseteq SlotsOf({"wait"})'
    BY <1>1, <2>1, <2>2, <2>3, <2>5
  <2>7. SlotsInv'
    BY <2>6 DEF SlotsInv
  <2> QED
    BY <1>3, <2>1, <2>7
<1> QED
  BY <1>4, <1>5, <1>6

\* A lane at the start of a mode.
LEMMA Starts ==
    ASSUME NEW l, NEW mode \in {"full", "delta", "grown", "vectors"}
    PROVE  LET r == Fresh(l, mode)
           IN  /\ Typed(l, r) /\ DoingOK(r) /\ HandOK(r) /\ ModelOK(r) /\ WindowOK(r) /\ SendOK(r)
               /\ r.doing = "receive" /\ \A d \in DOMAIN r.at : r.at[d] = "unread"
<1> DEFINE r == Fresh(l, mode)
<1>1. r = [mode |-> mode, at |-> [d \in DOMAIN Sizes[l[1]][mode] |-> "unread"],
           doing |-> "receive", window |-> "none", stop |-> FALSE, failed |-> FALSE]
  BY DEF Fresh
<1> HIDE DEF r
<1>2. Typed(l, r)
  BY <1>1 DEF Typed, Modes, Stages, Doings
<1>3. DoingOK(r) /\ HandOK(r) /\ ModelOK(r) /\ WindowOK(r) /\ SendOK(r)
      /\ r.doing = "receive" /\ \A d \in DOMAIN r.at : r.at[d] = "unread"
  BY <1>1 DEF DoingOK, HandOK, ModelOK, WindowOK, SendOK
<1> QED
  BY <1>2, <1>3 DEF r

\* A build has its windows and begins its lanes.
LEMMA BuildBegins ==
    ASSUME Inv, NEW b \in Builds, BeginBuild(b)
    PROVE  Inv'
<1>1. /\ phase[b] = "wait" /\ SlotRequest(b) \notin ToSet(slots.queue)
      /\ phase' = [phase EXCEPT ![b] = "run"] /\ UNCHANGED <<reads, slots, broken, faults>>
      /\ LanesInv /\ ReadsInv /\ SlotsInv /\ TypeOK
  BY DEF BeginBuild, Waits, Inv
<1>2. PICK mode \in {"full", "delta", "grown"} :
         lane' = [l \in Lanes |-> IF l[1] # b THEN lane[l]
                                  ELSE Fresh(l, IF l[2] = "text" THEN mode ELSE "vectors")]
  BY DEF BeginBuild, TextModes
<1>3. ASSUME NEW l \in Lanes, l[1] # b
      PROVE  lane'[l] = lane[l] /\ LaneOK(l, lane[l])'
  <2>1. lane'[l] = lane[l] /\ l[1] \in Builds
    BY <1>2, <1>3 DEF Lanes
  <2>2. phase'[l[1]] = phase[l[1]]
    BY <1>1, <1>3, <2>1, PhaseMoves
  <2>3. LaneOK(l, lane[l])
    BY <1>1 DEF LanesInv
  <2>4. ClosedOK(l, lane[l])' /\ RunsOK(l, lane[l])'
    BY <1>1, <2>1, <2>2, <2>3 DEF LaneOK, ClosedOK, Closes, RunsOK
  <2> QED
    BY <2>1, <2>3, <2>4 DEF LaneOK
<1>4. ASSUME NEW l \in Lanes, l[1] = b
      PROVE  /\ LaneOK(l, lane[l])'
             /\ Asks(l, lane[l]) = {} /\ Queues(l, lane[l]) = {}
             /\ Asks(l, lane[l])' = {} /\ Queues(l, lane[l])' = {}
  <2>1. PICK m \in {"full", "delta", "grown", "vectors"} : lane'[l] = Fresh(l, m)
    BY <1>2, <1>4
  <2> DEFINE r == lane'[l]
  <2>2. /\ Typed(l, r) /\ DoingOK(r) /\ HandOK(r) /\ ModelOK(r) /\ WindowOK(r) /\ SendOK(r)
        /\ r.doing = "receive" /\ \A d \in DOMAIN r.at : r.at[d] = "unread"
    BY <2>1, Starts
  <2>3. phase'[l[1]] = "run"
    <3>1. phase'[b] = "run"
      BY <1>1 DEF TypeOK
    <3> QED
      BY <1>4, <3>1
  <2>4. LaneOK(l, lane[l])'
    BY <2>2, <2>3 DEF LaneOK, ClosedOK, RunsOK
  <2>5. AtOf(r, Asking) = {} /\ AtOf(r, {"asked"}) = {}
    BY <2>2, AskingIs DEF AtOf
  <2>6. Asks(l, r) = {} /\ Queues(l, r) = {}
    BY <2>5 DEF Asks, Queues
  <2>7. DOMAIN lane[l].at = {}
    <3>1. lane[l].mode = "over"
      BY <1>1, <1>4, Docs DEF LaneOK, RunsOK
    <3> QED
      BY <3>1, OverHasNone
  <2>8. Asks(l, lane[l]) = {} /\ Queues(l, lane[l]) = {}
    BY <2>7 DEF Asks, Queues, AtOf
  <2> QED
    BY <2>4, <2>6, <2>8
<1>5. LanesInv'
  <2>1. lane' = [l \in Lanes |-> lane'[l]]
    BY <1>2
  <2>2. ASSUME NEW l \in Lanes PROVE LaneOK(l, lane[l])'
    BY <1>3, <1>4
  <2> QED
    BY <2>1, <2>2 DEF LanesInv
<1>6. AllAsks' = AllAsks /\ AllQueues' = AllQueues
  <2>1. ASSUME NEW l \in Lanes
        PROVE  Asks(l, lane[l])' = Asks(l, lane[l]) /\ Queues(l, lane[l])' = Queues(l, lane[l])
    <3>1. CASE l[1] # b
      <4>1. lane'[l] = lane[l]
        BY <1>3, <3>1
      <4> QED
        BY <4>1
    <3>2. CASE l[1] = b
      BY <1>4, <3>2
    <3> QED
      BY <3>1, <3>2
  <2> QED
    BY <2>1 DEF AllAsks, AllQueues
<1>7. ReadsInv'
  BY <1>1, <1>6 DEF ReadsInv
<1>8. SlotsInv'
  <2>1. /\ SlotsOf({"wait", "run"})' = SlotsOf({"wait", "run"}) \cup {SlotRequest(b)}
        /\ SlotsOf({"wait"})' = SlotsOf({"wait"}) \ {SlotRequest(b)}
        /\ SlotRequest(b) \in SlotsOf({"wait", "run"})
    BY <1>1, PhaseIs
  <2>2. SlotsOf({"wait", "run"})' = SlotsOf({"wait", "run"}) /\ ToSet(slots.queue) \subseteq SlotsOf({"wait"})'
    BY <1>1, <2>1 DEF SlotsInv
  <2> QED
    BY <1>1, <2>2 DEF SlotsInv
<1>9. TypeOK'
  BY <1>1, <1>2 DEF TypeOK
<1> QED
  BY <1>5, <1>7, <1>8, <1>9 DEF Inv

(***************************************************************************)
(* The steps together.                                                     *)
(***************************************************************************)

\* An interrupt changes neither a lane nor a semaphore.
LEMMA Interrupted ==
    ASSUME Inv, NEW b \in Builds, Interrupt(b)
    PROVE  Inv'
<1>1. /\ UNCHANGED <<reads, slots, phase, lane>> /\ broken' = broken \cup {b} /\ faults' \in 0..MaxFaults
      /\ TypeOK /\ SlotsInv
  BY FaultsCount DEF Interrupt, Inv
<1>2. broken \subseteq broken' /\ broken' \subseteq Builds
  BY <1>1 DEF TypeOK
<1>3. \A l \in Lanes : lane[l].mode # "over" => phase'[l[1]] = "run"
  BY <1>1, Docs DEF LaneOK, RunsOK
<1>4. phase' \in [Builds -> {"begin", "wait", "run", "over"}]
  BY <1>1 DEF TypeOK
<1>5. SlotsInv'
  BY <1>1 DEF SlotsInv, SlotsOf
<1> QED
  BY <1>1, <1>2, <1>3, <1>4, <1>5, LanesStay

\* A step of the process that changes nothing.
LEMMA NothingMoves ==
    ASSUME Inv, UNCHANGED vars
    PROVE  Inv'
<1>1. /\ UNCHANGED <<reads, slots, phase, lane>> /\ broken' = broken /\ faults' = faults
      /\ TypeOK /\ SlotsInv
  BY DEF vars, Inv
<1>2. broken \subseteq broken' /\ broken' \subseteq Builds /\ faults' \in 0..MaxFaults
  BY <1>1 DEF TypeOK
<1>3. \A l \in Lanes : lane[l].mode # "over" => phase'[l[1]] = "run"
  BY <1>1, Docs DEF LaneOK, RunsOK
<1>4. phase' \in [Builds -> {"begin", "wait", "run", "over"}]
  BY <1>1 DEF TypeOK
<1>5. SlotsInv'
  BY <1>1 DEF SlotsInv, SlotsOf
<1> QED
  BY <1>1, <1>2, <1>3, <1>4, <1>5, LanesStay

\* A semaphore that nobody asked.
LEMMA NobodyAsks ==
    ASSUME NEW size \in Nat, NEW sem, sem = [used |-> 0, queue |-> <<>>]
    PROVE  Semaphore(sem, size, {}) /\ ToSet(sem.queue) = {}
<1>1. sem.queue = <<>> /\ sem.used = 0 /\ sem = [used |-> sem.used, queue |-> sem.queue]
  OBVIOUS
<1>2. ToSet(sem.queue) = {} /\ OneEach(sem.queue)
  BY <1>1 DEF ToSet, OneEach
<1>3. CostOf({}) = 0
  <2>1. UnitsOf({}) = {}
    BY DEF UnitsOf
  <2> QED
    BY <2>1, FS_EmptySet DEF CostOf
<1>4. IsFiniteSet({}) /\ Weighed({}) /\ Distinct({})
  BY FS_EmptySet DEF Weighed, Distinct
<1>5. sem.queue \in Seq({})
  BY <1>1
<1>6. {} \ ToSet(sem.queue) = {}
  OBVIOUS
<1>7. sem.used = CostOf({} \ ToSet(sem.queue)) /\ sem.used <= size
  BY <1>1, <1>3, <1>6
<1> QED
  BY <1>1, <1>2, <1>4, <1>5, <1>7 DEF Semaphore

\* The invariant holds before the first build.
LEMMA InvInit == Init => Inv
<1> SUFFICES ASSUME Init PROVE Inv
  OBVIOUS
<1>1. /\ reads = [used |-> 0, queue |-> <<>>] /\ slots = [used |-> 0, queue |-> <<>>]
      /\ phase = [b \in Builds |-> "begin"] /\ lane = [l \in Lanes |-> Over(l, FALSE)]
      /\ broken = {} /\ faults = 0
  BY DEF Init
<1>2. ASSUME NEW l \in Lanes
      PROVE  /\ LaneOK(l, lane[l]) /\ Asks(l, lane[l]) = {} /\ Queues(l, lane[l]) = {}
  <2> DEFINE r == lane[l]
  <2>1. r = [mode |-> "over", at |-> [d \in DOMAIN Sizes[l[1]]["over"] |-> "unread"],
             doing |-> "over", window |-> "none", stop |-> FALSE, failed |-> FALSE]
    BY <1>1, OverIs
  <2> HIDE DEF r
  <2>2. LaneOK(l, r)
    BY <2>1 DEF LaneOK, DoingOK, HandOK, ModelOK, WindowOK, ClosedOK, SendOK, RunsOK, Typed, Modes,
       Stages, Doings
  <2>3. \A d \in DOMAIN r.at : r.at[d] = "unread"
    BY <2>1
  <2>4. AtOf(r, Asking) = {} /\ AtOf(r, {"asked"}) = {}
    BY <2>3, AskingIs DEF AtOf
  <2> QED
    BY <2>2, <2>4 DEF Asks, Queues, r
<1>3. LanesInv
  BY <1>1, <1>2 DEF LanesInv
<1>4. ReadsInv
  <2>1. AllAsks = {}
    BY <1>2 DEF AllAsks
  <2>2. Budget \in Nat
    BY BudgetAssumption
  <2> QED
    BY <1>1, <2>1, <2>2, NobodyAsks DEF ReadsInv
<1>5. SlotsInv
  <2>1. SlotsOf({"wait", "run"}) = {}
    BY <1>1 DEF SlotsOf
  <2> QED
    BY <1>1, <2>1, NobodyAsks, WindowsAre DEF SlotsInv
<1>6. TypeOK
  <2>1. Budget \in Nat /\ BuildWindows \in Nat /\ MaxFaults \in Nat
    BY BudgetAssumption, WindowsAre
  <2> QED
    BY <1>1, <2>1 DEF TypeOK
<1> QED
  BY <1>3, <1>4, <1>5, <1>6 DEF Inv

\* A step of a lane keeps the invariant.
LEMMA LaneSteps ==
    ASSUME Inv, NEW l \in Lanes, LaneStep(l)
    PROVE  Inv'
BY Finishes, FullEnds, CollectEnds, DeltaEnds, BatchSent, ModelCalled, VectorsEnd DEF LaneStep

\* A step of one document keeps the invariant.
LEMMA DocSteps ==
    ASSUME Inv, NEW l \in Lanes, DocStep(l)
    PROVE  Inv'
<1>1. CASE \E d \in At(l, {"unread"}) : Ask(l, d)
  BY <1>1, Asked
<1>2. CASE \E d \in Waiting(l) : CancelAsk(l, d)
  BY <1>2, AskCancelled
<1>3. CASE \E d \in Granted(l) : ReadBinary(l, d) \/ ReadError(l, d)
  BY <1>3, ReadersKeep
<1>4. CASE \E d \in Offered(l) :
              Drop(l, d) \/ Receive(l, d) \/ Drain(l, d) \/ CollectDelta(l, d) \/ TakeVector(l, d)
  BY <1>4, ReadersKeep, FullReceives, DeltaCollects, VectorTaken
<1>5. CASE \E d \in At(l, {"hand", "hand name"}) : AddHand(l, d)
  BY <1>5, FullReceives
<1> QED
  BY <1>1, <1>2, <1>3, <1>4, <1>5 DEF DocStep

\* Every step keeps the invariant.
LEMMA InvStep == Inv /\ [Next]_vars => Inv'
<1> SUFFICES ASSUME Inv, [Next]_vars PROVE Inv'
  OBVIOUS
<1>1. CASE \E b \in Builds : BuildStep(b)
  BY <1>1, SlotsMove, BuildBegins DEF BuildStep
<1>2. CASE \E l \in Lanes : LaneStep(l)
  BY <1>2, LaneSteps
<1>3. CASE \E l \in Lanes : DocStep(l)
  BY <1>3, DocSteps
<1>4. CASE \E b \in Builds : Interrupt(b)
  BY <1>4, Interrupted
<1>5. CASE UNCHANGED vars
  BY <1>5, NothingMoves
<1> QED
  BY <1>1, <1>2, <1>3, <1>4, <1>5 DEF Next, Progress, Done

(* The two semaphores never count more than their size, whatever the       *)
(* builds ask for, cancel and give back.                                   *)
THEOREM TypeCorrect == Spec => []TypeOK
<1>1. Init => Inv
  BY InvInit
<1>2. Inv /\ [Next]_vars => Inv'
  BY InvStep
<1>3. Inv => TypeOK
  BY DEF Inv
<1> QED
  BY <1>1, <1>2, <1>3, PTL DEF Spec

\* What the lanes hold is what they asked for and do not wait for.
LEMMA HeldAreAsked ==
    ASSUME Inv
    PROVE  RequestsIn(Lanes, [l \in Lanes |-> Held(l)]) = AllAsks \ ToSet(reads.queue)
<1> DEFINE D == [l \in Lanes |-> Held(l)]
<1>1. ASSUME NEW l \in Lanes
      PROVE  /\ D[l] = {d \in AtOf(lane[l], Asking) : Request(l, d) \notin ToSet(reads.queue)}
             /\ \A d : Request(l, d) = Req(l, lane[l], d)
  BY HeldIs DEF Inv
<1>2. ASSUME NEW e, e \in RequestsIn(Lanes, D) PROVE e \in AllAsks \ ToSet(reads.queue)
  <2>1. PICK l \in Lanes : e \in {Request(l, d) : d \in D[l]}
    BY <1>2 DEF RequestsIn
  <2>2. PICK d \in D[l] : e = Request(l, d)
    BY <2>1
  <2>3. d \in AtOf(lane[l], Asking) /\ e \notin ToSet(reads.queue) /\ e = Req(l, lane[l], d)
    BY <1>1, <2>2
  <2>4. e \in Asks(l, lane[l])
    BY <2>3 DEF Asks
  <2> QED
    BY <2>3, <2>4 DEF AllAsks
<1>3. ASSUME NEW e \in AllAsks, e \notin ToSet(reads.queue) PROVE e \in RequestsIn(Lanes, D)
  <2>1. PICK l \in Lanes : e \in Asks(l, lane[l])
    BY DEF AllAsks
  <2>2. PICK d \in AtOf(lane[l], Asking) : e = Req(l, lane[l], d)
    BY <2>1 DEF Asks
  <2>3. d \in D[l] /\ e = Request(l, d)
    BY <1>1, <1>3, <2>2
  <2>4. e \in {Request(l, x) : x \in D[l]}
    BY <2>3
  <2> QED
    BY <2>4 DEF RequestsIn
<1> QED
  BY <1>2, <1>3

\* So the first semaphore counts the units that the lanes hold.
LEMMA ReadsCount ==
    ASSUME Inv
    PROVE  reads.used = Cardinality(UNION {Units(l, Held(l)) : l \in Lanes})
<1> DEFINE D == [l \in Lanes |-> Held(l)]
<1>1. Semaphore(reads, Budget, AllAsks)
  BY DEF Inv, ReadsInv
<1>2. RequestsIn(Lanes, D) = AllAsks \ ToSet(reads.queue)
  BY HeldAreAsked
<1>3. IsFiniteSet(AllAsks \ ToSet(reads.queue)) /\ reads.used = CostOf(AllAsks \ ToSet(reads.queue))
  BY <1>1, FS_Subset DEF Semaphore
<1>4. \A l \in Lanes : Typed(l, lane[l]) /\ D[l] \subseteq DOMAIN lane[l].at
  BY Docs DEF LaneOK
<1>5. UnitsIn(Lanes, D) = UNION {Units(l, Held(l)) : l \in Lanes}
  BY DEF UnitsIn
<1> HIDE DEF D
<1>6. IsFiniteSet(RequestsIn(Lanes, D)) /\ Lanes \in SUBSET Lanes
  BY <1>2, <1>3
<1>7. Cardinality(UnitsIn(Lanes, D)) = CostOf(RequestsIn(Lanes, D))
  BY <1>4, <1>6, UnitsAreCost
<1> QED
  BY <1>2, <1>3, <1>5, <1>7

\* And the second one counts the windows of the builds that have theirs.
LEMMA SlotsCount ==
    ASSUME Inv
    PROVE  slots.used = MapThenSumSet(SlotWeight,
                            {b \in Builds : phase[b] = "run"
                                \/ (phase[b] = "wait" /\ ~Waits(slots, SlotRequest(b)))})
<1> DEFINE S == {b \in Builds : phase[b] = "run" \/ (phase[b] = "wait" /\ ~Waits(slots, SlotRequest(b)))}
           Of(s) == {SlotRequest(b) : b \in s}
<1>1. /\ slots.used = CostOf(SlotsOf({"wait", "run"}) \ ToSet(slots.queue))
      /\ ToSet(slots.queue) \subseteq SlotsOf({"wait"})
  BY DEF Inv, SlotsInv, Semaphore
<1>2. \A b \in Builds : phase[b] = "run" => SlotRequest(b) \notin ToSet(slots.queue)
  BY <1>1, WindowsAre DEF SlotsOf
<1>3. Of(S) = SlotsOf({"wait", "run"}) \ ToSet(slots.queue)
  <2>1. \A e : e \in SlotsOf({"wait", "run"}) <=> \E b \in Builds : phase[b] \in {"wait", "run"} /\ e = SlotRequest(b)
    BY DEF SlotsOf
  <2>2. \A e : e \in Of(S) <=> \E b \in S : e = SlotRequest(b)
    OBVIOUS
  <2>3. \A b : b \in S <=> b \in Builds /\ phase[b] \in {"wait", "run"} /\ SlotRequest(b) \notin ToSet(slots.queue)
    BY <1>2 DEF Waits
  <2> HIDE DEF S, Of
  <2> QED
    BY <2>1, <2>2, <2>3
<1>4. S \in SUBSET Builds
  OBVIOUS
<1> HIDE DEF S
<1>5. MapThenSumSet(SlotWeight, S) = CostOf(Of(S))
  BY <1>4, SlotTotal
<1> QED
  BY <1>1, <1>3, <1>5 DEF S

(* Weight that was granted is given back once, whatever is cut short: each *)
(* semaphore counts exactly what the documents and the builds hold.        *)
THEOREM WeightsBack == Spec => []WeightsReturned
<1>1. Init => Inv
  BY InvInit
<1>2. Inv /\ [Next]_vars => Inv'
  BY InvStep
<1>3. Inv => WeightsReturned
  BY ReadsCount, SlotsCount DEF WeightsReturned
<1> QED
  BY <1>1, <1>2, <1>3, PTL DEF Spec

=============================================================================
