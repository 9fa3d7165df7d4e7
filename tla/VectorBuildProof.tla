-------------------------- MODULE VectorBuildProof --------------------------
(***************************************************************************)
(* Theorems about VectorBuild, for any files, windows, sizes, processors   *)
(* and faults:                                                             *)
(*   1. TypeCorrect, the types and the bounds of both semaphores;          *)
(*   2. CauseTold, a build is canceled only by an interrupt;               *)
(*   3. WeightsBack, every weight and lease is given back once;            *)
(*   4. WholeBuilds, a build that succeeds holds every row, and its shards *)
(*      cut the rows exactly.                                              *)
(* IInv is the inductive invariant.  Batches are sets of rows, and the     *)
(* same file may be in several: what makes the count of their files exact  *)
(* is that no two batches share a row (Apart), which holds as the loop     *)
(* numbers the rows of the files one after the other (MergedInv).          *)
(* For WholeBuilds it is joined by a chain (CutInv): the shards, the plans *)
(* that wait, those on their way and the planner follow each other from    *)
(* the first row to the last that is in, as long as nothing is canceled.   *)
(***************************************************************************)
EXTENDS VectorBuild, TLAPS, WellFoundedInduction, FiniteSetTheorems, SequenceTheorems

\* A set of natural numbers that is not empty has a least one.
LEMMA LeastNumber ==
    ASSUME NEW T \in SUBSET Nat, T # {}
    PROVE  \E m \in T : \A n \in T : m <= n
<1> DEFINE R == OpToRel(<, Nat)
<1>1. IsWellFoundedOn(R, Nat)
  BY NatLessThanWellFounded
<1>2. \A x, y \in Nat : x < y => <<x, y>> \in R
  BY DEF OpToRel
<1> HIDE DEF R
<1>3. PICK m \in T : \A y \in T : <<y, m>> \notin R
  BY <1>1, WFMin
<1>4. ASSUME NEW n \in T PROVE m <= n
  <2>1. m \in Nat /\ n \in Nat
    OBVIOUS
  <2>2. ~(n < m)
    BY <1>2, <1>3, <2>1
  <2> QED
    BY <2>1, <2>2
<1> QED
  BY <1>4

\* Induction up to a number, for a set instead of a predicate.
LEMMA Induction ==
    ASSUME NEW n \in Nat, NEW S, 0 \in S, \A k \in 1..n : k - 1 \in S => k \in S
    PROVE  0..n \subseteq S
<1> SUFFICES ASSUME (0..n) \ S # {} PROVE FALSE
  OBVIOUS
<1>0. (0..n) \ S \in SUBSET Nat
  OBVIOUS
<1>1. PICK m \in (0..n) \ S : \A k \in (0..n) \ S : m <= k
  BY <1>0, LeastNumber
<1>2. m \in 1..n /\ m - 1 \in 0..n /\ m - 1 < m
  BY <1>1
<1>3. m - 1 \in S
  BY <1>1, <1>2
<1> QED
  BY <1>1, <1>2, <1>3

\* The greatest of some numbers up to n.
LEMMA Greatest ==
    ASSUME NEW n \in Nat, NEW T \in SUBSET (0..n), T # {}
    PROVE  Max(T) \in T /\ \A k \in T : k <= Max(T)
<1> DEFINE D == {n - k : k \in T}
<1>1. D \in SUBSET Nat /\ D # {}
  <2>1. \A k \in T : n - k \in Nat /\ n - k \in D
    OBVIOUS
  <2> QED
    BY <2>1
<1>2. PICK d \in D : \A e \in D : d <= e
  BY <1>1, LeastNumber
<1>3. PICK m \in T : d = n - m
  BY <1>2
<1>4. \A k \in T : m >= k
  <2> TAKE k \in T
  <2>1. n - m <= n - k
    BY <1>2, <1>3
  <2> QED
    BY <2>1
<1>5. \E x \in T : \A y \in T : x >= y
  BY <1>4
<1> QED
  BY <1>5 DEF Max

\* And the least.
LEMMA LeastOf ==
    ASSUME NEW T \in SUBSET Nat, T # {}
    PROVE  Min(T) \in T /\ \A k \in T : Min(T) <= k
<1>1. \E x \in T : \A y \in T : x =< y
  BY LeastNumber
<1> QED
  BY <1>1 DEF Min

\* A fold goes over the parts of an interval.  Its recursion has a solution.
Solves(it, n, base, G, s) ==
    it = [t \in SUBSET (1..n) |-> IF t = {} THEN base ELSE G[<<it[t \ {Max(t)}], s[Max(t)]>>]]

\* The recursion has a solution on all the parts, by induction over the interval.
LEMMA FoldExists ==
    ASSUME NEW n \in Nat, NEW A, NEW X, NEW s \in [1..n -> X], NEW base \in A, NEW G \in [A \X X -> A]
    PROVE  \E it \in [SUBSET (1..n) -> A] : Solves(it, n, base, G, s)
<1> DEFINE D == SUBSET (1..n)
           Next1(it, t) == IF t = {} THEN base ELSE G[<<it[t \ {Max(t)}], s[Max(t)]>>]
           Good(it, k) == \A t \in SUBSET (1..k) : it[t] = Next1(it, t)
           Reached == {k \in 0..n : \E it \in [D -> A] : Good(it, k)}
<1>0. ASSUME NEW t \in D, t # {} PROVE Max(t) \in 1..n /\ Max(t) \in t /\ t \ {Max(t)} \in D
  <2>1. t \in SUBSET (0..n)
    OBVIOUS
  <2> QED
    BY <1>0, <2>1, Greatest
<1>1. ASSUME NEW it \in [D -> A], NEW t \in D PROVE Next1(it, t) \in A
  <2>1. CASE t = {}
    BY <2>1
  <2>2. CASE t # {}
    <3>1. it[t \ {Max(t)}] \in A /\ s[Max(t)] \in X
      BY <2>2, <1>0
    <3> QED
      BY <3>1, <2>2
  <2> QED
    BY <2>1, <2>2
<1>2. 0 \in Reached
  <2> DEFINE it == [t \in D |-> base]
  <2>1. \A t \in SUBSET (1..0) : t = {}
    OBVIOUS
  <2>2. it \in [D -> A]
    OBVIOUS
  <2>3. Good(it, 0)
    <3> TAKE t \in SUBSET (1..0)
    <3>1. t = {} /\ t \in D
      BY <2>1
    <3> QED
      BY <3>1
  <2> HIDE DEF it, Good
  <2>4. 0 \in 0..n
    OBVIOUS
  <2> QED
    BY <2>2, <2>3, <2>4
<1>3. ASSUME NEW k \in 1..n, k - 1 \in Reached PROVE k \in Reached
  <2>1. PICK it \in [D -> A] : Good(it, k - 1)
    BY <1>3
  <2> DEFINE new == [t \in D |-> IF t \subseteq 1..(k - 1) THEN it[t] ELSE Next1(it, t)]
  <2>2. new \in [D -> A]
    <3>1. \A t \in D : Next1(it, t) \in A /\ it[t] \in A
      BY <1>1
    <3> HIDE DEF Next1
    <3> QED
      BY <3>1
  <2>3. ASSUME NEW t \in SUBSET (1..k) PROVE new[t] = Next1(new, t)
    <3>1. t \in D
      OBVIOUS
    <3>2. new[t] = Next1(it, t)
      <4>1. CASE t \subseteq 1..(k - 1)
        <5>1. it[t] = Next1(it, t)
          BY <2>1, <4>1
        <5> HIDE DEF Next1
        <5> QED
          BY <3>1, <4>1, <5>1
      <4>2. CASE ~(t \subseteq 1..(k - 1))
        <5> HIDE DEF Next1
        <5> QED
          BY <3>1, <4>2
      <4> QED
        BY <4>1, <4>2
    <3>3. CASE t = {}
      BY <3>2, <3>3
    <3>4. CASE t # {}
      <4>1. t \in SUBSET (0..n)
        BY <3>1
      <4>2. Max(t) \in t /\ \A j \in t : j <= Max(t)
        BY <3>4, <4>1, Greatest
      <4>3. t \ {Max(t)} \subseteq 1..(k - 1)
        <5> SUFFICES ASSUME NEW j \in t, j # Max(t) PROVE j \in 1..(k - 1)
          OBVIOUS
        <5>1. j <= Max(t) /\ j \in 1..k /\ Max(t) \in 1..k
          BY <4>2
        <5> QED
          BY <5>1
      <4>4. new[t \ {Max(t)}] = it[t \ {Max(t)}]
        BY <3>1, <4>3
      <4> HIDE DEF new
      <4> QED
        BY <3>2, <3>4, <4>4
    <3> QED
      BY <3>3, <3>4
  <2>4. Good(new, k)
    BY <2>3
  <2> HIDE DEF new, Good
  <2>5. k \in 0..n
    OBVIOUS
  <2> QED
    BY <2>2, <2>4, <2>5
<1>4. n \in Reached
  <2> HIDE DEF Reached
  <2>1. 0..n \subseteq Reached
    BY <1>2, <1>3, Induction
  <2> QED
    BY <2>1
<1>5. PICK it \in [D -> A] : Good(it, n)
  BY <1>4
<1>6. it = [t \in D |-> Next1(it, t)]
  BY <1>5
<1> QED
  BY <1>6 DEF Solves

\* The parts that a fold over a sequence goes through.
LEMMA Segments ==
    ASSUME NEW n \in Nat, NEW k \in 1..n
    PROVE  /\ 1..k \in SUBSET (1..n) /\ 1..k # {} /\ Max(1..k) = k
           /\ (1..k) \ {k} = 1..(k - 1) /\ k - 1 \in 0..n
<1>1. k \in 1..k /\ 1..k \in SUBSET (0..n) /\ 1..k \in SUBSET (1..n)
  OBVIOUS
<1>2. Max(1..k) \in 1..k /\ k <= Max(1..k)
  <2>1. 1..k # {}
    BY <1>1
  <2> QED
    BY <1>1, <2>1, Greatest
<1>3. Max(1..k) = k
  BY <1>2
<1>4. (1..k) \ {k} = 1..(k - 1) /\ k - 1 \in 0..n
  OBVIOUS
<1> QED
  BY <1>1, <1>3, <1>4

-----------------------------------------------------------------------------
(* What the build loop makes of the windows of a file.                     *)

\* The windows of a file, one by one.
AddWindow(start, f, acc, w) ==
    IF Windows[f][w] = "copy"
    THEN IF Cardinality(acc.copies) + 1 = BatchRows
         THEN [acc EXCEPT !.out = Append(@, Message("collector", acc.copies \cup {start + w})), !.copies = {}]
         ELSE [acc EXCEPT !.copies = @ \cup {start + w}]
    ELSE IF Cardinality(acc.batch) + 1 = BatchRows
         THEN [acc EXCEPT !.out = Append(@, Message("encoder", acc.batch \cup {start + w})), !.batch = {}]
         ELSE [acc EXCEPT !.batch = @ \cup {start + w}]

Accs == [batch : SUBSET Nat, copies : SUBSET Nat,
         out : Seq([to : {"encoder", "collector"}, rows : SUBSET Nat])]

NoWindows == [batch |-> batch, copies |-> {}, out |-> <<>>]

WithCopies(acc) ==
    [acc EXCEPT !.out = IF acc.copies = {} THEN @ ELSE Append(@, Message("collector", acc.copies))]

\* A window that joins keeps the types.
LEMMA AddTyped ==
    ASSUME NEW start \in Nat, NEW f, NEW acc \in Accs, NEW w \in Nat
    PROVE  AddWindow(start, f, acc, w) \in Accs
<1>1. acc.copies \cup {start + w} \in SUBSET Nat /\ acc.batch \cup {start + w} \in SUBSET Nat
  BY DEF Accs
<1>2. /\ Message("collector", acc.copies \cup {start + w}) \in [to : {"encoder", "collector"}, rows : SUBSET Nat]
      /\ Message("encoder", acc.batch \cup {start + w}) \in [to : {"encoder", "collector"}, rows : SUBSET Nat]
  BY <1>1 DEF Message
<1>3. /\ Append(acc.out, Message("collector", acc.copies \cup {start + w}))
            \in Seq([to : {"encoder", "collector"}, rows : SUBSET Nat])
      /\ Append(acc.out, Message("encoder", acc.batch \cup {start + w}))
            \in Seq([to : {"encoder", "collector"}, rows : SUBSET Nat])
  <2> DEFINE M == [to : {"encoder", "collector"}, rows : SUBSET Nat]
  <2>1. acc.out \in Seq(M)
    BY DEF Accs
  <2>2. \A m \in M : Append(acc.out, m) \in Seq(M)
    <3> HIDE DEF M
    <3> QED
      BY <2>1
  <2> QED
    BY <1>2, <2>2
<1> HIDE DEF Message
<1> QED
  BY <1>1, <1>3 DEF AddWindow, Accs

\* The windows are added one by one.
Sorting(h, start, f, n) ==
    h[0] = NoWindows /\ \A k \in 1..n : h[k] = AddWindow(start, f, h[k - 1], k)

\* Sorted is such a sequence of additions: the value of the fold that CHOOSE defines.
LEMMA SortedIsFold ==
    ASSUME NEW start \in Nat, NEW f, NEW n \in Nat, DOMAIN Windows[f] = 1..n, batch \in SUBSET Nat
    PROVE  \E h \in [0..n -> Accs] : Sorting(h, start, f, n) /\ Sorted(start, f) = WithCopies(h[n])
<1> DEFINE s == [w \in DOMAIN Windows[f] |-> w]
           G == [p \in Accs \X Nat |-> AddWindow(start, f, p[1], p[2])]
           Is(it) == it = [t \in SUBSET (DOMAIN s) |-> IF t = {} THEN NoWindows
                                ELSE AddWindow(start, f, it[t \ {Max(t)}], s[Max(t)])]
           fold == CHOOSE it : Is(it)
<1>1. DOMAIN s = 1..n /\ s \in [1..n -> Nat]
  OBVIOUS
<1>2. NoWindows \in Accs
  BY DEF NoWindows, Accs
<1>3. G \in [Accs \X Nat -> Accs]
  <2>1. \A p \in Accs \X Nat : AddWindow(start, f, p[1], p[2]) \in Accs
    BY AddTyped
  <2> QED
    BY <2>1
<1>4. PICK it \in [SUBSET (1..n) -> Accs] : Solves(it, n, NoWindows, G, s)
  <2> HIDE DEF G, s
  <2> QED
    BY <1>1, <1>2, <1>3, FoldExists
<1>5. ASSUME NEW t \in SUBSET (1..n), t # {} PROVE t \ {Max(t)} \in SUBSET (1..n) /\ Max(t) \in 1..n
  <2>1. t \in SUBSET (0..n)
    OBVIOUS
  <2> QED
    BY <1>5, <2>1, Greatest
<1>6. Is(it)
  <2>1. ASSUME NEW t \in SUBSET (1..n), t # {}
        PROVE  G[<<it[t \ {Max(t)}], s[Max(t)]>>] = AddWindow(start, f, it[t \ {Max(t)}], s[Max(t)])
    <3>1. it[t \ {Max(t)}] \in Accs /\ s[Max(t)] \in Nat
      BY <1>1, <1>5, <2>1
    <3> QED
      BY <3>1
  <2> HIDE DEF G, s
  <2> QED
    BY <1>1, <1>4, <2>1 DEF Solves
<1>7. Is(fold)
  <2> HIDE DEF Is
  <2> QED
    BY <1>6
<1>8. Sorted(start, f) = WithCopies(fold[DOMAIN s])
  BY DEF Sorted, AddWindow, FoldLeft, MapThenFoldSet, WithCopies, NoWindows
<1> DEFINE h == [k \in 0..n |-> fold[1..k]]
<1>9. h[0] = NoWindows
  <2>1. 1..0 = {} /\ {} \in SUBSET (1..n) /\ 0 \in 0..n
    OBVIOUS
  <2> HIDE DEF fold, s
  <2> QED
    BY <1>1, <1>7, <2>1
<1>10. ASSUME NEW k \in 1..n PROVE h[k] = AddWindow(start, f, h[k - 1], k)
  <2>1. 1..k \in SUBSET (1..n) /\ 1..k # {} /\ Max(1..k) = k /\ (1..k) \ {k} = 1..(k - 1)
        /\ k - 1 \in 0..n /\ k \in 0..n
    BY Segments
  <2>2. fold[1..k] = AddWindow(start, f, fold[(1..k) \ {Max(1..k)}], s[Max(1..k)])
    <3> HIDE DEF fold, s
    <3> QED
      BY <1>1, <1>7, <2>1
  <2>3. s[k] = k
    BY <1>1
  <2> HIDE DEF fold, s
  <2> QED
    BY <2>1, <2>2, <2>3
<1>11. \A k \in 0..n : h[k] \in Accs
  <2> DEFINE T == {k \in 0..n : h[k] \in Accs}
  <2> HIDE DEF h
  <2>1. 0 \in T
    BY <1>2, <1>9
  <2>2. ASSUME NEW k \in 1..n, k - 1 \in T PROVE k \in T
    BY <1>10, <2>2, AddTyped
  <2> HIDE DEF T
  <2>3. 0..n \subseteq T
    BY <2>1, <2>2, Induction
  <2> QED
    BY <2>3 DEF T
<1>12. h \in [0..n -> Accs]
  <2> HIDE DEF fold
  <2> QED
    BY <1>11
<1>13. h[n] = fold[DOMAIN s]
  <2> HIDE DEF fold, s
  <2> QED
    BY <1>1
<1>14. Sorting(h, start, f, n)
  <2> HIDE DEF h
  <2> QED
    BY <1>9, <1>10 DEF Sorting
<1>15. Sorted(start, f) = WithCopies(h[n])
  <2> HIDE DEF h, fold, s
  <2> QED
    BY <1>8, <1>13
<1> HIDE DEF h
<1> QED
  BY <1>12, <1>14, <1>15

-----------------------------------------------------------------------------
(* The rows in file order.                                                 *)

\* The rows of the files up to f.
LastFile == Len(Windows)
RowsOf(f) == [w \in DOMAIN Windows[f] |-> <<f, w>>]

\* The rows of the files up to f, for each f.
IsUpto(u) ==
    /\ u \in [0..LastFile -> Seq(Files \X Nat)]
    /\ u[0] = <<>> /\ \A f \in 1..LastFile : u[f] = u[f - 1] \o RowsOf(f)

Upto == CHOOSE u : IsUpto(u)

\* The types of the parameters, file by file.
LEMMA Constants ==
    /\ LastFile \in Nat /\ Files = 1..LastFile
    /\ \A f \in Files : /\ Windows[f] \in Seq({"model", "copy"}) /\ Len(Windows[f]) \in Nat
                        /\ DOMAIN Windows[f] = 1..Len(Windows[f])
                        /\ RowsOf(f) \in Seq(Files \X Nat) /\ Len(RowsOf(f)) = Len(Windows[f])
                        /\ \A w \in 1..Len(Windows[f]) : RowsOf(f)[w] = <<f, w>>
<1>1. LastFile \in Nat /\ Files = 1..LastFile
  BY ConstantsAssumption DEF LastFile, Files
<1>2. ASSUME NEW f \in Files
      PROVE  /\ Windows[f] \in Seq({"model", "copy"}) /\ Len(Windows[f]) \in Nat
             /\ DOMAIN Windows[f] = 1..Len(Windows[f])
             /\ RowsOf(f) \in Seq(Files \X Nat) /\ Len(RowsOf(f)) = Len(Windows[f])
             /\ \A w \in 1..Len(Windows[f]) : RowsOf(f)[w] = <<f, w>>
  <2>1. Windows[f] \in Seq({"model", "copy"})
    BY ConstantsAssumption DEF Files
  <2>2. Len(Windows[f]) \in Nat /\ DOMAIN Windows[f] = 1..Len(Windows[f])
    BY <2>1
  <2>3. RowsOf(f) = [w \in 1..Len(Windows[f]) |-> <<f, w>>]
    BY <2>2 DEF RowsOf
  <2>4. \A w \in 1..Len(Windows[f]) : <<f, w>> \in Files \X Nat
    OBVIOUS
  <2>5. RowsOf(f) \in Seq(Files \X Nat) /\ Len(RowsOf(f)) = Len(Windows[f])
    BY <2>2, <2>3, <2>4
  <2> QED
    BY <2>1, <2>2, <2>3, <2>5
<1> QED
  BY <1>1, <1>2

\* The files, and the number of their windows.
LEMMA FileCount ==
    LastFile \in Nat /\ Files = 1..LastFile /\ \A f \in Files : Len(Windows[f]) \in Nat
<1>1. LastFile \in Nat /\ Files = 1..LastFile
  BY Constants
<1>2. \A f \in Files : Len(Windows[f]) \in Nat
  BY Constants
<1> QED
  BY <1>1, <1>2

\* There is such a sequence, and its last member is AllRows.
LEMMA UptoExists == IsUpto(Upto) /\ AllRows = Upto[LastFile]
<1> DEFINE R == Seq(Files \X Nat)
           N == LastFile
           FR == [f \in Files |-> RowsOf(f)]
           Next1(g, i) == IF i = 1 THEN FR[i] ELSE g[i - 1] \o FR[i]
           Is(g) == g = [i \in 1..Len(FR) |-> Next1(g, i)]
           Good(g, k) == \A i \in 1..k : g[i] = Next1(g, i)
           Reached == {k \in 0..N : \E g \in [1..N -> R] : Good(g, k)}
           fl == CHOOSE g : Is(g)
<1>0. N \in Nat /\ Files = 1..N /\ (\A f \in Files : RowsOf(f) \in R) /\ FR \in Seq(R) /\ Len(FR) = N
  <2>1. N \in Nat /\ Files = 1..N /\ \A f \in Files : RowsOf(f) \in R
    BY Constants
  <2>2. FR = [f \in 1..N |-> RowsOf(f)]
    BY <2>1
  <2>3. FR \in Seq(R) /\ Len(FR) = N
    BY <2>1, <2>2
  <2> QED
    BY <2>1, <2>3
<1>1. \A i \in 1..N : FR[i] \in R /\ FR[i] = RowsOf(i)
  BY <1>0
<1>a. AllRows = IF N = 0 THEN FR ELSE fl[N]
  BY <1>0 DEF AllRows, FlattenSeq, RowsOf
<1> HIDE DEF FR
<1>2. 0 \in Reached
  <2>1. \A i \in 1..0 : FALSE
    OBVIOUS
  <2>2. [i \in 1..N |-> <<>>] \in [1..N -> R]
    OBVIOUS
  <2>3. 0 \in 0..N
    BY <1>0
  <2> QED
    BY <2>1, <2>2, <2>3
<1>3. ASSUME NEW k \in 1..N, k - 1 \in Reached PROVE k \in Reached
  <2>1. PICK g \in [1..N -> R] : Good(g, k - 1)
    BY <1>3
  <2>2. Next1(g, k) \in R
    BY <1>0, <1>1
  <2> DEFINE h == [g EXCEPT ![k] = Next1(g, k)]
  <2>3. h \in [1..N -> R]
    BY <2>2
  <2>4. ASSUME NEW i \in 1..k PROVE h[i] = Next1(h, i)
    <3>1. i \in 1..N /\ (i # 1 => i - 1 \in 1..(k - 1) /\ i - 1 # k)
      BY <1>0
    <3>2. i # 1 => h[i - 1] = g[i - 1]
      BY <3>1, <1>0
    <3>3. h[i] = Next1(g, i)
      <4>1. CASE i = k
        BY <4>1, <3>1
      <4>2. CASE i # k
        <5>1. i \in 1..(k - 1)
          BY <4>2, <1>0
        <5>2. g[i] = Next1(g, i)
          BY <2>1, <5>1
        <5> HIDE DEF Next1
        <5> QED
          BY <5>2, <4>2, <3>1
      <4> QED
        BY <4>1, <4>2
    <3> HIDE DEF h
    <3> QED
      BY <3>2, <3>3
  <2>5. Good(h, k)
    BY <2>4
  <2>6. k \in 0..N
    BY <1>0
  <2> HIDE DEF h, Good
  <2> QED
    BY <2>3, <2>5, <2>6
<1>4. N \in Reached
  <2> HIDE DEF Reached, N
  <2>1. 0..N \subseteq Reached
    BY <1>0, <1>2, <1>3, Induction
  <2> QED
    BY <2>1, <1>0
<1>5. PICK g \in [1..N -> R] : Good(g, N)
  BY <1>4
<1>6. Is(g)
  <2>1. g = [i \in 1..N |-> Next1(g, i)]
    BY <1>5
  <2> HIDE DEF Next1
  <2> QED
    BY <1>0, <2>1
<1>7. Is(fl)
  <2> HIDE DEF Is
  <2> QED
    BY <1>6
<1> HIDE DEF fl
<1> DEFINE u == [f \in 0..N |-> IF f = 0 THEN <<>> ELSE fl[f]]
<1>8. ASSUME NEW f \in 1..N PROVE u[f] = u[f - 1] \o RowsOf(f)
  <2>1. u[f] = fl[f] /\ fl[f] = Next1(fl, f)
    <3>1. f \in 0..N /\ f # 0 /\ f \in 1..Len(FR)
      BY <1>0
    <3>2. fl[f] = Next1(fl, f)
      <4> HIDE DEF Next1
      <4> QED
        BY <1>7, <3>1
    <3> QED
      BY <3>1, <3>2
  <2>2. CASE f = 1
    <3>1. u[f - 1] = <<>> /\ u[f] = RowsOf(f) /\ RowsOf(f) \in R
      BY <1>0, <1>1, <2>1, <2>2
    <3> QED
      BY <3>1, ConcatEmptySeq
  <2>3. CASE f # 1
    <3>1. u[f - 1] = fl[f - 1]
      BY <1>0, <2>3
    <3> QED
      BY <1>1, <2>1, <2>3, <3>1
  <2> QED
    BY <2>2, <2>3
<1>9. u[0] = <<>>
  BY <1>0
<1> HIDE DEF u
<1>10. \A f \in 0..N : u[f] \in R
  <2> DEFINE T == {f \in 0..N : u[f] \in R}
  <2>1. 0 \in T
    <3>1. <<>> \in R /\ 0 \in 0..N
      BY <1>0, EmptySeq
    <3> QED
      BY <1>9, <3>1
  <2>2. ASSUME NEW f \in 1..N, f - 1 \in T PROVE f \in T
    <3>1. u[f - 1] \in R /\ RowsOf(f) \in R /\ f \in 0..N
      BY <1>0, <2>2
    <3>2. u[f - 1] \o RowsOf(f) \in R
      BY <3>1, ConcatProperties
    <3> QED
      BY <1>8, <3>1, <3>2
  <2> HIDE DEF T, N
  <2>3. 0..N \subseteq T
    BY <1>0, <2>1, <2>2, Induction
  <2> QED
    BY <2>3 DEF T
<1>11. IsUpto(u)
  <2>1. u \in [0..N -> R]
    BY <1>10 DEF u
  <2> QED
    BY <1>8, <1>9, <2>1 DEF IsUpto
<1>12. IsUpto(Upto)
  BY <1>11 DEF Upto
<1>13. ASSUME NEW v, IsUpto(v) PROVE v = u
  <2> DEFINE T == {f \in 0..N : v[f] = u[f]}
  <2>0. /\ v \in [0..N -> R] /\ u \in [0..N -> R] /\ v[0] = <<>>
        /\ \A f \in 1..N : v[f] = v[f - 1] \o RowsOf(f)
    BY <1>11, <1>13 DEF IsUpto
  <2>1. 0 \in T
    BY <1>0, <1>9, <2>0
  <2>2. ASSUME NEW f \in 1..N, f - 1 \in T PROVE f \in T
    <3>1. v[f] = v[f - 1] \o RowsOf(f)
      BY <2>0
    <3>2. v[f - 1] = u[f - 1]
      BY <2>2
    <3>3. f \in 0..N
      BY <1>0
    <3> QED
      BY <1>8, <3>1, <3>2, <3>3
  <2> HIDE DEF T, N
  <2>3. 0..N \subseteq T
    BY <1>0, <2>1, <2>2, Induction
  <2>4. \A f \in 0..N : v[f] = u[f]
    BY <2>3 DEF T
  <2> HIDE DEF R
  <2>5. v = [f \in 0..N |-> v[f]] /\ u = [f \in 0..N |-> u[f]]
    BY <2>0
  <2>6. [f \in 0..N |-> v[f]] = [f \in 0..N |-> u[f]]
    BY <2>4
  <2> QED
    BY <2>5, <2>6
<1>14. AllRows = u[N]
  <2>1. CASE N = 0
    <3>1. FR = <<>>
      BY <1>0, <2>1
    <3> QED
      BY <1>a, <1>9, <2>1, <3>1
  <2>2. CASE N # 0
    BY <1>0, <1>a, <2>2 DEF u
  <2> QED
    BY <2>1, <2>2
<1> QED
  BY <1>12, <1>13, <1>14

\* How many rows there are up to a file.
Through(f) == Len(Upto[f])

\* A file adds a row for each of its windows.
LEMMA UptoSteps ==
    /\ LastFile \in Nat /\ Files = 1..LastFile
    /\ AllRows = Upto[LastFile] /\ Upto[0] = <<>> /\ Through(0) = 0
    /\ \A f \in 0..LastFile : Upto[f] \in Seq(Files \X Nat) /\ Through(f) \in Nat
    /\ \A f \in 1..LastFile :
          /\ Upto[f] = Upto[f - 1] \o RowsOf(f)
          /\ Through(f) = Through(f - 1) + Len(Windows[f])
          /\ \A n \in 1..Through(f) :
                Upto[f][n] = IF n <= Through(f - 1) THEN Upto[f - 1][n] ELSE <<f, n - Through(f - 1)>>
<1>1. /\ LastFile \in Nat /\ Files = 1..LastFile
      /\ AllRows = Upto[LastFile] /\ Upto[0] = <<>>
      /\ \A f \in 0..LastFile : Upto[f] \in Seq(Files \X Nat)
      /\ \A f \in 1..LastFile : Upto[f] = Upto[f - 1] \o RowsOf(f)
  BY Constants, UptoExists DEF IsUpto
<1>2. \A f \in 0..LastFile : Through(f) \in Nat
  BY <1>1, LenProperties DEF Through
<1>3. ASSUME NEW f \in 1..LastFile
      PROVE  /\ Through(f) = Through(f - 1) + Len(Windows[f])
             /\ \A n \in 1..Through(f) :
                   Upto[f][n] = IF n <= Through(f - 1) THEN Upto[f - 1][n] ELSE <<f, n - Through(f - 1)>>
  <2>1. /\ f - 1 \in 0..LastFile /\ f \in 0..LastFile /\ Upto[f - 1] \in Seq(Files \X Nat)
        /\ RowsOf(f) \in Seq(Files \X Nat) /\ Len(RowsOf(f)) = Len(Windows[f]) /\ Len(Windows[f]) \in Nat
        /\ \A w \in 1..Len(Windows[f]) : RowsOf(f)[w] = <<f, w>>
    <3>1. f \in Files /\ f - 1 \in 0..LastFile /\ f \in 0..LastFile
      BY <1>1
    <3> QED
      BY <1>1, <3>1, Constants, Zenon
  <2>2. /\ Len(Upto[f]) = Len(Upto[f - 1]) + Len(RowsOf(f))
        /\ \A n \in 1..(Len(Upto[f - 1]) + Len(RowsOf(f))) :
              Upto[f][n] = IF n <= Len(Upto[f - 1]) THEN Upto[f - 1][n] ELSE RowsOf(f)[n - Len(Upto[f - 1])]
    <3>1. Upto[f] = Upto[f - 1] \o RowsOf(f)
      BY <1>1
    <3> DEFINE S == Files \X Nat
               a == Upto[f - 1]
               b == RowsOf(f)
    <3>2. a \in Seq(S) /\ b \in Seq(S)
      BY <2>1
    <3> HIDE DEF S, a, b
    <3>3. /\ Len(a \o b) = Len(a) + Len(b)
          /\ \A n \in 1..(Len(a) + Len(b)) : (a \o b)[n] = IF n <= Len(a) THEN a[n] ELSE b[n - Len(a)]
      BY <3>2, ConcatProperties
    <3> QED
      BY <3>1, <3>3, Zenon DEF a, b
  <2>3. Through(f) = Through(f - 1) + Len(Windows[f]) /\ Through(f - 1) \in Nat
    BY <1>2, <2>1, <2>2 DEF Through
  <2>4. ASSUME NEW n \in 1..Through(f)
        PROVE  Upto[f][n] = IF n <= Through(f - 1) THEN Upto[f - 1][n] ELSE <<f, n - Through(f - 1)>>
    <3>1. Upto[f][n] = IF n <= Through(f - 1) THEN Upto[f - 1][n] ELSE RowsOf(f)[n - Through(f - 1)]
      BY <2>1, <2>2, <2>3 DEF Through
    <3>2. ~(n <= Through(f - 1)) => n - Through(f - 1) \in 1..Len(Windows[f])
      BY <2>1, <2>3
    <3> QED
      BY <2>1, <3>1, <3>2
  <2> QED
    BY <2>3, <2>4
<1>4. Through(0) = 0
  BY <1>1, EmptySeq DEF Through
<1> QED
  BY <1>1, <1>2, <1>3, <1>4

\* Later files change no row of the earlier ones.
LEMMA UptoGrows ==
    ASSUME NEW f \in 0..LastFile, NEW g \in f..LastFile
    PROVE  /\ Through(f) <= Through(g)
           /\ \A n \in 1..Through(g) :
                 /\ Upto[g][n][1] \in 1..g
                 /\ n <= Through(f) => Upto[g][n] = Upto[f][n]
                 /\ n > Through(f) => Upto[g][n][1] > f
<1> DEFINE Holds(k) ==
               /\ f <= k => Through(f) <= Through(k)
               /\ \A n \in 1..Through(k) :
                     /\ Upto[k][n][1] \in 1..k
                     /\ f <= k /\ n <= Through(f) => Upto[k][n] = Upto[f][n]
                     /\ f <= k /\ n > Through(f) => Upto[k][n][1] > f
           T == {k \in 0..LastFile : Holds(k)}
<1>0. LastFile \in Nat /\ \A k \in 0..LastFile : Through(k) \in Nat
  BY UptoSteps
<1>1. 0 \in T
  <2>1. Through(0) = 0 /\ 1..0 = {} /\ (f <= 0 => f = 0) /\ 0 \in 0..LastFile
    BY <1>0, UptoSteps
  <2>2. \A n \in 1..Through(0) : FALSE
    BY <2>1
  <2>3. f <= 0 => Through(f) <= Through(0)
    BY <2>1
  <2> QED
    BY <2>1, <2>2, <2>3
<1>2. ASSUME NEW k \in 1..LastFile, k - 1 \in T PROVE k \in T
  <2>1. /\ Holds(k - 1) /\ k - 1 \in 0..LastFile /\ k \in 0..LastFile
        /\ Len(Windows[k]) \in Nat /\ Through(k) = Through(k - 1) + Len(Windows[k])
        /\ Through(k) \in Nat /\ Through(k - 1) \in Nat /\ Through(f) \in Nat
    <3>1. Holds(k - 1)
      <4> HIDE DEF Holds
      <4> QED
        BY <1>2
    <3>2. k - 1 \in 0..LastFile /\ k \in 0..LastFile /\ k \in Files
      BY <1>0, UptoSteps
    <3>3. Len(Windows[k]) \in Nat /\ Through(k) = Through(k - 1) + Len(Windows[k])
      BY <3>2, UptoSteps, FileCount
    <3>4. Through(k) \in Nat /\ Through(k - 1) \in Nat /\ Through(f) \in Nat
      BY <1>0, <3>2
    <3> HIDE DEF Holds
    <3> QED
      BY <3>1, <3>2, <3>3, <3>4
  <2>2. f <= k => Through(f) <= Through(k)
    <3>1. CASE f = k
      BY <2>1, <3>1
    <3>2. CASE f # k
      BY <2>1, <3>2
    <3> QED
      BY <3>1, <3>2
  <2>3. ASSUME NEW n \in 1..Through(k)
        PROVE  /\ Upto[k][n][1] \in 1..k
               /\ f <= k /\ n <= Through(f) => Upto[k][n] = Upto[f][n]
               /\ f <= k /\ n > Through(f) => Upto[k][n][1] > f
    <3>1. Upto[k][n] = IF n <= Through(k - 1) THEN Upto[k - 1][n] ELSE <<k, n - Through(k - 1)>>
      BY UptoSteps
    <3>2. CASE n <= Through(k - 1)
      <4>1. n \in 1..Through(k - 1) /\ Upto[k][n] = Upto[k - 1][n]
        BY <2>1, <3>1, <3>2
      <4>2. CASE f <= k - 1
        BY <2>1, <4>1, <4>2
      <4>3. CASE ~(f <= k - 1)
        BY <2>1, <4>1, <4>3, <3>2
      <4> QED
        BY <4>2, <4>3
    <3>3. CASE ~(n <= Through(k - 1))
      <4>1. Upto[k][n][1] = k
        BY <3>1, <3>3
      <4>2. CASE f <= k - 1
        <5>1. Through(f) <= Through(k - 1)
          BY <2>1, <4>2
        <5> QED
          BY <2>1, <3>3, <4>1, <4>2, <5>1
      <4>3. CASE ~(f <= k - 1)
        BY <2>1, <4>1, <4>3
      <4> QED
        BY <4>2, <4>3
    <3> QED
      BY <3>2, <3>3
  <2> QED
    BY <2>1, <2>2, <2>3
<1>3. 0..LastFile \subseteq T
  <2> HIDE DEF T
  <2> QED
    BY <1>0, <1>1, <1>2, Induction
<1>4. Holds(g) /\ f <= g
  BY <1>0, <1>3
<1> QED
  BY <1>4

\* All rows, and those of one file.
LEMMA AllRowsFacts ==
    /\ AllRows \in Seq(Files \X Nat) /\ Len(AllRows) \in Nat /\ DOMAIN AllRows = 1..Len(AllRows)
    /\ Len(AllRows) = Through(LastFile)
    /\ \A f \in 0..LastFile : Through(f) \in 0..Len(AllRows)
    /\ \A f \in Files :
          /\ f - 1 \in 0..LastFile /\ f \in 0..LastFile
          /\ {n \in DOMAIN AllRows : AllRows[n][1] = f} = (Through(f - 1) + 1)..Through(f)
          /\ Through(f) = Through(f - 1) + Len(Windows[f])
<1>1. /\ LastFile \in Nat /\ Files = 1..LastFile /\ AllRows = Upto[LastFile]
      /\ \A f \in 0..LastFile : Upto[f] \in Seq(Files \X Nat) /\ Through(f) \in Nat
  BY UptoSteps
<1>2. /\ AllRows \in Seq(Files \X Nat) /\ Len(AllRows) \in Nat /\ DOMAIN AllRows = 1..Len(AllRows)
      /\ Len(AllRows) = Through(LastFile)
  BY <1>1, LenProperties DEF Through
<1>3. \A f \in 0..LastFile : Through(f) \in 0..Len(AllRows)
  <2> TAKE f \in 0..LastFile
  <2>1. LastFile \in f..LastFile
    BY <1>1
  <2>2. Through(f) <= Through(LastFile)
    BY <2>1, UptoGrows
  <2> QED
    BY <1>1, <1>2, <2>2
<1>4. ASSUME NEW f \in Files
      PROVE  /\ f - 1 \in 0..LastFile /\ f \in 0..LastFile
             /\ {n \in DOMAIN AllRows : AllRows[n][1] = f} = (Through(f - 1) + 1)..Through(f)
             /\ Through(f) = Through(f - 1) + Len(Windows[f])
  <2>1. /\ f - 1 \in 0..LastFile /\ f \in 0..LastFile /\ f \in 1..LastFile
        /\ LastFile \in f..LastFile /\ f \in (f - 1)..LastFile /\ LastFile \in (f - 1)..LastFile
    BY <1>1
  <2>2. Through(f) = Through(f - 1) + Len(Windows[f])
    BY <2>1, UptoSteps
  <2>3. ASSUME NEW n \in 1..Len(AllRows) PROVE AllRows[n][1] = f <=> n \in (Through(f - 1) + 1)..Through(f)
    <3>0. Through(f) \in Nat /\ Through(f - 1) \in Nat
      BY <1>1, <2>1
    <3>1. CASE n <= Through(f - 1)
      <4>1. AllRows[n] = Upto[f - 1][n] /\ n \in 1..Through(f - 1)
        BY <1>1, <1>2, <2>1, <3>1, <3>0, UptoGrows
      <4>2. f - 1 \in (f - 1)..LastFile
        BY <2>1
      <4>3. Upto[f - 1][n][1] \in 1..(f - 1)
        BY <2>1, <4>1, <4>2, UptoGrows
      <4> QED
        BY <3>0, <3>1, <4>1, <4>3, <2>1
    <3>2. CASE n > Through(f - 1) /\ n <= Through(f)
      <4>1. n \in 1..Through(f)
        BY <3>0, <3>2
      <4>2. AllRows[n] = Upto[f][n]
        BY <1>1, <1>2, <2>1, <3>2, UptoGrows
      <4>3. Upto[f][n] = <<f, n - Through(f - 1)>>
        <5>1. Upto[f][n] = IF n <= Through(f - 1) THEN Upto[f - 1][n] ELSE <<f, n - Through(f - 1)>>
          BY <2>1, <4>1, UptoSteps
        <5>2. ~(n <= Through(f - 1))
          BY <3>0, <3>2
        <5> QED
          BY <5>1, <5>2
      <4> QED
        BY <3>0, <3>2, <4>2, <4>3
    <3>3. CASE n > Through(f)
      <4>1. AllRows[n][1] > f /\ AllRows[n][1] \in 1..LastFile
        BY <1>1, <1>2, <2>1, <3>3, UptoGrows
      <4> QED
        BY <3>0, <3>3, <4>1, <2>1
    <3> QED
      BY <3>0, <3>1, <3>2, <3>3
  <2>4. (Through(f - 1) + 1)..Through(f) \subseteq 1..Len(AllRows)
    BY <1>2, <1>3, <2>1
  <2> QED
    BY <1>2, <2>1, <2>2, <2>3, <2>4
<1> QED
  BY <1>1, <1>2, <1>3, <1>4

-----------------------------------------------------------------------------
(* The shard planner.                                                      *)

\* A quotient is the largest number whose product stays below.
LEMMA DivBounds ==
    ASSUME NEW i \in Nat, NEW k \in Nat \ {0}
    PROVE  i \div k \in Nat /\ k * (i \div k) <= i /\ i < k * (i \div k) + k
BY SMT

\* A division is at most what the bound gives.
LEMMA DivMost ==
    ASSUME NEW i \in Nat, NEW k \in Nat \ {0}, NEW m \in Nat, i <= k * m
    PROVE  i \div k <= m
<1> DEFINE q == i \div k
<1>1. q \in Nat /\ k * q <= i
  BY DivBounds
<1>2. SUFFICES ASSUME m + 1 <= q PROVE FALSE
  BY <1>1
<1>3. k * (m + 1) <= k * q
  BY <1>1, <1>2
<1>4. k * (m + 1) = k * m + k
  OBVIOUS
<1>5. k * m \in Nat /\ k * q \in Nat
  BY <1>1
<1> QED
  BY <1>1, <1>3, <1>4, <1>5

\* The sizes of a shard.
SizesOf == 1..MaxShardRows

\* The size that the planner takes is within the largest shard.
LEMMA SizeTyped == \A count : ShardRowsFor(count) \in SizesOf
<1> SUFFICES ASSUME NEW count PROVE ShardRowsFor(count) \in SizesOf
  OBVIOUS
<1> DEFINE sizes == {s \in MinShardRows..MaxShardRows : \E k \in 0..MaxShardRows : s * 2^k = MaxShardRows}
           fit   == {s \in sizes : s <= count \div CPUs}
<1>1. MinShardRows \in Nat \ {0} /\ MaxShardRows \in Nat \ {0} /\ MinShardRows <= MaxShardRows
  BY ConstantsAssumption
<1>2. fit \in SUBSET (MinShardRows..MaxShardRows)
  OBVIOUS
<1>3. ShardRowsFor(count) = IF fit = {} THEN MinShardRows ELSE Max(fit)
  BY DEF ShardRowsFor
<1> HIDE DEF fit
<1>4. CASE fit = {}
  BY <1>1, <1>3, <1>4 DEF SizesOf
<1>5. CASE fit # {}
  <2>1. fit \in SUBSET (0..MaxShardRows)
    BY <1>1, <1>2
  <2>2. Max(fit) \in fit
    BY <1>1, <1>5, <2>1, Greatest
  <2>3. Max(fit) \in MinShardRows..MaxShardRows
    BY <1>2, <2>2
  <2>4. ShardRowsFor(count) = Max(fit)
    BY <1>3, <1>5
  <2> HIDE DEF ShardRowsFor
  <2> QED
    BY <1>1, <2>3, <2>4 DEF SizesOf
<1> QED
  BY <1>4, <1>5

\* What a cut leaves: the open shard and the plans.
Cuts == [open : RowSets, plans : Seq(RowSets)]

\* The rows of a file, and where its pieces begin and end.
OfFile(f) == {n \in DOMAIN AllRows : AllRows[n][1] = f}
Bound(count, pieces, p) == (count * p) \div pieces

\* The rows of a file are an interval; their least is the one after the file before.
LEMMA OfFileFacts ==
    ASSUME NEW f \in Files
    PROVE  /\ OfFile(f) = (Through(f - 1) + 1)..Through(f) /\ OfFile(f) \in RowSets
           /\ Through(f - 1) \in Nat /\ Through(f) = Through(f - 1) + Len(Windows[f])
           /\ Len(Windows[f]) \in Nat
           /\ Cardinality(OfFile(f)) = Len(Windows[f])
           /\ Len(Windows[f]) # 0 => Min(OfFile(f)) = Through(f - 1) + 1
<1>1. /\ OfFile(f) = (Through(f - 1) + 1)..Through(f) /\ OfFile(f) \in RowSets
      /\ Through(f - 1) \in Nat /\ Through(f) \in Nat /\ Through(f) = Through(f - 1) + Len(Windows[f])
      /\ Len(Windows[f]) \in Nat
  <2>1. f - 1 \in 0..LastFile /\ f \in 0..LastFile
    BY AllRowsFacts
  <2>2. Through(f - 1) \in 0..Len(AllRows) /\ Through(f) \in 0..Len(AllRows) /\ Len(AllRows) \in Nat
    BY <2>1, AllRowsFacts
  <2>3. OfFile(f) = (Through(f - 1) + 1)..Through(f) /\ Through(f) = Through(f - 1) + Len(Windows[f])
    BY AllRowsFacts DEF OfFile
  <2>4. OfFile(f) \in RowSets
    BY DEF OfFile, RowSets
  <2>5. Len(Windows[f]) \in Nat
    BY Constants
  <2> QED
    BY <2>2, <2>3, <2>4, <2>5
<1>2. Cardinality(OfFile(f)) = Len(Windows[f])
  <2>1. Cardinality((Through(f - 1) + 1)..Through(f))
           = IF Through(f - 1) + 1 > Through(f) THEN 0 ELSE Through(f) - (Through(f - 1) + 1) + 1
    <3>1. Through(f - 1) + 1 \in Int /\ Through(f) \in Int
      BY <1>1
    <3> QED
      BY <3>1, FS_Interval
  <2> QED
    BY <1>1, <2>1
<1>3. ASSUME Len(Windows[f]) # 0 PROVE Min(OfFile(f)) = Through(f - 1) + 1
  <2>1. Through(f - 1) + 1 \in OfFile(f) /\ OfFile(f) \in SUBSET Nat
    BY <1>1, <1>3
  <2>2. Min(OfFile(f)) \in OfFile(f) /\ Min(OfFile(f)) <= Through(f - 1) + 1
    BY <2>1, LeastOf
  <2> QED
    BY <1>1, <2>2
<1> QED
  BY <1>1, <1>2, <1>3

\* A file of count rows has as many pieces as it needs shards, and they meet.
LEMMA PieceBounds ==
    ASSUME NEW count \in Nat \ {0}, NEW size \in Nat \ {0}, NEW pieces, pieces = (count + size - 1) \div size
    PROVE  /\ pieces \in Nat \ {0} /\ count <= size * pieces
           /\ Bound(count, pieces, 0) = 0 /\ Bound(count, pieces, pieces) = count
           /\ \A p \in 0..pieces : Bound(count, pieces, p) \in 0..count
<1>1. pieces \in Nat /\ size * pieces <= count + size - 1 /\ count + size - 1 < size * pieces + size
  <2>1. count + size - 1 \in Nat
    OBVIOUS
  <2> QED
    BY <2>1, DivBounds
<1>2. pieces # 0 /\ count <= size * pieces
  <2>1. size * pieces \in Nat
    BY <1>1
  <2>2. count <= size * pieces
    BY <1>1, <2>1
  <2>3. pieces = 0 => size * pieces = 0
    BY <1>1
  <2> QED
    BY <2>2, <2>3
<1>3. ASSUME NEW p \in 0..pieces PROVE Bound(count, pieces, p) \in 0..count
  <2>1. count * p \in Nat /\ count * p <= pieces * count
    BY <1>1
  <2>2. Bound(count, pieces, p) \in Nat
    BY <1>1, <1>2, <2>1, DivBounds DEF Bound
  <2>3. Bound(count, pieces, p) <= count
    BY <1>1, <1>2, <2>1, DivMost DEF Bound
  <2> QED
    BY <2>2, <2>3
<1>4. Bound(count, pieces, 0) = 0
  <2>1. count * 0 = 0 /\ 0 <= pieces * 0
    BY <1>1
  <2>2. 0 \div pieces \in Nat /\ 0 \div pieces <= 0
    BY <1>1, <1>2, <2>1, DivBounds, DivMost
  <2> QED
    BY <2>1, <2>2 DEF Bound
<1>5. Bound(count, pieces, pieces) = count
  <2> DEFINE q == Bound(count, pieces, pieces)
  <2>1. q \in 0..count /\ count * pieces \in Nat
    BY <1>1, <1>3
  <2>2. count * pieces < pieces * q + pieces
    BY <1>1, <1>2, <2>1, DivBounds DEF Bound
  <2>3. SUFFICES ASSUME q + 1 <= count PROVE FALSE
    BY <2>1
  <2> HIDE DEF q
  <2>4. pieces * (q + 1) <= pieces * count
    BY <1>1, <2>1, <2>3
  <2>5. pieces * (q + 1) = pieces * q + pieces /\ pieces * count = count * pieces
    BY <1>1, <2>1
  <2>6. pieces * q \in Nat /\ pieces * count \in Nat
    BY <1>1, <2>1
  <2> QED
    BY <2>2, <2>4, <2>5, <2>6, <1>1
<1> QED
  BY <1>1, <1>2, <1>3, <1>4, <1>5

\* The rows that a long file gives to its p-th shard.
PieceOf(f, pieces, p) ==
    (Min(OfFile(f)) + Bound(Cardinality(OfFile(f)), pieces, p - 1))
        ..(Min(OfFile(f)) + Bound(Cardinality(OfFile(f)), pieces, p) - 1)

PiecesOf(f, size) == (Cardinality(OfFile(f)) + size - 1) \div size
LongPlans(f, size) == [p \in 1..PiecesOf(f, size) |-> PieceOf(f, PiecesOf(f, size), p)]

Closed(acc) == IF acc.open = {} THEN acc.plans ELSE Append(acc.plans, acc.open)

\* The cases of Cut.
LEMMA CutCases ==
    ASSUME NEW size, NEW acc, NEW f
    PROVE  LET count  == Cardinality(OfFile(f))
               fits   == Cardinality(acc.open) + count <= size
               open   == IF fits THEN acc.open \cup OfFile(f) ELSE OfFile(f)
               before == IF fits THEN acc.plans ELSE Closed(acc)
           IN  Cut(size, acc, f) \in
                   {IF count = 0 THEN acc
                    ELSE IF count > size
                    THEN [open |-> {}, plans |-> Closed(acc) \o LongPlans(f, size)]
                    ELSE IF nearly
                    THEN [open |-> {}, plans |-> Append(before, open)]
                    ELSE [open |-> open, plans |-> before] : nearly \in BOOLEAN}
BY DEF Cut, Closed, LongPlans, PieceOf, PiecesOf, Bound, OfFile

\* The pieces of a long file are sets of rows of the generation.
LEMMA LongPlansTyped ==
    ASSUME NEW f \in Files, NEW size \in Nat \ {0}, Len(Windows[f]) # 0
    PROVE  LongPlans(f, size) \in Seq(RowSets)
<1> DEFINE count == Len(Windows[f])
           n == PiecesOf(f, size)
<1>1. /\ OfFile(f) = (Through(f - 1) + 1)..Through(f) /\ OfFile(f) \in RowSets
      /\ Through(f - 1) \in Nat /\ Through(f) = Through(f - 1) + count /\ count \in Nat \ {0}
      /\ Cardinality(OfFile(f)) = count /\ Min(OfFile(f)) = Through(f - 1) + 1
  BY OfFileFacts
<1>2. n = (count + size - 1) \div size
  BY <1>1 DEF PiecesOf
<1> HIDE DEF n, count
<1>3. n \in Nat \ {0} /\ \A p \in 0..n : Bound(count, n, p) \in 0..count
  BY <1>1, <1>2, PieceBounds
<1>4. ASSUME NEW p \in 1..n PROVE PieceOf(f, n, p) \in RowSets
  <2>1. Bound(count, n, p - 1) \in 0..count /\ Bound(count, n, p) \in 0..count
    BY <1>3
  <2>2. PieceOf(f, n, p) = (Through(f - 1) + 1 + Bound(count, n, p - 1))..(Through(f - 1) + 1 + Bound(count, n, p) - 1)
    BY <1>1 DEF PieceOf
  <2>3. PieceOf(f, n, p) \subseteq OfFile(f)
    BY <1>1, <2>1, <2>2
  <2> QED
    BY <1>1, <2>3 DEF RowSets
<1> QED
  <2>1. LongPlans(f, size) = [p \in 1..n |-> PieceOf(f, n, p)]
    BY DEF LongPlans, n
  <2> QED
    BY <1>3, <1>4, <2>1

\* A cut keeps the types.
LEMMA CutTyped ==
    ASSUME NEW size \in SizesOf, NEW acc \in Cuts, NEW f \in Files
    PROVE  Cut(size, acc, f) \in Cuts
<1> DEFINE count == Cardinality(OfFile(f))
           fits   == Cardinality(acc.open) + count <= size
           open   == IF fits THEN acc.open \cup OfFile(f) ELSE OfFile(f)
           before == IF fits THEN acc.plans ELSE Closed(acc)
           long == Closed(acc) \o LongPlans(f, size)
<1>1. OfFile(f) \in RowSets /\ count = Len(Windows[f]) /\ count \in Nat
  BY OfFileFacts
<1>2. acc.open \in RowSets /\ acc.plans \in Seq(RowSets) /\ size \in Nat \ {0}
  BY ConstantsAssumption DEF Cuts, SizesOf
<1>3. Closed(acc) \in Seq(RowSets)
  BY <1>2, AppendProperties DEF Closed
<1>4. open \in RowSets /\ before \in Seq(RowSets)
  BY <1>1, <1>2, <1>3 DEF RowSets
<1>5. Append(before, open) \in Seq(RowSets)
  <2> HIDE DEF before, open
  <2> QED
    BY <1>4, AppendProperties
<1>6. count # 0 => long \in Seq(RowSets)
  <2>1. count # 0 => LongPlans(f, size) \in Seq(RowSets)
    BY <1>1, <1>2, LongPlansTyped
  <2> QED
    BY <1>3, <2>1, ConcatProperties
<1>7. {} \in RowSets
  BY DEF RowSets
<1>8. \E nearly \in BOOLEAN : Cut(size, acc, f) =
            IF count = 0 THEN acc
            ELSE IF count > size THEN [open |-> {}, plans |-> long]
            ELSE IF nearly THEN [open |-> {}, plans |-> Append(before, open)]
            ELSE [open |-> open, plans |-> before]
  BY CutCases
<1> HIDE DEF count, long, before, open
<1> QED
  BY <1>4, <1>5, <1>6, <1>7, <1>8 DEF Cuts

\* The files are cut one by one.
Cutting(h, size, open, files, n) ==
    /\ h[0] = [open |-> open, plans |-> <<>>]
    /\ \A k \in 1..n : h[k] = Cut(size, h[k - 1], files[k])

\* CutAll is such a sequence of cuts.
LEMMA CutAllIsFold ==
    ASSUME NEW size \in SizesOf, NEW open \in RowSets, NEW files \in Seq(Files)
    PROVE  \E h \in [0..Len(files) -> Cuts] :
              Cutting(h, size, open, files, Len(files)) /\ CutAll(size, open, files) = h[Len(files)]
<1> DEFINE n == Len(files)
           base == [open |-> open, plans |-> <<>>]
           G == [p \in Cuts \X Files |-> Cut(size, p[1], p[2])]
           Is(it) == it = [t \in SUBSET (DOMAIN files) |-> IF t = {} THEN base
                                ELSE Cut(size, it[t \ {Max(t)}], files[Max(t)])]
           fold == CHOOSE it : Is(it)
<1>1. n \in Nat /\ DOMAIN files = 1..n /\ files \in [1..n -> Files]
  BY LenProperties
<1>2. base \in Cuts
  BY EmptySeq DEF Cuts
<1>3. G \in [Cuts \X Files -> Cuts]
  <2>1. \A p \in Cuts \X Files : Cut(size, p[1], p[2]) \in Cuts
    BY CutTyped
  <2> QED
    BY <2>1
<1>4. PICK it \in [SUBSET (1..n) -> Cuts] : Solves(it, n, base, G, files)
  <2> HIDE DEF G, n, base
  <2> QED
    BY <1>1, <1>2, <1>3, FoldExists
<1>5. ASSUME NEW t \in SUBSET (1..n), t # {} PROVE t \ {Max(t)} \in SUBSET (1..n) /\ Max(t) \in 1..n
  <2>1. t \in SUBSET (0..n)
    OBVIOUS
  <2> QED
    BY <1>1, <1>5, <2>1, Greatest
<1>6. Is(it)
  <2>1. ASSUME NEW t \in SUBSET (1..n), t # {}
        PROVE  G[<<it[t \ {Max(t)}], files[Max(t)]>>] = Cut(size, it[t \ {Max(t)}], files[Max(t)])
    <3>1. it[t \ {Max(t)}] \in Cuts /\ files[Max(t)] \in Files
      BY <1>1, <1>5, <2>1
    <3> QED
      BY <3>1
  <2> HIDE DEF G, n, base
  <2> QED
    BY <1>1, <1>4, <2>1 DEF Solves
<1>7. Is(fold)
  <2> HIDE DEF Is
  <2> QED
    BY <1>6
<1>8. CutAll(size, open, files) = fold[DOMAIN files]
  BY DEF CutAll, FoldLeft, MapThenFoldSet
<1> DEFINE h == [k \in 0..n |-> fold[1..k]]
<1> HIDE DEF fold
<1>9. h[0] = base
  <2>1. 1..0 = {} /\ {} \in SUBSET (1..n) /\ 0 \in 0..n
    BY <1>1
  <2> HIDE DEF base, n
  <2> QED
    BY <1>1, <1>7, <2>1
<1>10. ASSUME NEW k \in 1..n PROVE h[k] = Cut(size, h[k - 1], files[k])
  <2>1. 1..k \in SUBSET (1..n) /\ 1..k # {} /\ Max(1..k) = k /\ (1..k) \ {k} = 1..(k - 1)
        /\ k - 1 \in 0..n /\ k \in 0..n
    BY <1>1, Segments
  <2>2. fold[1..k] = Cut(size, fold[(1..k) \ {Max(1..k)}], files[Max(1..k)])
    <3> HIDE DEF n, base
    <3> QED
      BY <1>1, <1>7, <2>1
  <2> HIDE DEF n
  <2> QED
    BY <2>1, <2>2
<1>11. \A k \in 0..n : h[k] \in Cuts
  <2> DEFINE T == {k \in 0..n : h[k] \in Cuts}
  <2> HIDE DEF h
  <2>1. 0 \in T
    BY <1>1, <1>2, <1>9
  <2>2. ASSUME NEW k \in 1..n, k - 1 \in T PROVE k \in T
    <3>1. h[k - 1] \in Cuts /\ files[k] \in Files /\ k \in 0..n
      BY <1>1, <2>2
    <3> QED
      BY <1>10, <3>1, CutTyped
  <2> HIDE DEF T, n
  <2>3. 0..n \subseteq T
    BY <1>1, <2>1, <2>2, Induction
  <2> QED
    BY <2>3 DEF T
<1>12. h \in [0..n -> Cuts]
  BY <1>11
<1>13. h[n] = fold[DOMAIN files]
  <2> HIDE DEF n
  <2> QED
    BY <1>1
<1>14. Cutting(h, size, open, files, n)
  <2> HIDE DEF h, n
  <2> QED
    BY <1>9, <1>10 DEF Cutting
<1>15. CutAll(size, open, files) = h[n]
  <2> HIDE DEF h, n
  <2> QED
    BY <1>8, <1>13
<1> HIDE DEF h
<1> QED
  BY <1>12, <1>14, <1>15

-----------------------------------------------------------------------------
(* What the windows of a file become, as messages and as a batch.          *)

\* A sequence over a set is one over every set that holds it.
LEMMA SeqWider ==
    ASSUME NEW S, NEW T, S \subseteq T, NEW s \in Seq(S)
    PROVE  s \in Seq(T)
<1>1. s \in [1..Len(s) -> S] /\ Len(s) \in Nat
  BY LenProperties
<1>2. s \in [1..Len(s) -> T]
  BY <1>1
<1> QED
  BY <1>1, <1>2, SeqDef

\* The messages of a sequence that go to the encoder, and the rows they hold.
Encoding(out)  == {i \in DOMAIN out : out[i].to = "encoder"}
EncodedIn(out) == {out[i].rows : i \in Encoding(out)}
Parted(out)    == \A i, j \in Encoding(out) : i # j => out[i].rows \cap out[j].rows = {}

\* A message that comes last.
LEMMA EncodingSame ==
    ASSUME NEW M, NEW out \in Seq(M), NEW m \in M, m.to # "encoder"
    PROVE  /\ EncodedIn(Append(out, m)) = EncodedIn(out)
           /\ Parted(out) => Parted(Append(out, m))
<1> DEFINE longer == Append(out, m)
<1>1. Len(out) \in Nat /\ DOMAIN out = 1..Len(out)
  BY LenProperties
<1>2. DOMAIN longer = 1..(Len(out) + 1) /\ longer[Len(out) + 1] = m
      /\ (\A i \in 1..Len(out) : longer[i] = out[i])
  BY <1>1, AppendProperties
<1> HIDE DEF longer
<1>3. 1..(Len(out) + 1) = 1..Len(out) \cup {Len(out) + 1}
  BY <1>1
<1>4. Encoding(longer) = Encoding(out) /\ \A i \in Encoding(out) : longer[i] = out[i]
  BY <1>1, <1>2, <1>3 DEF Encoding
<1>5. EncodedIn(longer) = EncodedIn(out) /\ (Parted(out) => Parted(longer))
  BY <1>4 DEF EncodedIn, Parted
<1> QED
  BY <1>5 DEF longer

\* A message to the encoder adds its rows.
LEMMA EncodingMore ==
    ASSUME NEW M, NEW out \in Seq(M), NEW m \in M, m.to = "encoder"
    PROVE  /\ EncodedIn(Append(out, m)) = EncodedIn(out) \cup {m.rows}
           /\ Parted(out) /\ (\A s \in EncodedIn(out) : s \cap m.rows = {}) => Parted(Append(out, m))
<1> DEFINE longer == Append(out, m)
           last == Len(out) + 1
<1>1. Len(out) \in Nat /\ DOMAIN out = 1..Len(out)
  BY LenProperties
<1>2. DOMAIN longer = 1..last /\ longer[last] = m
      /\ (\A i \in 1..Len(out) : longer[i] = out[i])
  BY <1>1, AppendProperties
<1> HIDE DEF longer
<1>3. 1..last = 1..Len(out) \cup {last} /\ last \notin 1..Len(out)
  BY <1>1
<1> HIDE DEF last
<1>4. /\ Encoding(longer) = Encoding(out) \cup {last} /\ last \notin Encoding(out)
      /\ longer[last] = m /\ \A i \in Encoding(out) : longer[i] = out[i]
  BY <1>1, <1>2, <1>3 DEF Encoding
<1>5. EncodedIn(longer) = EncodedIn(out) \cup {m.rows}
  BY <1>4 DEF EncodedIn
<1>6. ASSUME Parted(out), \A s \in EncodedIn(out) : s \cap m.rows = {} PROVE Parted(longer)
  <2>1. \A i \in Encoding(out) : out[i].rows \cap m.rows = {}
    BY <1>6 DEF EncodedIn
  <2> QED
    BY <1>4, <1>6, <2>1 DEF Parted
<1> QED
  BY <1>5, <1>6 DEF longer

\* The union with one set more.
LEMMA UnionMore ==
    ASSUME NEW sets, NEW set
    PROVE  UNION (sets \cup {set}) = (UNION sets) \cup set
OBVIOUS

\* What the windows 1..k have become: the old batch and the model rows, each once.
ModelRows(start, f, k) == {start + w : w \in {v \in 1..k : Windows[f][v] # "copy"}}

\* What the loop has after k windows of the file.
SortedUpTo(acc, start, f, k) ==
    /\ acc.batch \subseteq 1..(start + k) /\ acc.copies \subseteq 1..(start + k)
    /\ Cardinality(acc.batch) < BatchRows
    /\ acc.out \in Seq([to : {"encoder", "collector"}, rows : SUBSET (1..(start + k))])
    /\ \A s \in EncodedIn(acc.out) : s # {} /\ s \cap acc.batch = {}
    /\ Parted(acc.out)
    /\ (UNION EncodedIn(acc.out)) \cup acc.batch = batch \cup ModelRows(start, f, k)

\* The window after joins the rows of the model, or it is a copy.
LEMMA ModelRowsGrow ==
    ASSUME NEW start \in Nat, NEW f, NEW k \in Nat \ {0}
    PROVE  ModelRows(start, f, k) = ModelRows(start, f, k - 1)
                                        \cup IF Windows[f][k] = "copy" THEN {} ELSE {start + k}
<1>1. 1..k = 1..(k - 1) \cup {k}
  OBVIOUS
<1>2. {v \in 1..k : Windows[f][v] # "copy"}
         = {v \in 1..(k - 1) : Windows[f][v] # "copy"} \cup IF Windows[f][k] = "copy" THEN {} ELSE {k}
  BY <1>1
<1> QED
  BY <1>2 DEF ModelRows

\* One window more: the batches that leave are full, apart and of this file or the pending batch.
LEMMA AddSorted ==
    ASSUME NEW start \in Nat, NEW f, NEW k \in Nat \ {0}, NEW acc \in Accs, SortedUpTo(acc, start, f, k - 1)
    PROVE  SortedUpTo(AddWindow(start, f, acc, k), start, f, k)
<1> DEFINE n == start + k
           T == [to : {"encoder", "collector"}, rows : SUBSET (1..n)]
           S == [to : {"encoder", "collector"}, rows : SUBSET (1..(start + (k - 1)))]
           r == AddWindow(start, f, acc, k)
<1>0. BatchRows \in Nat \ {0}
  BY ConstantsAssumption
<1>1. n \in Nat /\ 1..(start + (k - 1)) \subseteq 1..n /\ n \in 1..n /\ n \notin 1..(start + (k - 1))
  OBVIOUS
<1>2. acc.out \in Seq(S)
  BY DEF SortedUpTo
<1>3. S \subseteq T
  BY <1>1
<1>4. acc.out \in Seq(T)
  <2> HIDE DEF S, T
  <2> QED
    BY <1>2, <1>3, SeqWider
<1>5. /\ acc.batch \subseteq 1..n /\ acc.copies \subseteq 1..n /\ n \notin acc.batch
      /\ acc.batch \cup {n} \subseteq 1..n /\ acc.copies \cup {n} \subseteq 1..n
  BY <1>1 DEF SortedUpTo
<1>6. \A s \in EncodedIn(acc.out) : s # {} /\ s \cap acc.batch = {} /\ n \notin s
  <2>1. ASSUME NEW i \in Encoding(acc.out) PROVE acc.out[i] \in S
    <3>1. i \in DOMAIN acc.out
      BY DEF Encoding
    <3> HIDE DEF S
    <3> QED
      BY <1>2, <3>1, ElementOfSeq, LenProperties
  <2>2. \A s \in EncodedIn(acc.out) : s \subseteq 1..(start + (k - 1))
    BY <2>1 DEF EncodedIn
  <2> QED
    BY <1>1, <2>2 DEF SortedUpTo
<1>7. Parted(acc.out) /\ Cardinality(acc.batch) < BatchRows
      /\ (UNION EncodedIn(acc.out)) \cup acc.batch = batch \cup ModelRows(start, f, k - 1)
  BY DEF SortedUpTo
<1>8. IsFiniteSet(acc.batch) /\ Cardinality(acc.batch) \in Nat
      /\ Cardinality(acc.batch \cup {n}) = Cardinality(acc.batch) + 1
  <2>1. IsFiniteSet(1..n)
    BY <1>1, FS_Interval
  <2>2. IsFiniteSet(acc.batch)
    BY <1>5, <2>1, FS_Subset
  <2> QED
    BY <1>5, <2>2, FS_AddElement, FS_CardinalityType
<1>9. Cardinality({}) = 0
  BY FS_EmptySet
<1>10. n = start + k
  OBVIOUS
<1>11. ModelRows(start, f, k) = ModelRows(start, f, k - 1) \cup IF Windows[f][k] = "copy" THEN {} ELSE {n}
  BY ModelRowsGrow
<1>12. CASE Windows[f][k] = "copy" /\ Cardinality(acc.copies) + 1 = BatchRows
  <2> DEFINE m == Message("collector", acc.copies \cup {n})
  <2>1. m \in T /\ m.to # "encoder"
    BY <1>5 DEF Message
  <2> HIDE DEF n
  <2>2. r.batch = acc.batch /\ r.copies = {} /\ r.out = Append(acc.out, m)
    BY <1>10, <1>12 DEF AddWindow, Accs
  <2> HIDE DEF m, r, T
  <2>3. Append(acc.out, m) \in Seq(T)
    BY <1>4, <2>1, AppendProperties
  <2>5. EncodedIn(r.out) = EncodedIn(acc.out) /\ Parted(r.out)
    BY <1>4, <1>7, <2>1, <2>2, EncodingSame
  <2>6. SortedUpTo(r, start, f, k)
    BY <1>5, <1>6, <1>7, <1>10, <1>11, <1>12, <2>2, <2>3, <2>5 DEF SortedUpTo, T
  <2> QED
    BY <2>6 DEF r
<1>13. CASE Windows[f][k] = "copy" /\ Cardinality(acc.copies) + 1 # BatchRows
  <2> HIDE DEF n
  <2>1. r.batch = acc.batch /\ r.copies = acc.copies \cup {n} /\ r.out = acc.out
    BY <1>10, <1>13 DEF AddWindow, Accs
  <2> HIDE DEF r, T
  <2>2. SortedUpTo(r, start, f, k)
    BY <1>4, <1>5, <1>6, <1>7, <1>10, <1>11, <1>13, <2>1 DEF SortedUpTo, T
  <2> QED
    BY <2>2 DEF r
<1>14. CASE Windows[f][k] # "copy" /\ Cardinality(acc.batch) + 1 = BatchRows
  <2> DEFINE m == Message("encoder", acc.batch \cup {n})
  <2>1. m \in T /\ m.to = "encoder" /\ m.rows = acc.batch \cup {n}
    BY <1>5 DEF Message
  <2> HIDE DEF n
  <2>2. r.batch = {} /\ r.copies = acc.copies /\ r.out = Append(acc.out, m)
    BY <1>10, <1>14 DEF AddWindow, Accs
  <2> HIDE DEF m, r, T
  <2>3. Append(acc.out, m) \in Seq(T)
    BY <1>4, <2>1, AppendProperties
  <2>4. m.rows # {} /\ \A s \in EncodedIn(acc.out) : s \cap m.rows = {}
    BY <1>6, <2>1
  <2>5. EncodedIn(Append(acc.out, m)) = EncodedIn(acc.out) \cup {m.rows}
    <3>1. m \in T /\ m.to = "encoder"
      BY <2>1
    <3> QED
      BY <1>4, <3>1, EncodingMore
  <2>7. Parted(Append(acc.out, m))
    BY <1>4, <1>7, <2>1, <2>4, EncodingMore
  <2>6. EncodedIn(r.out) = EncodedIn(acc.out) \cup {m.rows} /\ Parted(r.out)
    BY <2>2, <2>5, <2>7
  <2>8. (UNION EncodedIn(r.out)) \cup r.batch = batch \cup ModelRows(start, f, k)
    <3>1. UNION EncodedIn(r.out) = (UNION EncodedIn(acc.out)) \cup (acc.batch \cup {n})
      <4>1. UNION (EncodedIn(acc.out) \cup {m.rows}) = (UNION EncodedIn(acc.out)) \cup m.rows
        BY UnionMore
      <4>2. EncodedIn(r.out) = EncodedIn(acc.out) \cup {m.rows} /\ m.rows = acc.batch \cup {n}
        BY <2>1, <2>6
      <4> QED
        BY <4>1, <4>2
    <3>2. (UNION EncodedIn(r.out)) \cup r.batch = ((UNION EncodedIn(acc.out)) \cup acc.batch) \cup {n}
      BY <2>2, <3>1
    <3>3. ModelRows(start, f, k) = ModelRows(start, f, k - 1) \cup {n}
      BY <1>11, <1>14
    <3>4. batch \cup ModelRows(start, f, k) = (batch \cup ModelRows(start, f, k - 1)) \cup {n}
      BY <3>3
    <3> QED
      BY <1>7, <3>2, <3>4
  <2>9. \A s \in EncodedIn(r.out) : s # {} /\ s \cap r.batch = {}
    BY <1>6, <2>2, <2>4, <2>6
  <2>10. Cardinality(r.batch) < BatchRows
    BY <1>0, <1>9, <2>2
  <2>11. r.batch \subseteq 1..(start + k) /\ r.copies \subseteq 1..(start + k) /\ r.out \in Seq(T)
    BY <1>5, <1>10, <2>2, <2>3
  <2>12. SortedUpTo(r, start, f, k)
    BY <1>10, <2>6, <2>8, <2>9, <2>10, <2>11 DEF SortedUpTo, T
  <2> QED
    BY <2>12 DEF r
<1>15. CASE Windows[f][k] # "copy" /\ Cardinality(acc.batch) + 1 # BatchRows
  <2> HIDE DEF n
  <2>1. r.batch = acc.batch \cup {n} /\ r.copies = acc.copies /\ r.out = acc.out
    BY <1>10, <1>15 DEF AddWindow, Accs
  <2> HIDE DEF r, T
  <2>2. Cardinality(r.batch) < BatchRows
    BY <1>0, <1>7, <1>8, <1>15, <2>1
  <2>3. (UNION EncodedIn(r.out)) \cup r.batch = batch \cup ModelRows(start, f, k)
    <3>1. ModelRows(start, f, k) = ModelRows(start, f, k - 1) \cup {n}
      BY <1>11, <1>15
    <3> DEFINE sent == UNION EncodedIn(acc.out)
    <3>2. sent \cup (acc.batch \cup {n}) = (sent \cup acc.batch) \cup {n}
      OBVIOUS
    <3>4. (UNION EncodedIn(r.out)) \cup r.batch = sent \cup (acc.batch \cup {n})
      BY <2>1
    <3>3. batch \cup ModelRows(start, f, k) = (batch \cup ModelRows(start, f, k - 1)) \cup {n}
      BY <3>1
    <3> QED
      BY <1>7, <3>2, <3>3, <3>4
  <2>4. \A s \in EncodedIn(r.out) : s # {} /\ s \cap r.batch = {}
    BY <1>6, <2>1
  <2>5. SortedUpTo(r, start, f, k)
    BY <1>4, <1>5, <1>7, <1>10, <2>1, <2>2, <2>3, <2>4 DEF SortedUpTo, T
  <2> QED
    BY <2>5 DEF r
<1> QED
  BY <1>12, <1>13, <1>14, <1>15

\* So it is for the whole file.
LEMMA SortedFacts ==
    ASSUME NEW start \in Nat, NEW f, NEW n \in Nat, DOMAIN Windows[f] = 1..n,
           batch \subseteq 1..start, Cardinality(batch) < BatchRows
    PROVE  SortedUpTo(Sorted(start, f), start, f, n)
<1>1. batch \in SUBSET Nat
  OBVIOUS
<1>2. PICK h \in [0..n -> Accs] : Sorting(h, start, f, n) /\ Sorted(start, f) = WithCopies(h[n])
  BY <1>1, SortedIsFold
<1> DEFINE T == {k \in 0..n : SortedUpTo(h[k], start, f, k)}
<1>3. 0 \in T
  <2>1. h[0] = NoWindows
    BY <1>2 DEF Sorting
  <2>2. Encoding(<<>>) = {}
    BY DEF Encoding
  <2>3. Parted(<<>>) /\ EncodedIn(<<>>) = {}
    BY <2>2 DEF Parted, EncodedIn
  <2>4. ModelRows(start, f, 0) = {}
    BY DEF ModelRows
  <2>5. <<>> \in Seq([to : {"encoder", "collector"}, rows : SUBSET (1..(start + 0))])
    BY EmptySeq
  <2>6. NoWindows.batch = batch /\ NoWindows.copies = {} /\ NoWindows.out = <<>> /\ start + 0 = start
    BY DEF NoWindows
  <2>7. SortedUpTo(h[0], start, f, 0)
    BY <2>1, <2>2, <2>3, <2>4, <2>5, <2>6 DEF SortedUpTo
  <2> QED
    BY <2>7
<1>4. ASSUME NEW k \in 1..n, k - 1 \in T PROVE k \in T
  <2>1. h[k] = AddWindow(start, f, h[k - 1], k) /\ h[k - 1] \in Accs /\ SortedUpTo(h[k - 1], start, f, k - 1)
    BY <1>2, <1>4 DEF Sorting
  <2>2. SortedUpTo(h[k], start, f, k)
    BY <2>1, AddSorted
  <2> QED
    BY <2>2
<1>5. SortedUpTo(h[n], start, f, n) /\ h[n] \in Accs
  <2> HIDE DEF T
  <2>1. 0..n \subseteq T
    BY <1>3, <1>4, Induction
  <2> QED
    BY <1>2, <2>1 DEF T
<1> DEFINE acc == h[n]
           r == WithCopies(acc)
           M == [to : {"encoder", "collector"}, rows : SUBSET (1..(start + n))]
           m == Message("collector", acc.copies)
<1>6. r.batch = acc.batch /\ r.copies = acc.copies
      /\ r.out = IF acc.copies = {} THEN acc.out ELSE Append(acc.out, m)
  <2> HIDE DEF m
  <2> QED
    BY <1>5 DEF WithCopies, Accs, m
<1>7. m \in M /\ m.to # "encoder"
  BY <1>5 DEF Message, SortedUpTo
<1> HIDE DEF acc, r, m
<1>8. SortedUpTo(acc, start, f, n)
  BY <1>5 DEF acc
<1>9. acc.out \in Seq(M)
  BY <1>8 DEF SortedUpTo
<1> HIDE DEF M
<1>10. Append(acc.out, m) \in Seq(M)
  BY <1>7, <1>9, AppendProperties
<1>11. r.out \in Seq(M) /\ EncodedIn(r.out) = EncodedIn(acc.out) /\ (Parted(acc.out) => Parted(r.out))
  BY <1>6, <1>7, <1>9, <1>10, EncodingSame
<1>13. SortedUpTo(r, start, f, n)
  BY <1>6, <1>8, <1>11 DEF SortedUpTo, M
<1> QED
  BY <1>2, <1>13 DEF r, acc

-----------------------------------------------------------------------------
(* What the build loop has to send.                                        *)

\* A loop that has nothing to send sends no batch.
LEMMA NothingToSend == EncodedIn(<<>>) = {} /\ Parted(<<>>)
<1>1. Encoding(<<>>) = {}
  BY DEF Encoding
<1> QED
  BY <1>1 DEF EncodedIn, Parted

\* The first message is taken.
LEMMA EncodingTail ==
    ASSUME NEW M, NEW out \in Seq(M), out # <<>>
    PROVE  /\ Head(out).to # "encoder" => EncodedIn(Tail(out)) = EncodedIn(out)
           /\ Head(out).to = "encoder" /\ Parted(out) /\ Head(out).rows # {}
                 => EncodedIn(Tail(out)) = EncodedIn(out) \ {Head(out).rows}
           /\ Head(out).to = "encoder" => Head(out).rows \in EncodedIn(out)
           /\ Parted(out) => Parted(Tail(out))
<1> DEFINE rest == Tail(out)
<1>1. Len(out) \in Nat \ {0} /\ DOMAIN out = 1..Len(out)
  BY LenProperties, EmptySeq
<1>2. /\ DOMAIN rest = 1..(Len(out) - 1) /\ \A i \in 1..(Len(out) - 1) : rest[i] = out[i + 1]
      /\ Head(out) = out[1]
  <2>1. rest \in Seq(M) /\ Len(rest) = Len(out) - 1 /\ \A i \in 1..Len(rest) : rest[i] = out[i + 1]
    BY HeadTailProperties
  <2>2. DOMAIN rest = 1..Len(rest)
    BY <2>1, LenProperties
  <2>3. Head(out) = out[1]
    OBVIOUS
  <2> QED
    BY <2>1, <2>2, <2>3
<1> HIDE DEF rest
<1>3. \A i \in Encoding(rest) : i + 1 \in Encoding(out) /\ rest[i] = out[i + 1] /\ i \in Nat /\ i > 0
  BY <1>1, <1>2 DEF Encoding
<1>4. \A j \in Encoding(out) : j # 1 => j - 1 \in Encoding(rest) /\ rest[j - 1] = out[j]
  <2> SUFFICES ASSUME NEW j \in Encoding(out), j # 1 PROVE j - 1 \in Encoding(rest) /\ rest[j - 1] = out[j]
    OBVIOUS
  <2>1. j \in 1..Len(out) /\ out[j].to = "encoder"
    BY <1>1 DEF Encoding
  <2>2. j - 1 \in 1..(Len(out) - 1) /\ (j - 1) + 1 = j
    BY <1>1, <2>1
  <2>3. rest[j - 1] = out[j]
    BY <1>2, <2>2
  <2> QED
    BY <1>2, <2>1, <2>2, <2>3 DEF Encoding
<1>5. 1 \in Encoding(out) <=> Head(out).to = "encoder"
  BY <1>1, <1>2 DEF Encoding
<1>6. \A i \in Encoding(rest) : i + 1 # 1
  BY <1>3
<1>7. ASSUME Head(out).to # "encoder" PROVE EncodedIn(rest) = EncodedIn(out)
  <2>1. EncodedIn(rest) \subseteq EncodedIn(out)
    BY <1>3 DEF EncodedIn
  <2>2. EncodedIn(out) \subseteq EncodedIn(rest)
    BY <1>4, <1>5, <1>7 DEF EncodedIn
  <2> QED
    BY <2>1, <2>2
<1>8. ASSUME Head(out).to = "encoder", Parted(out), Head(out).rows # {}
      PROVE  EncodedIn(rest) = EncodedIn(out) \ {Head(out).rows}
  <2>1. ASSUME NEW i \in Encoding(rest) PROVE rest[i].rows \in EncodedIn(out) /\ rest[i].rows # Head(out).rows
    <3>1. i + 1 \in Encoding(out) /\ rest[i] = out[i + 1] /\ i + 1 # 1 /\ 1 \in Encoding(out)
      BY <1>3, <1>5, <1>6, <1>8
    <3>2. out[i + 1].rows \cap out[1].rows = {}
      BY <1>8, <3>1 DEF Parted
    <3>3. rest[i].rows # Head(out).rows
      BY <1>2, <1>8, <3>1, <3>2
    <3> QED
      BY <3>1, <3>3 DEF EncodedIn
  <2>2. ASSUME NEW j \in Encoding(out), out[j].rows # Head(out).rows PROVE out[j].rows \in EncodedIn(rest)
    BY <1>2, <1>4, <2>2 DEF EncodedIn
  <2>3. EncodedIn(rest) \subseteq EncodedIn(out) \ {Head(out).rows}
    BY <2>1 DEF EncodedIn
  <2>4. EncodedIn(out) \ {Head(out).rows} \subseteq EncodedIn(rest)
    BY <2>2 DEF EncodedIn
  <2> QED
    BY <2>3, <2>4
<1>9. ASSUME Head(out).to = "encoder" PROVE Head(out).rows \in EncodedIn(out)
  BY <1>2, <1>5, <1>9 DEF EncodedIn
<1>10. ASSUME Parted(out) PROVE Parted(rest)
  <2>1. ASSUME NEW i \in Encoding(rest), NEW j \in Encoding(rest), i # j PROVE rest[i].rows \cap rest[j].rows = {}
    <3>1. i + 1 \in Encoding(out) /\ j + 1 \in Encoding(out) /\ i + 1 # j + 1
          /\ rest[i] = out[i + 1] /\ rest[j] = out[j + 1]
      BY <1>3, <2>1
    <3>2. out[i + 1].rows \cap out[j + 1].rows = {}
      BY <1>10, <3>1 DEF Parted
    <3> QED
      BY <3>1, <3>2
  <2> QED
    BY <2>1 DEF Parted
<1> QED
  BY <1>7, <1>8, <1>9, <1>10 DEF rest

\* Shard plans that go first, or last.
LEMMA EncodingConcat ==
    ASSUME NEW M, NEW a \in Seq(M), NEW b \in Seq(M), Encoding(a) = {}
    PROVE  EncodedIn(a \o b) = EncodedIn(b) /\ (Parted(b) => Parted(a \o b))
<1> DEFINE c == a \o b
           n == Len(a)
<1>1. /\ n \in Nat /\ Len(b) \in Nat /\ DOMAIN a = 1..n /\ DOMAIN b = 1..Len(b) /\ DOMAIN c = 1..(n + Len(b))
      /\ \A i \in 1..(n + Len(b)) : c[i] = IF i <= n THEN a[i] ELSE b[i - n]
  BY LenProperties, ConcatProperties
<1> HIDE DEF c, n
<1>2. \A i \in Encoding(c) : i \in Nat /\ i > n /\ i - n \in Encoding(b) /\ c[i] = b[i - n]
  <2> SUFFICES ASSUME NEW i \in Encoding(c) PROVE i \in Nat /\ i > n /\ i - n \in Encoding(b) /\ c[i] = b[i - n]
    OBVIOUS
  <2>1. i \in 1..(n + Len(b)) /\ c[i].to = "encoder"
    BY <1>1 DEF Encoding
  <2>2. CASE i <= n
    <3>1. i \in DOMAIN a /\ c[i] = a[i]
      BY <1>1, <2>1, <2>2
    <3>2. i \in Encoding(a)
      BY <2>1, <3>1 DEF Encoding
    <3> QED
      BY <3>2
  <2>3. CASE ~(i <= n)
    <3>1. i - n \in 1..Len(b) /\ c[i] = b[i - n] /\ i \in Nat /\ i > n
      BY <1>1, <2>1, <2>3
    <3> QED
      BY <1>1, <2>1, <3>1 DEF Encoding
  <2> QED
    BY <2>2, <2>3
<1>3. \A j \in Encoding(b) : n + j \in Encoding(c) /\ c[n + j] = b[j]
  <2> SUFFICES ASSUME NEW j \in Encoding(b) PROVE n + j \in Encoding(c) /\ c[n + j] = b[j]
    OBVIOUS
  <2>1. j \in 1..Len(b) /\ b[j].to = "encoder"
    BY <1>1 DEF Encoding
  <2>2. n + j \in 1..(n + Len(b)) /\ ~(n + j <= n) /\ (n + j) - n = j
    BY <1>1, <2>1
  <2>3. c[n + j] = b[j]
    BY <1>1, <2>2
  <2> QED
    BY <1>1, <2>1, <2>2, <2>3 DEF Encoding
<1>4. EncodedIn(c) \subseteq EncodedIn(b)
  BY <1>2 DEF EncodedIn
<1>5. EncodedIn(b) \subseteq EncodedIn(c)
  BY <1>3 DEF EncodedIn
<1>6. ASSUME Parted(b) PROVE Parted(c)
  <2>1. ASSUME NEW i \in Encoding(c), NEW j \in Encoding(c), i # j PROVE c[i].rows \cap c[j].rows = {}
    <3>1. i - n \in Encoding(b) /\ j - n \in Encoding(b) /\ i - n # j - n /\ c[i] = b[i - n] /\ c[j] = b[j - n]
      BY <1>1, <1>2, <2>1
    <3>2. b[i - n].rows \cap b[j - n].rows = {}
      BY <1>6, <3>1 DEF Parted
    <3> QED
      BY <3>1, <3>2
  <2> QED
    BY <2>1 DEF Parted
<1> QED
  BY <1>4, <1>5, <1>6 DEF c

\* Plans go to the graphs and to no encoder.
LEMMA ToGraphsFacts ==
    ASSUME NEW sets \in Seq(RowSets)
    PROVE  ToGraphs(sets) \in Seq(Messages) /\ Encoding(ToGraphs(sets)) = {}
<1>1. DOMAIN sets = 1..Len(sets) /\ Len(sets) \in Nat /\ \A i \in 1..Len(sets) : sets[i] \in RowSets
  BY LenProperties, ElementOfSeq
<1>2. \A i \in 1..Len(sets) : Message("graphs", sets[i]) \in Messages /\ Message("graphs", sets[i]).to # "encoder"
  <2> SUFFICES ASSUME NEW i \in 1..Len(sets)
               PROVE  Message("graphs", sets[i]) \in Messages /\ Message("graphs", sets[i]).to # "encoder"
    OBVIOUS
  <2>1. sets[i] \in RowSets
    BY <1>1
  <2> HIDE DEF RowSets
  <2> QED
    BY <2>1 DEF Message, Messages
<1> HIDE DEF Message
<1>3. ToGraphs(sets) = [i \in 1..Len(sets) |-> Message("graphs", sets[i])]
  BY <1>1 DEF ToGraphs
<1>4. ToGraphs(sets) \in [1..Len(sets) -> Messages]
  BY <1>2, <1>3
<1>5. ToGraphs(sets) \in Seq(Messages)
  BY <1>1, <1>4, SeqDef
<1>6. Encoding(ToGraphs(sets)) = {}
  BY <1>2, <1>3 DEF Encoding
<1> QED
  BY <1>5, <1>6

-----------------------------------------------------------------------------
(* The plans are sequences of sets of rows.                                *)

\* The shard planner.
Planners == [size : 0..MaxShardRows, held : Seq(Files), open : RowSets]

\* A fold of cuts keeps the types.
LEMMA CutAllTyped ==
    ASSUME NEW size \in SizesOf, NEW open \in RowSets, NEW files \in Seq(Files)
    PROVE  CutAll(size, open, files) \in Cuts
<1>1. PICK h \in [0..Len(files) -> Cuts] : CutAll(size, open, files) = h[Len(files)]
  BY CutAllIsFold
<1>2. Len(files) \in 0..Len(files)
  BY LenProperties
<1> QED
  BY <1>1, <1>2

\* The plans of a file, and the planner after it, have their types.
LEMMA PlannedTyped ==
    ASSUME NEW f \in Files, planner \in Planners
    PROVE  Planned(f).planner \in Planners /\ Planned(f).plans \in Seq(RowSets)
<1>0. MaxShardRows \in Nat \ {0}
  BY ConstantsAssumption
<1>1. planner.size \in 0..MaxShardRows /\ planner.held \in Seq(Files) /\ planner.open \in RowSets
  BY DEF Planners
<1>2. CASE planner.size # 0
  <2> DEFINE cut == CutAll(planner.size, planner.open, <<f>>)
  <2>1. <<f>> \in Seq(Files)
    OBVIOUS
  <2>2. planner.size \in SizesOf
    BY <1>0, <1>1, <1>2 DEF SizesOf
  <2>3. cut \in Cuts
    BY <1>1, <2>1, <2>2, CutAllTyped
  <2>4. Planned(f) = [planner |-> [planner EXCEPT !.open = cut.open], plans |-> cut.plans]
    BY <1>2 DEF Planned
  <2> HIDE DEF cut
  <2>5. cut.open \in RowSets /\ cut.plans \in Seq(RowSets)
    BY <2>3 DEF Cuts
  <2> HIDE DEF RowSets
  <2>6. [planner EXCEPT !.open = cut.open] \in Planners
    BY <2>5 DEF Planners
  <2> QED
    BY <2>4, <2>5, <2>6
<1>3. CASE planner.size = 0
  <2> DEFINE held == Append(planner.held, f)
             size == ShardRowsFor(HeldRows(held))
             cut  == CutAll(size, {}, held)
  <2>1. held \in Seq(Files)
    BY <1>1, AppendProperties
  <2>2. size \in SizesOf /\ {} \in RowSets
    BY SizeTyped DEF RowSets
  <2>3. cut \in Cuts
    <3> HIDE DEF size, held
    <3> QED
      BY <2>1, <2>2, CutAllTyped
  <2>4. Planned(f) = IF HeldRows(held) < MaxShardRows * CPUs
                     THEN [planner |-> [planner EXCEPT !.held = held], plans |-> <<>>]
                     ELSE [planner |-> [size |-> size, held |-> <<>>, open |-> cut.open], plans |-> cut.plans]
    BY <1>3 DEF Planned
  <2> HIDE DEF cut, size, held
  <2>5. cut.open \in RowSets /\ cut.plans \in Seq(RowSets)
    BY <2>3 DEF Cuts
  <2> HIDE DEF RowSets
  <2>6. [planner EXCEPT !.held = held] \in Planners
    BY <2>1 DEF Planners
  <2>7. [size |-> size, held |-> <<>>, open |-> cut.open] \in Planners
    <3>1. size \in 0..MaxShardRows /\ <<>> \in Seq(Files)
      BY <1>0, <2>2 DEF SizesOf
    <3> QED
      BY <2>5, <3>1 DEF Planners
  <2>8. <<>> \in Seq(RowSets)
    OBVIOUS
  <2> QED
    BY <2>4, <2>5, <2>6, <2>7, <2>8
<1> QED
  BY <1>2, <1>3

\* So do the plans that are left at the end.
LEMMA LastPlansTyped ==
    ASSUME planner \in Planners
    PROVE  LastPlans \in Seq(RowSets)
<1> DEFINE size == IF planner.size # 0 THEN planner.size ELSE ShardRowsFor(HeldRows(planner.held))
           cut  == CutAll(size, planner.open, planner.held)
<1>0. MaxShardRows \in Nat \ {0}
  BY ConstantsAssumption
<1>1. planner.size \in 0..MaxShardRows /\ planner.held \in Seq(Files) /\ planner.open \in RowSets
  BY DEF Planners
<1>2. size \in SizesOf
  <2>1. ShardRowsFor(HeldRows(planner.held)) \in SizesOf
    BY SizeTyped
  <2>2. planner.size # 0 => planner.size \in SizesOf
    BY <1>0, <1>1 DEF SizesOf
  <2> QED
    BY <2>1, <2>2
<1>3. cut \in Cuts
  <2> HIDE DEF size
  <2> QED
    BY <1>1, <1>2, CutAllTyped
<1>4. LastPlans = IF cut.open = {} THEN cut.plans ELSE Append(cut.plans, cut.open)
  BY DEF LastPlans
<1> HIDE DEF cut
<1>5. cut.open \in RowSets /\ cut.plans \in Seq(RowSets)
  BY <1>3 DEF Cuts
<1> HIDE DEF RowSets
<1> QED
  BY <1>4, <1>5, AppendProperties

-----------------------------------------------------------------------------
(* The inductive invariant.                                                *)

\* The shards that have a build.
Shards == [rows : RowSets, state : {"start", "cpu", "build", "linkable", "linked", "whole", "stopped"}]

\* The types, by component.
TypedPlaces ==
    /\ stage \in [Files -> {"unread", "lost", "merged", "dropped"} \cup Held]
    /\ source \in {"open", "ended"}
TypedLoop ==
    /\ loop \in {"receive", "last", "wait"} /\ next \in 1..(Len(Windows) + 1)
    /\ batch \in RowSets /\ Cardinality(batch) < BatchRows
    /\ todo \in Seq(Messages) /\ failed \in BOOLEAN /\ planner \in Planners
TypedCalls ==
    /\ encoder \in [at : {"select", "ended"}] \cup [at : {"cpu"}, rows : RowSets]
                   \cup [at : {"emit"}, rows : RowSets, cause : Causes]
    /\ calls \subseteq Calls /\ IsFiniteSet(calls) /\ width \in 1..CallLimit
TypedDisk ==
    written \in RowSets /\ blocks \subseteq RowSets /\ collector \in {"select", "ended"}
TypedGraphs ==
    got \in RowSets /\ plans \in Seq(RowSets) /\ stream \in {"select", "ended"} /\ shards \in Seq(Shards)
TypedEnds ==
    /\ canceled \in BOOLEAN /\ interrupted \in BOOLEAN
    /\ causes \in [{"source", "extraction", "output", "graphs"} -> Causes]
    /\ result \in {"none", "ok", "failure", "canceled"} /\ faults \in 0..MaxFaults
Bounded ==
    alive \in 0..CPUs /\ used \in 0..ReadBudget /\ leases \in 0..(CPUs - 1 + Max({1, CallCPUs}))

\* The files before the next one are merged, no other, and rows is what they hold.
MergedInv ==
    /\ rows = Upto[next - 1]
    /\ \A f \in Files : stage[f] = "merged" <=> f < next

\* Each file that a worker has is with a worker that has not returned.
AliveInv == Cardinality(InStage(Extracting \cup Sending)) <= alive

\* The batches on their way: sent to the encoder, at the CPU gate, with the model.
Sent    == EncodedIn(todo)
AtCpu   == IF encoder.at = "cpu" THEN {encoder.rows} ELSE {}
Calling == {c \in calls : c.cause = "running"}
Called  == {c.rows : c \in Calling}

\* No row is in two batches, and each batch on its way has a row.
Apart ==
    /\ batch \subseteq 1..Len(rows)
    /\ \A s \in Sent \cup AtCpu \cup Called : s # {} /\ s \subseteq 1..Len(rows) /\ s \cap batch = {}
    /\ Parted(todo)
    /\ \A s \in Sent : \A t \in AtCpu \cup Called : s \cap t = {}
    /\ \A s \in AtCpu : \A t \in Called : s \cap t = {}
    /\ \A c, d \in Calling : c # d => c.rows \cap d.rows = {}

\* The read weight counts what is read, the leases what computes.
WeightInv == used = Cardinality(InStage(Held) \cup OwnedBy(Batches))
Building  == {i \in DOMAIN shards : shards[i].state = "build"}
LeaseInv  ==
    leases = Cardinality(InStage({"parse"})) + CallCPUs * Cardinality(Calling) + Cardinality(Building)

\* The stages end one after the other, each with nothing left.
EndInv ==
    /\ loop # "receive" => ExtractedEnded /\ InStage({"pending"}) = {} /\ batch = {}
    /\ loop = "wait" => todo = <<>>
    /\ encoder.at = "ended" => calls = {} /\ loop = "wait"
    /\ collector = "ended" => encoder.at = "ended"
    /\ stream = "ended" => Running = {}
    /\ result # "none" => loop = "wait" /\ collector = "ended" /\ stream = "ended" /\ DispatchEnded

\* A build is canceled by an interrupt or by a failure that some stage has told, or
\* that the encoder is about to tell.
CancelInv ==
    /\ canceled => \/ interrupted
                   \/ \E s \in DOMAIN causes : causes[s] = "failure"
                   \/ encoder.at = "emit" /\ encoder.cause = "failure" /\ causes["output"] = NoCause
    /\ interrupted => canceled
    /\ (\E s \in DOMAIN causes : causes[s] = "canceled") => canceled
    /\ (\E c \in calls : c.cause = "canceled") => canceled
    /\ encoder.at = "emit" /\ encoder.cause # NoCause => canceled
    /\ (\E f \in Files : stage[f] = "send canceled") => canceled
    /\ result = "canceled" => interrupted

\* The inductive invariant.
Typed == TypedPlaces /\ TypedLoop /\ TypedCalls /\ TypedDisk /\ TypedGraphs /\ TypedEnds
IInv  == Typed /\ Bounded /\ MergedInv /\ AliveInv /\ Apart /\ WeightInv /\ LeaseInv /\ EndInv /\ CancelInv

\* What the steps of each stage leave alone.
LEMMA Frames ==
    /\ EndSource \/ Extraction => UNCHANGED <<loopVars, callVars, diskVars, graphVars, endVars>>
    /\ EndSource => UNCHANGED <<stage, alive, used, leases, canceled>>
    /\ Extraction => UNCHANGED <<source, canceled, causes>>
    /\ Loop => UNCHANGED <<source, alive, callVars, diskVars, graphVars, leases, endVars, faults>>
    /\ Encode \/ Collect \/ Graphs =>
          UNCHANGED <<stage, source, alive, loop, next, rows, batch, failed, planner, endVars>>
    /\ Encode => UNCHANGED <<diskVars, graphVars, causes>>
    /\ Collect => UNCHANGED <<calls, graphVars, used, leases>>
    /\ Graphs => UNCHANGED <<callVars, written, collector, used>>
    /\ Return => UNCHANGED <<stage, source, alive, loopVars, callVars, diskVars, graphVars, used, leases,
                             canceled, causes, interrupted, faults>>
    /\ Interrupt => UNCHANGED <<stage, source, alive, loopVars, callVars, diskVars, graphVars, used, leases,
                                causes, result>>
<1>1. EndSource => UNCHANGED <<stage, alive, loopVars, callVars, diskVars, graphVars, used, leases, canceled,
                               endVars>>
  BY DEF EndSource
<1>2. Extraction => UNCHANGED <<loopVars, callVars, diskVars, graphVars, endVars, source, canceled, causes>>
  BY DEF Extraction, Take, Dispatch, StartExtract, Extract, QuitWorker
<1>3. Loop => UNCHANGED <<source, alive, callVars, diskVars, graphVars, leases, endVars, faults>>
  BY DEF Loop, Receive, Merge, MergeFile, Abandon, EndFiles, CloseChannels
<1>4. Encode => UNCHANGED <<stage, source, alive, loop, next, rows, batch, failed, planner, endVars, diskVars,
                            graphVars, causes>>
  BY DEF Encode, TakeBatch, StartCall, EndCall, TakeResult, EndEncoder, loopVars
<1>5. Collect => UNCHANGED <<stage, source, alive, loop, next, rows, batch, failed, planner, endVars, calls,
                             graphVars, used, leases>>
  BY DEF Collect, CollectBatch, CollectCopies, EndCollector, loopVars, callVars
<1>6. Graphs => UNCHANGED <<stage, source, alive, loop, next, rows, batch, failed, planner, endVars, callVars,
                            written, collector, used>>
  BY DEF Graphs, TakePlan, Submit, EndStream, TakeBlock, StartShard, LeaseShard, BuildShard,
     loopVars, diskVars
<1>7. Return => UNCHANGED <<stage, source, alive, loopVars, callVars, diskVars, graphVars, used, leases,
                            canceled, causes, interrupted, faults>>
  BY DEF Return
<1>8. Interrupt => UNCHANGED <<stage, source, alive, loopVars, callVars, diskVars, graphVars, used, leases,
                               causes, result>>
  BY DEF Interrupt
<1> QED
  BY <1>1, <1>2, <1>3, <1>4, <1>5, <1>6, <1>7, <1>8

\* The parts of a step.
LEMMA NextCases ==
    ASSUME [Next]_vars
    PROVE  EndSource \/ Extraction \/ Loop \/ Encode \/ Collect \/ Graphs \/ Return \/ Interrupt \/ UNCHANGED vars
BY DEF Next, Step

\* A file goes to a place.
LEMMA Moved ==
    ASSUME NEW f \in Files, NEW place, Goto(f, place), TypedPlaces
    PROVE  /\ DOMAIN stage' = Files /\ \A g \in Files : stage'[g] = IF g = f THEN place ELSE stage[g]
           /\ \A places : /\ place \in places => InStage(places)' = InStage(places) \cup {f}
                          /\ place \notin places => InStage(places)' = InStage(places) \ {f}
<1>1. DOMAIN stage' = Files /\ \A g \in Files : stage'[g] = IF g = f THEN place ELSE stage[g]
  BY DEF Goto, TypedPlaces
<1>2. ASSUME NEW places
      PROVE  /\ place \in places => InStage(places)' = InStage(places) \cup {f}
             /\ place \notin places => InStage(places)' = InStage(places) \ {f}
  BY <1>1 DEF InStage
<1> QED
  BY <1>1, <1>2

-----------------------------------------------------------------------------
(* The stages end one after the other.                                     *)

\* No file is in some places when each one is in another.
LEMMA NoneIn ==
    ASSUME NEW places
    PROVE  InStage(places) = {} <=> \A g \in Files : stage[g] \notin places
BY DEF InStage

\* What ends the loop stays as it is while the workers end.
LEMMA ExtractionKeepsEnd ==
    ASSUME TypedPlaces, Bounded, AliveInv, EndInv, Extraction
    PROVE  EndInv'
<1>0. /\ UNCHANGED <<loopVars, callVars, diskVars, graphVars, endVars, source>>
      /\ UNCHANGED <<loop, batch, todo, encoder, calls, collector, stream, shards, result>>
  BY Frames DEF loopVars, callVars, diskVars, graphVars, endVars
<1>1. PICK f \in Files : Take(f) \/ Dispatch(f) \/ StartExtract(f) \/ Extract(f) \/ QuitWorker(f)
  BY DEF Extraction
<1>2. ASSUME loop # "receive" PROVE ExtractedEnded' /\ InStage({"pending"})' = {}
  <2>1. /\ (source = "ended" /\ InStage({"read"}) = {}) \/ alive = 0
        /\ InStage(Extracting \cup Sending) = {} /\ InStage({"pending"}) = {}
    BY <1>2 DEF EndInv, ExtractedEnded, DispatchEnded
  <2>2. stage[f] \notin Extracting \cup Sending
    BY <2>1, NoneIn
  <2>3. Take(f) \/ Dispatch(f)
    BY <1>1, <2>2 DEF StartExtract, Extract, QuitWorker, Extracting, Sending
  <2>4. CASE Take(f)
    <3>1. Goto(f, "read") /\ alive = 0 /\ alive' = alive
      BY <2>1, <2>4 DEF Take
    <3>2. "read" \notin Extracting \cup Sending /\ "read" \notin {"pending"}
      BY DEF Extracting, Sending
    <3>3. InStage(Extracting \cup Sending)' = {} /\ InStage({"pending"})' = {}
      BY <2>1, <3>1, <3>2, Moved
    <3> QED
      BY <3>1, <3>3 DEF ExtractedEnded
  <2>5. CASE Dispatch(f)
    <3>1. InStage({"read"}) # {}
      BY <2>5 DEF Dispatch, InStage
    <3>2. alive = 0
      BY <2>1, <3>1
    <3>3. Cardinality(InStage(Extracting \cup Sending)) = 0
      BY <2>1, FS_EmptySet
    <3>4. Goto(f, "lost") /\ alive' = alive
      BY <2>5, <3>2, <3>3 DEF Dispatch
    <3>5. "lost" \notin Extracting \cup Sending /\ "lost" \notin {"pending"}
      BY DEF Extracting, Sending
    <3>6. InStage(Extracting \cup Sending)' = {} /\ InStage({"pending"})' = {}
      BY <2>1, <3>4, <3>5, Moved
    <3> QED
      BY <3>2, <3>4, <3>6 DEF ExtractedEnded
  <2> QED
    BY <2>3, <2>4, <2>5
<1>3. ASSUME DispatchEnded PROVE DispatchEnded'
  <2>1. source = "ended" /\ InStage({"read"}) = {}
    BY <1>3 DEF DispatchEnded
  <2>2. ~Take(f) /\ ~Dispatch(f)
    <3>1. stage[f] # "read"
      BY <2>1, NoneIn
    <3> QED
      BY <2>1, <3>1 DEF Take, Dispatch
  <2>3. PICK place \in {"parse", "send", "send failure", "send canceled", "dropped"} : Goto(f, place)
    BY <1>1, <2>2 DEF StartExtract, Extract, QuitWorker
  <2>4. InStage({"read"})' = {}
    <3>1. place \notin {"read"}
      OBVIOUS
    <3>2. InStage({"read"})' = InStage({"read"}) \ {f}
      BY <2>3, <3>1, Moved
    <3> QED
      BY <2>1, <3>2
  <2> QED
    BY <1>0, <2>1, <2>4 DEF DispatchEnded
<1>4. Running' = Running
  BY <1>0 DEF Running
<1> QED
  BY <1>0, <1>2, <1>3, <1>4 DEF EndInv

\* The loop ends its files once the workers returned, and waits with nothing to send.
LEMMA LoopKeepsEnd ==
    ASSUME TypedPlaces, EndInv, Loop
    PROVE  EndInv'
<1>0. UNCHANGED <<source, alive, encoder, calls, collector, stream, shards, result>>
  BY Frames DEF callVars, diskVars, graphVars, endVars
<1>1. Running' = Running
  BY <1>0 DEF Running
<1>2. CASE \E f \in Files : Receive(f) \/ Merge(f)
  <2>1. PICK f \in Files : Receive(f) \/ Merge(f)
    BY <1>2
  <2>2. /\ loop = "receive" /\ loop' = loop
        /\ \E place \in {"pending", "dropped", "merged"} : Goto(f, place)
    BY <2>1 DEF Receive, Merge, MergeFile
  <2>3. ASSUME DispatchEnded PROVE DispatchEnded'
    <3>1. InStage({"read"})' = {}
      BY <2>2, <2>3, Moved DEF DispatchEnded
    <3> QED
      BY <1>0, <2>3, <3>1 DEF DispatchEnded
  <2> QED
    BY <1>0, <1>1, <2>2, <2>3 DEF EndInv
<1>3. CASE Abandon
  <2>1. todo # <<>> /\ todo' = <<>> /\ UNCHANGED <<stage, loop, batch>>
    BY <1>3 DEF Abandon
  <2>2. \A places : InStage(places)' = InStage(places)
    BY <2>1 DEF InStage
  <2>3. DispatchEnded' = DispatchEnded /\ ExtractedEnded' = ExtractedEnded
    BY <1>0, <2>2 DEF DispatchEnded, ExtractedEnded
  <2> QED
    BY <1>0, <1>1, <2>1, <2>2, <2>3 DEF EndInv
<1>4. CASE EndFiles
  <2>1. /\ loop = "receive" /\ loop' = "last" /\ batch' = {} /\ ExtractedEnded
        /\ stage' = [f \in Files |-> IF stage[f] = "pending" THEN "dropped" ELSE stage[f]]
    BY <1>4 DEF EndFiles
  <2>2. InStage({"pending"})' = {}
    BY <2>1 DEF InStage
  <2>3. InStage({"read"})' = InStage({"read"})
        /\ InStage(Extracting \cup Sending)' = InStage(Extracting \cup Sending)
    BY <2>1 DEF InStage, Extracting, Sending
  <2>4. DispatchEnded' = DispatchEnded /\ ExtractedEnded'
    BY <1>0, <2>1, <2>3 DEF DispatchEnded, ExtractedEnded
  <2> QED
    BY <1>0, <1>1, <2>1, <2>2, <2>4 DEF EndInv
<1>5. CASE CloseChannels
  <2>1. /\ loop = "last" /\ loop' = "wait" /\ todo = <<>>
        /\ UNCHANGED <<stage, batch, todo>>
    BY <1>5 DEF CloseChannels
  <2>2. \A places : InStage(places)' = InStage(places)
    BY <2>1 DEF InStage
  <2>3. DispatchEnded' = DispatchEnded /\ ExtractedEnded' = ExtractedEnded
    BY <1>0, <2>2 DEF DispatchEnded, ExtractedEnded
  <2> QED
    BY <1>0, <1>1, <2>1, <2>2, <2>3 DEF EndInv
<1> QED
  BY <1>2, <1>3, <1>4, <1>5 DEF Loop

\* The files stay where they are.
LEMMA SamePlaces ==
    ASSUME UNCHANGED <<stage, source, alive>>
    PROVE  /\ \A places : InStage(places)' = InStage(places)
           /\ DispatchEnded' = DispatchEnded /\ ExtractedEnded' = ExtractedEnded
<1>1. \A places : InStage(places)' = InStage(places)
  BY DEF InStage
<1> QED
  BY <1>1 DEF DispatchEnded, ExtractedEnded

\* The encoder ends after the loop, with no call left.
LEMMA EncodeKeepsEnd ==
    ASSUME EndInv, Encode
    PROVE  EndInv'
<1>0. UNCHANGED <<stage, source, alive, loop, batch, collector, stream, shards, result>>
  BY Frames DEF diskVars, graphVars, endVars
<1>1. Running' = Running /\ DispatchEnded' = DispatchEnded /\ ExtractedEnded' = ExtractedEnded
      /\ InStage({"pending"})' = InStage({"pending"})
  BY <1>0, SamePlaces DEF Running
<1>2. encoder.at # "ended"
  BY DEF EndInv, Encode, TakeBatch, StartCall, EndCall, TakeResult, EndEncoder
<1>3. loop = "wait" => todo' = todo
  BY DEF EndInv, Encode, TakeBatch, StartCall, EndCall, TakeResult, EndEncoder, Sends, loopVars
<1>4. encoder'.at = "ended" => calls' = {} /\ loop = "wait"
  <2>1. CASE TakeBatch
    BY <1>2, <2>1 DEF TakeBatch
  <2>2. CASE StartCall
    BY <2>2 DEF StartCall
  <2>3. CASE EndEncoder
    BY <2>3 DEF EndEncoder
  <2>4. CASE \E c \in calls : TakeResult(c) \/ \E cause \in Causes : EndCall(c, cause)
    BY <1>2, <2>4 DEF TakeResult, EndCall
  <2> QED
    BY <2>1, <2>2, <2>3, <2>4 DEF Encode
<1> QED
  BY <1>0, <1>1, <1>2, <1>3, <1>4 DEF EndInv

\* The collector ends after the encoder.
LEMMA CollectKeepsEnd ==
    ASSUME EndInv, Collect
    PROVE  EndInv'
<1>0. UNCHANGED <<stage, source, alive, loop, batch, calls, stream, shards, result>>
  BY Frames DEF graphVars, endVars
<1>1. Running' = Running /\ DispatchEnded' = DispatchEnded /\ ExtractedEnded' = ExtractedEnded
      /\ InStage({"pending"})' = InStage({"pending"})
  BY <1>0, SamePlaces DEF Running
<1>2. collector = "select"
  BY DEF Collect, CollectBatch, CollectCopies, EndCollector, Ready
<1>3. loop = "wait" => todo' = todo
  BY DEF EndInv, Collect, CollectBatch, CollectCopies, EndCollector, Sends, loopVars
<1>4. /\ encoder' = encoder \/ (encoder'.at = "select" /\ encoder.at = "emit")
      /\ collector' = collector \/ (collector' = "ended" /\ encoder.at = "ended" /\ encoder' = encoder)
  <2>1. CASE CollectBatch
    BY <2>1 DEF CollectBatch
  <2>2. CASE CollectCopies
    BY <2>2 DEF CollectCopies, callVars
  <2>3. CASE EndCollector
    BY <2>3 DEF EndCollector, callVars
  <2> QED
    BY <2>1, <2>2, <2>3 DEF Collect
<1> QED
  BY <1>0, <1>1, <1>2, <1>3, <1>4 DEF EndInv

\* The stream ends with no shard build left.
LEMMA GraphsKeepEnd ==
    ASSUME TypedGraphs, EndInv, Graphs
    PROVE  EndInv'
<1>0. UNCHANGED <<stage, source, alive, loop, batch, encoder, calls, collector, result>>
  BY Frames DEF callVars, endVars
<1>1. DispatchEnded' = DispatchEnded /\ ExtractedEnded' = ExtractedEnded
      /\ InStage({"pending"})' = InStage({"pending"})
  BY <1>0, SamePlaces
<1>2. CASE TakePlan \/ (\E b \in blocks : TakeBlock(b)) \/ Submit
  <2>1. stream = "select" /\ stream' = stream /\ (loop = "wait" => todo' = todo)
    BY <1>2 DEF EndInv, TakePlan, TakeBlock, Submit, Listens, Sends, loopVars
  <2> QED
    BY <1>0, <1>1, <2>1 DEF EndInv
<1>3. CASE \E i \in DOMAIN shards : StartShard(i) \/ LeaseShard(i) \/ BuildShard(i)
  <2>1. Running # {}
    BY <1>3 DEF StartShard, LeaseShard, BuildShard, Running
  <2>2. stream' = stream /\ todo' = todo
    BY <1>3 DEF StartShard, LeaseShard, BuildShard, loopVars
  <2> QED
    BY <1>0, <1>1, <2>1, <2>2 DEF EndInv
<1>4. CASE EndStream
  <2>1. Running = {} /\ stream' = "ended" /\ stream = "select" /\ todo' = todo
    BY <1>4 DEF EndStream, loopVars
  <2> DEFINE Linked(i) == [shards[i] EXCEPT !.state = "linked"]
  <2>2. \/ shards' = shards
        \/ shards' = [i \in DOMAIN shards |-> IF shards[i].state = "linkable" THEN Linked(i) ELSE shards[i]]
    BY <1>4 DEF EndStream
  <2>3. \A i \in DOMAIN shards : Linked(i).state = "linked"
    <3>1. \A i \in DOMAIN shards : shards[i] \in Shards
      BY LenProperties, ElementOfSeq DEF TypedGraphs
    <3> QED
      BY <3>1 DEF Shards
  <2> HIDE DEF Linked
  <2>4. Running' = {}
    BY <2>1, <2>2, <2>3 DEF Running
  <2> QED
    BY <1>0, <1>1, <2>1, <2>4 DEF EndInv
<1> QED
  BY <1>2, <1>3, <1>4 DEF Graphs

\* So every step keeps the order in which the stages end.
LEMMA StepKeepsEnd ==
    ASSUME TypedPlaces, TypedGraphs, Bounded, AliveInv, EndInv, [Next]_vars
    PROVE  EndInv'
<1>1. CASE EndSource
  <2>1. source' = "ended" /\ UNCHANGED <<stage, alive, loop, batch, todo, encoder, calls, collector, stream,
                                         shards, result>>
    BY <1>1, Frames DEF EndSource, loopVars, callVars, diskVars, graphVars, endVars
  <2>2. Running' = Running /\ \A places : InStage(places)' = InStage(places)
    BY <2>1 DEF Running, InStage
  <2>3. source = "open"
    BY <1>1 DEF EndSource
  <2>4. (ExtractedEnded => ExtractedEnded') /\ (DispatchEnded => DispatchEnded')
    BY <2>1, <2>2 DEF ExtractedEnded, DispatchEnded
  <2> QED
    BY <2>1, <2>2, <2>4 DEF EndInv
<1>2. CASE Return
  <2>1. UNCHANGED <<stage, source, alive, loop, batch, todo, encoder, calls, collector, stream, shards>>
    BY <1>2, Frames DEF loopVars, callVars, diskVars, graphVars
  <2>2. Running' = Running /\ DispatchEnded' = DispatchEnded /\ ExtractedEnded' = ExtractedEnded
        /\ InStage({"pending"})' = InStage({"pending"})
    BY <2>1, SamePlaces DEF Running
  <2>3. loop = "wait" /\ collector = "ended" /\ stream = "ended" /\ DispatchEnded
    BY <1>2 DEF Return
  <2> QED
    BY <2>1, <2>2, <2>3 DEF EndInv
<1>3. CASE Interrupt \/ UNCHANGED vars
  <2>1. UNCHANGED <<stage, source, alive, loop, batch, todo, encoder, calls, collector, stream, shards, result>>
    BY <1>3, Frames DEF vars, loopVars, callVars, diskVars, graphVars, endVars
  <2>2. Running' = Running /\ DispatchEnded' = DispatchEnded /\ ExtractedEnded' = ExtractedEnded
        /\ InStage({"pending"})' = InStage({"pending"})
    BY <2>1, SamePlaces DEF Running
  <2> QED
    BY <2>1, <2>2 DEF EndInv
<1> QED
  BY <1>1, <1>2, <1>3, NextCases, ExtractionKeepsEnd, LoopKeepsEnd, EncodeKeepsEnd, CollectKeepsEnd,
     GraphsKeepEnd

-----------------------------------------------------------------------------
(* What a canceled build tells.                                            *)

\* Some stage told a failure.
Failed(c) == \E s \in DOMAIN c : c[s] = "failure"

\* A stage tells: what was told stays, and a failure that comes first is told.
LEMMA Told ==
    ASSUME NEW s \in {"source", "extraction", "output", "graphs"}, NEW cause \in Causes, Tell(s, cause), TypedEnds
    PROVE  /\ Failed(causes) => Failed(causes')
           /\ cause = "failure" /\ causes[s] # "canceled" => Failed(causes')
           /\ (\E t \in DOMAIN causes' : causes'[t] = "canceled")
                 => cause = "canceled" \/ \E t \in DOMAIN causes : causes[t] = "canceled"
<1>1. causes' = [causes EXCEPT ![s] = IF @ = NoCause THEN cause ELSE @]
  BY DEF Tell
<1>2. /\ DOMAIN causes = {"source", "extraction", "output", "graphs"} /\ DOMAIN causes' = DOMAIN causes
      /\ \A t \in DOMAIN causes : causes[t] \in Causes
      /\ \A t \in DOMAIN causes : t # s => causes'[t] = causes[t]
      /\ causes'[s] = IF causes[s] = NoCause THEN cause ELSE causes[s]
  BY <1>1 DEF TypedEnds
<1>3. Failed(causes) => Failed(causes')
  BY <1>2 DEF Failed, NoCause
<1>4. cause = "failure" /\ causes[s] # "canceled" => Failed(causes')
  BY <1>2 DEF Failed, NoCause, Causes
<1>5. (\E t \in DOMAIN causes' : causes'[t] = "canceled")
         => cause = "canceled" \/ \E t \in DOMAIN causes : causes[t] = "canceled"
  BY <1>2
<1> QED
  BY <1>3, <1>4, <1>5

\* The causes of a cancel, and what a cancel lets happen.
Explained == interrupted \/ Failed(causes)
             \/ (encoder.at = "emit" /\ encoder.cause = "failure" /\ causes["output"] = NoCause)
Canceling ==
    \/ \E s \in DOMAIN causes : causes[s] = "canceled"
    \/ \E c \in calls : c.cause = "canceled"
    \/ encoder.at = "emit" /\ encoder.cause # NoCause
    \/ \E f \in Files : stage[f] = "send canceled"

\* CancelInv, in parts.
LEMMA CancelParts ==
    CancelInv <=> /\ canceled => Explained
                  /\ interrupted => canceled
                  /\ Canceling => canceled
                  /\ result = "canceled" => interrupted
BY DEF CancelInv, Explained, Canceling, Failed

\* A worker reports a canceled file only after the cancel.
LEMMA ExtractionKeepsCause ==
    ASSUME TypedPlaces, CancelInv, Extraction
    PROVE  CancelInv'
<1>0. UNCHANGED <<encoder, calls, canceled, causes, interrupted, result>>
  BY Frames DEF callVars, endVars
<1>1. PICK f \in Files : Take(f) \/ Dispatch(f) \/ StartExtract(f) \/ Extract(f) \/ QuitWorker(f)
  BY DEF Extraction
<1>2. PICK place : Goto(f, place) /\ (place = "send canceled" => canceled)
  <2>1. CASE Take(f) \/ Dispatch(f) \/ StartExtract(f) \/ QuitWorker(f)
    <3>1. PICK place \in {"read", "cpu", "lost", "parse", "dropped"} : Goto(f, place)
      BY <2>1 DEF Take, Dispatch, StartExtract, QuitWorker
    <3>2. place # "send canceled"
      OBVIOUS
    <3> QED
      BY <3>1, <3>2
  <2>2. CASE Extract(f)
    <3>1. Goto(f, "send") \/ Goto(f, "send failure") \/ (canceled /\ Goto(f, "send canceled"))
      BY <2>2 DEF Extract
    <3>2. "send" # "send canceled" /\ "send failure" # "send canceled"
      OBVIOUS
    <3> QED
      BY <3>1, <3>2
  <2> QED
    BY <1>1, <2>1, <2>2
<1>3. \A g \in Files : stage'[g] = "send canceled" => stage[g] = "send canceled" \/ canceled
  BY <1>2, Moved
<1>4. Canceling' => canceled
  BY <1>0, <1>3, CancelParts DEF Canceling
<1> QED
  BY <1>0, <1>4 DEF CancelInv, Canceling

\* The loop that cancels tells the cause in the same step.
LEMMA LoopKeepsCause ==
    ASSUME TypedPlaces, TypedEnds, CancelInv, Loop
    PROVE  CancelInv'
<1>0. UNCHANGED <<encoder, calls, interrupted, result>>
  BY Frames DEF callVars, endVars
<1>1. CASE UNCHANGED <<canceled, causes>> /\ \A g \in Files : stage'[g] = "send canceled" => stage[g] = "send canceled"
  <2>1. Canceling' => Canceling
    BY <1>0, <1>1 DEF Canceling
  <2> QED
    BY <1>0, <1>1, <2>1 DEF CancelInv, Canceling
<1>2. CASE \E f \in Files : Receive(f)
  <2>1. PICK f \in Files : Receive(f)
    BY <1>2
  <2>2. PICK place \in {"pending", "dropped"} : Goto(f, place)
    BY <2>1 DEF Receive
  <2>3. \A g \in Files : stage'[g] = "send canceled" => stage[g] = "send canceled"
    BY <2>2, Moved
  <2>4. CASE stage[f] = "send"
    BY <1>1, <2>1, <2>3, <2>4 DEF Receive
  <2>5. CASE stage[f] = "send failure"
    <3>1. Tell("extraction", "failure") /\ canceled' = TRUE
      BY <2>1, <2>5 DEF Receive
    <3>2. /\ Failed(causes) => Failed(causes')
          /\ causes["extraction"] # "canceled" => Failed(causes')
      BY <3>1, Told DEF Causes
    <3>3. causes["extraction"] = "canceled" => Failed(causes) \/ Explained'
      <4>1. causes["extraction"] = "canceled" => Canceling
        BY DEF TypedEnds, Canceling
      <4>2. causes["extraction"] = "canceled" => Explained
        BY <4>1, CancelParts
      <4>3. causes'["output"] = causes["output"]
        BY <3>1 DEF Tell, TypedEnds
      <4> QED
        BY <1>0, <4>2, <4>3 DEF Explained
    <3>4. Explained'
      BY <3>2, <3>3 DEF Explained
    <3> QED
      BY <1>0, <3>1, <3>4 DEF CancelInv, Explained, Failed
  <2>6. CASE stage[f] = "send canceled"
    <3>1. Tell("extraction", "canceled") /\ canceled' = TRUE
      BY <2>1, <2>6 DEF Receive
    <3>2. canceled /\ Explained
      BY <2>6, CancelParts DEF Canceling
    <3>3. Failed(causes) => Failed(causes')
      BY <3>1, Told DEF Causes
    <3>4. causes'["output"] = causes["output"]
      BY <3>1 DEF Tell, TypedEnds
    <3>5. Explained'
      BY <1>0, <3>2, <3>3, <3>4 DEF Explained
    <3> QED
      BY <1>0, <3>1, <3>5 DEF CancelInv, Explained, Failed
  <2> QED
    BY <2>1, <2>4, <2>5, <2>6 DEF Receive, Sending
<1>3. CASE \E f \in Files : Merge(f)
  <2>1. PICK f \in Files : Goto(f, "merged") /\ UNCHANGED <<canceled, causes>>
    BY <1>3, Frames DEF Merge, MergeFile, endVars
  <2>2. \A g \in Files : stage'[g] = IF g = f THEN "merged" ELSE stage[g]
    BY <2>1, Moved
  <2> QED
    BY <1>1, <2>1, <2>2
<1>4. CASE Abandon
  BY <1>1, <1>4 DEF Abandon
<1>5. CASE EndFiles
  <2>1. UNCHANGED <<canceled, causes>>
        /\ stage' = [f \in Files |-> IF stage[f] = "pending" THEN "dropped" ELSE stage[f]]
    BY <1>5 DEF EndFiles
  <2> QED
    BY <1>1, <2>1
<1>6. CASE CloseChannels
  BY <1>1, <1>6 DEF CloseChannels
<1> QED
  BY <1>2, <1>3, <1>4, <1>5, <1>6 DEF Loop

\* A result that cancels has its cause with it until the collector tells it.
LEMMA EncodeKeepsCause ==
    ASSUME TypedCalls, TypedEnds, CancelInv, Encode
    PROVE  CancelInv'
<1>0. UNCHANGED <<stage, causes, interrupted, result>>
  BY Frames DEF endVars
<1>1. CASE TakeBatch \/ EndEncoder
  <2>1. UNCHANGED <<canceled, calls>> /\ encoder.at # "emit"
        /\ (encoder' = encoder \/ encoder'.at \in {"cpu", "ended"})
    BY <1>1 DEF TakeBatch, EndEncoder
  <2> QED
    BY <1>0, <2>1 DEF CancelInv
<1>2. CASE StartCall
  <2>1. UNCHANGED canceled /\ encoder.at # "emit" /\ encoder'.at = "select"
    BY <1>2 DEF StartCall
  <2>2. \A c \in calls' : c \in calls \/ c.cause = "running"
    BY <1>2 DEF StartCall
  <2> QED
    BY <1>0, <2>1, <2>2 DEF CancelInv
<1>3. CASE \E c \in calls : \E cause \in Causes : EndCall(c, cause)
  <2>1. PICK c \in calls, cause \in Causes : EndCall(c, cause)
    BY <1>3
  <2>2. UNCHANGED <<canceled, encoder>> /\ (cause = "canceled" => canceled)
    BY <2>1 DEF EndCall, Outcome, NoCause
  <2>3. calls' = (calls \ {c}) \cup {[c EXCEPT !.cause = cause]} /\ [c EXCEPT !.cause = cause].cause = cause
    <3>1. c \in Calls
      BY DEF TypedCalls
    <3> QED
      BY <2>1, <3>1 DEF EndCall, Calls
  <2>4. (\E d \in calls' : d.cause = "canceled") => canceled
    BY <2>2, <2>3 DEF CancelInv
  <2> QED
    BY <1>0, <2>2, <2>4 DEF CancelInv
<1>4. CASE \E c \in calls : TakeResult(c)
  <2>1. PICK c \in calls : TakeResult(c)
    BY <1>4
  <2>2. /\ encoder.at = "select" /\ c.cause # "running" /\ calls' = calls \ {c}
        /\ encoder'.at = "emit" /\ encoder'.cause = c.cause /\ canceled' = (canceled \/ c.cause # NoCause)
    BY <2>1 DEF TakeResult
  <2>3. c.cause \in Causes
    BY <2>2 DEF TypedCalls, Calls
  <2>4. ASSUME c.cause = "failure", causes["output"] # NoCause PROVE Explained'
    <3>1. causes["output"] = "failure" => Failed(causes)
      BY DEF TypedEnds, Failed
    <3>2. causes["output"] = "canceled" => Canceling
      BY DEF TypedEnds, Canceling
    <3>3. causes["output"] = "failure" \/ causes["output"] = "canceled"
      BY <2>4 DEF TypedEnds, Causes
    <3>4. interrupted \/ Failed(causes)
      BY <2>2, <3>1, <3>2, <3>3, CancelParts DEF Explained
    <3> QED
      BY <1>0, <3>4 DEF Explained
  <2>5. ASSUME c.cause = "failure", causes["output"] = NoCause PROVE Explained'
    BY <1>0, <2>2, <2>5 DEF Explained
  <2>6. ASSUME c.cause = "canceled" \/ canceled PROVE Explained'
    <3>1. Explained
      BY <2>6, CancelParts DEF Canceling
    <3>2. interrupted \/ Failed(causes)
      BY <2>2, <3>1 DEF Explained
    <3> QED
      BY <1>0, <3>2 DEF Explained
  <2>7. canceled' => Explained'
    BY <2>2, <2>3, <2>4, <2>5, <2>6 DEF Causes
  <2>8. Canceling' => canceled'
    BY <1>0, <2>2, CancelParts DEF Canceling
  <2>9. (interrupted' => canceled') /\ (result' = "canceled" => interrupted')
    BY <1>0, <2>2, CancelParts
  <2> QED
    BY <2>7, <2>8, <2>9 DEF CancelInv, Explained, Canceling, Failed
<1> QED
  BY <1>1, <1>2, <1>3, <1>4 DEF Encode

\* A write that fails, or one that does not.
LEMMA WriteTells ==
    ASSUME NEW set, TypedEnds, Write(set)
    PROVE  \/ UNCHANGED <<canceled, causes>>
           \/ Tell("output", "failure") /\ canceled' = TRUE
BY DEF Write

\* The collector tells the cause of the result that it gets.
LEMMA CollectKeepsCause ==
    ASSUME TypedCalls, TypedEnds, CancelInv, Collect
    PROVE  CancelInv'
<1>0. UNCHANGED <<stage, calls, interrupted, result>>
  BY Frames DEF graphVars, endVars
<1>1. /\ encoder' = encoder \/ (encoder'.at = "select" /\ encoder.at = "emit")
      /\ encoder'.at # "emit" => encoder' = encoder \/ encoder.at = "emit"
      /\ encoder' # encoder => encoder'.at = "select"
  <2>1. CASE CollectBatch
    BY <2>1 DEF CollectBatch
  <2>2. CASE CollectCopies
    BY <2>2 DEF CollectCopies, callVars
  <2>3. CASE EndCollector
    BY <2>3 DEF EndCollector, callVars
  <2> QED
    BY <2>1, <2>2, <2>3 DEF Collect
<1>2. ASSUME UNCHANGED <<canceled, causes>>,
             encoder' = encoder \/ causes["output"] # NoCause \/ encoder.cause = NoCause
      PROVE  CancelInv'
  <2>1. Canceling' => Canceling
    BY <1>0, <1>1, <1>2 DEF Canceling
  <2>2. Explained => Explained'
    BY <1>0, <1>2 DEF Explained, NoCause
  <2> QED
    BY <1>0, <1>2, <2>1, <2>2, CancelParts DEF CancelInv, Explained, Canceling, Failed
<1>3. ASSUME causes["output"] = NoCause, Tell("output", "failure"), canceled' = TRUE
      PROVE CancelInv'
  <2>1. causes["output"] # "canceled"
    BY <1>3 DEF NoCause
  <2>2. Failed(causes')
    BY <1>3, <2>1, Told DEF Causes
  <2> QED
    BY <1>0, <1>3, <2>2, CancelParts DEF CancelInv, Failed
<1>4. CASE CollectBatch
  <2>1. encoder.at = "emit" /\ encoder'.at = "select" /\ encoder.cause \in Causes
    BY <1>4 DEF CollectBatch, TypedCalls
  <2>2. CASE causes["output"] # NoCause
    BY <1>2, <1>4, <2>2 DEF CollectBatch
  <2>3. CASE causes["output"] = NoCause /\ encoder.cause = NoCause
    <3>1. Write(encoder.rows)
      BY <1>4, <2>3 DEF CollectBatch
    <3> QED
      BY <1>2, <1>3, <2>3, <3>1, WriteTells
  <2>4. CASE causes["output"] = NoCause /\ encoder.cause = "failure"
    <3>1. Tell("output", "failure") /\ canceled' = TRUE
      BY <1>4, <2>4 DEF CollectBatch, NoCause
    <3> QED
      BY <1>3, <2>4, <3>1
  <2>5. CASE causes["output"] = NoCause /\ encoder.cause = "canceled"
    <3>1. Tell("output", "canceled") /\ canceled' = TRUE
      BY <1>4, <2>5 DEF CollectBatch, NoCause
    <3>2. Explained
      BY <2>1, <2>5, CancelParts DEF Canceling, NoCause
    <3>3. interrupted \/ Failed(causes)
      BY <2>5, <3>2 DEF Explained
    <3>4. interrupted' \/ Failed(causes')
      BY <1>0, <3>1, <3>3, Told DEF Causes
    <3>5. result' = "canceled" => interrupted'
      BY <1>0, CancelParts
    <3> QED
      BY <3>1, <3>4, <3>5 DEF CancelInv, Failed
  <2> QED
    BY <2>1, <2>2, <2>3, <2>4, <2>5 DEF Causes
<1>5. CASE CollectCopies
  <2>1. UNCHANGED <<canceled, causes>> \/ (causes["output"] = NoCause /\ Write(Head(todo).rows))
    BY <1>5 DEF CollectCopies
  <2>2. encoder' = encoder
    BY <1>5 DEF CollectCopies, callVars
  <2> QED
    BY <1>2, <1>3, <2>1, <2>2, WriteTells
<1>6. CASE EndCollector
  <2>1. UNCHANGED <<canceled, causes>>
        \/ (causes["output"] = NoCause /\ Tell("output", "failure") /\ canceled' = TRUE)
    BY <1>6 DEF EndCollector
  <2>2. encoder' = encoder
    BY <1>6 DEF EndCollector, callVars
  <2> QED
    BY <1>2, <1>3, <2>1, <2>2
<1> QED
  BY <1>4, <1>5, <1>6 DEF Collect

\* A shard build that fails tells its cause as it cancels.
LEMMA GraphsKeepCause ==
    ASSUME TypedEnds, CancelInv, Graphs
    PROVE  CancelInv'
<1>0. UNCHANGED <<stage, encoder, calls, interrupted, result>>
  BY Frames DEF callVars, endVars
<1>1. ASSUME UNCHANGED <<canceled, causes>> PROVE CancelInv'
  BY <1>0, <1>1 DEF CancelInv
<1>2. ASSUME ~canceled, Tell("graphs", "failure"), canceled' = TRUE PROVE CancelInv'
  <2>1. causes["graphs"] # "canceled"
    BY <1>2, CancelParts DEF Canceling, TypedEnds
  <2>2. Failed(causes')
    BY <1>2, <2>1, Told DEF Causes
  <2> QED
    BY <1>0, <1>2, <2>2, CancelParts DEF CancelInv, Failed
<1>3. ASSUME canceled, Tell("graphs", "canceled"), UNCHANGED canceled PROVE CancelInv'
  <2>1. Failed(causes) => Failed(causes')
    BY <1>3, Told DEF Causes
  <2>2. causes'["output"] = causes["output"]
    BY <1>3 DEF Tell, TypedEnds
  <2>3. Explained
    BY <1>3, CancelParts
  <2>4. Explained'
    BY <1>0, <2>1, <2>2, <2>3 DEF Explained
  <2> QED
    BY <1>0, <1>3, <2>4, CancelParts DEF CancelInv, Explained, Failed
<1>4. CASE \E i \in DOMAIN shards : StartShard(i) \/ LeaseShard(i) \/ BuildShard(i)
  <2>1. UNCHANGED <<canceled, causes>> \/ (~canceled /\ Tell("graphs", "failure") /\ canceled' = TRUE)
    BY <1>4 DEF StartShard, LeaseShard, BuildShard
  <2> QED
    BY <1>1, <1>2, <2>1
<1>5. CASE TakePlan \/ Submit \/ \E b \in blocks : TakeBlock(b)
  BY <1>1, <1>5 DEF TakePlan, Submit, TakeBlock
<1>6. CASE EndStream
  <2>1. CASE canceled
    BY <1>3, <1>6, <2>1 DEF EndStream
  <2>2. CASE ~canceled
    <3>1. UNCHANGED <<canceled, causes>> \/ (Tell("graphs", "failure") /\ canceled' = TRUE)
      BY <1>6, <2>2, Zenon DEF EndStream
    <3> QED
      BY <1>1, <1>2, <2>2, <3>1
  <2> QED
    BY <2>1, <2>2
<1> QED
  BY <1>4, <1>5, <1>6 DEF Graphs

\* So every step keeps the cause of the cancel.
LEMMA StepKeepsCause ==
    ASSUME TypedPlaces, TypedCalls, TypedEnds, EndInv, CancelInv, [Next]_vars
    PROVE  CancelInv'
<1>1. CASE EndSource
  <2>1. UNCHANGED <<stage, encoder, calls, canceled, interrupted, result>>
    BY <1>1, Frames DEF callVars, endVars
  <2>2. \/ UNCHANGED causes
        \/ \E cause \in {"failure", "canceled"} : Tell("source", cause) /\ (cause = "canceled" => canceled)
    BY <1>1 DEF EndSource
  <2>3. ASSUME NEW cause \in {"failure", "canceled"}, Tell("source", cause), cause = "canceled" => canceled
        PROVE  CancelInv'
    <3>1. cause \in Causes
      BY DEF Causes
    <3>2. Failed(causes) => Failed(causes')
      BY <2>3, <3>1, Told
    <3>3. (\E t \in DOMAIN causes' : causes'[t] = "canceled")
             => cause = "canceled" \/ \E t \in DOMAIN causes : causes[t] = "canceled"
      BY <2>3, <3>1, Told
    <3>4. causes'["output"] = causes["output"]
      BY <2>3 DEF Tell, TypedEnds
    <3>5. Explained => Explained'
      BY <2>1, <3>2, <3>4 DEF Explained
    <3>6. Canceling' => canceled
      BY <2>1, <2>3, <3>3, CancelParts DEF Canceling
    <3> QED
      BY <2>1, <3>5, <3>6, CancelParts DEF CancelInv, Explained, Canceling, Failed
  <2>4. ASSUME UNCHANGED causes PROVE CancelInv'
    BY <2>1, <2>4 DEF CancelInv
  <2> QED
    BY <2>2, <2>3, <2>4
<1>2. CASE Return
  <2>1. UNCHANGED <<stage, encoder, calls, canceled, causes, interrupted>>
    BY <1>2, Frames DEF callVars
  <2>2. encoder.at = "ended"
    BY <1>2 DEF Return, EndInv
  <2>3. ASSUME result' = "canceled" PROVE interrupted
    <3>1. Cause = "canceled"
      BY <1>2, <2>3 DEF Return
    <3>2. ~interrupted => ~Failed(causes) /\ \E s \in DOMAIN causes : causes[s] = "canceled"
      BY <3>1 DEF Cause, Failed, NoCause
    <3>3. ~interrupted => Explained
      BY <3>2, CancelParts DEF Canceling
    <3> QED
      BY <2>2, <3>2, <3>3 DEF Explained
  <2> QED
    BY <2>1, <2>3 DEF CancelInv
<1>3. CASE Interrupt
  <2>1. UNCHANGED <<stage, encoder, calls, causes, result>> /\ interrupted' = TRUE /\ canceled' = TRUE
    BY <1>3, Frames DEF Interrupt, callVars
  <2> QED
    BY <2>1 DEF CancelInv
<1>4. CASE UNCHANGED vars
  BY <1>4 DEF CancelInv, vars, callVars, endVars
<1> QED
  BY <1>1, <1>2, <1>3, <1>4, NextCases, ExtractionKeepsCause, LoopKeepsCause, EncodeKeepsCause,
     CollectKeepsCause, GraphsKeepCause

-----------------------------------------------------------------------------
(* The files are merged in order.                                          *)

\* Only Merge takes a file, the one whose turn it is, and adds its rows to those before.
LEMMA StepKeepsMerged ==
    ASSUME TypedPlaces, TypedLoop, MergedInv, [Next]_vars
    PROVE  MergedInv'
<1>0. LastFile \in Nat /\ Files = 1..LastFile /\ next \in 1..(LastFile + 1)
  BY Constants DEF TypedLoop, LastFile
<1>1. ASSUME UNCHANGED <<rows, next>>, \A g \in Files : stage'[g] = "merged" <=> stage[g] = "merged"
      PROVE  MergedInv'
  <2>1. Upto' = Upto
    BY DEF Upto, IsUpto, RowsOf, LastFile
  <2> QED
    BY <1>1, <2>1 DEF MergedInv
<1>2. ASSUME NEW f \in Files, NEW place, Goto(f, place), place # "merged", stage[f] # "merged",
             UNCHANGED <<rows, next>>
      PROVE  MergedInv'
  BY <1>1, <1>2, Moved
<1>3. CASE Extraction
  <2>1. PICK f \in Files : Take(f) \/ Dispatch(f) \/ StartExtract(f) \/ Extract(f) \/ QuitWorker(f)
    BY <1>3 DEF Extraction
  <2>2. stage[f] # "merged"
    BY <2>1 DEF Take, Dispatch, StartExtract, Extract, QuitWorker, Sending
  <2>3. PICK place \in {"read", "cpu", "lost", "parse", "send", "send failure", "send canceled", "dropped"} :
           Goto(f, place)
    BY <2>1 DEF Take, Dispatch, StartExtract, Extract, QuitWorker
  <2>4. UNCHANGED <<rows, next>>
    BY <1>3, Frames DEF loopVars
  <2>5. place # "merged"
    OBVIOUS
  <2> QED
    BY <1>2, <2>2, <2>3, <2>4, <2>5
<1>4. CASE \E f \in Files : Receive(f)
  <2>1. PICK f \in Files : Receive(f)
    BY <1>4
  <2>2. PICK place \in {"pending", "dropped"} : Goto(f, place)
    BY <2>1 DEF Receive
  <2>3. stage[f] # "merged" /\ UNCHANGED <<rows, next>>
    BY <2>1 DEF Receive, Sending
  <2>4. place # "merged"
    OBVIOUS
  <2> QED
    BY <1>2, <2>2, <2>3, <2>4
<1>5. CASE \E f \in Files : Merge(f)
  <2>1. PICK f \in Files : Merge(f)
    BY <1>5
  <2>2. Goto(f, "merged") /\ next = f /\ next' = f + 1 /\ rows' = rows \o RowsOf(f)
    BY <2>1 DEF Merge, MergeFile, RowsOf
  <2>3. rows' = Upto[f]
    BY <1>0, <2>2, UptoSteps DEF MergedInv
  <2>4. f \in Nat /\ (f + 1) - 1 = f /\ \A g \in Files : g < f + 1 <=> g < f \/ g = f
    BY <1>0
  <2>5. \A g \in Files : stage'[g] = "merged" <=> g < f + 1
    BY <2>2, <2>4, Moved DEF MergedInv
  <2>6. Upto' = Upto
    BY DEF Upto, IsUpto, RowsOf, LastFile
  <2> QED
    BY <2>2, <2>3, <2>4, <2>5, <2>6 DEF MergedInv
<1>6. CASE Abandon \/ CloseChannels
  BY <1>1, <1>6 DEF Abandon, CloseChannels
<1>7. CASE EndFiles
  <2>1. stage' = [f \in Files |-> IF stage[f] = "pending" THEN "dropped" ELSE stage[f]]
        /\ UNCHANGED <<rows, next>>
    BY <1>7 DEF EndFiles
  <2> QED
    BY <1>1, <2>1
<1>8. CASE EndSource \/ Encode \/ Collect \/ Graphs \/ Return \/ Interrupt \/ UNCHANGED vars
  <2>1. UNCHANGED <<stage, rows, next>>
    BY <1>8, Frames DEF loopVars, vars
  <2> QED
    BY <1>1, <2>1
<1> QED
  BY <1>3, <1>4, <1>5, <1>6, <1>7, <1>8, NextCases DEF Loop

-----------------------------------------------------------------------------
(* How many files, calls and shard builds there are.                       *)

\* The files are finitely many, so are those in some places.
LEMMA FilesFinite ==
    /\ IsFiniteSet(Files)
    /\ \A places : IsFiniteSet(InStage(places)) /\ Cardinality(InStage(places)) \in Nat
<1>1. IsFiniteSet(Files)
  <2>1. LastFile \in Int /\ 1 \in Int
    BY FileCount
  <2>2. IsFiniteSet(1..LastFile)
    BY <2>1, FS_Interval
  <2> QED
    BY <2>2, FileCount
<1>2. ASSUME NEW places PROVE IsFiniteSet(InStage(places)) /\ Cardinality(InStage(places)) \in Nat
  <2>1. InStage(places) \subseteq Files
    BY DEF InStage
  <2> QED
    BY <1>1, <2>1, FS_Subset, FS_CardinalityType
<1> QED
  BY <1>1, <1>2

\* A file comes to the places or leaves them.
LEMMA CountMoved ==
    ASSUME NEW f \in Files, NEW place, Goto(f, place), TypedPlaces, NEW places
    PROVE  LET n == Cardinality(InStage(places))
           IN  Cardinality(InStage(places)')
                  = IF place \in places THEN IF stage[f] \in places THEN n ELSE n + 1
                    ELSE IF stage[f] \in places THEN n - 1 ELSE n
<1>1. f \in InStage(places) <=> stage[f] \in places
  BY DEF InStage
<1>2. IsFiniteSet(InStage(places))
  BY FilesFinite
<1>3. CASE place \in places
  <2>1. InStage(places)' = InStage(places) \cup {f}
    BY <1>3, Moved
  <2> QED
    BY <1>1, <1>2, <1>3, <2>1, FS_AddElement
<1>4. CASE place \notin places
  <2>1. InStage(places)' = InStage(places) \ {f}
    BY <1>4, Moved
  <2> QED
    BY <1>1, <1>2, <1>4, <2>1, FS_RemoveElement
<1> QED
  BY <1>3, <1>4

\* A worker that returns has the file of no other: no more files in work than workers alive.
LEMMA StepKeepsAlive ==
    ASSUME TypedPlaces, Bounded, AliveInv, [Next]_vars
    PROVE  AliveInv'
<1> DEFINE working == Extracting \cup Sending
           n == Cardinality(InStage(working))
<1>0. n \in Nat /\ alive \in Nat /\ n <= alive
  <2>1. CPUs \in Nat
    BY ConstantsAssumption
  <2> QED
    BY <2>1, FilesFinite DEF AliveInv, Bounded
<1>1. ASSUME UNCHANGED alive, InStage(working)' = InStage(working) PROVE AliveInv'
  BY <1>1 DEF AliveInv
<1>2. ASSUME NEW f \in Files, NEW place, Goto(f, place), UNCHANGED alive,
             place \in working => stage[f] \in working
      PROVE  AliveInv'
  <2>1. Cardinality(InStage(working)') = IF place \in working THEN IF stage[f] \in working THEN n ELSE n + 1
                                         ELSE IF stage[f] \in working THEN n - 1 ELSE n
    BY <1>2, CountMoved
  <2>2. Cardinality(InStage(working)') <= alive
    BY <1>0, <1>2, <2>1
  <2> QED
    BY <1>2, <2>2 DEF AliveInv
<1>3. CASE Extraction
  <2>1. PICK f \in Files : Take(f) \/ Dispatch(f) \/ StartExtract(f) \/ Extract(f) \/ QuitWorker(f)
    BY <1>3 DEF Extraction
  <2>2. CASE Take(f)
    <3>1. Goto(f, "read") /\ UNCHANGED alive /\ "read" \notin working
      BY <2>2 DEF Take, Extracting, Sending
    <3> QED
      BY <1>2, <3>1
  <2>3. CASE Dispatch(f)
    <3>1. UNCHANGED alive /\ ((n < alive /\ Goto(f, "cpu")) \/ Goto(f, "lost"))
      BY <2>3 DEF Dispatch
    <3>2. CASE Goto(f, "lost")
      <4>1. "lost" \notin working
        BY DEF Extracting, Sending
      <4> QED
        BY <1>2, <3>1, <3>2, <4>1
    <3>3. CASE n < alive /\ Goto(f, "cpu")
      <4>1. "cpu" \in working /\ stage[f] \notin working
        BY <2>3 DEF Dispatch, Extracting, Sending
      <4>2. Cardinality(InStage(working)') = n + 1
        BY <3>3, <4>1, CountMoved
      <4>3. Cardinality(InStage(working)') <= alive
        BY <1>0, <3>3, <4>2
      <4> QED
        BY <3>1, <4>3 DEF AliveInv
    <3> QED
      BY <3>1, <3>2, <3>3
  <2>4. CASE StartExtract(f) \/ Extract(f)
    <3>1. UNCHANGED alive /\ stage[f] \in working
      BY <2>4 DEF StartExtract, Extract, Extracting
    <3>2. PICK place : Goto(f, place)
      BY <2>4 DEF StartExtract, Extract
    <3> QED
      BY <1>2, <3>1, <3>2
  <2>5. CASE QuitWorker(f)
    <3>1. Goto(f, "dropped") /\ alive' = alive - 1 /\ stage[f] \in working /\ "dropped" \notin working
      BY <2>5 DEF QuitWorker, Extracting, Sending
    <3>2. Cardinality(InStage(working)') = n - 1
      BY <3>1, CountMoved
    <3>3. Cardinality(InStage(working)') <= alive'
      BY <1>0, <3>1, <3>2
    <3> QED
      BY <3>3 DEF AliveInv
  <2> QED
    BY <2>1, <2>2, <2>3, <2>4, <2>5
<1>4. CASE \E f \in Files : Receive(f) \/ Merge(f)
  <2>1. PICK f \in Files : Receive(f) \/ Merge(f)
    BY <1>4
  <2>2. UNCHANGED alive
    BY <2>1 DEF Receive, Merge, MergeFile
  <2>3. PICK place \in {"pending", "dropped", "merged"} : Goto(f, place)
    BY <2>1 DEF Receive, Merge, MergeFile
  <2>4. place \notin working
    BY DEF Extracting, Sending
  <2> QED
    BY <1>2, <2>2, <2>3, <2>4
<1>5. CASE Abandon \/ CloseChannels
  <2>1. UNCHANGED <<stage, alive>>
    BY <1>5 DEF Abandon, CloseChannels
  <2> QED
    BY <1>1, <2>1 DEF InStage
<1>6. CASE EndFiles
  <2>1. UNCHANGED alive /\ stage' = [f \in Files |-> IF stage[f] = "pending" THEN "dropped" ELSE stage[f]]
    BY <1>6 DEF EndFiles
  <2>2. InStage(working)' = InStage(working)
    BY <2>1 DEF InStage, Extracting, Sending
  <2> QED
    BY <1>1, <2>1, <2>2
<1>7. CASE EndSource \/ Encode \/ Collect \/ Graphs \/ Return \/ Interrupt \/ UNCHANGED vars
  <2>1. UNCHANGED <<stage, alive>>
    BY <1>7, Frames DEF vars
  <2> QED
    BY <1>1, <2>1 DEF InStage
<1> QED
  BY <1>3, <1>4, <1>5, <1>6, <1>7, NextCases DEF Loop

-----------------------------------------------------------------------------
(* The leases are those of the parsers, the model calls and the builds.    *)

\* The builds of shards are finitely many.
LEMMA ShardsFinite ==
    ASSUME TypedGraphs
    PROVE  /\ Len(shards) \in Nat /\ DOMAIN shards = 1..Len(shards)
           /\ \A i \in DOMAIN shards : shards[i] \in Shards
           /\ IsFiniteSet(Building) /\ Cardinality(Building) \in Nat
<1>1. Len(shards) \in Nat /\ DOMAIN shards = 1..Len(shards) /\ \A i \in DOMAIN shards : shards[i] \in Shards
  BY LenProperties, ElementOfSeq DEF TypedGraphs
<1>2. Building \subseteq 1..Len(shards)
  BY <1>1 DEF Building
<1>3. IsFiniteSet(1..Len(shards))
  BY <1>1, FS_Interval
<1> QED
  BY <1>1, <1>2, <1>3, FS_Subset, FS_CardinalityType

\* One shard goes from a state to another.
LEMMA ShardMoved ==
    ASSUME TypedGraphs, NEW i \in DOMAIN shards,
           NEW state \in {"start", "cpu", "build", "linkable", "linked", "whole", "stopped"}, ShardTo(i, state)
    PROVE  /\ shards' \in Seq(Shards) /\ DOMAIN shards' = DOMAIN shards
           /\ \A j \in DOMAIN shards : /\ shards'[j].rows = shards[j].rows
                                       /\ shards'[j].state = IF j = i THEN state ELSE shards[j].state
           /\ Building' = IF state = "build" THEN Building \cup {i} ELSE Building \ {i}
<1>1. Len(shards) \in Nat /\ DOMAIN shards = 1..Len(shards) /\ \A j \in DOMAIN shards : shards[j] \in Shards
  BY ShardsFinite
<1> DEFINE moved == [shards[i] EXCEPT !.state = state]
<1>2. moved \in Shards /\ moved.rows = shards[i].rows /\ moved.state = state
  BY <1>1 DEF Shards
<1>3. shards' = [shards EXCEPT ![i] = moved]
  BY DEF ShardTo
<1> HIDE DEF moved
<1>4. shards \in [1..Len(shards) -> Shards]
  BY <1>1, LenProperties DEF TypedGraphs
<1>5. shards' \in [1..Len(shards) -> Shards] /\ DOMAIN shards' = DOMAIN shards
      /\ \A j \in DOMAIN shards : shards'[j] = IF j = i THEN moved ELSE shards[j]
  BY <1>1, <1>2, <1>3, <1>4
<1>6. shards' \in Seq(Shards)
  BY <1>1, <1>5, SeqDef
<1>7. \A j \in DOMAIN shards : /\ shards'[j].rows = shards[j].rows
                               /\ shards'[j].state = IF j = i THEN state ELSE shards[j].state
  BY <1>2, <1>5
<1>8. Building' = IF state = "build" THEN Building \cup {i} ELSE Building \ {i}
  BY <1>5, <1>7 DEF Building
<1> QED
  BY <1>5, <1>6, <1>7, <1>8

\* The calls that run are finitely many.
LEMMA CallingFinite ==
    ASSUME TypedCalls
    PROVE  IsFiniteSet(Calling) /\ Cardinality(Calling) \in Nat
<1>1. Calling \subseteq calls
  BY DEF Calling
<1> QED
  BY <1>1, FS_Subset, FS_CardinalityType DEF TypedCalls

\* The calls that run, when one starts, ends, or is taken.
LEMMA CallStarts ==
    ASSUME NEW new, new.cause = "running", new.rows = encoder.rows, calls' = calls \cup {new},
           encoder.at = "cpu", Apart
    PROVE  Calling' = Calling \cup {new} /\ new \notin Calling
<1>1. Calling' = Calling \cup {new}
  BY DEF Calling
<1>2. ASSUME new \in Calling PROVE FALSE
  <2>1. new.rows \in Called /\ new.rows \in AtCpu
    BY <1>2 DEF Called, AtCpu
  <2>2. new.rows # {} /\ new.rows \cap new.rows = {}
    BY <2>1 DEF Apart
  <2> QED
    BY <2>2
<1> QED
  BY <1>1, <1>2

\* A call that ends is one call less.
LEMMA CallEnds ==
    ASSUME TypedCalls, NEW c \in calls, NEW cause \in Causes, c.cause = "running",
           calls' = (calls \ {c}) \cup {[c EXCEPT !.cause = cause]}
    PROVE  Calling' = Calling \ {c} /\ c \in Calling
<1> DEFINE new == [c EXCEPT !.cause = cause]
<1>1. new.cause = cause
  BY DEF TypedCalls, Calls
<1>2. cause # "running"
  BY DEF Causes, NoCause
<1> HIDE DEF new
<1> QED
  BY <1>1, <1>2 DEF Calling, new

\* A result that the loop takes was of no running call.
LEMMA CallTaken ==
    ASSUME NEW c \in calls, c.cause # "running", calls' = calls \ {c}
    PROVE  Calling' = Calling
BY DEF Calling

\* One call more, or one less.
LEMMA CallCosts ==
    ASSUME NEW cost \in Nat, NEW n \in Int
    PROVE  cost * n \in Int /\ cost * (n + 1) = cost * n + cost /\ cost * (n - 1) = cost * n - cost
OBVIOUS

\* Each step takes or gives back the lease of what it starts or ends.
LEMMA StepKeepsLeases ==
    ASSUME TypedPlaces, TypedCalls, TypedGraphs, Bounded, Apart, LeaseInv, [Next]_vars
    PROVE  LeaseInv'
<1> DEFINE parsing == Cardinality(InStage({"parse"}))
           running == Cardinality(Calling)
           builds  == Cardinality(Building)
<1>0. parsing \in Nat /\ running \in Nat /\ builds \in Nat /\ CallCPUs \in Nat /\ leases \in Nat
      /\ leases = parsing + CallCPUs * running + builds
  <2>1. CallCPUs \in Nat /\ leases \in Nat
    BY ConstantsAssumption DEF Bounded
  <2> QED
    BY <2>1, FilesFinite, CallingFinite, ShardsFinite DEF LeaseInv
<1>1. ASSUME UNCHANGED <<calls, shards, leases>>, InStage({"parse"})' = InStage({"parse"})
      PROVE LeaseInv'
  BY <1>1 DEF LeaseInv, Calling, Building
<1>2. ASSUME NEW f \in Files, NEW place, Goto(f, place), place # "parse", stage[f] # "parse",
             UNCHANGED <<calls, shards, leases>>
      PROVE  LeaseInv'
  <2>1. InStage({"parse"})' = InStage({"parse"}) \ {f}
    BY <1>2, Moved
  <2>2. f \notin InStage({"parse"})
    BY <1>2 DEF InStage
  <2> QED
    BY <1>1, <1>2, <2>1, <2>2
<1>3. CASE Extraction
  <2>0. UNCHANGED <<calls, shards>>
    BY <1>3, Frames DEF callVars, graphVars
  <2>1. PICK f \in Files : Take(f) \/ Dispatch(f) \/ StartExtract(f) \/ Extract(f) \/ QuitWorker(f)
    BY <1>3 DEF Extraction
  <2>2. CASE Take(f) \/ Dispatch(f) \/ QuitWorker(f)
    <3>1. UNCHANGED leases /\ stage[f] # "parse"
      BY <2>2 DEF Take, Dispatch, QuitWorker, Sending
    <3>2. PICK place \in {"read", "cpu", "lost", "dropped"} : Goto(f, place)
      BY <2>2 DEF Take, Dispatch, QuitWorker
    <3>3. place # "parse"
      OBVIOUS
    <3> QED
      BY <1>2, <2>0, <3>1, <3>2, <3>3
  <2>3. CASE StartExtract(f)
    <3>1. Goto(f, "parse") /\ stage[f] # "parse" /\ leases' = leases + 1
      BY <2>3 DEF StartExtract
    <3>2. Cardinality(InStage({"parse"})') = parsing + 1
      BY <3>1, CountMoved
    <3>3. Calling' = Calling /\ Building' = Building
      BY <2>0 DEF Calling, Building
    <3>4. LeaseInv' <=> leases' = Cardinality(InStage({"parse"})') + CallCPUs * running + builds
      BY <3>3 DEF LeaseInv
    <3>5. leases' = (parsing + 1) + CallCPUs * running + builds
      BY <1>0, <3>1
    <3> QED
      BY <3>2, <3>4, <3>5
  <2>4. CASE Extract(f)
    <3>1. stage[f] = "parse" /\ leases' = leases - 1
      BY <2>4 DEF Extract
    <3>6. leases' = (parsing - 1) + CallCPUs * running + builds
      BY <1>0, <3>1
    <3>2. PICK place \in {"send", "send failure", "send canceled"} : Goto(f, place)
      BY <2>4 DEF Extract
    <3>3. Cardinality(InStage({"parse"})') = parsing - 1
      <4>1. place \notin {"parse"} /\ stage[f] \in {"parse"}
        BY <3>1
      <4> QED
        BY <3>2, <4>1, CountMoved
    <3>4. Calling' = Calling /\ Building' = Building
      BY <2>0 DEF Calling, Building
    <3>5. LeaseInv' <=> leases' = Cardinality(InStage({"parse"})') + CallCPUs * running + builds
      BY <3>4 DEF LeaseInv
    <3> QED
      BY <3>3, <3>5, <3>6
  <2> QED
    BY <2>1, <2>2, <2>3, <2>4
<1>4. CASE Loop
  <2>0. UNCHANGED <<calls, shards, leases>>
    BY <1>4, Frames DEF callVars, graphVars
  <2>1. CASE \E f \in Files : Receive(f) \/ Merge(f)
    <3>1. PICK f \in Files : Receive(f) \/ Merge(f)
      BY <2>1
    <3>2. stage[f] # "parse"
      BY <3>1 DEF Receive, Merge, Sending
    <3>3. PICK place \in {"pending", "dropped", "merged"} : Goto(f, place)
      BY <3>1 DEF Receive, Merge, MergeFile
    <3>4. place # "parse"
      OBVIOUS
    <3> QED
      BY <1>2, <2>0, <3>2, <3>3, <3>4
  <2>2. CASE Abandon \/ CloseChannels
    <3>1. UNCHANGED stage
      BY <2>2 DEF Abandon, CloseChannels
    <3> QED
      BY <1>1, <2>0, <3>1 DEF InStage
  <2>3. CASE EndFiles
    <3>1. stage' = [f \in Files |-> IF stage[f] = "pending" THEN "dropped" ELSE stage[f]]
      BY <2>3 DEF EndFiles
    <3>2. InStage({"parse"})' = InStage({"parse"})
      BY <3>1 DEF InStage
    <3> QED
      BY <1>1, <2>0, <3>2
  <2> QED
    BY <1>4, <2>1, <2>2, <2>3 DEF Loop
<1>5. CASE Encode
  <2>0. UNCHANGED <<stage, shards>> /\ InStage({"parse"})' = InStage({"parse"}) /\ Building' = Building
    BY <1>5, Frames DEF graphVars, InStage, Building
  <2>1. LeaseInv' <=> leases' = parsing + CallCPUs * Cardinality(Calling') + builds
    BY <2>0 DEF LeaseInv
  <2>2. IsFiniteSet(Calling)
    BY CallingFinite
  <2>3. CASE UNCHANGED <<leases, calls>>
    BY <1>1, <2>0, <2>3
  <2>4. CASE StartCall
    <3> DEFINE new == [rows |-> encoder.rows, cause |-> "running"]
    <3>1. encoder.at = "cpu"
          /\ ((leases' = leases + CallCPUs /\ calls' = calls \cup {new}) \/ UNCHANGED <<leases, calls>>)
      BY <2>4 DEF StartCall
    <3>2. ASSUME leases' = leases + CallCPUs, calls' = calls \cup {new} PROVE LeaseInv'
      <4>1. Calling' = Calling \cup {new} /\ new \notin Calling
        <5>1. new.cause = "running" /\ new.rows = encoder.rows
          OBVIOUS
        <5> HIDE DEF new
        <5> QED
          BY <3>1, <3>2, <5>1, CallStarts
      <4>2. Cardinality(Calling') = running + 1
        BY <2>2, <4>1, FS_AddElement
      <4>3. leases' = parsing + CallCPUs * (running + 1) + builds
        BY <1>0, <3>2, CallCosts
      <4> QED
        BY <2>1, <4>2, <4>3
    <3> QED
      BY <2>3, <3>1, <3>2
  <2>5. CASE \E c \in calls : \E cause \in Causes : EndCall(c, cause)
    <3>1. PICK c \in calls, cause \in Causes : EndCall(c, cause)
      BY <2>5
    <3>2. /\ c.cause = "running" /\ leases' = leases - CallCPUs
          /\ calls' = (calls \ {c}) \cup {[c EXCEPT !.cause = cause]}
      BY <3>1 DEF EndCall
    <3>3. Calling' = Calling \ {c} /\ c \in Calling
      BY <3>2, CallEnds
    <3>4. Cardinality(Calling') = running - 1
      BY <2>2, <3>3, FS_RemoveElement
    <3>5. leases' = parsing + CallCPUs * (running - 1) + builds
      BY <1>0, <3>2, CallCosts
    <3> QED
      BY <2>1, <3>4, <3>5
  <2>6. CASE \E c \in calls : TakeResult(c)
    <3>1. UNCHANGED leases /\ Calling' = Calling
      BY <2>6, CallTaken DEF TakeResult
    <3> QED
      BY <1>0, <2>1, <3>1
  <2>7. CASE TakeBatch \/ EndEncoder
    BY <2>3, <2>7 DEF TakeBatch, EndEncoder
  <2> QED
    BY <1>5, <2>4, <2>5, <2>6, <2>7 DEF Encode
<1>6. CASE Graphs
  <2>0. /\ UNCHANGED <<stage, calls>> /\ InStage({"parse"})' = InStage({"parse"}) /\ Calling' = Calling
    BY <1>6, Frames DEF callVars, InStage, Calling
  <2>1. LeaseInv' <=> leases' = parsing + CallCPUs * running + Cardinality(Building')
    BY <2>0 DEF LeaseInv
  <2>2. IsFiniteSet(Building)
    BY ShardsFinite
  <2>3. ASSUME UNCHANGED leases, Building' = Building PROVE LeaseInv'
    BY <1>0, <2>1, <2>3
  <2>4. CASE TakePlan \/ \E b \in blocks : TakeBlock(b)
    <3>1. UNCHANGED <<leases, shards>>
      BY <2>4 DEF TakePlan, TakeBlock
    <3> QED
      BY <2>3, <3>1 DEF Building
  <2>5. CASE Submit
    <3> DEFINE new == [rows |-> Head(plans), state |-> "start"]
    <3>1. shards' = Append(shards, new) /\ UNCHANGED leases
      BY <2>5 DEF Submit
    <3>2. new.state # "build" /\ new \in Shards
      <4>1. Head(plans) \in RowSets
        BY <2>5, HeadTailProperties DEF TypedGraphs, Submit, HeadReady
      <4> QED
        BY <4>1 DEF Shards
    <3> HIDE DEF new
    <3>3. DOMAIN shards' = DOMAIN shards \cup {Len(shards) + 1} /\ shards'[Len(shards) + 1] = new
          /\ \A i \in DOMAIN shards : shards'[i] = shards[i]
      BY <3>1, <3>2, ShardsFinite, AppendProperties DEF TypedGraphs
    <3>4. Building' = Building
      BY <3>2, <3>3 DEF Building
    <3> QED
      BY <2>3, <3>1, <3>4
  <2>6. CASE \E i \in DOMAIN shards : StartShard(i) \/ LeaseShard(i) \/ BuildShard(i)
    <3>1. PICK i \in DOMAIN shards : StartShard(i) \/ LeaseShard(i) \/ BuildShard(i)
      BY <2>6
    <3>2. CASE LeaseShard(i) /\ leases' = leases + 1 /\ ShardTo(i, "build")
      <4>1. i \notin Building
        BY <3>2 DEF LeaseShard, Building
      <4>2. Building' = Building \cup {i}
        BY <3>2, ShardMoved
      <4>3. Cardinality(Building') = builds + 1
        BY <2>2, <4>1, <4>2, FS_AddElement
      <4> QED
        BY <1>0, <2>1, <3>2, <4>3
    <3>3. CASE UNCHANGED leases /\ shards[i].state # "build"
               /\ \E state \in {"stopped", "linkable", "cpu"} : ShardTo(i, state)
      <4>1. PICK state \in {"stopped", "linkable", "cpu"} : ShardTo(i, state)
        BY <3>3
      <4>2. state # "build"
        OBVIOUS
      <4>3. Building' = Building \ {i} /\ i \notin Building
        BY <3>3, <4>1, <4>2, ShardMoved DEF Building
      <4> QED
        BY <2>3, <3>3, <4>3
    <3>4. CASE BuildShard(i)
      <4>1. i \in Building /\ leases' = leases - 1
        BY <3>4 DEF BuildShard, Building
      <4>2. PICK state \in {"whole", "stopped"} : ShardTo(i, state)
        BY <3>4 DEF BuildShard
      <4>3. state # "build"
        OBVIOUS
      <4>4. Building' = Building \ {i}
        BY <4>2, <4>3, ShardMoved
      <4>5. Cardinality(Building') = builds - 1
        BY <2>2, <4>1, <4>4, FS_RemoveElement
      <4> QED
        BY <1>0, <2>1, <4>1, <4>5
    <3> QED
      BY <3>1, <3>2, <3>3, <3>4 DEF StartShard, LeaseShard
  <2>7. CASE EndStream
    <3> DEFINE Linked(i) == [shards[i] EXCEPT !.state = "linked"]
    <3>1. \/ shards' = shards
          \/ shards' = [i \in DOMAIN shards |-> IF shards[i].state = "linkable" THEN Linked(i) ELSE shards[i]]
      BY <2>7 DEF EndStream
    <3>2. \A i \in DOMAIN shards : Linked(i).state = "linked"
      BY ShardsFinite DEF Shards
    <3> HIDE DEF Linked
    <3>3. Building' = Building
      BY <3>1, <3>2 DEF Building
    <3>4. UNCHANGED leases
      BY <2>7 DEF EndStream
    <3> QED
      BY <2>3, <3>3, <3>4
  <2> QED
    BY <1>6, <2>4, <2>5, <2>6, <2>7 DEF Graphs
<1>7. CASE EndSource \/ Collect \/ Return \/ Interrupt \/ UNCHANGED vars
  <2>1. UNCHANGED <<stage, calls, shards, leases>>
    BY <1>7, Frames DEF vars, callVars, graphVars
  <2> QED
    BY <1>1, <2>1 DEF InStage
<1> QED
  BY <1>3, <1>4, <1>5, <1>6, <1>7, NextCases

-----------------------------------------------------------------------------
(* The batches are apart, and the weight is that of the files read.        *)

\* What is on its way.
OnWay == Sent \cup AtCpu \cup Called

\* The pending batch, and those on their way.
LEMMA BatchesAre == Batches = {batch} \cup OnWay
BY DEF Batches, OnWay, Sent, AtCpu, Called, Calling, EncodedIn, Encoding

\* The rows that are in a batch.
Reading == UNION Batches

\* The files of some batches are those of all their rows.
LEMMA OwnersAre ==
    ASSUME NEW sets
    PROVE  OwnedBy(sets) = OwnersOf(UNION sets)
BY DEF OwnedBy, OwnersOf

\* Rows keep their owners, and the owners are merged.
LEMMA OwnersMerged ==
    ASSUME TypedPlaces, TypedLoop, MergedInv, NEW set, set \subseteq 1..Len(rows)
    PROVE  /\ OwnersOf(set) \subseteq Files /\ \A f \in OwnersOf(set) : stage[f] = "merged" /\ f < next
<1>0. LastFile \in Nat /\ Files = 1..LastFile /\ next \in 1..(LastFile + 1)
  BY Constants DEF TypedLoop, LastFile
<1>1. next - 1 \in 0..LastFile
  BY <1>0
<1>2. rows = Upto[next - 1] /\ Len(rows) = Through(next - 1)
  BY DEF MergedInv, Through
<1>3. \A n \in 1..Len(rows) : rows[n][1] \in 1..(next - 1)
  BY <1>1, <1>2, UptoGrows
<1>4. \A f \in OwnersOf(set) : f \in 1..(next - 1)
  BY <1>3 DEF OwnersOf
<1>5. \A f \in 1..(next - 1) : f \in Files /\ f < next
  BY <1>0
<1> QED
  BY <1>4, <1>5 DEF MergedInv

\* The batches hold rows that files got.
LEMMA ApartRows ==
    ASSUME Apart
    PROVE  \A s \in Batches : s \subseteq 1..Len(rows)
BY BatchesAre DEF Apart, OnWay

\* No batch that is on its way is another one.
LEMMA OthersThan ==
    ASSUME Apart, NEW set \in OnWay
    PROVE  /\ set # {} /\ set \subseteq 1..Len(rows) /\ set \cap batch = {} /\ batch # set
           /\ \A s \in Batches \ {set} : s \cap set = {}
<1>1. set # {} /\ set \subseteq 1..Len(rows) /\ set \cap batch = {}
  BY DEF Apart, OnWay
<1>2. \A s \in OnWay \ {set} : s \cap set = {}
  <2>1. \A s, t \in Sent : s # t => s \cap t = {}
    BY DEF Sent, EncodedIn, Apart, Parted
  <2>2. \A s, t \in Called : s # t => s \cap t = {}
    BY DEF Called, Apart
  <2>3. \A s, t \in AtCpu : s = t
    BY DEF AtCpu
  <2> QED
    BY <2>1, <2>2, <2>3 DEF Apart, OnWay
<1>3. batch # set
  BY <1>1
<1>4. \A s \in Batches \ {set} : s = batch \/ s \in OnWay \ {set}
  BY BatchesAre
<1>5. ASSUME NEW s \in Batches \ {set} PROVE s \cap set = {}
  <2>1. CASE s = batch
    BY <1>1, <2>1
  <2>2. CASE s \in OnWay \ {set}
    BY <1>2, <2>2
  <2> QED
    BY <1>4, <2>1, <2>2
<1> QED
  BY <1>1, <1>3, <1>5

\* The rows that batches hold.
LEMMA ReadingIs == Reading = batch \cup UNION OnWay
BY BatchesAre DEF Reading

\* What the other batches read.
LEMMA ReadingWithout ==
    ASSUME Apart, NEW set \in OnWay
    PROVE  set \subseteq Reading /\ UNION (Batches \ {set}) = Reading \ set
<1>1. set \in Batches
  BY BatchesAre
<1>2. \A s \in Batches \ {set} : s \cap set = {}
  BY OthersThan
<1>3. set \subseteq Reading
  BY <1>1 DEF Reading
<1>4. ASSUME NEW n \in UNION (Batches \ {set}) PROVE n \in Reading \ set
  <2>1. PICK s \in Batches \ {set} : n \in s
    BY <1>4
  <2> QED
    BY <1>2, <2>1 DEF Reading
<1>5. ASSUME NEW n \in Reading \ set PROVE n \in UNION (Batches \ {set})
  <2>1. PICK s \in Batches : n \in s
    BY <1>5 DEF Reading
  <2> QED
    BY <1>5, <2>1
<1> QED
  BY <1>3, <1>4, <1>5

\* They are rows that files got.
LEMMA ReadingFacts ==
    ASSUME Apart
    PROVE  Reading \subseteq 1..Len(rows)
BY ApartRows DEF Reading

\* Files leave the places that hold weight, and rows are given back with the files
\* that no other batch reads.
LEMMA WeightGoesDown ==
    ASSUME TypedPlaces, TypedLoop, MergedInv, Apart, WeightInv, rows' = rows,
           NEW gone, gone \subseteq InStage(Held), InStage(Held)' = InStage(Held) \ gone,
           NEW set, set \subseteq Reading, Reading' = Reading \ set,
           used' = used - Cardinality(gone) - Cardinality(OwnersOf(set) \ OwnersOf(Reading \ set))
    PROVE  WeightInv'
<1> DEFINE held  == InStage(Held)
           left  == OwnersOf(Reading \ set)
           given == OwnersOf(set) \ left
           kept  == (held \ gone) \cup left
<1>1. IsFiniteSet(Files)
  BY FilesFinite
<1>2. OwnersOf(Reading) \subseteq Files /\ \A f \in OwnersOf(Reading) : stage[f] = "merged"
  BY ReadingFacts, OwnersMerged
<1>3. OwnersOf(Reading) = left \cup OwnersOf(set)
  BY DEF OwnersOf
<1>4. held \subseteq Files /\ \A f \in held : stage[f] # "merged"
  BY DEF InStage, Held, Extracting, Sending
<1>5. OwnersOf(Reading)' = left
  BY DEF OwnersOf
<1>6. WeightInv <=> used = Cardinality(held \cup OwnersOf(Reading))
  BY OwnersAre DEF WeightInv, Reading
<1>7. WeightInv' <=> used' = Cardinality(kept)
  <2>2. OwnedBy(Batches)' = OwnersOf(Reading)'
    BY DEF OwnedBy, OwnersOf, Reading
  <2>3. WeightInv' <=> used' = Cardinality(InStage(Held)' \cup OwnedBy(Batches)')
    BY DEF WeightInv
  <2> QED
    BY <1>5, <2>2, <2>3
<1> HIDE DEF held, left
<1>8. /\ gone \cap given = {} /\ kept \cap (gone \cup given) = {}
      /\ held \cup OwnersOf(Reading) = kept \cup (gone \cup given)
  <2>1. gone \subseteq held
    BY DEF held
  <2>2. \A f \in left \cup OwnersOf(set) : f \notin held
    BY <1>2, <1>3, <1>4
  <2>3. gone \cap given = {}
    BY <2>1, <2>2
  <2>4. kept \cap (gone \cup given) = {}
    BY <2>1, <2>2
  <2>5. held \cup (left \cup OwnersOf(set)) = kept \cup (gone \cup given)
    BY <2>1
  <2> QED
    BY <1>3, <2>3, <2>4, <2>5
<1>9. IsFiniteSet(gone) /\ IsFiniteSet(given) /\ IsFiniteSet(kept)
  <2>1. gone \subseteq Files /\ given \subseteq Files /\ kept \subseteq Files
    BY <1>2, <1>3, <1>4 DEF held
  <2> HIDE DEF kept, given
  <2> QED
    BY <1>1, <2>1, FS_Subset
<1> HIDE DEF kept, given
<1>10. /\ Cardinality(gone) \in Nat /\ Cardinality(given) \in Nat /\ Cardinality(kept) \in Nat
       /\ Cardinality(gone \cup given) = Cardinality(gone) + Cardinality(given) /\ IsFiniteSet(gone \cup given)
  <2>1. Cardinality(gone \cap given) = 0
    BY <1>8, FS_EmptySet
  <2>2. Cardinality(gone \cup given) = Cardinality(gone) + Cardinality(given) - Cardinality(gone \cap given)
        /\ IsFiniteSet(gone \cup given)
    BY <1>9, FS_Union
  <2>3. Cardinality(gone) \in Nat /\ Cardinality(given) \in Nat /\ Cardinality(kept) \in Nat
    BY <1>9, FS_CardinalityType
  <2> QED
    BY <2>1, <2>2, <2>3
<1>11. Cardinality(kept \cup (gone \cup given)) = Cardinality(kept) + Cardinality(gone) + Cardinality(given)
  <2>1. Cardinality(kept \cap (gone \cup given)) = 0
    BY <1>8, FS_EmptySet
  <2>2. Cardinality(kept \cup (gone \cup given))
           = Cardinality(kept) + Cardinality(gone \cup given) - Cardinality(kept \cap (gone \cup given))
    BY <1>9, <1>10, FS_Union
  <2> QED
    BY <1>10, <2>1, <2>2
<1>12. used = Cardinality(kept) + Cardinality(gone) + Cardinality(given)
  BY <1>6, <1>8, <1>11
<1>13. used' = used - Cardinality(gone) - Cardinality(given)
  BY DEF given, left
<1>14. used' = Cardinality(kept)
  BY <1>10, <1>12, <1>13
<1> QED
  BY <1>7, <1>14

\* What keeps the files in work and the rows of the batches keeps the weight.
LEMMA SameWeight ==
    ASSUME TypedPlaces, TypedLoop, MergedInv, Apart, WeightInv, rows' = rows,
           InStage(Held)' = InStage(Held), Reading' = Reading, used' = used
    PROVE  WeightInv'
<1>1. OwnersOf({}) = {}
  BY DEF OwnersOf
<1>2. Cardinality({}) = 0 /\ OwnersOf({}) \ OwnersOf(Reading \ {}) = {}
  BY <1>1, FS_EmptySet
<1>3. Cardinality(InStage(Held) \cup OwnedBy(Batches)) \in Nat
  <2>1. OwnedBy(Batches) \subseteq Files /\ InStage(Held) \subseteq Files
    BY OwnersAre, ReadingFacts, OwnersMerged DEF Reading, InStage
  <2>2. IsFiniteSet(InStage(Held) \cup OwnedBy(Batches))
    BY <2>1, FilesFinite, FS_Subset
  <2> QED
    BY <2>2, FS_CardinalityType
<1>4. used' = used - 0 - 0
  BY <1>3 DEF WeightInv
<1>5. {} \subseteq InStage(Held) /\ InStage(Held)' = InStage(Held) \ {} /\ {} \subseteq Reading
      /\ Reading' = Reading \ {}
  OBVIOUS
<1> QED
  BY <1>2, <1>4, <1>5, WeightGoesDown

\* What the batches are after a step that moves them.
LEMMA OnWayMoves ==
    /\ OnWay' = Sent' \cup AtCpu' \cup Called'
    /\ Reading' = batch' \cup UNION OnWay'
<1>1. OnWay' = Sent' \cup AtCpu' \cup Called'
  BY DEF OnWay
<1>2. Batches' = {batch'} \cup OnWay'
  BY DEF Batches, OnWay, Sent, AtCpu, Called, Calling, EncodedIn, Encoding
<1>3. Reading' = UNION Batches'
  BY DEF Reading
<1> QED
  BY <1>1, <1>2, <1>3

\* What moves no batch keeps them apart.
LEMMA SameBatches ==
    ASSUME Apart, UNCHANGED <<rows, batch>>, Sent' = Sent, Parted(todo)', AtCpu' = AtCpu, Calling' = Calling
    PROVE  Apart' /\ Reading' = Reading
<1>1. Called' = Called
  BY DEF Called
<1> HIDE DEF Called, Sent, AtCpu, Calling
<1>2. Reading' = Reading
  BY <1>1, OnWayMoves, ReadingIs DEF OnWay
<1>3. Apart'
  BY <1>1 DEF Apart
<1> QED
  BY <1>2, <1>3

-----------------------------------------------------------------------------
(* The steps of the stages.                                                *)

\* What the steps keep together: the batches apart, and the weight.
Kept == Apart' /\ WeightInv'

\* Files come to a place, or leave those that hold weight.
LEMMA FilesGoBack ==
    ASSUME TypedPlaces, TypedLoop, MergedInv, Apart, WeightInv, rows' = rows, Reading' = Reading,
           NEW gone, gone \subseteq InStage(Held), InStage(Held)' = InStage(Held) \ gone,
           used' = used - Cardinality(gone)
    PROVE  WeightInv'
<1>1. OwnersOf({}) \ OwnersOf(Reading \ {}) = {}
  BY DEF OwnersOf
<1>2. Cardinality({}) = 0
  BY FS_EmptySet
<1>3. Cardinality(gone) \in Nat /\ used \in Nat
  <2>1. OwnedBy(Batches) \subseteq Files /\ InStage(Held) \subseteq Files
    BY OwnersAre, ReadingFacts, OwnersMerged DEF Reading, InStage
  <2>2. IsFiniteSet(InStage(Held) \cup OwnedBy(Batches)) /\ IsFiniteSet(gone)
    BY <2>1, FilesFinite, FS_Subset
  <2> QED
    BY <2>2, FS_CardinalityType DEF WeightInv
<1>4. used' = used - Cardinality(gone) - 0
  BY <1>3
<1>5. {} \subseteq Reading /\ Reading' = Reading \ {}
  OBVIOUS
<1> QED
  BY <1>1, <1>2, <1>4, <1>5, WeightGoesDown

\* One file goes back.
LEMMA FileGoesBack ==
    ASSUME TypedPlaces, TypedLoop, MergedInv, Apart, WeightInv, rows' = rows, Reading' = Reading,
           NEW f \in Files, NEW place, Goto(f, place), place \notin Held, stage[f] \in Held, used' = used - 1
    PROVE  WeightInv'
<1>1. InStage(Held)' = InStage(Held) \ {f} /\ {f} \subseteq InStage(Held)
  BY Moved DEF InStage
<1>2. Cardinality({f}) = 1
  BY FS_Singleton
<1> QED
  BY <1>1, <1>2, FilesGoBack

\* A file that moves among the places in work keeps its weight.
LEMMA FileStays ==
    ASSUME TypedPlaces, TypedLoop, MergedInv, Apart, WeightInv, rows' = rows, Reading' = Reading,
           NEW f \in Files, NEW place, Goto(f, place), place \in Held, stage[f] \in Held, UNCHANGED used
    PROVE  WeightInv'
<1>1. InStage(Held)' = InStage(Held) \cup {f} /\ f \in InStage(Held)
  BY Moved DEF InStage
<1>2. InStage(Held)' = InStage(Held)
  BY <1>1
<1> QED
  BY <1>2, SameWeight

\* Rows go back with the files that no other batch reads.
LEMMA RowsGoBack ==
    ASSUME TypedPlaces, TypedLoop, MergedInv, Apart, WeightInv, UNCHANGED <<rows, stage>>,
           NEW set, set \subseteq Reading, Reading' = Reading \ set,
           used' = used - Cardinality(OwnersOf(set) \ OwnersOf(Reading \ set))
    PROVE  WeightInv'
<1>1. InStage(Held)' = InStage(Held) \ {} /\ {} \subseteq InStage(Held)
  BY DEF InStage
<1>2. Cardinality({}) = 0
  BY FS_EmptySet
<1>3. used \in Nat
  <2>1. OwnedBy(Batches) \subseteq Files /\ InStage(Held) \subseteq Files
    BY OwnersAre, ReadingFacts, OwnersMerged DEF Reading, InStage
  <2>2. IsFiniteSet(InStage(Held) \cup OwnedBy(Batches))
    BY <2>1, FilesFinite, FS_Subset
  <2> QED
    BY <2>2, FS_CardinalityType DEF WeightInv
<1>4. used' = used - 0 - Cardinality(OwnersOf(set) \ OwnersOf(Reading \ set))
  BY <1>3
<1> QED
  BY <1>1, <1>2, <1>4, WeightGoesDown

\* A file that is dropped gives its weight back, one that is taken takes it.
LEMMA ExtractionKeepsWeight ==
    ASSUME TypedPlaces, TypedLoop, MergedInv, Apart, WeightInv, Extraction
    PROVE  Kept
<1>0. UNCHANGED <<rows, batch, todo, encoder, calls>>
  BY Frames DEF loopVars, callVars
<1>1. Sent' = Sent /\ AtCpu' = AtCpu /\ Calling' = Calling /\ Parted(todo)'
  BY <1>0 DEF Sent, AtCpu, Calling, EncodedIn, Encoding, Apart, Parted
<1>2. Apart' /\ Reading' = Reading
  BY <1>0, <1>1, SameBatches
<1>3. PICK f \in Files : Take(f) \/ Dispatch(f) \/ StartExtract(f) \/ Extract(f) \/ QuitWorker(f)
  BY DEF Extraction
<1>4. ASSUME NEW place, Goto(f, place), place \in Held, stage[f] \in Held, UNCHANGED used
      PROVE WeightInv'
  BY <1>0, <1>2, <1>4, FileStays
<1>5. ASSUME NEW place, Goto(f, place), place \notin Held, stage[f] \in Held, used' = used - 1
      PROVE WeightInv'
  BY <1>0, <1>2, <1>5, FileGoesBack
<1>6. CASE Take(f)
  <2>1. Goto(f, "read") /\ stage[f] = "unread" /\ used' = used + 1 /\ "read" \in Held
    BY <1>6 DEF Take, Held
  <2>2. InStage(Held)' = InStage(Held) \cup {f} /\ f \notin InStage(Held)
    BY <2>1, Moved DEF InStage, Held, Extracting, Sending
  <2>3. OwnedBy(Batches) = OwnersOf(Reading) /\ OwnedBy(Batches)' = OwnersOf(Reading)'
    BY DEF OwnedBy, OwnersOf, Reading
  <2>4. OwnersOf(Reading)' = OwnersOf(Reading)
    BY <1>0, <1>2 DEF OwnersOf
  <2>5. f \notin OwnersOf(Reading) /\ OwnersOf(Reading) \subseteq Files
    BY <2>1, ReadingFacts, OwnersMerged
  <2> DEFINE S == InStage(Held) \cup OwnersOf(Reading)
  <2>6. IsFiniteSet(S) /\ f \notin S
    <3>1. S \subseteq Files
      BY <2>5 DEF InStage
    <3> QED
      BY <2>2, <2>5, <3>1, FilesFinite, FS_Subset
  <2>7. Cardinality(S \cup {f}) = Cardinality(S) + 1
    BY <2>6, FS_AddElement
  <2>8. InStage(Held)' \cup OwnedBy(Batches)' = S \cup {f}
    BY <2>2, <2>3, <2>4
  <2>9. used = Cardinality(S)
    BY <2>3 DEF WeightInv
  <2>10. WeightInv' <=> used' = Cardinality(InStage(Held)' \cup OwnedBy(Batches)')
    BY DEF WeightInv
  <2>11. WeightInv'
    BY <2>1, <2>7, <2>8, <2>9, <2>10
  <2> QED
    BY <1>2, <2>11 DEF Kept
<1>7. CASE Dispatch(f)
  <2>1. stage[f] = "read"
        /\ ((Goto(f, "cpu") /\ UNCHANGED used) \/ (Goto(f, "lost") /\ used' = used - 1))
    BY <1>7 DEF Dispatch
  <2>2. "read" \in Held /\ "cpu" \in Held /\ "lost" \notin Held
    BY DEF Held, Extracting, Sending
  <2> QED
    BY <1>2, <1>4, <1>5, <2>1, <2>2 DEF Kept
<1>8. CASE StartExtract(f)
  <2>1. stage[f] = "cpu" /\ Goto(f, "parse") /\ UNCHANGED used
    BY <1>8 DEF StartExtract
  <2>2. "cpu" \in Held /\ "parse" \in Held
    BY DEF Held, Extracting, Sending
  <2> QED
    BY <1>2, <1>4, <2>1, <2>2 DEF Kept
<1>9. CASE Extract(f)
  <2>1. stage[f] = "parse" /\ UNCHANGED used
        /\ (Goto(f, "send") \/ Goto(f, "send failure") \/ Goto(f, "send canceled"))
    BY <1>9 DEF Extract
  <2>2. "parse" \in Held /\ "send" \in Held /\ "send failure" \in Held /\ "send canceled" \in Held
    BY DEF Held, Extracting, Sending
  <2> QED
    BY <1>2, <1>4, <2>1, <2>2 DEF Kept
<1>10. CASE QuitWorker(f)
  <2>1. stage[f] \in Held /\ Goto(f, "dropped") /\ used' = used - 1
    BY <1>10 DEF QuitWorker, Held, Extracting
  <2>2. "dropped" \notin Held
    BY DEF Held, Extracting, Sending
  <2> QED
    BY <1>2, <1>5, <2>1, <2>2 DEF Kept
<1> QED
  BY <1>3, <1>6, <1>7, <1>8, <1>9, <1>10

\* Shard plans that go last.
LEMMA EncodingFirst ==
    ASSUME NEW M, NEW a \in Seq(M), NEW b \in Seq(M), Encoding(b) = {}
    PROVE  EncodedIn(a \o b) = EncodedIn(a) /\ (Parted(a) => Parted(a \o b))
<1> DEFINE c == a \o b
           n == Len(a)
<1>1. /\ n \in Nat /\ Len(b) \in Nat /\ DOMAIN a = 1..n /\ DOMAIN b = 1..Len(b) /\ DOMAIN c = 1..(n + Len(b))
      /\ \A i \in 1..(n + Len(b)) : c[i] = IF i <= n THEN a[i] ELSE b[i - n]
  BY LenProperties, ConcatProperties
<1> HIDE DEF c, n
<1>2. ASSUME NEW i \in Encoding(c) PROVE i \in Encoding(a) /\ c[i] = a[i]
  <2>1. i \in 1..(n + Len(b)) /\ c[i].to = "encoder"
    BY <1>1 DEF Encoding
  <2>2. CASE i <= n
    BY <1>1, <2>1, <2>2 DEF Encoding
  <2>3. CASE ~(i <= n)
    <3>1. i - n \in DOMAIN b /\ c[i] = b[i - n]
      BY <1>1, <2>1, <2>3
    <3>2. i - n \in Encoding(b)
      BY <2>1, <3>1 DEF Encoding
    <3> QED
      BY <3>2
  <2> QED
    BY <2>2, <2>3
<1>3. ASSUME NEW i \in Encoding(a) PROVE i \in Encoding(c)
  <2>1. i \in 1..n /\ a[i].to = "encoder"
    BY <1>1 DEF Encoding
  <2>2. i \in 1..(n + Len(b)) /\ i <= n
    BY <1>1, <2>1
  <2> QED
    BY <1>1, <2>1, <2>2 DEF Encoding
<1>4. Encoding(c) = Encoding(a) /\ \A i \in Encoding(a) : c[i] = a[i]
  BY <1>2, <1>3
<1> QED
  BY <1>4 DEF c, EncodedIn, Parted

\* One batch as all there is to send.
LEMMA Alone ==
    ASSUME NEW set \in RowSets
    PROVE  /\ <<Message("encoder", set)>> \in Seq(Messages)
           /\ EncodedIn(<<Message("encoder", set)>>) = {set} /\ Parted(<<Message("encoder", set)>>)
<1> DEFINE m == Message("encoder", set)
<1>1. m.to = "encoder" /\ m.rows = set
  BY DEF Message
<1>2. m \in Messages
  <2> HIDE DEF RowSets
  <2> QED
    BY DEF Message, Messages
<1> HIDE DEF m
<1>3. DOMAIN <<m>> = {1} /\ <<m>>[1] = m /\ <<m>> \in Seq(Messages)
  BY <1>2
<1>4. Encoding(<<m>>) = {1}
  BY <1>1, <1>3 DEF Encoding
<1>5. EncodedIn(<<m>>) = {set} /\ Parted(<<m>>)
  BY <1>1, <1>3, <1>4 DEF EncodedIn, Parted
<1> QED
  BY <1>3, <1>5 DEF m

\* What a file becomes when its turn comes.
LEMMA MergeFacts ==
    ASSUME TypedPlaces, TypedLoop, MergedInv, Apart, NEW f \in Files, Merge(f)
    PROVE  LET start  == Len(rows)
               n      == Len(Windows[f])
               sorted == Sorted(start, f)
           IN  /\ start \in Nat /\ n \in Nat /\ start + n \in 0..Len(AllRows)
               /\ DOMAIN Windows[f] = 1..n
               /\ SortedUpTo(sorted, start, f, n) /\ batch' = sorted.batch
               /\ Len(rows') = start + n
               /\ \A i \in 1..(start + n) : rows'[i] = IF i <= start THEN rows[i] ELSE <<f, i - start>>
               /\ sorted.out \in Seq(Messages)
               /\ todo' \in Seq(Messages) /\ Sent' = EncodedIn(sorted.out) /\ Parted(todo)'
<1> DEFINE start  == Len(rows)
           n      == Len(Windows[f])
           sorted == Sorted(start, f)
<1>1. /\ f \in 1..LastFile /\ n \in Nat /\ DOMAIN Windows[f] = 1..n /\ f - 1 \in 0..LastFile /\ f \in 0..LastFile
      /\ RowsOf(f) \in Seq(Files \X Nat) /\ Len(RowsOf(f)) = n
      /\ \A w \in 1..n : RowsOf(f)[w] = <<f, w>>
  <2>1. LastFile \in Nat /\ f \in 1..LastFile
    BY FileCount
  <2>2. f - 1 \in 0..LastFile /\ f \in 0..LastFile
    BY <2>1
  <2>3. n \in Nat /\ DOMAIN Windows[f] = 1..n /\ RowsOf(f) \in Seq(Files \X Nat) /\ Len(RowsOf(f)) = n
        /\ \A w \in 1..n : RowsOf(f)[w] = <<f, w>>
    <3> HIDE DEF start, sorted
    <3> QED
      BY Constants
  <2> QED
    BY <2>1, <2>2, <2>3
<1>2. next = f /\ rows' = rows \o RowsOf(f) /\ batch' = sorted.batch
  BY DEF Merge, MergeFile, RowsOf
<1>3. rows = Upto[f - 1] /\ rows \in Seq(Files \X Nat) /\ start = Through(f - 1) /\ start \in Nat
  BY <1>1, <1>2, UptoSteps DEF MergedInv, Through
<1>4. Through(f) = start + n /\ start + n \in 0..Len(AllRows) /\ DOMAIN AllRows = 1..Len(AllRows)
      /\ Len(AllRows) \in Nat
  BY <1>1, <1>3, UptoSteps, AllRowsFacts
<1>5. SortedUpTo(sorted, start, f, n)
  BY <1>1, <1>3, SortedFacts DEF Apart, TypedLoop
<1>6. Len(rows') = start + n
      /\ \A i \in 1..(start + n) : rows'[i] = IF i <= start THEN rows[i] ELSE <<f, i - start>>
  <2>0. ASSUME NEW R, NEW s \in Seq(R), NEW t \in Seq(R)
        PROVE  /\ Len(s \o t) = Len(s) + Len(t)
               /\ \A i \in 1..(Len(s) + Len(t)) : (s \o t)[i] = IF i <= Len(s) THEN s[i] ELSE t[i - Len(s)]
    BY ConcatProperties
  <2>1. Len(rows') = start + n
        /\ \A i \in 1..(start + n) : rows'[i] = IF i <= start THEN rows[i] ELSE RowsOf(f)[i - start]
    <3> DEFINE w == RowsOf(f)
    <3>1. rows \in Seq(Files \X Nat) /\ w \in Seq(Files \X Nat) /\ Len(w) = n /\ rows' = rows \o w
      BY <1>1, <1>2, <1>3
    <3> HIDE DEF w
    <3>2. /\ Len(rows \o w) = Len(rows) + Len(w)
          /\ \A i \in 1..(Len(rows) + Len(w)) : (rows \o w)[i] = IF i <= Len(rows) THEN rows[i] ELSE w[i - Len(rows)]
      BY <2>0, <3>1
    <3>3. Len(rows') = start + n
          /\ \A i \in 1..(start + n) : rows'[i] = IF i <= start THEN rows[i] ELSE w[i - start]
      BY <3>1, <3>2
    <3> QED
      BY <3>3 DEF w
  <2>2. \A i \in 1..(start + n) : ~(i <= start) => i - start \in 1..n
    BY <1>1, <1>3
  <2> QED
    BY <1>1, <2>1, <2>2
<1> HIDE DEF start, n, sorted
<1>7. sorted.out \in Seq(Messages)
  <2> DEFINE S == [to : {"encoder", "collector"}, rows : SUBSET (1..(start + n))]
  <2>1. sorted.out \in Seq(S)
    BY <1>5 DEF SortedUpTo
  <2>2. S \subseteq Messages
    <3>1. 1..(start + n) \subseteq DOMAIN AllRows
      BY <1>4
    <3> QED
      BY <3>1 DEF Messages, RowSets
  <2> HIDE DEF S
  <2> QED
    BY <2>1, <2>2, SeqWider
<1> DEFINE of    == [w \in DOMAIN Windows[f] |-> <<f, w>>]
           first == IF of = <<>> THEN <<>> ELSE ToGraphs(Planned(f).plans)
<1>8. first \in Seq(Messages) /\ Encoding(first) = {}
  <2>1. Planned(f).plans \in Seq(RowSets)
    BY PlannedTyped DEF TypedLoop
  <2>2. ToGraphs(Planned(f).plans) \in Seq(Messages) /\ Encoding(ToGraphs(Planned(f).plans)) = {}
    BY <2>1, ToGraphsFacts
  <2>3. <<>> \in Seq(Messages) /\ Encoding(<<>>) = {}
    BY DEF Encoding
  <2> QED
    BY <2>2, <2>3
<1>9. todo' = first \o sorted.out
  BY DEF Merge, MergeFile, sorted, start
<1> HIDE DEF first
<1>10. EncodedIn(first \o sorted.out) = EncodedIn(sorted.out) /\ Parted(first \o sorted.out)
  BY <1>5, <1>7, <1>8, EncodingConcat DEF SortedUpTo
<1>11. todo' \in Seq(Messages)
  BY <1>7, <1>8, <1>9, ConcatProperties
<1>12. Sent' = EncodedIn(todo') /\ (Parted(todo)' <=> Parted(todo'))
  BY DEF Sent, EncodedIn, Encoding, Parted
<1> QED
  BY <1>1, <1>2, <1>3, <1>4, <1>5, <1>6, <1>7, <1>9, <1>10, <1>11, <1>12 DEF start, n, sorted

\* The rows of the new file are in no batch, so the batches that it fills are apart.
LEMMA MergeKeepsApart ==
    ASSUME TypedPlaces, TypedLoop, MergedInv, Apart, NEW f \in Files, Merge(f)
    PROVE  /\ Apart'
           /\ Reading' = Reading \cup ModelRows(Len(rows), f, Len(Windows[f]))
<1> DEFINE start  == Len(rows)
           n      == Len(Windows[f])
           sorted == Sorted(start, f)
           model  == ModelRows(start, f, n)
           others == AtCpu \cup Called
<1>1. /\ start \in Nat /\ n \in Nat
      /\ SortedUpTo(sorted, start, f, n) /\ batch' = sorted.batch /\ Len(rows') = start + n
      /\ Sent' = EncodedIn(sorted.out) /\ Parted(todo)'
  BY MergeFacts
<1>2. Sent = {}
  <2>1. todo = <<>>
    BY DEF Merge
  <2> QED
    BY <2>1, NothingToSend DEF Sent
<1>3. UNCHANGED <<encoder, calls>>
  BY DEF Merge, MergeFile, callVars
<1>4. AtCpu' = AtCpu /\ Called' = Called /\ Calling' = Calling
  BY <1>3 DEF AtCpu, Called, Calling
<1>5. /\ batch' \subseteq 1..(start + n) /\ (UNION Sent') \cup batch' = batch \cup model
      /\ \A s \in Sent' : s # {} /\ s \cap batch' = {} /\ s \subseteq 1..(start + n)
  <2>1. /\ sorted.batch \subseteq 1..(start + n)
        /\ (UNION EncodedIn(sorted.out)) \cup sorted.batch = batch \cup model
        /\ \A s \in EncodedIn(sorted.out) : s # {} /\ s \cap sorted.batch = {}
        /\ sorted.out \in Seq([to : {"encoder", "collector"}, rows : SUBSET (1..(start + n))])
    BY <1>1 DEF SortedUpTo
  <2> DEFINE S == [to : {"encoder", "collector"}, rows : SUBSET (1..(start + n))]
  <2>2. ASSUME NEW i \in DOMAIN sorted.out PROVE sorted.out[i].rows \subseteq 1..(start + n)
    <3>0. sorted.out \in Seq(S)
      BY <2>1
    <3>1. sorted.out[i] \in S
      <4> HIDE DEF S, sorted
      <4> QED
        BY <3>0, ElementOfSeq, LenProperties
    <3> QED
      BY <3>1
  <2>3. \A s \in EncodedIn(sorted.out) : s \subseteq 1..(start + n)
    BY <2>2 DEF EncodedIn, Encoding
  <2> HIDE DEF sorted, model
  <2> QED
    BY <1>1, <2>1, <2>3
<1>6. \A r \in model : r > start /\ r \in Nat
  BY <1>1 DEF ModelRows
<1>7. \A t \in others : t # {} /\ t \subseteq 1..start /\ t \cap batch = {}
  BY DEF Apart
<1> HIDE DEF sorted, model, n
<1>8. \A t \in others : t \subseteq 1..(start + n) /\ t \cap (batch \cup model) = {}
  <2>1. 1..start \subseteq 1..(start + n) /\ \A r \in 1..start : r \notin model
    BY <1>1, <1>6
  <2> QED
    BY <1>7, <2>1
<1> HIDE DEF start
<1>9. \A t \in others : t \cap batch' = {} /\ \A s \in Sent' : s \cap t = {}
  <2>1. \A t \in others : t \cap ((UNION Sent') \cup batch') = {}
    BY <1>5, <1>8
  <2> QED
    BY <2>1
<1>10. /\ \A s \in AtCpu : \A t \in Called : s \cap t = {}
       /\ \A c, d \in Calling : c # d => c.rows \cap d.rows = {}
  BY DEF Apart
<1> HIDE DEF AtCpu, Called, Calling
<1>11. Apart'
  BY <1>1, <1>4, <1>5, <1>7, <1>8, <1>9, <1>10 DEF Apart
<1>12. Reading' = Reading \cup model
  <2>1. Reading' = batch' \cup UNION (Sent' \cup AtCpu \cup Called)
    BY <1>4, OnWayMoves
  <2>2. Reading = batch \cup UNION (AtCpu \cup Called)
    BY <1>2, ReadingIs DEF OnWay
  <2>3. UNION (Sent' \cup AtCpu \cup Called) = (UNION Sent') \cup UNION others
    OBVIOUS
  <2>4. Reading' = ((UNION Sent') \cup batch') \cup UNION others
    BY <2>1, <2>3
  <2>5. Reading = batch \cup UNION others
    BY <2>2
  <2> QED
    BY <1>5, <2>4, <2>5
<1> QED
  BY <1>11, <1>12 DEF model, start, n

\* A file with a window for the model keeps its weight, in a batch; a file of copies gives it back.
LEMMA MergeKeepsWeight ==
    ASSUME TypedPlaces, TypedLoop, MergedInv, Apart, WeightInv, NEW f \in Files, Merge(f)
    PROVE  Kept
<1> DEFINE start == Len(rows)
           n     == Len(Windows[f])
           model == ModelRows(start, f, n)
           S     == InStage(Held) \cup OwnersOf(Reading)
           none  == \A w \in DOMAIN Windows[f] : Windows[f][w] # "model"
<1>1. Apart' /\ Reading' = Reading \cup model
  BY MergeKeepsApart
<1>2. /\ start \in Nat /\ n \in Nat /\ DOMAIN Windows[f] = 1..n
      /\ \A i \in 1..(start + n) : rows'[i] = IF i <= start THEN rows[i] ELSE <<f, i - start>>
  BY MergeFacts
<1>3. stage[f] = "pending" /\ Goto(f, "merged") /\ used' = IF none THEN used - 1 ELSE used
  BY DEF Merge, MergeFile
<1>4. Reading \subseteq 1..start /\ \A r \in Reading : rows'[r] = rows[r]
  <2>1. Reading \subseteq 1..start
    BY ReadingFacts
  <2>2. \A r \in 1..start : r \in 1..(start + n) /\ r <= start
    BY <1>2
  <2> QED
    BY <1>2, <2>1, <2>2
<1>5. \A r \in model : rows'[r][1] = f
  <2> SUFFICES ASSUME NEW r \in model PROVE rows'[r][1] = f
    OBVIOUS
  <2>1. PICK w \in 1..n : r = start + w
    BY DEF ModelRows
  <2>2. r \in 1..(start + n) /\ ~(r <= start)
    BY <1>2, <2>1
  <2>3. rows'[r] = <<f, r - start>>
    BY <1>2, <2>2
  <2> QED
    BY <2>3
<1>6. model = {} <=> none
  <2>1. \A w \in 1..n : Windows[f][w] \in {"model", "copy"}
    BY Constants, ElementOfSeq
  <2>2. model = {} <=> \A w \in 1..n : Windows[f][w] = "copy"
    BY DEF ModelRows
  <2> QED
    BY <1>2, <2>1, <2>2
<1> HIDE DEF model, none
<1>7. OwnersOf(Reading)' = OwnersOf(Reading) \cup IF none THEN {} ELSE {f}
  <2>1. OwnersOf(Reading)' = {rows'[r][1] : r \in Reading \cup model}
    BY <1>1 DEF OwnersOf
  <2>2. OwnersOf(Reading) = {rows[r][1] : r \in Reading}
    BY DEF OwnersOf
  <2>3. CASE none
    BY <1>4, <1>6, <2>1, <2>2, <2>3
  <2>4. CASE ~none
    <3>1. model # {}
      BY <1>6, <2>4
    <3>3. PICK m \in model : rows'[m][1] = f
      BY <1>5, <3>1
    <3>4. ASSUME NEW r \in Reading \cup model PROVE rows'[r][1] \in {rows[q][1] : q \in Reading} \cup {f}
      BY <1>4, <1>5
    <3>5. ASSUME NEW r \in Reading PROVE rows[r][1] \in {rows'[q][1] : q \in Reading \cup model}
      BY <1>4
    <3>6. f \in {rows'[q][1] : q \in Reading \cup model}
      BY <3>3
    <3>2. {rows'[r][1] : r \in Reading \cup model} = {rows[r][1] : r \in Reading} \cup {f}
      BY <3>4, <3>5, <3>6
    <3> QED
      BY <2>1, <2>2, <2>4, <3>2
  <2> QED
    BY <2>3, <2>4
<1>8. f \in InStage(Held) /\ InStage(Held)' = InStage(Held) \ {f}
  <2>1. "merged" \notin Held /\ "pending" \in Held
    BY DEF Held, Extracting, Sending
  <2> QED
    BY <1>3, <2>1, Moved DEF InStage
<1>9. f \notin OwnersOf(Reading) /\ OwnersOf(Reading) \subseteq Files
  BY <1>3, ReadingFacts, OwnersMerged
<1>10. IsFiniteSet(S) /\ f \in S /\ used = Cardinality(S)
  <2>1. S \subseteq Files
    BY <1>9 DEF InStage
  <2>2. OwnedBy(Batches) = OwnersOf(Reading)
    BY OwnersAre DEF Reading
  <2> QED
    BY <1>8, <2>1, <2>2, FilesFinite, FS_Subset DEF WeightInv
<1>11. WeightInv' <=> used' = Cardinality(InStage(Held)' \cup OwnersOf(Reading)')
  <2>1. OwnedBy(Batches)' = OwnersOf(Reading)'
    BY DEF OwnedBy, OwnersOf, Reading
  <2> QED
    BY <2>1 DEF WeightInv
<1>12. CASE none
  <2>1. InStage(Held)' \cup OwnersOf(Reading)' = S \ {f}
    BY <1>7, <1>8, <1>9, <1>12
  <2>2. Cardinality(S \ {f}) = Cardinality(S) - 1
    BY <1>10, FS_RemoveElement
  <2> HIDE DEF S
  <2> QED
    BY <1>1, <1>3, <1>10, <1>11, <1>12, <2>1, <2>2 DEF Kept
<1>13. CASE ~none
  <2>1. InStage(Held)' \cup OwnersOf(Reading)' = S
    BY <1>7, <1>8, <1>9, <1>13
  <2> HIDE DEF S
  <2> QED
    BY <1>1, <1>3, <1>10, <1>11, <1>13, <2>1 DEF Kept
<1> QED
  BY <1>12, <1>13

\* The batches that are given up give back the files that no other batch reads.
LEMMA AbandonKeepsWeight ==
    ASSUME TypedPlaces, TypedLoop, MergedInv, Apart, WeightInv, Abandon
    PROVE  Kept
<1> DEFINE gone == UNION Sent
<1>1. /\ used' = used - Cardinality(OwnedBy(Sent) \ OwnedBy(Batches \ Sent))
      /\ todo' = <<>> /\ UNCHANGED <<stage, rows, batch, encoder, calls>>
  BY DEF Abandon, Sent, EncodedIn, Encoding, callVars
<1>2. Sent' = {} /\ Parted(todo)' /\ AtCpu' = AtCpu /\ Calling' = Calling /\ Called' = Called
  BY <1>1, NothingToSend DEF Sent, AtCpu, Calling, Called, EncodedIn, Encoding, Parted
<1>3. Batches \ Sent = {batch} \cup AtCpu \cup Called
  <2>1. \A s \in Sent : s # {} /\ s \cap batch = {} /\ \A t \in AtCpu \cup Called : s \cap t = {}
    BY DEF Apart
  <2>2. \A s \in Sent : s # batch /\ s \notin AtCpu \cup Called
    BY <2>1
  <2> QED
    BY <2>2, BatchesAre DEF OnWay
<1> DEFINE left == batch \cup UNION (AtCpu \cup Called)
<1>4. UNION (Batches \ Sent) = left
  BY <1>3
<1>5. gone \subseteq Reading /\ left = Reading \ gone
  <2>1. Reading = gone \cup left
    BY ReadingIs DEF OnWay
  <2>2. \A s \in Sent : s \cap batch = {} /\ \A t \in AtCpu \cup Called : s \cap t = {}
    BY DEF Apart
  <2>3. gone \cap left = {}
    BY <2>2
  <2> QED
    BY <2>1, <2>3
<1>6. Reading' = Reading \ gone
  BY <1>1, <1>2, <1>5, OnWayMoves
<1>7. Apart'
  BY <1>1, <1>2 DEF Apart
<1>8. OwnedBy(Sent) = OwnersOf(gone) /\ OwnedBy(Batches \ Sent) = OwnersOf(Reading \ gone)
  BY <1>4, <1>5, OwnersAre
<1> HIDE DEF gone, left
<1>9. WeightInv'
  BY <1>1, <1>5, <1>6, <1>8, RowsGoBack
<1> QED
  BY <1>7, <1>9 DEF Kept

\* The pending files go back, and those of the pending batch if it is not sent.
LEMMA EndFilesKeepsWeight ==
    ASSUME TypedPlaces, TypedLoop, MergedInv, Apart, WeightInv, EndFiles
    PROVE  Kept
<1> DEFINE gone   == InStage({"pending"})
           others == AtCpu \cup Called
           sent   == (IF batch = {} THEN <<>> ELSE <<Message("encoder", batch)>>)
<1>0. todo = <<>> /\ Sent = {}
  <2>1. todo = <<>>
    BY DEF EndFiles
  <2> QED
    BY <2>1, NothingToSend DEF Sent
<1>1. /\ batch' = {} /\ UNCHANGED <<rows, encoder, calls>>
      /\ stage' = [f \in Files |-> IF stage[f] = "pending" THEN "dropped" ELSE stage[f]]
  BY DEF EndFiles, callVars
<1>2. AtCpu' = AtCpu /\ Calling' = Calling /\ Called' = Called
  BY <1>1 DEF AtCpu, Calling, Called
<1>3. gone \subseteq InStage(Held) /\ InStage(Held)' = InStage(Held) \ gone
  BY <1>1 DEF InStage, Held, Extracting, Sending
<1>4. /\ batch \subseteq 1..Len(rows) /\ \A t \in others : t # {} /\ t \subseteq 1..Len(rows) /\ t \cap batch = {}
      /\ \A s \in AtCpu : \A t \in Called : s \cap t = {}
      /\ \A c, d \in Calling : c # d => c.rows \cap d.rows = {}
  BY DEF Apart
<1>5. Reading = batch \cup UNION others /\ Reading' = UNION (Sent' \cup others)
  BY <1>0, <1>1, <1>2, ReadingIs, OnWayMoves DEF OnWay
<1>6. CASE failed
  <2>1. /\ used' = used - Cardinality(gone) - Cardinality(OwnersOf(batch) \ OwnedBy(Batches \ {batch}))
        /\ todo' = todo
    BY <1>6 DEF EndFiles
  <2>2. Sent' = {} /\ Parted(todo)'
    BY <1>0, <2>1, NothingToSend DEF Sent, EncodedIn, Encoding, Parted
  <2>3. Batches \ {batch} = others
    <3>1. batch \notin others
      BY <1>4
    <3> QED
      BY <1>0, <3>1, BatchesAre DEF OnWay
  <2>4. batch \subseteq Reading /\ Reading \ batch = UNION others /\ Reading' = Reading \ batch
    BY <1>4, <1>5, <2>2
  <2>5. OwnedBy(Batches \ {batch}) = OwnersOf(Reading \ batch)
    BY <2>3, <2>4, OwnersAre
  <2> HIDE DEF gone
  <2>6. WeightInv'
    BY <1>1, <1>3, <2>1, <2>4, <2>5, WeightGoesDown
  <2>7. Apart'
    BY <1>1, <1>2, <1>4, <2>2 DEF Apart
  <2> QED
    BY <2>6, <2>7 DEF Kept
<1>7. CASE ~failed
  <2>1. used' = used - Cardinality(gone) /\ todo' = sent \o ToGraphs(LastPlans)
    BY <1>7 DEF EndFiles
  <2>2. sent \in Seq(Messages) /\ EncodedIn(sent) = (IF batch = {} THEN {} ELSE {batch}) /\ Parted(sent)
    <3>1. CASE batch = {}
      BY <3>1, NothingToSend, EmptySeq
    <3>2. CASE batch # {}
      <4>1. batch \in RowSets
        BY DEF TypedLoop
      <4> HIDE DEF RowSets, Message
      <4> QED
        BY <3>2, <4>1, Alone
    <3> QED
      BY <3>1, <3>2
  <2>3. ToGraphs(LastPlans) \in Seq(Messages) /\ Encoding(ToGraphs(LastPlans)) = {}
    BY LastPlansTyped, ToGraphsFacts DEF TypedLoop
  <2> HIDE DEF sent, gone
  <2>4. EncodedIn(todo') = EncodedIn(sent) /\ Parted(todo')
    BY <2>1, <2>2, <2>3, EncodingFirst
  <2>5. Sent' = (IF batch = {} THEN {} ELSE {batch}) /\ Parted(todo)'
    BY <2>2, <2>4 DEF Sent, EncodedIn, Encoding, Parted
  <2>6. Reading' = Reading
    BY <1>5, <2>5
  <2>7. WeightInv'
    BY <1>1, <1>3, <2>1, <2>6, FilesGoBack
  <2>8. /\ \A s \in Sent' : s # {} /\ s \subseteq 1..Len(rows) /\ \A t \in others : s \cap t = {}
    BY <1>4, <2>5
  <2>9. Apart'
    BY <1>1, <1>2, <1>4, <2>5, <2>8 DEF Apart
  <2> QED
    BY <2>7, <2>9 DEF Kept
<1> QED
  BY <1>6, <1>7 DEF TypedLoop

\* So every step of the loop keeps the weight.
LEMMA LoopKeepsWeight ==
    ASSUME TypedPlaces, TypedLoop, MergedInv, Apart, WeightInv, Loop
    PROVE  Kept
<1>1. ASSUME NEW f \in Files, Receive(f) PROVE Kept
  <2>1. UNCHANGED <<rows, batch, todo, encoder, calls>>
    BY <1>1 DEF Receive, callVars
  <2>2. Sent' = Sent /\ AtCpu' = AtCpu /\ Calling' = Calling /\ Parted(todo)'
    BY <2>1 DEF Sent, AtCpu, Calling, EncodedIn, Encoding, Apart, Parted
  <2>3. Apart' /\ Reading' = Reading
    BY <2>1, <2>2, SameBatches
  <2>4. /\ stage[f] \in Held /\ "pending" \in Held /\ "dropped" \notin Held
        /\ \/ Goto(f, "pending") /\ UNCHANGED used
           \/ Goto(f, "dropped") /\ used' = used - 1
    BY <1>1 DEF Receive, Held, Extracting, Sending
  <2>5. WeightInv'
    BY <2>1, <2>3, <2>4, FileGoesBack, FileStays
  <2> QED
    BY <2>3, <2>5 DEF Kept
<1>2. CASE CloseChannels
  <2>1. UNCHANGED <<stage, rows, batch, todo, encoder, calls, used>>
    BY <1>2 DEF CloseChannels, callVars
  <2>2. Sent' = Sent /\ AtCpu' = AtCpu /\ Calling' = Calling /\ Parted(todo)' /\ InStage(Held)' = InStage(Held)
    BY <2>1 DEF Sent, AtCpu, Calling, EncodedIn, Encoding, Apart, Parted, InStage
  <2>3. Apart' /\ Reading' = Reading
    BY <2>1, <2>2, SameBatches
  <2> QED
    BY <2>1, <2>2, <2>3, SameWeight DEF Kept
<1> QED
  BY <1>1, <1>2, MergeKeepsWeight, AbandonKeepsWeight, EndFilesKeepsWeight DEF Loop

\* A batch leaves the way with the files that only it reads.
LEMMA BatchGoesBack ==
    ASSUME TypedPlaces, TypedLoop, MergedInv, Apart, WeightInv, UNCHANGED <<stage, rows, batch>>,
           NEW set \in OnWay, Release(set, Batches \ {set}), Reading' = Reading \ set
    PROVE  WeightInv'
<1>1. set \subseteq Reading /\ UNION (Batches \ {set}) = Reading \ set
  BY ReadingWithout
<1>2. OwnedBy(Batches \ {set}) = OwnersOf(Reading \ set)
  BY <1>1, OwnersAre
<1>3. used' = used - Cardinality(OwnersOf(set) \ OwnersOf(Reading \ set))
  BY <1>2 DEF Release
<1> QED
  BY <1>1, <1>3, RowsGoBack

\* A batch that leaves takes its rows and no others.
LEMMA BatchGone ==
    ASSUME Apart, NEW set \in OnWay, UNCHANGED batch, OnWay' = OnWay \ {set}
    PROVE  Reading' = Reading \ set
<1>1. set \cap batch = {} /\ \A s \in OnWay \ {set} : s \cap set = {}
  <2>1. set \cap batch = {} /\ batch # set /\ \A s \in Batches \ {set} : s \cap set = {}
    BY OthersThan
  <2> QED
    BY <2>1, BatchesAre
<1>2. Reading = batch \cup UNION OnWay
  BY ReadingIs
<1>3. Reading' = batch \cup UNION (OnWay \ {set})
  <2>1. Reading' = batch' \cup UNION OnWay'
    BY OnWayMoves
  <2> QED
    BY <2>1
<1> HIDE DEF OnWay, Reading
<1> DEFINE W == OnWay
<1>4. UNION (W \ {set}) = (UNION W) \ set
  <2> HIDE DEF W
  <2>1. set \in W /\ \A s \in W \ {set} : s \cap set = {}
    BY <1>1 DEF W
  <2> QED
    BY <2>1
<1> QED
  BY <1>1, <1>2, <1>3, <1>4

\* Fewer batches are apart as well.
LEMMA FewerKeepsApart ==
    ASSUME Apart, UNCHANGED <<rows, batch>>, Sent' \subseteq Sent, Parted(todo)', AtCpu' \subseteq AtCpu,
           Calling' \subseteq Calling
    PROVE  Apart'
<1>1. Called' \subseteq Called
  BY DEF Called
<1> HIDE DEF Called, Sent, AtCpu, Calling
<1> QED
  BY <1>1 DEF Apart

\* Each batch on its way is in one place.
LEMMA OnePlace ==
    ASSUME Apart
    PROVE  /\ \A s \in Sent : s \notin AtCpu \cup Called
           /\ \A s \in AtCpu : s \notin Sent \cup Called
           /\ \A s \in Called : s \notin Sent \cup AtCpu
<1>1. \A s \in Sent \cup AtCpu \cup Called : s # {}
  BY DEF Apart
<1>2. \A s \in Sent : \A t \in AtCpu \cup Called : s # t
  BY <1>1 DEF Apart
<1>3. \A s \in AtCpu : \A t \in Called : s # t
  BY <1>1 DEF Apart
<1> QED
  BY <1>2, <1>3

\* A batch moves from the loop to the encoder to the call; what drops it gives it back.
LEMMA EncodeKeepsWeight ==
    ASSUME TypedPlaces, TypedLoop, TypedCalls, MergedInv, Apart, WeightInv, Encode
    PROVE  Kept
<1>0. UNCHANGED <<stage, rows, batch>>
  BY Frames
<1>1. InStage(Held)' = InStage(Held)
  BY <1>0 DEF InStage
<1>2. ASSUME UNCHANGED used, Sent' = Sent, Parted(todo)', AtCpu' = AtCpu, Calling' = Calling
      PROVE Kept
  <2>1. Apart' /\ Reading' = Reading
    BY <1>0, <1>2, SameBatches
  <2> QED
    BY <1>0, <1>1, <1>2, <2>1, SameWeight DEF Kept
<1>3. ASSUME NEW set \in OnWay, Release(set, Batches \ {set}), OnWay' = OnWay \ {set},
             Sent' \subseteq Sent, Parted(todo)', AtCpu' \subseteq AtCpu, Calling' \subseteq Calling
      PROVE  Kept
  <2>1. Reading' = Reading \ set
    BY <1>0, <1>3, BatchGone
  <2>2. WeightInv'
    BY <1>0, <1>3, <2>1, BatchGoesBack
  <2>3. Apart'
    BY <1>0, <1>3, FewerKeepsApart
  <2> QED
    BY <2>2, <2>3 DEF Kept
<1>4. ASSUME Apart', OnWay' = OnWay, UNCHANGED used PROVE Kept
  <2>1. Reading' = Reading
    <3>1. Reading' = batch' \cup UNION OnWay'
      BY OnWayMoves
    <3> QED
      BY <1>0, <1>4, <3>1, ReadingIs
  <2> QED
    BY <1>0, <1>1, <1>4, <2>1, SameWeight DEF Kept
<1>5. CASE TakeBatch
  <2> DEFINE set == Head(todo).rows
  <2>1. /\ todo # <<>> /\ todo \in Seq(Messages) /\ Head(todo).to = "encoder" /\ todo' = Tail(todo)
        /\ encoder.at = "select" /\ UNCHANGED calls
    BY <1>5 DEF TakeBatch, Sends, TypedLoop
  <2>2. set \in Sent
    BY <2>1, EncodingTail DEF Sent
  <2>3. set # {} /\ Parted(todo)
    BY <2>2 DEF Apart
  <2>4. EncodedIn(Tail(todo)) = EncodedIn(todo) \ {set} /\ Parted(Tail(todo))
    BY <2>1, <2>3, EncodingTail
  <2>5. Sent' = Sent \ {set} /\ Parted(todo)'
    <3>1. Sent' = EncodedIn(todo') /\ (Parted(todo)' <=> Parted(todo'))
      BY DEF Sent, EncodedIn, Encoding, Parted
    <3> QED
      BY <2>1, <2>4, <3>1 DEF Sent
  <2>6. Calling' = Calling /\ Called' = Called /\ AtCpu = {}
    BY <2>1 DEF Calling, Called, AtCpu
  <2>7. set \notin Called
    BY <2>2, OnePlace
  <2>8. CASE canceled
    <3>1. Release(set, Batches \ {set}) /\ UNCHANGED encoder
      BY <1>5, <2>8 DEF TakeBatch
    <3>2. AtCpu' = AtCpu
      BY <3>1 DEF AtCpu
    <3>3. OnWay' = OnWay \ {set} /\ set \in OnWay
      BY <2>2, <2>5, <2>6, <2>7, <3>2, OnWayMoves DEF OnWay
    <3> HIDE DEF set
    <3> QED
      BY <1>3, <2>5, <2>6, <3>1, <3>2, <3>3
  <2>9. CASE ~canceled
    <3>1. encoder' = [at |-> "cpu", rows |-> set] /\ UNCHANGED used
      BY <1>5, <2>9 DEF TakeBatch
    <3>2. AtCpu' = {set}
      BY <3>1 DEF AtCpu
    <3> HIDE DEF set
    <3>3. OnWay' = OnWay
      BY <2>2, <2>5, <2>6, <3>2, OnWayMoves DEF OnWay
    <3>4. /\ set # {} /\ set \subseteq 1..Len(rows) /\ set \cap batch = {}
          /\ \A t \in Called : set \cap t = {}
      BY <2>2 DEF Apart
    <3>5. \A s \in Sent \ {set} : s \cap set = {}
      <4>1. \A s \in Batches \ {set} : s \cap set = {}
        BY <2>2, OthersThan DEF OnWay
      <4> QED
        BY <4>1, BatchesAre DEF OnWay
    <3>6. /\ \A s \in Sent' \cup AtCpu' \cup Called' : s # {} /\ s \subseteq 1..Len(rows') /\ s \cap batch' = {}
          /\ \A s \in Sent' : \A t \in AtCpu' \cup Called' : s \cap t = {}
          /\ \A s \in AtCpu' : \A t \in Called' : s \cap t = {}
      BY <1>0, <2>5, <2>6, <3>2, <3>4, <3>5 DEF Apart
    <3>7. batch' \subseteq 1..Len(rows') /\ \A c, d \in Calling' : c # d => c.rows \cap d.rows = {}
      BY <1>0, <2>6 DEF Apart
    <3>8. Apart'
      BY <2>5, <3>6, <3>7 DEF Apart
    <3> QED
      BY <1>4, <3>1, <3>3, <3>8
  <2> QED
    BY <2>8, <2>9
<1>6. CASE StartCall
  <2> DEFINE set == encoder.rows
             new == [rows |-> set, cause |-> "running"]
  <2>1. /\ encoder.at = "cpu" /\ encoder' = [at |-> "select"] /\ UNCHANGED todo
        /\ \/ calls' = calls \cup {new} /\ UNCHANGED used
           \/ Release(set, Batches \ {set}) /\ UNCHANGED calls
    BY <1>6 DEF StartCall, loopVars
  <2>2. AtCpu = {set} /\ AtCpu' = {}
    BY <2>1 DEF AtCpu
  <2>3. Sent' = Sent /\ Parted(todo)'
    BY <2>1 DEF Sent, EncodedIn, Encoding, Apart, Parted
  <2>4. set \notin Sent \cup Called
    BY <2>2, OnePlace
  <2>5. ASSUME calls' = calls \cup {new}, UNCHANGED used PROVE Kept
    <3>1. new.cause = "running" /\ new.rows = set
      OBVIOUS
    <3> HIDE DEF new
    <3>2. Calling' = Calling \cup {new}
      BY <2>1, <2>5, <3>1, CallStarts
    <3>3. Called' = Called \cup {set}
      BY <3>1, <3>2 DEF Called
    <3>4. OnWay' = OnWay
      BY <2>2, <2>3, <3>3, OnWayMoves DEF OnWay
    <3>5. /\ set # {} /\ set \subseteq 1..Len(rows) /\ set \cap batch = {}
          /\ (\A s \in Sent : s \cap set = {}) /\ (\A t \in Called : set \cap t = {})
      BY <2>2 DEF Apart
    <3>6. \A c \in Calling : c.rows \cap set = {}
      BY <3>5 DEF Called
    <3>7. \A c, d \in Calling' : c # d => c.rows \cap d.rows = {}
      BY <3>1, <3>2, <3>6 DEF Apart
    <3>8. /\ \A s \in Sent' \cup AtCpu' \cup Called' : s # {} /\ s \subseteq 1..Len(rows') /\ s \cap batch' = {}
          /\ \A s \in Sent' : \A t \in AtCpu' \cup Called' : s \cap t = {}
          /\ \A s \in AtCpu' : \A t \in Called' : s \cap t = {}
      BY <1>0, <2>2, <2>3, <3>3, <3>5 DEF Apart
    <3>9. batch' \subseteq 1..Len(rows')
      BY <1>0 DEF Apart
    <3>10. Apart'
      BY <2>3, <3>7, <3>8, <3>9 DEF Apart
    <3> QED
      BY <1>4, <2>5, <3>4, <3>10
  <2>6. ASSUME Release(set, Batches \ {set}), UNCHANGED calls PROVE Kept
    <3>1. Calling' = Calling /\ Called' = Called
      BY <2>6 DEF Calling, Called
    <3>2. OnWay' = OnWay \ {set} /\ set \in OnWay
      BY <2>2, <2>3, <2>4, <3>1, OnWayMoves DEF OnWay
    <3> HIDE DEF set
    <3> QED
      BY <1>3, <2>2, <2>3, <2>6, <3>1, <3>2
  <2> QED
    BY <2>1, <2>5, <2>6
<1>7. CASE \E c \in calls : \E cause \in Causes : EndCall(c, cause)
  <2>1. PICK c \in calls, cause \in Causes : EndCall(c, cause)
    BY <1>7
  <2> DEFINE set == c.rows
  <2>2. /\ c.cause = "running" /\ calls' = (calls \ {c}) \cup {[c EXCEPT !.cause = cause]}
        /\ Release(set, Batches \ {set}) /\ UNCHANGED <<todo, encoder>>
    BY <2>1 DEF EndCall, loopVars
  <2>3. Calling' = Calling \ {c} /\ c \in Calling
    BY <2>2, CallEnds
  <2>4. Sent' = Sent /\ Parted(todo)' /\ AtCpu' = AtCpu
    BY <2>2 DEF Sent, EncodedIn, Encoding, Apart, Parted, AtCpu
  <2>5. set \in Called /\ \A d \in Calling \ {c} : d.rows # set
    <3>1. set \in Called
      BY <2>3 DEF Called
    <3>2. set # {} /\ \A d \in Calling \ {c} : c.rows \cap d.rows = {}
      BY <2>3, <3>1 DEF Apart
    <3> QED
      BY <3>1, <3>2
  <2>6. Called' = Called \ {set}
    BY <2>3, <2>5 DEF Called
  <2>7. set \notin Sent \cup AtCpu
    BY <2>5, OnePlace
  <2>8. OnWay' = OnWay \ {set} /\ set \in OnWay
    BY <2>4, <2>5, <2>6, <2>7, OnWayMoves DEF OnWay
  <2> HIDE DEF set
  <2> QED
    BY <1>3, <2>2, <2>3, <2>4, <2>8
<1>8. CASE \E c \in calls : TakeResult(c)
  <2>1. PICK c \in calls : TakeResult(c)
    BY <1>8
  <2>2. /\ c.cause # "running" /\ calls' = calls \ {c} /\ UNCHANGED <<todo, used>>
        /\ encoder.at = "select" /\ encoder' = [at |-> "emit", rows |-> c.rows, cause |-> c.cause]
    BY <2>1 DEF TakeResult, loopVars
  <2>3. Calling' = Calling
    BY <2>2, CallTaken
  <2>4. Sent' = Sent /\ Parted(todo)' /\ AtCpu' = AtCpu
    BY <2>2 DEF Sent, EncodedIn, Encoding, Apart, Parted, AtCpu
  <2> QED
    BY <1>2, <2>2, <2>3, <2>4
<1>9. CASE EndEncoder
  <2>1. UNCHANGED <<todo, used, calls>> /\ encoder.at = "select" /\ encoder' = [at |-> "ended"]
    BY <1>9 DEF EndEncoder, loopVars
  <2>4. Sent' = Sent /\ Parted(todo)' /\ AtCpu' = AtCpu /\ Calling' = Calling
    BY <2>1 DEF Sent, EncodedIn, Encoding, Apart, Parted, AtCpu, Calling
  <2> QED
    BY <1>2, <2>1, <2>4
<1> QED
  BY <1>5, <1>6, <1>7, <1>8, <1>9 DEF Encode

\* The collector and the graphs take messages of their own.
LEMMA OtherSends ==
    ASSUME TypedLoop, Apart, NEW to, to # "encoder", Sends(to)
    PROVE  Sent' = Sent /\ Parted(todo)'
<1>1. todo # <<>> /\ todo \in Seq(Messages) /\ Head(todo).to # "encoder" /\ todo' = Tail(todo) /\ Parted(todo)
  BY DEF Sends, TypedLoop, Apart
<1>2. EncodedIn(Tail(todo)) = EncodedIn(todo) /\ Parted(Tail(todo))
  BY <1>1, EncodingTail
<1>3. Sent' = EncodedIn(todo') /\ (Parted(todo)' <=> Parted(todo'))
  BY DEF Sent, EncodedIn, Encoding, Parted
<1> QED
  BY <1>1, <1>2, <1>3 DEF Sent

\* So every step keeps the batches apart and the weight.
LEMMA StepKeepsWeight ==
    ASSUME TypedPlaces, TypedLoop, TypedCalls, MergedInv, Apart, WeightInv, [Next]_vars
    PROVE  Kept
<1>1. CASE EndSource \/ Collect \/ Graphs \/ Return \/ Interrupt \/ UNCHANGED vars
  <2>1. UNCHANGED <<stage, rows, batch, calls, used>>
    BY <1>1, Frames DEF loopVars, callVars, vars
  <2>2. InStage(Held)' = InStage(Held) /\ Calling' = Calling
    BY <2>1 DEF InStage, Calling
  <2>3. Sent' = Sent /\ Parted(todo)'
    <3>1. CASE UNCHANGED todo
      BY <3>1 DEF Sent, EncodedIn, Encoding, Apart, Parted
    <3>2. CASE CollectCopies
      BY <3>2, OtherSends DEF CollectCopies
    <3>3. CASE TakePlan
      BY <3>3, OtherSends DEF TakePlan
    <3>4. UNCHANGED todo \/ CollectCopies \/ TakePlan
      <4>1. CASE Collect
        BY <4>1 DEF Collect, CollectBatch, EndCollector, loopVars
      <4>2. CASE Graphs
        BY <4>2 DEF Graphs, Submit, EndStream, TakeBlock, StartShard, LeaseShard, BuildShard,
           loopVars
      <4>3. CASE EndSource \/ Return \/ Interrupt \/ UNCHANGED vars
        BY <4>3, Frames DEF loopVars, vars
      <4> QED
        BY <1>1, <4>1, <4>2, <4>3
    <3> QED
      BY <3>1, <3>2, <3>3, <3>4
  <2>4. AtCpu' = AtCpu
    <3>1. CASE UNCHANGED encoder
      BY <3>1 DEF AtCpu
    <3>2. CASE CollectBatch
      <4>1. encoder.at = "emit" /\ encoder' = [at |-> "select"]
        BY <3>2 DEF CollectBatch
      <4> QED
        BY <4>1 DEF AtCpu
    <3>3. UNCHANGED encoder \/ CollectBatch
      <4>1. CASE Collect
        BY <4>1 DEF Collect, CollectCopies, EndCollector, callVars
      <4>2. CASE Graphs
        BY <4>2, Frames DEF callVars
      <4>3. CASE EndSource \/ Return \/ Interrupt \/ UNCHANGED vars
        BY <4>3, Frames DEF callVars, vars
      <4> QED
        BY <1>1, <4>1, <4>2, <4>3
    <3> QED
      BY <3>1, <3>2, <3>3
  <2>5. Apart' /\ Reading' = Reading
    BY <2>1, <2>2, <2>3, <2>4, SameBatches
  <2> QED
    BY <2>1, <2>2, <2>5, SameWeight DEF Kept
<1> QED
  BY <1>1, ExtractionKeepsWeight, LoopKeepsWeight, EncodeKeepsWeight, NextCases

-----------------------------------------------------------------------------
(* The types.                                                              *)

\* The places of a file.
Places == {"unread", "lost", "merged", "dropped"} \cup Held

\* A file goes from a place to a place.
LEMMA StepKeepsPlaces ==
    ASSUME TypedPlaces, [Next]_vars
    PROVE  TypedPlaces'
<1>1. ASSUME NEW f \in Files, NEW place \in Places, Goto(f, place), UNCHANGED source
      PROVE TypedPlaces'
  BY <1>1 DEF TypedPlaces, Goto, Places
<1>2. CASE Extraction
  <2>1. PICK f \in Files : Take(f) \/ Dispatch(f) \/ StartExtract(f) \/ Extract(f) \/ QuitWorker(f)
    BY <1>2 DEF Extraction
  <2>2. PICK place \in {"read", "cpu", "lost", "parse", "send", "send failure", "send canceled", "dropped"} :
           Goto(f, place)
    BY <2>1 DEF Take, Dispatch, StartExtract, Extract, QuitWorker
  <2>3. place \in Places
    BY DEF Places, Held, Extracting, Sending
  <2> QED
    BY <1>1, <1>2, <2>2, <2>3, Frames
<1>3. CASE \E f \in Files : Receive(f) \/ Merge(f)
  <2>1. PICK f \in Files : Receive(f) \/ Merge(f)
    BY <1>3
  <2>2. PICK place \in {"pending", "dropped", "merged"} : Goto(f, place)
    BY <2>1 DEF Receive, Merge, MergeFile
  <2>3. place \in Places /\ UNCHANGED source
    BY <2>1 DEF Places, Held, Receive, Merge, MergeFile
  <2> QED
    BY <1>1, <2>2, <2>3
<1>4. CASE EndFiles
  BY <1>4 DEF EndFiles, TypedPlaces
<1>5. CASE Abandon \/ CloseChannels
  BY <1>5 DEF Abandon, CloseChannels, TypedPlaces
<1>6. CASE EndSource
  <2>1. UNCHANGED stage /\ source' = "ended"
    BY <1>6 DEF EndSource
  <2> QED
    BY <2>1 DEF TypedPlaces
<1>7. CASE Encode \/ Collect \/ Graphs \/ Return \/ Interrupt \/ UNCHANGED vars
  <2>1. UNCHANGED <<stage, source>>
    BY <1>7, Frames DEF vars
  <2> QED
    BY <2>1 DEF TypedPlaces
<1> QED
  BY <1>2, <1>3, <1>4, <1>5, <1>6, <1>7, NextCases DEF Loop

\* The types of the loop.
LEMMA StepKeepsLoop ==
    ASSUME TypedPlaces, TypedLoop, MergedInv, Apart, [Next]_vars
    PROVE  TypedLoop'
<1>0. LastFile = Len(Windows) /\ LastFile \in Nat /\ Files = 1..LastFile /\ BatchRows \in Nat \ {0}
  BY Constants, ConstantsAssumption DEF LastFile
<1>1. CASE UNCHANGED <<loop, next, batch, todo, failed, planner>>
  BY <1>1 DEF TypedLoop
<1>2. ASSUME NEW to, Sends(to), UNCHANGED <<loop, next, batch, failed, planner>> PROVE TypedLoop'
  <2>1. todo # <<>> /\ todo \in Seq(Messages) /\ todo' = Tail(todo)
    BY <1>2 DEF Sends, TypedLoop
  <2>2. todo' \in Seq(Messages)
    <3> HIDE DEF Messages
    <3> QED
      BY <2>1, HeadTailProperties
  <2> QED
    BY <1>2, <2>2 DEF TypedLoop
<1>3. ASSUME NEW f \in Files, Receive(f) PROVE TypedLoop'
  BY <1>3 DEF Receive, TypedLoop
<1>4. ASSUME NEW f \in Files, Merge(f) PROVE TypedLoop'
  <2> DEFINE n == Len(Windows[f])
  <2>1. /\ SortedUpTo(Sorted(Len(rows), f), Len(rows), f, n) /\ batch' = Sorted(Len(rows), f).batch
        /\ Len(rows) \in Nat /\ n \in Nat /\ Len(rows) + n \in 0..Len(AllRows) /\ todo' \in Seq(Messages)
    BY <1>4, MergeFacts
  <2>2. batch' \subseteq 1..(Len(rows) + n) /\ Cardinality(batch') < BatchRows
    BY <2>1 DEF SortedUpTo
  <2>3. batch' \in RowSets
    <3>1. 1..(Len(rows) + n) \subseteq DOMAIN AllRows
      BY <2>1, AllRowsFacts
    <3> QED
      BY <2>2, <3>1 DEF RowSets
  <2>4. next' \in 1..(Len(Windows) + 1)
    <3>1. next = f /\ next' = next + 1
      BY <1>4 DEF Merge
    <3> QED
      BY <1>0, <3>1
  <2>5. UNCHANGED <<loop, failed>> /\ (planner' = planner \/ planner' = Planned(f).planner)
    BY <1>4 DEF Merge, MergeFile
  <2>6. planner' \in Planners
    BY <2>5, PlannedTyped DEF TypedLoop
  <2> QED
    BY <2>1, <2>2, <2>3, <2>4, <2>5, <2>6 DEF TypedLoop
<1>5. CASE Abandon \/ CloseChannels
  <2>1. <<>> \in Seq(Messages)
    BY EmptySeq
  <2> QED
    BY <1>5, <2>1 DEF Abandon, CloseChannels, TypedLoop
<1>6. CASE EndFiles
  <2> DEFINE sent == (IF batch = {} THEN <<>> ELSE <<Message("encoder", batch)>>)
  <2>1. /\ loop' = "last" /\ batch' = {} /\ UNCHANGED <<next, failed, planner>>
        /\ todo' = todo \/ todo' = sent \o ToGraphs(LastPlans)
    BY <1>6 DEF EndFiles
  <2>2. ToGraphs(LastPlans) \in Seq(Messages)
    BY LastPlansTyped, ToGraphsFacts DEF TypedLoop
  <2>3. sent \in Seq(Messages)
    BY Alone, EmptySeq DEF TypedLoop
  <2> HIDE DEF sent
  <2>4. todo' \in Seq(Messages)
    BY <2>1, <2>2, <2>3, ConcatProperties DEF TypedLoop
  <2>5. {} \in RowSets /\ Cardinality({}) < BatchRows
    BY <1>0, FS_EmptySet DEF RowSets
  <2> QED
    BY <2>1, <2>4, <2>5 DEF TypedLoop
<1>7. CASE EndSource \/ Extraction \/ Return \/ Interrupt \/ UNCHANGED vars
  <2>1. UNCHANGED <<loop, next, batch, todo, failed, planner>>
    BY <1>7, Frames DEF loopVars, vars
  <2> QED
    BY <1>1, <2>1
<1>8. CASE Encode \/ Collect \/ Graphs
  <2>1. UNCHANGED <<loop, next, batch, failed, planner>>
    BY <1>8, Frames
  <2>2. CASE Encode
    <3>1. UNCHANGED todo \/ Sends("encoder")
      BY <2>2 DEF Encode, TakeBatch, StartCall, EndCall, TakeResult, EndEncoder, loopVars
    <3> QED
      BY <1>1, <1>2, <2>1, <3>1
  <2>3. CASE Collect
    <3>1. UNCHANGED todo \/ Sends("collector")
      BY <2>3 DEF Collect, CollectBatch, CollectCopies, EndCollector, loopVars
    <3> QED
      BY <1>1, <1>2, <2>1, <3>1
  <2>4. CASE Graphs
    <3>1. UNCHANGED todo \/ Sends("graphs")
      BY <2>4 DEF Graphs, TakePlan, Submit, EndStream, TakeBlock, StartShard, LeaseShard,
         BuildShard, loopVars
    <3> QED
      BY <1>1, <1>2, <2>1, <3>1
  <2> QED
    BY <1>8, <2>2, <2>3, <2>4
<1> QED
  BY <1>3, <1>4, <1>5, <1>6, <1>7, <1>8, NextCases DEF Loop

\* At least one call can run, and no width goes over the limit.
LEMMA WidthFacts ==
    /\ CallLimit \in Nat \ {0} /\ Max({1, CallCPUs}) \in Nat /\ Max({1, CallCPUs}) >= 1
    /\ Max({1, CallCPUs}) >= CallCPUs
    /\ width \in 1..CallLimit => Widths \subseteq 1..CallLimit
<1> DEFINE cost == Max({1, CallCPUs})
<1>0. CPUs \in Nat \ {0} /\ CallCPUs \in Nat
  BY ConstantsAssumption
<1>1. cost \in {1, CallCPUs} /\ 1 <= cost /\ CallCPUs <= cost
  <2>1. {1, CallCPUs} \in SUBSET (0..(CallCPUs + 1)) /\ {1, CallCPUs} # {} /\ CallCPUs + 1 \in Nat
    BY <1>0
  <2> QED
    BY <2>1, Greatest
<1>2. cost \in Nat \ {0}
  BY <1>0, <1>1
<1> HIDE DEF cost
<1>3. CallLimit = (CPUs + cost - 1) \div cost
  BY DEF CallLimit, cost
<1>4. CallLimit \in Nat \ {0}
  <2> DEFINE q == (CPUs + cost - 1) \div cost
  <2>1. CPUs + cost - 1 \in Nat
    BY <1>0, <1>2
  <2>2. q \in Nat /\ CPUs + cost - 1 < cost * q + cost
    BY <1>2, <2>1, DivBounds
  <2> HIDE DEF q
  <2>3. q # 0
    <3>1. cost * 0 = 0
      BY <1>2
    <3> QED
      BY <1>0, <1>2, <2>2, <3>1
  <2> QED
    BY <1>3, <2>2, <2>3 DEF q
<1>5. ASSUME width \in 1..CallLimit PROVE Widths \subseteq 1..CallLimit
  <2> DEFINE more == Max({width + 1, 2 * width})
  <2>1. width \in Nat
    BY <1>4, <1>5
  <2>2. more \in Nat
    <3>1. {width + 1, 2 * width} \in SUBSET (0..(2 * width + 1)) /\ {width + 1, 2 * width} # {}
          /\ 2 * width + 1 \in Nat
      BY <2>1
    <3>2. more \in {width + 1, 2 * width}
      BY <3>1, Greatest
    <3> QED
      BY <2>1, <3>2
  <2> HIDE DEF more
  <2>3. Min({CallLimit, more}) \in {CallLimit, more} /\ Min({CallLimit, more}) <= CallLimit
    <3>1. {CallLimit, more} \in SUBSET Nat /\ {CallLimit, more} # {}
      BY <1>4, <2>2
    <3> QED
      BY <3>1, LeastOf
  <2>4. ProbeWidth \in Nat /\ ProbeWidth <= CallLimit
    BY <1>4, <2>2, <2>3 DEF ProbeWidth, more
  <2> QED
    BY <1>4, <2>4 DEF Widths
<1> QED
  BY <1>0, <1>1, <1>2, <1>4, <1>5 DEF cost

\* The states of the encoder.
Encoders == [at : {"select", "ended"}] \cup [at : {"cpu"}, rows : RowSets]
            \cup [at : {"emit"}, rows : RowSets, cause : Causes]

\* The types of the encoder.
LEMMA StepKeepsCalls ==
    ASSUME TypedLoop, TypedCalls, [Next]_vars
    PROVE  TypedCalls'
<1>0. encoder \in Encoders /\ calls \subseteq Calls /\ IsFiniteSet(calls) /\ width \in 1..CallLimit
  BY DEF TypedCalls, Encoders
<1>1. CASE UNCHANGED <<encoder, calls, width>>
  BY <1>0, <1>1 DEF TypedCalls, Encoders
<1>2. TypedCalls' <=> encoder' \in Encoders /\ calls' \subseteq Calls /\ IsFiniteSet(calls') /\ width' \in 1..CallLimit
  BY DEF TypedCalls, Encoders, CallLimit, Calls, Causes, NoCause, RowSets, AllRows, Files
<1>3. [at |-> "select"] \in Encoders /\ [at |-> "ended"] \in Encoders
  BY DEF Encoders
<1>4. CASE TakeBatch
  <2>1. Head(todo) \in Messages /\ UNCHANGED <<calls, width>>
        /\ encoder' \in {encoder, [at |-> "cpu", rows |-> Head(todo).rows]}
    <3>1. todo # <<>> /\ todo \in Seq(Messages)
      BY <1>4 DEF TakeBatch, Sends, TypedLoop
    <3>2. Head(todo) \in Messages
      <4> HIDE DEF Messages
      <4> QED
        BY <3>1, HeadTailProperties
    <3> QED
      BY <1>4, <3>2 DEF TakeBatch
  <2>2. Head(todo).rows \in RowSets
    BY <2>1 DEF Messages
  <2>3. encoder' \in Encoders
    <3> HIDE DEF RowSets
    <3> QED
      BY <1>0, <2>1, <2>2 DEF Encoders
  <2> QED
    BY <1>0, <1>2, <2>1, <2>3
<1>5. CASE StartCall
  <2> DEFINE new == [rows |-> encoder.rows, cause |-> "running"]
  <2>1. /\ encoder.at = "cpu" /\ encoder' = [at |-> "select"] /\ UNCHANGED width
        /\ calls' = calls \cup {new} \/ UNCHANGED calls
    BY <1>5 DEF StartCall
  <2>2. encoder.rows \in RowSets
    <3> HIDE DEF RowSets
    <3> QED
      BY <1>0, <2>1 DEF Encoders
  <2>3. new \in Calls
    <3> HIDE DEF RowSets
    <3> QED
      BY <2>2 DEF Calls
  <2>4. IsFiniteSet(calls \cup {new})
    BY <1>0, FS_AddElement
  <2> HIDE DEF new
  <2> QED
    BY <1>0, <1>2, <1>3, <2>1, <2>3, <2>4
<1>6. CASE \E c \in calls : \E cause \in Causes : EndCall(c, cause)
  <2>1. PICK c \in calls, cause \in Causes : EndCall(c, cause)
    BY <1>6
  <2> DEFINE new == [c EXCEPT !.cause = cause]
  <2>2. calls' = (calls \ {c}) \cup {new} /\ UNCHANGED <<encoder, width>>
    BY <2>1 DEF EndCall
  <2>3. new \in Calls
    <3>1. c \in Calls
      BY <1>0
    <3> HIDE DEF RowSets
    <3> QED
      BY <3>1 DEF Calls
  <2> HIDE DEF new
  <2>4. IsFiniteSet((calls \ {c}) \cup {new})
    <3>1. IsFiniteSet(calls \ {c})
      BY <1>0, FS_RemoveElement
    <3> QED
      BY <3>1, FS_AddElement
  <2> QED
    BY <1>0, <1>2, <2>2, <2>3, <2>4
<1>7. CASE \E c \in calls : TakeResult(c)
  <2>1. PICK c \in calls : TakeResult(c)
    BY <1>7
  <2>2. /\ calls' = calls \ {c} /\ c.cause # "running" /\ UNCHANGED width
        /\ encoder' = [at |-> "emit", rows |-> c.rows, cause |-> c.cause]
    BY <2>1 DEF TakeResult
  <2>3. c.rows \in RowSets /\ c.cause \in Causes
    <3>1. c \in Calls
      BY <1>0
    <3> HIDE DEF RowSets, Causes
    <3> QED
      BY <2>2, <3>1 DEF Calls
  <2>4. encoder' \in Encoders
    <3> HIDE DEF RowSets, Causes
    <3> QED
      BY <2>2, <2>3 DEF Encoders
  <2>5. IsFiniteSet(calls \ {c})
    BY <1>0, FS_RemoveElement
  <2> QED
    BY <1>0, <1>2, <2>2, <2>4, <2>5
<1>8. CASE EndEncoder
  <2>1. UNCHANGED <<calls, width>> /\ encoder' = [at |-> "ended"]
    BY <1>8 DEF EndEncoder
  <2> QED
    BY <1>0, <1>2, <1>3, <2>1
<1>9. CASE CollectBatch
  <2>1. UNCHANGED calls /\ encoder' = [at |-> "select"] /\ width' \in Widths
    BY <1>9 DEF CollectBatch
  <2> QED
    BY <1>0, <1>2, <1>3, <2>1, WidthFacts
<1>10. CASE CollectCopies \/ EndCollector
  BY <1>1, <1>10 DEF CollectCopies, EndCollector, callVars
<1>11. CASE EndSource \/ Extraction \/ Loop \/ Graphs \/ Return \/ Interrupt \/ UNCHANGED vars
  <2>1. UNCHANGED <<encoder, calls, width>>
    BY <1>11, Frames DEF callVars, vars
  <2> QED
    BY <1>1, <2>1
<1> QED
  BY <1>4, <1>5, <1>6, <1>7, <1>8, <1>9, <1>10, <1>11, NextCases DEF Encode, Collect

\* A write adds rows to the disk and full blocks.
LEMMA WriteTyped ==
    ASSUME TypedDisk, NEW set \in RowSets, Write(set)
    PROVE  written' \in RowSets /\ blocks' \subseteq RowSets
<1>1. ASSUME NEW any PROVE Full(any) \subseteq RowSets
  BY DEF Full, Block, RowSets
<1>2. written \cup set \in RowSets
  BY DEF TypedDisk, RowSets
<1> HIDE DEF RowSets, Full
<1> QED
  BY <1>1, <1>2 DEF Write, TypedDisk

\* The types of the collector.
LEMMA StepKeepsDisk ==
    ASSUME TypedLoop, TypedCalls, TypedDisk, [Next]_vars
    PROVE  TypedDisk'
<1>0. TypedDisk' <=> written' \in RowSets /\ blocks' \subseteq RowSets /\ collector' \in {"select", "ended"}
  BY DEF TypedDisk, RowSets, AllRows, Files
<1>1. ASSUME UNCHANGED <<written, blocks, collector>> PROVE TypedDisk'
  BY <1>0, <1>1 DEF TypedDisk
<1>2. CASE CollectBatch
  <2>1. encoder.rows \in RowSets
    <3>1. encoder.at = "emit"
      BY <1>2 DEF CollectBatch
    <3> HIDE DEF RowSets, Causes
    <3> QED
      BY <3>1 DEF TypedCalls
  <2>2. UNCHANGED collector /\ (UNCHANGED <<written, blocks>> \/ Write(encoder.rows))
    BY <1>2 DEF CollectBatch
  <2> QED
    BY <1>0, <2>1, <2>2, WriteTyped DEF TypedDisk
<1>3. CASE CollectCopies
  <2>1. Head(todo).rows \in RowSets
    <3>1. todo # <<>> /\ todo \in Seq(Messages)
      BY <1>3 DEF CollectCopies, Sends, TypedLoop
    <3>2. Head(todo) \in Messages
      <4> HIDE DEF Messages
      <4> QED
        BY <3>1, HeadTailProperties
    <3> QED
      BY <3>2 DEF Messages
  <2>2. UNCHANGED collector /\ (UNCHANGED <<written, blocks>> \/ Write(Head(todo).rows))
    BY <1>3 DEF CollectCopies
  <2> QED
    BY <1>0, <2>1, <2>2, WriteTyped DEF TypedDisk
<1>4. CASE EndCollector
  <2> DEFINE short == written \ UNION Full(written)
  <2>1. short \in RowSets
    BY DEF TypedDisk, RowSets
  <2>2. UNCHANGED written /\ collector' = "ended" /\ blocks' \subseteq {short}
    BY <1>4 DEF EndCollector
  <2> HIDE DEF short
  <2> QED
    BY <1>0, <2>1, <2>2 DEF TypedDisk
<1>5. CASE Graphs
  <2>1. UNCHANGED <<written, collector>>
    BY <1>5, Frames
  <2>2. blocks' \subseteq blocks
    BY <1>5 DEF Graphs, TakePlan, Submit, EndStream, TakeBlock, StartShard, LeaseShard, BuildShard,
       diskVars
  <2> QED
    BY <1>0, <2>1, <2>2 DEF TypedDisk
<1>6. CASE EndSource \/ Extraction \/ Loop \/ Encode \/ Return \/ Interrupt \/ UNCHANGED vars
  <2>1. UNCHANGED <<written, blocks, collector>>
    BY <1>6, Frames DEF diskVars, vars
  <2> QED
    BY <1>1, <2>1
<1> QED
  BY <1>2, <1>3, <1>4, <1>5, <1>6, NextCases DEF Collect

\* The types of the graph stream.
LEMMA StepKeepsGraphs ==
    ASSUME TypedLoop, TypedDisk, TypedGraphs, [Next]_vars
    PROVE  TypedGraphs'
<1>0. TypedGraphs' <=> /\ got' \in RowSets /\ plans' \in Seq(RowSets) /\ stream' \in {"select", "ended"}
                       /\ shards' \in Seq(Shards)
  BY DEF TypedGraphs, Shards, RowSets, AllRows, Files
<1>1. ASSUME UNCHANGED <<got, plans, shards, stream>> PROVE TypedGraphs'
  BY <1>0, <1>1 DEF TypedGraphs
<1>2. ASSUME NEW b \in blocks, TakeBlock(b) PROVE TypedGraphs'
  <2>1. UNCHANGED <<plans, shards, stream>> /\ (got' = got \/ got' = got \cup b)
    BY <1>2 DEF TakeBlock
  <2>2. got \cup b \in RowSets
    BY DEF TypedDisk, TypedGraphs, RowSets
  <2> HIDE DEF RowSets
  <2> QED
    BY <1>0, <2>1, <2>2 DEF TypedGraphs
<1>3. CASE TakePlan
  <2>1. Head(todo).rows \in RowSets
    <3>1. todo # <<>> /\ todo \in Seq(Messages)
      BY <1>3 DEF TakePlan, Sends, TypedLoop
    <3>2. Head(todo) \in Messages
      <4> HIDE DEF Messages
      <4> QED
        BY <3>1, HeadTailProperties
    <3> QED
      BY <3>2 DEF Messages
  <2>2. UNCHANGED <<got, shards, stream>> /\ (plans' = plans \/ plans' = Append(plans, Head(todo).rows))
    BY <1>3 DEF TakePlan
  <2> HIDE DEF RowSets
  <2>3. plans' \in Seq(RowSets)
    BY <2>1, <2>2, AppendProperties DEF TypedGraphs
  <2> QED
    BY <1>0, <2>2, <2>3 DEF TypedGraphs
<1>4. CASE Submit
  <2> DEFINE new == [rows |-> Head(plans), state |-> "start"]
  <2>1. plans # <<>> /\ plans \in Seq(RowSets) /\ shards \in Seq(Shards)
        /\ shards' = Append(shards, new) /\ plans' = Tail(plans) /\ UNCHANGED <<got, stream>>
    BY <1>4 DEF Submit, HeadReady, TypedGraphs
  <2>2. Head(plans) \in RowSets /\ Tail(plans) \in Seq(RowSets)
    <3> HIDE DEF RowSets
    <3> QED
      BY <2>1, HeadTailProperties
  <2> HIDE DEF RowSets
  <2>3. new \in Shards
    BY <2>2 DEF Shards
  <2> HIDE DEF new
  <2>4. Append(shards, new) \in Seq(Shards)
    BY <2>1, <2>3, AppendProperties
  <2> QED
    BY <1>0, <2>1, <2>2, <2>4 DEF TypedGraphs
<1>5. ASSUME NEW i \in DOMAIN shards, StartShard(i) \/ LeaseShard(i) \/ BuildShard(i)
      PROVE TypedGraphs'
  <2>1. PICK state \in {"stopped", "linkable", "cpu", "build", "whole"} : ShardTo(i, state)
    BY <1>5 DEF StartShard, LeaseShard, BuildShard
  <2>2. UNCHANGED <<got, plans, stream>>
    BY <1>5 DEF StartShard, LeaseShard, BuildShard
  <2>3. state \in {"start", "cpu", "build", "linkable", "linked", "whole", "stopped"}
    OBVIOUS
  <2>4. shards' \in Seq(Shards)
    BY <2>1, <2>3, ShardMoved
  <2> QED
    BY <1>0, <2>2, <2>4 DEF TypedGraphs
<1>6. CASE EndStream
  <2> DEFINE linked(i) == [shards[i] EXCEPT !.state = "linked"]
             all == [i \in DOMAIN shards |-> IF shards[i].state = "linkable" THEN linked(i) ELSE shards[i]]
  <2>1. UNCHANGED <<got, plans>> /\ stream' = "ended" /\ (shards' = shards \/ shards' = all)
    BY <1>6 DEF EndStream
  <2>2. Len(shards) \in Nat /\ DOMAIN shards = 1..Len(shards) /\ \A i \in DOMAIN shards : shards[i] \in Shards
    BY ShardsFinite
  <2>3. \A i \in DOMAIN shards : linked(i) \in Shards
    <3> SUFFICES ASSUME NEW i \in DOMAIN shards PROVE linked(i) \in Shards
      OBVIOUS
    <3>1. shards[i] \in Shards
      BY <2>2
    <3> HIDE DEF RowSets
    <3> QED
      BY <3>1 DEF Shards
  <2> HIDE DEF linked
  <2>4. all \in [1..Len(shards) -> Shards]
    BY <2>2, <2>3
  <2>5. all \in Seq(Shards)
    BY <2>2, <2>4, SeqDef
  <2> QED
    BY <1>0, <2>1, <2>5 DEF TypedGraphs
<1>7. CASE EndSource \/ Extraction \/ Loop \/ Encode \/ Collect \/ Return \/ Interrupt \/ UNCHANGED vars
  <2>1. UNCHANGED <<got, plans, shards, stream>>
    BY <1>7, Frames DEF graphVars, vars
  <2> QED
    BY <1>1, <2>1
<1> QED
  BY <1>2, <1>3, <1>4, <1>5, <1>6, <1>7, NextCases DEF Graphs

\* The stages that tell a cause.
Tellers == {"source", "extraction", "output", "graphs"}

\* A cause that is told is one.
LEMMA TellTyped ==
    ASSUME causes \in [Tellers -> Causes], NEW s \in Tellers, NEW cause \in Causes, Tell(s, cause)
    PROVE  causes' \in [Tellers -> Causes]
BY DEF Tell

\* The types of the causes and of the result.
LEMMA StepKeepsEnds ==
    ASSUME TypedCalls, TypedEnds, [Next]_vars
    PROVE  TypedEnds'
<1>0. /\ "failure" \in Causes /\ "canceled" \in Causes /\ MaxFaults \in Nat
      /\ causes \in [Tellers -> Causes] /\ faults \in 0..MaxFaults
      /\ canceled \in BOOLEAN /\ interrupted \in BOOLEAN /\ result \in {"none", "ok", "failure", "canceled"}
  BY ConstantsAssumption DEF Causes, TypedEnds, Tellers
<1>1. (\A kind : Fault(kind) => faults' \in 0..MaxFaults) /\ (UNCHANGED faults => faults' \in 0..MaxFaults)
  BY <1>0 DEF Fault
<1>2. \A s \in Tellers : \A cause \in Causes : Tell(s, cause) => causes' \in [Tellers -> Causes]
  BY <1>0, TellTyped
<1>3. "source" \in Tellers /\ "extraction" \in Tellers /\ "output" \in Tellers /\ "graphs" \in Tellers
  BY DEF Tellers
<1>4. ASSUME faults' \in 0..MaxFaults, canceled' \in BOOLEAN, causes' \in [Tellers -> Causes],
             UNCHANGED <<interrupted, result>>
      PROVE  TypedEnds'
  BY <1>0, <1>4 DEF TypedEnds, Tellers, Causes, NoCause
<1> HIDE DEF Tellers, Causes
<1>5. CASE EndSource
  <2>1. UNCHANGED <<canceled, interrupted, result>> /\ (UNCHANGED faults \/ Fault("read"))
        /\ (UNCHANGED causes \/ Tell("source", "failure") \/ Tell("source", "canceled"))
    BY <1>5 DEF EndSource, endVars
  <2> QED
    BY <1>0, <1>1, <1>2, <1>3, <1>4, <2>1
<1>6. CASE Extraction
  <2>1. UNCHANGED <<canceled, causes, interrupted, result>>
    BY <1>6, Frames DEF endVars
  <2>2. UNCHANGED faults \/ Fault("window")
    BY <1>6 DEF Extraction, Take, Dispatch, StartExtract, Extract, QuitWorker
  <2> QED
    BY <1>0, <1>1, <1>4, <2>1, <2>2
<1>7. CASE Loop
  <2>1. UNCHANGED <<interrupted, result, faults>>
    BY <1>7, Frames DEF endVars
  <2>2. /\ canceled' = canceled \/ canceled' = TRUE
        /\ UNCHANGED causes \/ Tell("extraction", "failure") \/ Tell("extraction", "canceled")
    BY <1>7 DEF Loop, Receive, Merge, MergeFile, Abandon, EndFiles, CloseChannels
  <2> QED
    BY <1>0, <1>1, <1>2, <1>3, <1>4, <2>1, <2>2
<1>8. CASE Encode
  <2>1. UNCHANGED <<causes, interrupted, result>>
    BY <1>8, Frames DEF endVars
  <2>2. (UNCHANGED faults \/ Fault("model")) /\ canceled' \in BOOLEAN
    BY <1>0, <1>8 DEF Encode, TakeBatch, StartCall, EndCall, Outcome, TakeResult, EndEncoder
  <2> QED
    BY <1>0, <1>1, <1>4, <2>1, <2>2
<1>9. CASE Collect
  <2>1. UNCHANGED <<interrupted, result>>
    BY <1>9, Frames DEF endVars
  <2>2. canceled' = canceled \/ canceled' = TRUE
    BY <1>9 DEF Collect, CollectBatch, CollectCopies, EndCollector, Write
  <2>3. UNCHANGED faults \/ Fault("disk")
    BY <1>9 DEF Collect, CollectBatch, CollectCopies, EndCollector, Write
  <2>4. encoder.at = "emit" => encoder.cause \in Causes
    <3> HIDE DEF RowSets
    <3> QED
      BY DEF TypedCalls
  <2>5. UNCHANGED causes \/ Tell("output", "failure") \/ (encoder.at = "emit" /\ Tell("output", encoder.cause))
    BY <1>9 DEF Collect, CollectBatch, CollectCopies, EndCollector, Write
  <2> QED
    BY <1>0, <1>1, <1>2, <1>3, <1>4, <2>1, <2>2, <2>3, <2>4, <2>5
<1>10. CASE Graphs
  <2>1. UNCHANGED <<interrupted, result>>
    BY <1>10, Frames DEF endVars
  <2>2. canceled' = canceled \/ canceled' = TRUE
    BY <1>10 DEF Graphs, TakePlan, Submit, EndStream, TakeBlock, StartShard, LeaseShard, BuildShard
  <2>3. UNCHANGED faults \/ Fault("graph")
    BY <1>10 DEF Graphs, TakePlan, Submit, EndStream, TakeBlock, StartShard, LeaseShard, BuildShard
  <2>4. UNCHANGED causes \/ Tell("graphs", "failure") \/ Tell("graphs", "canceled")
    BY <1>10 DEF Graphs, TakePlan, Submit, EndStream, TakeBlock, StartShard, LeaseShard, BuildShard
  <2> QED
    BY <1>0, <1>1, <1>2, <1>3, <1>4, <2>1, <2>2, <2>3, <2>4
<1>11. CASE Return
  <2>1. UNCHANGED <<canceled, causes, interrupted, faults>>
    BY <1>11, Frames
  <2>2. result' \in {"ok", "failure", "canceled"}
    BY <1>11 DEF Return, Cause, NoCause
  <2> QED
    BY <1>0, <2>1, <2>2 DEF TypedEnds, Tellers, Causes, NoCause
<1>12. CASE Interrupt
  <2>1. UNCHANGED <<causes, result>> /\ Fault("interrupt") /\ interrupted' = TRUE /\ canceled' = TRUE
    BY <1>12 DEF Interrupt
  <2>2. faults' \in 0..MaxFaults
    BY <1>1, <2>1
  <2> QED
    BY <1>0, <2>1, <2>2 DEF TypedEnds, Tellers, Causes, NoCause
<1>13. CASE UNCHANGED vars
  <2>1. UNCHANGED <<canceled, causes, interrupted, result, faults>>
    BY <1>13 DEF vars, endVars
  <2> QED
    BY <1>0, <1>4, <2>1
<1> QED
  BY <1>5, <1>6, <1>7, <1>8, <1>9, <1>10, <1>11, <1>12, <1>13, NextCases

-----------------------------------------------------------------------------
(* The counters stay in their bounds.                                      *)

\* Each counter is one of things that there are: it never goes below zero.
LEMMA CountersAre ==
    ASSUME TypedPlaces', TypedLoop', TypedCalls', TypedGraphs', MergedInv', Apart', WeightInv', LeaseInv'
    PROVE  used' \in Nat /\ leases' \in Nat
<1>1. IsFiniteSet(Files)
  BY FilesFinite
<1>2. used' \in Nat
  <2>1. InStage(Held)' \subseteq Files
    BY DEF InStage
  <2>2. \A n \in 1..Len(rows') : rows'[n][1] \in Files
    <3>1. LastFile \in Nat /\ Files = 1..LastFile /\ next' \in 1..(LastFile + 1)
      BY Constants DEF TypedLoop, LastFile
    <3> DEFINE turn == next'
    <3>a. turn \in 1..(LastFile + 1) /\ LastFile \in Nat
      BY <3>1
    <3> HIDE DEF turn
    <3>b. turn - 1 \in 0..LastFile /\ 1..(turn - 1) \subseteq 1..LastFile
      BY <3>a
    <3>2. next' - 1 \in 0..LastFile /\ 1..(next' - 1) \subseteq 1..LastFile
      BY <3>b DEF turn
    <3>3. rows' = Upto[next' - 1]
      BY DEF MergedInv, Upto, IsUpto, RowsOf, LastFile
    <3>4. Len(rows') = Through(next' - 1)
      BY <3>3 DEF Through
    <3>5. \A n \in 1..Len(rows') : rows'[n][1] \in 1..(next' - 1)
      BY <3>2, <3>3, <3>4, UptoGrows
    <3>6. 1..(next' - 1) \subseteq Files
      BY <3>1, <3>2
    <3> QED
      BY <3>5, <3>6
  <2>3. \A s \in Batches' : s \subseteq 1..Len(rows')
    <3>1. Batches' = {batch'} \cup Sent' \cup AtCpu' \cup Called'
      BY DEF Batches, Sent, AtCpu, Called, Calling, EncodedIn, Encoding
    <3>2. batch' \subseteq 1..Len(rows') /\ \A s \in Sent' \cup AtCpu' \cup Called' : s \subseteq 1..Len(rows')
      BY DEF Apart
    <3> HIDE DEF Sent, AtCpu, Called, Batches
    <3> QED
      BY <3>1, <3>2
  <2>4. OwnedBy(Batches)' \subseteq Files
    <3>1. OwnedBy(Batches)' = UNION {{rows'[n][1] : n \in s} : s \in Batches'}
      BY DEF OwnedBy, OwnersOf
    <3> HIDE DEF Batches
    <3>2. \A s \in Batches' : {rows'[n][1] : n \in s} \subseteq Files
      BY <2>2, <2>3
    <3> QED
      BY <3>1, <3>2
  <2>5. used' = Cardinality(InStage(Held)' \cup OwnedBy(Batches)')
    BY DEF WeightInv
  <2>6. IsFiniteSet(InStage(Held)' \cup OwnedBy(Batches)')
    BY <1>1, <2>1, <2>4, FS_Subset
  <2> QED
    BY <2>5, <2>6, FS_CardinalityType
<1>3. leases' \in Nat
  <2>1. InStage({"parse"})' \subseteq Files /\ Calling' \subseteq calls' /\ IsFiniteSet(calls')
    BY DEF InStage, Calling, TypedCalls
  <2>2. Building' \subseteq 1..Len(shards') /\ Len(shards') \in Nat
    <3>1. shards' \in Seq(Shards')
      BY DEF TypedGraphs
    <3>2. DOMAIN shards' = 1..Len(shards') /\ Len(shards') \in Nat
      BY <3>1, LenProperties
    <3> QED
      BY <3>2 DEF Building
  <2>3. IsFiniteSet(1..Len(shards'))
    BY <2>2, FS_Interval
  <2>4. IsFiniteSet(InStage({"parse"})') /\ IsFiniteSet(Calling') /\ IsFiniteSet(Building')
    BY <1>1, <2>1, <2>2, <2>3, FS_Subset
  <2>5. Cardinality(InStage({"parse"})') \in Nat /\ Cardinality(Calling') \in Nat /\ Cardinality(Building') \in Nat
    BY <2>4, FS_CardinalityType
  <2>6. leases' = Cardinality(InStage({"parse"})') + CallCPUs * Cardinality(Calling') + Cardinality(Building')
    BY DEF LeaseInv
  <2>7. CallCPUs * Cardinality(Calling') \in Nat
    <3>1. CallCPUs \in Nat
      BY ConstantsAssumption
    <3> HIDE DEF Calling
    <3> QED
      BY <2>5, <3>1
  <2> QED
    BY <2>5, <2>6, <2>7
<1> QED
  BY <1>2, <1>3

\* What a batch gives back.
LEMMA GivesBack ==
    ASSUME TypedPlaces, TypedLoop, MergedInv, Apart, NEW sets, NEW others,
           \A s \in sets : s \subseteq 1..Len(rows)
    PROVE  Cardinality(OwnedBy(sets) \ others) \in Nat
<1>1. UNION sets \subseteq 1..Len(rows)
  OBVIOUS
<1>2. OwnedBy(sets) \subseteq Files
  BY <1>1, OwnersAre, OwnersMerged
<1>3. IsFiniteSet(OwnedBy(sets) \ others)
  BY <1>2, FilesFinite, FS_Subset
<1> QED
  BY <1>3, FS_CardinalityType

\* Only the source takes weight.
LEMMA WeightTaken ==
    ASSUME TypedPlaces, TypedLoop, TypedCalls, MergedInv, Apart, Bounded, [Next]_vars
    PROVE  used' <= used \/ (used < ReadBudget /\ used' = used + 1)
<1>0. used \in Nat /\ ReadBudget \in Nat
  BY ConstantsAssumption DEF Bounded
<1>1. ASSUME used' = used \/ used' = used - 1 PROVE used' <= used
  BY <1>0, <1>1
<1>2. ASSUME NEW set \in OnWay, NEW others, Release(set, others) PROVE used' <= used
  <2>1. set \subseteq 1..Len(rows)
    BY OthersThan
  <2>2. OwnedBy({set}) = OwnersOf(set)
    BY DEF OwnedBy
  <2>3. Cardinality(OwnersOf(set) \ OwnedBy(others)) \in Nat
    BY <2>1, <2>2, GivesBack
  <2> QED
    BY <1>0, <1>2, <2>3 DEF Release
<1>3. CASE Extraction
  <2>1. (used < ReadBudget /\ used' = used + 1) \/ used' = used \/ used' = used - 1
    BY <1>3 DEF Extraction, Take, Dispatch, StartExtract, Extract, QuitWorker
  <2> QED
    BY <1>1, <2>1
<1>4. CASE \E f \in Files : Receive(f) \/ Merge(f)
  <2>1. used' = used \/ used' = used - 1
    BY <1>4 DEF Receive, Merge, MergeFile
  <2> QED
    BY <1>1, <2>1
<1>5. CASE CloseChannels
  BY <1>1, <1>5 DEF CloseChannels
<1>6. CASE Abandon
  <2>1. used' = used - Cardinality(OwnedBy(Sent) \ OwnedBy(Batches \ Sent))
    BY <1>6 DEF Abandon, Sent, EncodedIn, Encoding
  <2>2. \A s \in Sent : s \subseteq 1..Len(rows)
    BY DEF Apart
  <2>3. Cardinality(OwnedBy(Sent) \ OwnedBy(Batches \ Sent)) \in Nat
    BY <2>2, GivesBack
  <2> QED
    BY <1>0, <2>1, <2>3
<1>7. CASE EndFiles
  <2> DEFINE kept == Cardinality(InStage({"pending"}))
             back == Cardinality(OwnersOf(batch) \ OwnedBy(Batches \ {batch}))
  <2>1. used' = used - kept - back \/ used' = used - kept
    BY <1>7 DEF EndFiles
  <2>2. kept \in Nat
    BY FilesFinite
  <2>3. back \in Nat
    <3>1. OwnedBy({batch}) = OwnersOf(batch) /\ \A s \in {batch} : s \subseteq 1..Len(rows)
      BY DEF OwnedBy, Apart
    <3> QED
      BY <3>1, GivesBack
  <2> HIDE DEF kept, back
  <2> QED
    BY <1>0, <2>1, <2>2, <2>3
<1>8. CASE Encode
  <2>1. CASE TakeBatch
    <3>1. used' = used \/ Release(Head(todo).rows, Batches \ {Head(todo).rows})
      BY <2>1 DEF TakeBatch
    <3>2. Head(todo).rows \in OnWay
      <4>1. todo # <<>> /\ todo \in Seq(Messages) /\ Head(todo).to = "encoder"
        BY <2>1 DEF TakeBatch, Sends, TypedLoop
      <4> QED
        BY <4>1, EncodingTail DEF OnWay, Sent
    <3> QED
      BY <1>1, <1>2, <3>1, <3>2
  <2>2. CASE StartCall
    <3>1. used' = used \/ Release(encoder.rows, Batches \ {encoder.rows})
      BY <2>2 DEF StartCall
    <3>2. encoder.rows \in OnWay
      BY <2>2 DEF StartCall, OnWay, AtCpu
    <3> QED
      BY <1>1, <1>2, <3>1, <3>2
  <2>3. CASE \E c \in calls : \E cause \in Causes : EndCall(c, cause)
    <3>1. PICK c \in calls : c.cause = "running" /\ Release(c.rows, Batches \ {c.rows})
      BY <2>3 DEF EndCall
    <3>2. c.rows \in OnWay
      BY <3>1 DEF OnWay, Called, Calling
    <3> QED
      BY <1>2, <3>1, <3>2
  <2>4. CASE (\E c \in calls : TakeResult(c)) \/ EndEncoder
    BY <1>1, <2>4 DEF TakeResult, EndEncoder
  <2> QED
    BY <1>8, <2>1, <2>2, <2>3, <2>4 DEF Encode
<1>9. CASE EndSource \/ Collect \/ Graphs \/ Return \/ Interrupt \/ UNCHANGED vars
  <2>1. UNCHANGED used
    BY <1>9, Frames DEF vars
  <2> QED
    BY <1>1, <2>1
<1> QED
  BY <1>3, <1>4, <1>5, <1>6, <1>7, <1>8, <1>9, NextCases DEF Loop

\* Who takes a lease finds one free, or needs none.
LEMMA LeaseTaken ==
    ASSUME Bounded, [Next]_vars
    PROVE  leases' <= leases \/ (leases < CPUs /\ leases' \in {leases + 1, leases + CallCPUs})
<1>0. leases \in Nat /\ CallCPUs \in Nat
  BY ConstantsAssumption DEF Bounded
<1>1. ASSUME UNCHANGED leases PROVE leases' <= leases
  BY <1>0, <1>1
<1>2. ASSUME leases' = leases - 1 \/ leases' = leases - CallCPUs PROVE leases' <= leases
  BY <1>0, <1>2
<1>3. CASE Extraction
  <2>1. UNCHANGED leases \/ leases' = leases - 1 \/ (leases < CPUs /\ leases' = leases + 1)
    BY <1>3 DEF Extraction, Take, Dispatch, StartExtract, Extract, QuitWorker, CanLease
  <2> QED
    BY <1>1, <1>2, <2>1
<1>4. CASE Encode
  <2>1. \/ UNCHANGED leases \/ leases' = leases - CallCPUs
        \/ leases < CPUs /\ leases' = leases + CallCPUs
        \/ CallCPUs = 0 /\ leases' = leases + CallCPUs
    BY <1>4 DEF Encode, TakeBatch, StartCall, EndCall, TakeResult, EndEncoder, CanLease
  <2> QED
    BY <1>0, <1>1, <1>2, <2>1
<1>5. CASE Graphs
  <2>1. UNCHANGED leases \/ leases' = leases - 1 \/ (leases < CPUs /\ leases' = leases + 1)
    BY <1>5 DEF Graphs, TakePlan, Submit, EndStream, TakeBlock, StartShard, LeaseShard, BuildShard,
       CanLease
  <2> QED
    BY <1>1, <1>2, <2>1
<1>6. CASE EndSource \/ Loop \/ Collect \/ Return \/ Interrupt \/ UNCHANGED vars
  <2>1. UNCHANGED leases
    BY <1>6, Frames DEF vars
  <2> QED
    BY <1>1, <2>1
<1> QED
  BY <1>3, <1>4, <1>5, <1>6, NextCases

\* The semaphore, the gate and the workers stay in their bounds.
LEMMA StepKeepsBounds ==
    ASSUME TypedPlaces, TypedLoop, TypedCalls, MergedInv, Apart, Bounded, [Next]_vars,
           TypedPlaces', TypedLoop', TypedCalls', TypedGraphs', MergedInv', Apart', WeightInv', LeaseInv', AliveInv'
    PROVE  Bounded'
<1> DEFINE cost == Max({1, CallCPUs})
<1>0. /\ alive \in 0..CPUs /\ used \in 0..ReadBudget /\ leases \in 0..(CPUs - 1 + cost)
      /\ CPUs \in Nat \ {0} /\ ReadBudget \in Nat \ {0} /\ CallCPUs \in Nat
      /\ cost \in Nat /\ cost >= 1 /\ cost >= CallCPUs
  BY ConstantsAssumption, WidthFacts DEF Bounded
<1>1. used' \in 0..ReadBudget
  <2>1. used' \in Nat
    BY CountersAre
  <2>2. used' <= used \/ (used < ReadBudget /\ used' = used + 1)
    BY WeightTaken
  <2> QED
    BY <1>0, <2>1, <2>2
<1>2. leases' \in 0..(CPUs - 1 + cost)
  <2>1. leases' \in Nat
    BY CountersAre
  <2>2. leases' <= leases \/ (leases < CPUs /\ leases' \in {leases + 1, leases + CallCPUs})
    BY LeaseTaken
  <2> HIDE DEF cost
  <2> QED
    BY <1>0, <2>1, <2>2
<1>3. alive' \in 0..CPUs
  <2>1. alive' = alive \/ alive' = alive - 1
    <3>1. CASE Extraction
      BY <3>1 DEF Extraction, Take, Dispatch, StartExtract, Extract, QuitWorker
    <3>2. CASE EndSource \/ Loop \/ Encode \/ Collect \/ Graphs \/ Return \/ Interrupt \/ UNCHANGED vars
      BY <3>2, Frames DEF vars
    <3> QED
      BY <3>1, <3>2, NextCases
  <2>2. Cardinality(InStage(Extracting \cup Sending)') <= alive'
    BY DEF AliveInv
  <2>3. Cardinality(InStage(Extracting \cup Sending)') \in Nat
    <3>1. InStage(Extracting \cup Sending)' \subseteq Files
      BY DEF InStage
    <3> QED
      BY <3>1, FilesFinite, FS_Subset, FS_CardinalityType
  <2> QED
    BY <1>0, <2>1, <2>2, <2>3
<1> QED
  BY <1>1, <1>2, <1>3 DEF Bounded

-----------------------------------------------------------------------------
(* The theorems.                                                           *)

\* A build that starts has nothing in work.
LEMMA InitHolds == Init => IInv
<1> SUFFICES ASSUME Init PROVE IInv
  OBVIOUS
<1>0. /\ LastFile \in Nat /\ LastFile = Len(Windows) /\ Files = 1..LastFile
      /\ {ReadBudget, CPUs, BatchRows, MaxShardRows} \subseteq Nat \ {0} /\ MaxFaults \in Nat /\ CallCPUs \in Nat
      /\ Cardinality({}) = 0
  BY Constants, ConstantsAssumption, FS_EmptySet DEF LastFile
<1>1. \A places : "unread" \notin places => InStage(places) = {}
  BY DEF Init, InStage
<1>2. InStage(Held) = {} /\ InStage(Extracting \cup Sending) = {} /\ InStage({"parse"}) = {}
  <2>1. "unread" \notin Held /\ "unread" \notin Extracting \cup Sending /\ "unread" \notin {"parse"}
    BY DEF Held, Extracting, Sending
  <2> QED
    BY <1>1, <2>1
<1>3. TypedPlaces
  BY DEF Init, TypedPlaces
<1>4. TypedLoop
  <2>1. NoPlanner \in Planners
    <3>1. <<>> \in Seq(Files) /\ {} \in RowSets /\ 0 \in 0..MaxShardRows
      BY <1>0, EmptySeq DEF RowSets
    <3> HIDE DEF RowSets
    <3> QED
      BY <3>1 DEF Planners, NoPlanner
  <2>2. 1 \in 1..(Len(Windows) + 1) /\ {} \in RowSets /\ Cardinality({}) < BatchRows /\ <<>> \in Seq(Messages)
    BY <1>0, EmptySeq DEF RowSets
  <2> HIDE DEF RowSets, Messages, Planners
  <2> QED
    BY <2>1, <2>2 DEF Init, TypedLoop
<1>5. TypedCalls
  <2>1. 1 \in 1..CallLimit /\ IsFiniteSet({})
    BY WidthFacts, FS_EmptySet
  <2>2. encoder = [at |-> "select"] /\ calls = {} /\ width = 1
    BY DEF Init
  <2>3. encoder \in [at : {"select", "ended"}]
    BY <2>2
  <2> HIDE DEF RowSets, CallLimit
  <2> QED
    BY <2>1, <2>2, <2>3 DEF TypedCalls
<1>6. TypedDisk /\ TypedGraphs
  <2>1. {} \in RowSets /\ <<>> \in Seq(RowSets) /\ <<>> \in Seq(Shards)
    BY EmptySeq DEF RowSets
  <2> HIDE DEF RowSets
  <2> QED
    BY <2>1 DEF Init, TypedDisk, TypedGraphs
<1>7. TypedEnds
  <2>1. /\ canceled = FALSE /\ interrupted = FALSE /\ result = "none" /\ faults = 0
        /\ causes = [s \in {"source", "extraction", "output", "graphs"} |-> NoCause]
    BY DEF Init
  <2>2. NoCause \in Causes
    BY DEF Causes
  <2>3. causes \in [{"source", "extraction", "output", "graphs"} -> Causes]
    BY <2>1, <2>2
  <2>4. 0 \in 0..MaxFaults
    BY <1>0
  <2> QED
    BY <2>1, <2>3, <2>4 DEF TypedEnds
<1>8. Bounded
  BY <1>0, WidthFacts DEF Init, Bounded
<1>9. MergedInv
  <2>1. rows = <<>> /\ next - 1 = 0 /\ next = 1 /\ \A f \in Files : stage[f] = "unread"
    BY DEF Init
  <2>2. Upto[0] = <<>>
    BY UptoSteps
  <2>3. \A f \in Files : ~(f < 1)
    BY <1>0
  <2> QED
    BY <2>1, <2>2, <2>3 DEF MergedInv
<1>10. AliveInv
  <2>1. alive = CPUs /\ CPUs \in Nat
    BY <1>0 DEF Init
  <2>2. Cardinality(InStage(Extracting \cup Sending)) = 0
    BY <1>0, <1>2
  <2> QED
    BY <2>1, <2>2 DEF AliveInv
<1>11. Sent = {} /\ AtCpu = {} /\ Calling = {} /\ Called = {} /\ Building = {} /\ Parted(todo) /\ batch = {}
  <2>1. todo = <<>> /\ encoder.at = "select" /\ calls = {} /\ shards = <<>> /\ batch = {}
    BY DEF Init
  <2> QED
    BY <2>1, NothingToSend DEF Sent, AtCpu, Calling, Called, Building
<1>12. Apart
  BY <1>11 DEF Apart
<1>13. WeightInv
  <2>1. Batches = {{}}
    BY <1>11, BatchesAre DEF OnWay
  <2>2. OwnedBy(Batches) = {}
    BY <2>1 DEF OwnedBy, OwnersOf
  <2>3. used = 0
    BY DEF Init
  <2> QED
    BY <1>0, <1>2, <2>2, <2>3 DEF WeightInv
<1>14. LeaseInv
  <2>1. CallCPUs * 0 = 0 /\ leases = 0
    BY <1>0 DEF Init
  <2>2. Cardinality(InStage({"parse"})) = 0 /\ Cardinality(Calling) = 0 /\ Cardinality(Building) = 0
    BY <1>0, <1>2, <1>11
  <2>3. leases = 0 + CallCPUs * 0 + 0
    BY <2>1
  <2> QED
    BY <2>2, <2>3 DEF LeaseInv
<1>15. EndInv
  BY DEF Init, EndInv
<1>16. CancelInv
  BY DEF Init, CancelInv, NoCause
<1> QED
  BY <1>3, <1>4, <1>5, <1>6, <1>7, <1>8, <1>9, <1>10, <1>12, <1>13, <1>14, <1>15, <1>16 DEF IInv,
     Typed

\* Every step keeps the invariant.
LEMMA StepHolds == IInv /\ [Next]_vars => IInv'
<1> SUFFICES ASSUME IInv, [Next]_vars PROVE IInv'
  OBVIOUS
<1>1. /\ TypedPlaces /\ TypedLoop /\ TypedCalls /\ TypedDisk /\ TypedGraphs /\ TypedEnds
      /\ Bounded /\ MergedInv /\ AliveInv /\ Apart /\ WeightInv /\ LeaseInv /\ EndInv /\ CancelInv
  BY DEF IInv, Typed
<1>2. TypedPlaces' /\ TypedLoop' /\ TypedCalls' /\ TypedDisk' /\ TypedGraphs' /\ TypedEnds'
  BY <1>1, StepKeepsPlaces, StepKeepsLoop, StepKeepsCalls, StepKeepsDisk, StepKeepsGraphs,
     StepKeepsEnds
<1>3. MergedInv' /\ AliveInv' /\ LeaseInv'
  BY <1>1, StepKeepsMerged, StepKeepsAlive, StepKeepsLeases
<1>4. Apart' /\ WeightInv'
  BY <1>1, StepKeepsWeight DEF Kept
<1>5. EndInv' /\ CancelInv'
  BY <1>1, StepKeepsEnd, StepKeepsCause
<1>6. Bounded'
  BY <1>1, <1>2, <1>3, <1>4, StepKeepsBounds
<1> QED
  BY <1>2, <1>3, <1>4, <1>5, <1>6 DEF IInv, Typed

\* A build keeps IInv, for any files, sizes, processors and faults: the conjunction of
\* the parts above is inductive.
THEOREM Invariant == Spec => []IInv
<1>1. Init => IInv
  BY InitHolds
<1>2. IInv /\ [Next]_vars => IInv'
  BY StepHolds
<1> QED
  BY <1>1, <1>2, PTL DEF Spec

\* The types.  With them the semaphore of buildSemanticGeneration never holds more than
\* its budget, the CPU gate passes its limit by at most one task, and no pending batch
\* is as long as a model batch.
THEOREM TypeCorrect == Spec => []TypeOK
<1>1. IInv => TypeOK
  <2> SUFFICES ASSUME IInv PROVE TypeOK
    OBVIOUS
  <2>1. /\ TypedPlaces /\ TypedLoop /\ TypedCalls /\ TypedDisk /\ TypedGraphs /\ TypedEnds /\ Bounded /\ MergedInv
    BY DEF IInv, Typed
  <2>2. rows \in Seq(Files \X Nat)
    <3>1. LastFile \in Nat /\ Files = 1..LastFile /\ next \in 1..(LastFile + 1)
      BY <2>1, Constants DEF TypedLoop, LastFile
    <3>2. next - 1 \in 0..LastFile
      BY <3>1
    <3> QED
      BY <2>1, <3>2, UptoSteps DEF MergedInv
  <2>3. planner.size \in 0..MaxShardRows /\ planner.held \in Seq(Files) /\ planner.open \in RowSets
    <3> HIDE DEF RowSets
    <3> QED
      BY <2>1 DEF TypedLoop, Planners
  <2> HIDE DEF RowSets, Messages, Calls, Causes, Held
  <2> QED
    BY <2>1, <2>2, <2>3 DEF TypeOK, TypedPlaces, TypedLoop, TypedCalls, TypedDisk,
                            TypedGraphs, TypedEnds, Bounded, Shards
<1> QED
  BY <1>1, Invariant, PTL

\* Stages cancel each other, and every stage that meets the cancel reports it.  Still
\* a build says "canceled" only when the search was interrupted: else a stage has told
\* the failure that set the cancel off, which buildSemanticGeneration prefers.
THEOREM CauseTold == Spec => []CauseIsTold
<1>1. IInv => CauseIsTold
  BY DEF IInv, CancelInv, CauseIsTold
<1> QED
  BY <1>1, Invariant, PTL

\* At the end no file is held, no batch is on its way, and nothing computes.
LEMMA NothingLeft ==
    ASSUME IInv, result # "none"
    PROVE  used = 0 /\ leases = 0
<1>1. /\ TypedCalls /\ WeightInv /\ LeaseInv /\ EndInv /\ Apart
  BY DEF IInv, Typed
<1>2. /\ InStage(Extracting \cup Sending) = {} /\ InStage({"pending"}) = {} /\ InStage({"read"}) = {} /\ batch = {}
      /\ todo = <<>> /\ calls = {} /\ encoder.at = "ended" /\ Running = {}
  BY <1>1 DEF EndInv, ExtractedEnded, DispatchEnded
<1>3. InStage(Held) = {} /\ InStage({"parse"}) = {}
  BY <1>2 DEF InStage, Held, Extracting
<1>4. Batches = {{}}
  <2>1. Sent = {} /\ AtCpu = {} /\ Called = {}
    BY <1>2, NothingToSend DEF Sent, AtCpu, Called, Calling
  <2> QED
    BY <1>2, <2>1, BatchesAre DEF OnWay
<1>5. OwnedBy(Batches) = {}
  BY <1>4 DEF OwnedBy, OwnersOf
<1>6. Calling = {} /\ Building = {}
  BY <1>2 DEF Calling, Building, Running
<1>7. Cardinality({}) = 0 /\ CallCPUs * 0 = 0
  BY FS_EmptySet, ConstantsAssumption
<1> QED
  BY <1>1, <1>3, <1>5, <1>6, <1>7 DEF WeightInv, LeaseInv

\* The read semaphore holds one weight of each file that a stage still reads, on every
\* path of a file through the stages: the owner of a file is released once, by the last
\* of its batches.  A build that returned holds no weight, and no lease of the CPU gate.
THEOREM WeightsBack == Spec => []WeightsReturned
<1>1. IInv => WeightsReturned
  BY NothingLeft DEF IInv, WeightInv, WeightsReturned
<1> QED
  BY <1>1, Invariant, PTL

-----------------------------------------------------------------------------
(* The shards cut the rows: sequences that join two numbers.               *)

\* A sequence joins a and b: its members go from number to number as R says.
Chain(q, R, a, b) ==
    \E e \in [0..Len(q) -> Nat] :
        e[0] = a /\ e[Len(q)] = b /\ \A i \in 1..Len(q) : <<q[i], e[i - 1], e[i]>> \in R

\* The ends are numbers.
LEMMA ChainEnds ==
    ASSUME NEW S, NEW q \in Seq(S), NEW R, NEW a, NEW b, Chain(q, R, a, b)
    PROVE  a \in Nat /\ b \in Nat
<1>1. PICK e \in [0..Len(q) -> Nat] : e[0] = a /\ e[Len(q)] = b
  BY DEF Chain
<1>2. 0 \in 0..Len(q) /\ Len(q) \in 0..Len(q)
  BY LenProperties
<1> QED
  BY <1>1, <1>2

\* An empty sequence goes nowhere.
LEMMA ChainNone ==
    ASSUME NEW R, NEW a \in Nat, NEW b
    PROVE  Chain(<<>>, R, a, b) <=> a = b
<1>1. Len(<<>>) = 0 /\ 0..0 = {0} /\ 1..0 = {}
  OBVIOUS
<1>2. ASSUME Chain(<<>>, R, a, b) PROVE a = b
  BY <1>1, <1>2 DEF Chain
<1>3. ASSUME a = b PROVE Chain(<<>>, R, a, b)
  <2> DEFINE e == [i \in {0} |-> a]
  <2>1. e \in [0..Len(<<>>) -> Nat] /\ e[0] = a /\ e[Len(<<>>)] = b
    BY <1>1, <1>3
  <2>2. \A i \in 1..Len(<<>>) : <<<<>>[i], e[i - 1], e[i]>> \in R
    BY <1>1
  <2> HIDE DEF e
  <2> QED
    BY <2>1, <2>2 DEF Chain
<1> QED
  BY <1>2, <1>3

\* One member goes one step.
LEMMA ChainOne ==
    ASSUME NEW R, NEW x, NEW a \in Nat, NEW b \in Nat, <<x, a, b>> \in R
    PROVE  Chain(<<x>>, R, a, b)
<1> DEFINE q == <<x>>
           e == [i \in 0..1 |-> IF i = 0 THEN a ELSE b]
<1>1. Len(q) = 1 /\ q[1] = x
  OBVIOUS
<1>2. e \in [0..1 -> Nat] /\ e[0] = a /\ e[1] = b
  OBVIOUS
<1> HIDE DEF q, e
<1>3. \A i \in 1..1 : i = 1 /\ i - 1 = 0
  OBVIOUS
<1>4. \A i \in 1..1 : <<q[i], e[i - 1], e[i]>> \in R
  BY <1>1, <1>2, <1>3
<1>5. Chain(q, R, a, b)
  BY <1>1, <1>2, <1>4 DEF Chain
<1> QED
  BY <1>5 DEF q

\* Two sequences that meet are one.
LEMMA ChainJoin ==
    ASSUME NEW S, NEW q \in Seq(S), NEW r \in Seq(S), NEW R, NEW a, NEW b, NEW c,
           Chain(q, R, a, b), Chain(r, R, b, c)
    PROVE  Chain(q \o r, R, a, c)
<1> DEFINE m == Len(q)
           n == Len(r)
           s == q \o r
<1>0. /\ m \in Nat /\ n \in Nat /\ Len(s) = m + n
      /\ \A i \in 1..(m + n) : s[i] = IF i <= m THEN q[i] ELSE r[i - m]
  BY LenProperties, ConcatProperties
<1>1. PICK e \in [0..m -> Nat] : e[0] = a /\ e[m] = b /\ \A i \in 1..m : <<q[i], e[i - 1], e[i]>> \in R
  BY DEF Chain
<1>2. PICK d \in [0..n -> Nat] : d[0] = b /\ d[n] = c /\ \A i \in 1..n : <<r[i], d[i - 1], d[i]>> \in R
  BY DEF Chain
<1> HIDE DEF m, n, s
<1> DEFINE f == [i \in 0..(m + n) |-> IF i <= m THEN e[i] ELSE d[i - m]]
<1>3. f \in [0..(m + n) -> Nat]
  <2>1. \A i \in 0..(m + n) : IF i <= m THEN i \in 0..m ELSE i - m \in 0..n
    BY <1>0
  <2>2. \A i \in 0..(m + n) : (IF i <= m THEN e[i] ELSE d[i - m]) \in Nat
    BY <2>1
  <2> QED
    BY <2>2
<1>4. f[0] = a /\ f[m + n] = c
  <2>1. 0 \in 0..(m + n) /\ 0 <= m /\ m + n \in 0..(m + n) /\ (m + n <= m => n = 0) /\ (m + n) - m = n
        /\ (n = 0 => m + n = m)
    BY <1>0
  <2> QED
    BY <1>1, <1>2, <2>1
<1>5. ASSUME NEW i \in 1..(m + n) PROVE <<s[i], f[i - 1], f[i]>> \in R
  <2>1. CASE i <= m
    <3>1. i \in 1..m /\ i - 1 <= m /\ i - 1 \in 0..(m + n) /\ i \in 0..(m + n)
      BY <1>0, <2>1
    <3>2. s[i] = q[i] /\ f[i - 1] = e[i - 1] /\ f[i] = e[i]
      BY <1>0, <2>1, <3>1
    <3> QED
      BY <1>1, <3>1, <3>2
  <2>2. CASE ~(i <= m)
    <3>1. i - m \in 1..n /\ i - 1 \in 0..(m + n) /\ i \in 0..(m + n) /\ (i - m) - 1 = (i - 1) - m
          /\ (i - 1 <= m => i - 1 = m /\ (i - m) - 1 = 0)
      BY <1>0, <2>2
    <3>2. s[i] = r[i - m] /\ f[i] = d[i - m]
      BY <1>0, <2>2, <3>1
    <3>3. f[i - 1] = d[(i - m) - 1]
      <4>1. CASE i - 1 <= m
        BY <1>1, <1>2, <3>1, <4>1
      <4>2. CASE ~(i - 1 <= m)
        BY <3>1, <4>2
      <4> QED
        BY <4>1, <4>2
    <3> QED
      BY <1>2, <3>1, <3>2, <3>3
  <2> QED
    BY <2>1, <2>2
<1> HIDE DEF f
<1>6. Chain(s, R, a, c)
  BY <1>0, <1>3, <1>4, <1>5 DEF Chain
<1> QED
  BY <1>6 DEF s

\* A sequence gets a member.
LEMMA ChainMore ==
    ASSUME NEW S, NEW q \in Seq(S), NEW x \in S, NEW R, NEW a, NEW b, NEW c \in Nat,
           Chain(q, R, a, b), <<x, b, c>> \in R
    PROVE  Chain(Append(q, x), R, a, c)
<1>1. b \in Nat
  BY ChainEnds
<1>2. Chain(<<x>>, R, b, c) /\ <<x>> \in Seq(S)
  BY <1>1, ChainOne
<1>3. Append(q, x) = q \o <<x>>
  OBVIOUS
<1> QED
  BY <1>2, <1>3, ChainJoin

\* It loses its first.
LEMMA ChainFirst ==
    ASSUME NEW S, NEW q \in Seq(S), q # <<>>, NEW R, NEW a, NEW c, Chain(q, R, a, c)
    PROVE  \E b \in Nat : <<Head(q), a, b>> \in R /\ Chain(Tail(q), R, b, c)
<1> DEFINE n == Len(q)
           t == Tail(q)
<1>0. n \in Nat \ {0} /\ Len(t) = n - 1 /\ \A i \in 1..(n - 1) : t[i] = q[i + 1]
  BY EmptySeq, HeadTailProperties
<1>1. PICK e \in [0..n -> Nat] : e[0] = a /\ e[n] = c /\ \A i \in 1..n : <<q[i], e[i - 1], e[i]>> \in R
  BY DEF Chain
<1>2. Head(q) = q[1]
  OBVIOUS
<1> HIDE DEF n, t
<1>3. 1 \in 1..n /\ 1 \in 0..n /\ 1 - 1 = 0 /\ e[1] \in Nat
  BY <1>0
<1>4. <<Head(q), a, e[1]>> \in R
  BY <1>1, <1>2, <1>3
<1> DEFINE d == [i \in 0..(n - 1) |-> e[i + 1]]
<1>5. \A i \in 0..(n - 1) : i + 1 \in 0..n
  BY <1>0
<1>6. d \in [0..(n - 1) -> Nat]
  BY <1>5
<1>7. d[0] = e[1] /\ d[n - 1] = c
  <2>1. 0 \in 0..(n - 1) /\ n - 1 \in 0..(n - 1) /\ 0 + 1 = 1 /\ (n - 1) + 1 = n
    BY <1>0
  <2> QED
    BY <1>1, <2>1
<1>8. ASSUME NEW i \in 1..(n - 1) PROVE <<t[i], d[i - 1], d[i]>> \in R
  <2>1. i + 1 \in 1..n /\ i - 1 \in 0..(n - 1) /\ i \in 0..(n - 1) /\ (i + 1) - 1 = i /\ (i - 1) + 1 = i
    BY <1>0
  <2>2. t[i] = q[i + 1] /\ d[i - 1] = e[i] /\ d[i] = e[i + 1]
    BY <1>0, <2>1
  <2> QED
    BY <1>1, <2>1, <2>2
<1> HIDE DEF d
<1>9. Chain(t, R, e[1], c)
  BY <1>0, <1>6, <1>7, <1>8 DEF Chain
<1> QED
  BY <1>3, <1>4, <1>9 DEF t

\* Other members that go the same way.
LEMMA ChainSame ==
    ASSUME NEW q, NEW r, NEW R, NEW Q, NEW a, NEW b, Chain(q, R, a, b), Len(r) = Len(q), Len(q) \in Nat,
           \A i \in 1..Len(q) : \A x, y \in Nat : <<q[i], x, y>> \in R => <<r[i], x, y>> \in Q
    PROVE  Chain(r, Q, a, b)
<1>1. PICK e \in [0..Len(q) -> Nat] :
         e[0] = a /\ e[Len(q)] = b /\ \A i \in 1..Len(q) : <<q[i], e[i - 1], e[i]>> \in R
  BY DEF Chain
<1>2. \A i \in 1..Len(q) : i \in 0..Len(q) /\ i - 1 \in 0..Len(q)
  OBVIOUS
<1>3. \A i \in 1..Len(q) : <<r[i], e[i - 1], e[i]>> \in Q
  BY <1>1, <1>2
<1> QED
  BY <1>1, <1>3 DEF Chain

\* Members that stay where they are.
LEMMA ChainStays ==
    ASSUME NEW S, NEW q \in Seq(S), NEW R, NEW a \in Nat,
           \A i \in 1..Len(q) : \A x \in Nat : <<q[i], x, x>> \in R
    PROVE  Chain(q, R, a, a)
<1> DEFINE e == [i \in 0..Len(q) |-> a]
<1>1. Len(q) \in Nat
  BY LenProperties
<1>2. e \in [0..Len(q) -> Nat] /\ 0 \in 0..Len(q) /\ Len(q) \in 0..Len(q)
      /\ \A i \in 1..Len(q) : i \in 0..Len(q) /\ i - 1 \in 0..Len(q)
  BY <1>1
<1>3. e[0] = a /\ e[Len(q)] = a /\ \A i \in 1..Len(q) : e[i] = a /\ e[i - 1] = a
  BY <1>2
<1> HIDE DEF e
<1>4. \A i \in 1..Len(q) : <<q[i], e[i - 1], e[i]>> \in R
  BY <1>3
<1> QED
  BY <1>2, <1>3, <1>4 DEF Chain


-----------------------------------------------------------------------------
(* What the planner cuts.                                                  *)

\* A shard has the rows from one number to the next, one at least and not too many.
PlanSlices == {t \in RowSets \X Nat \X Nat :
                  t[2] < t[3] /\ t[3] <= t[2] + MaxShardRows /\ t[1] = (t[2] + 1)..t[3]}

\* A file has the rows after those of the file before.
FileSlices == {t \in Files \X Nat \X Nat : t[2] = Through(t[1] - 1) /\ t[3] = Through(t[1])}

\* The slices, written out.
LEMMA SliceFacts ==
    ASSUME NEW s, NEW x, NEW y
    PROVE  /\ <<s, x, y>> \in PlanSlices <=>
                 /\ s \in RowSets /\ x \in Nat /\ y \in Nat
                 /\ x < y /\ y <= x + MaxShardRows /\ s = (x + 1)..y
           /\ <<s, x, y>> \in FileSlices <=>
                 s \in Files /\ x \in Nat /\ y \in Nat /\ x = Through(s - 1) /\ y = Through(s)
<1> HIDE DEF RowSets, Files
<1> QED
  BY DEF PlanSlices, FileSlices

\* The open shard has the rows from c to t, not more than a shard has.
OpenAt(size, open, c, t) == c \in Nat /\ t \in Nat /\ c <= t /\ t - c <= size /\ open = (c + 1)..t

\* Where the planner is when t rows are in: the shards that it gave out end at c.
PlannerAt(p, c, t) ==
    IF p.size = 0
    THEN c = 0 /\ p.open = {} /\ Chain(p.held, FileSlices, 0, t)
    ELSE p.held = <<>> /\ OpenAt(p.size, p.open, c, t)

\* A quotient grows with its dividend.
LEMMA DivStep ==
    ASSUME NEW i \in Nat, NEW j \in Nat, NEW k \in Nat \ {0}, NEW m \in Nat
    PROVE  /\ i + k <= j => i \div k < j \div k
           /\ j <= i + k * m => j \div k <= i \div k + m
<1> DEFINE q == i \div k
           r == j \div k
<1>1. q \in Nat /\ k * q <= i /\ i < k * q + k /\ r \in Nat /\ k * r <= j /\ j < k * r + k
  BY DivBounds
<1> HIDE DEF q, r
<1>2. k * q \in Nat /\ k * r \in Nat /\ k * m \in Nat
  BY <1>1
<1>3. ASSUME i + k <= j, r <= q PROVE FALSE
  <2>1. k * r <= k * q
    BY <1>1, <1>3
  <2> QED
    BY <1>1, <1>2, <1>3, <2>1
<1>4. ASSUME j <= i + k * m, q + m + 1 <= r PROVE FALSE
  <2>1. k * (q + m + 1) <= k * r
    BY <1>1, <1>4
  <2>2. k * (q + m + 1) = k * q + k * m + k
    BY <1>1
  <2> QED
    BY <1>1, <1>2, <1>4, <2>1, <2>2
<1>5. i + k <= j => q < r
  BY <1>1, <1>3
<1>6. j <= i + k * m => r <= q + m
  BY <1>1, <1>4
<1> QED
  BY <1>5, <1>6 DEF q, r

\* Each piece of a long file has a row, and not more than a shard has.
LEMMA PieceSizes ==
    ASSUME NEW count \in Nat \ {0}, NEW size \in Nat \ {0}, NEW pieces, pieces = (count + size - 1) \div size,
           NEW p \in 1..pieces
    PROVE  /\ Bound(count, pieces, p - 1) < Bound(count, pieces, p)
           /\ Bound(count, pieces, p) <= Bound(count, pieces, p - 1) + size
<1>1. pieces \in Nat \ {0} /\ count <= size * pieces
  BY PieceBounds
<1>2. pieces <= count
  <2>1. (size - 1) * (count - 1) >= 0
    BY SMT
  <2>2. (size - 1) * (count - 1) = size * count - size - count + 1
    BY SMT
  <2>3. count + size - 1 <= size * count /\ count + size - 1 \in Nat /\ size * count \in Nat
    BY <2>1, <2>2, SMT
  <2> QED
    BY <2>3, DivMost
<1>3. count * p = count * (p - 1) + count /\ count * p \in Nat /\ count * (p - 1) \in Nat
  BY <1>1, SMT
<1>4. count * (p - 1) + pieces <= count * p
  BY <1>1, <1>2, <1>3
<1>5. count * p <= count * (p - 1) + pieces * size
  <2>1. size * pieces = pieces * size /\ pieces * size \in Nat
    BY <1>1
  <2> QED
    BY <1>1, <1>3, <2>1
<1> QED
  BY <1>1, <1>3, <1>4, <1>5, DivStep DEF Bound

\* The pieces of a long file cut its rows.
LEMMA LongCut ==
    ASSUME NEW f \in Files, NEW size \in SizesOf, Len(Windows[f]) # 0
    PROVE  Chain(LongPlans(f, size), PlanSlices, Through(f - 1), Through(f))
<1> DEFINE count == Len(Windows[f])
           n == PiecesOf(f, size)
           t == Through(f - 1)
           q == LongPlans(f, size)
<1>1. /\ OfFile(f) = (t + 1)..Through(f) /\ OfFile(f) \in RowSets /\ t \in Nat /\ Through(f) = t + count
      /\ count \in Nat \ {0} /\ Cardinality(OfFile(f)) = count /\ Min(OfFile(f)) = t + 1
  BY OfFileFacts
<1>2. n = (count + size - 1) \div size /\ size \in Nat \ {0} /\ size <= MaxShardRows /\ MaxShardRows \in Nat
  <2>1. n = (count + size - 1) \div size
    <3> HIDE DEF count
    <3> QED
      BY <1>1 DEF PiecesOf
  <2>2. size \in Nat \ {0} /\ size <= MaxShardRows /\ MaxShardRows \in Nat
    BY ConstantsAssumption DEF SizesOf
  <2> QED
    BY <2>1, <2>2
<1>3. q = [p \in 1..n |-> PieceOf(f, n, p)]
      /\ \A p \in 1..n : PieceOf(f, n, p) = (t + 1 + Bound(count, n, p - 1))..(t + 1 + Bound(count, n, p) - 1)
  BY <1>1 DEF LongPlans, PieceOf
<1> HIDE DEF n, count, q, t
<1>4. /\ n \in Nat \ {0} /\ Bound(count, n, 0) = 0 /\ Bound(count, n, n) = count
      /\ \A p \in 0..n : Bound(count, n, p) \in 0..count
  <2>1. count \in Nat \ {0} /\ size \in Nat \ {0} /\ n = (count + size - 1) \div size
    BY <1>1, <1>2
  <2> QED
    BY <2>1, PieceBounds
<1>5. \A p \in 1..n : Bound(count, n, p - 1) < Bound(count, n, p)
                      /\ Bound(count, n, p) <= Bound(count, n, p - 1) + size
  <2>1. count \in Nat \ {0} /\ size \in Nat \ {0} /\ n = (count + size - 1) \div size
    BY <1>1, <1>2
  <2> QED
    BY <2>1, PieceSizes
<1> DEFINE e == [p \in 0..n |-> t + Bound(count, n, p)]
<1>6. Len(q) = n /\ e \in [0..n -> Nat] /\ e[0] = t /\ e[n] = Through(f)
  <2>1. \A p \in 0..n : t + Bound(count, n, p) \in Nat
    BY <1>1, <1>4
  <2>2. 0 \in 0..n /\ n \in 0..n
    BY <1>4
  <2>3. e \in [0..n -> Nat] /\ e[0] = t + 0 /\ e[n] = t + count
    BY <1>4, <2>1, <2>2
  <2>4. Len(q) = n
    BY <1>3, <1>4
  <2> HIDE DEF e
  <2> QED
    BY <1>1, <2>3, <2>4
<1>7. ASSUME NEW p \in 1..n PROVE <<q[p], e[p - 1], e[p]>> \in PlanSlices
  <2> DEFINE x == Bound(count, n, p - 1)
             y == Bound(count, n, p)
  <2>1. p \in 0..n /\ p - 1 \in 0..n
    BY <1>4
  <2>2. x \in 0..count /\ y \in 0..count /\ x < y /\ y <= x + size
    BY <1>4, <1>5, <2>1
  <2>3. e[p - 1] = t + x /\ e[p] = t + y /\ q[p] = (t + 1 + x)..(t + 1 + y - 1)
    BY <1>3, <2>1
  <2> HIDE DEF x, y, e
  <2>4. q[p] = (e[p - 1] + 1)..e[p] /\ q[p] \subseteq OfFile(f) /\ e[p - 1] \in Nat /\ e[p] \in Nat
        /\ e[p - 1] < e[p] /\ e[p] <= e[p - 1] + MaxShardRows
    <3>1. t + 1 + x = (t + x) + 1 /\ t + 1 + y - 1 = t + y /\ t + x \in Nat /\ t + y \in Nat
          /\ t + y <= t + count /\ t + x < t + y /\ t + y <= (t + x) + MaxShardRows
      BY <1>1, <1>2, <2>2
    <3>2. q[p] = (t + x + 1)..(t + y)
      BY <2>3, <3>1
    <3>3. (t + x + 1)..(t + y) \subseteq (t + 1)..(t + count)
      BY <1>1, <2>2
    <3> QED
      BY <1>1, <2>3, <3>1, <3>2, <3>3
  <2>5. q[p] \in RowSets
    BY <1>1, <2>4 DEF RowSets
  <2> QED
    BY <2>4, <2>5, SliceFacts
<1> HIDE DEF e
<1>8. Chain(q, PlanSlices, t, Through(f))
  BY <1>6, <1>7 DEF Chain
<1> QED
  BY <1>8 DEF q, t

\* The open shard ends where its rows do.
LEMMA ClosedCut ==
    ASSUME NEW size \in SizesOf, NEW acc \in Cuts, NEW a, NEW c, NEW t,
           Chain(acc.plans, PlanSlices, a, c), OpenAt(size, acc.open, c, t)
    PROVE  Chain(Closed(acc), PlanSlices, a, t)
<1>1. acc.open \in RowSets /\ acc.plans \in Seq(RowSets) /\ size <= MaxShardRows
      /\ size \in Nat /\ MaxShardRows \in Nat
  BY ConstantsAssumption DEF Cuts, SizesOf
<1>2. c \in Nat /\ t \in Nat /\ c <= t /\ t - c <= size /\ acc.open = (c + 1)..t
  BY DEF OpenAt
<1>3. CASE acc.open = {}
  <2>1. c = t
    <3>1. c < t => t \in (c + 1)..t
      BY <1>2
    <3>2. ~(c < t)
      BY <1>2, <1>3, <3>1
    <3> QED
      BY <1>2, <3>2
  <2> QED
    BY <1>3, <2>1 DEF Closed
<1>4. CASE acc.open # {}
  <2>1. c < t
    BY <1>2, <1>4
  <2>2. <<acc.open, c, t>> \in PlanSlices
    <3>1. t <= c + MaxShardRows
      BY <1>1, <1>2
    <3> QED
      BY <1>1, <1>2, <2>1, <3>1, SliceFacts
  <2>3. Chain(Append(acc.plans, acc.open), PlanSlices, a, t)
    <3> HIDE DEF RowSets
    <3> QED
      BY <1>1, <1>2, <2>2, ChainMore
  <2> QED
    BY <1>4, <2>3 DEF Closed
<1> QED
  BY <1>3, <1>4

\* So a cut goes on where the planner was: its plans and the open shard cut the rows up
\* to the end of the file.
LEMMA CutAt ==
    ASSUME NEW size \in SizesOf, NEW acc \in Cuts, NEW f \in Files, NEW a, NEW c,
           Chain(acc.plans, PlanSlices, a, c), OpenAt(size, acc.open, c, Through(f - 1))
    PROVE  \E d \in Nat : /\ Chain(Cut(size, acc, f).plans, PlanSlices, a, d)
                          /\ OpenAt(size, Cut(size, acc, f).open, d, Through(f))
<1> DEFINE count  == Cardinality(OfFile(f))
           fits   == Cardinality(acc.open) + count <= size
           open   == IF fits THEN acc.open \cup OfFile(f) ELSE OfFile(f)
           before == IF fits THEN acc.plans ELSE Closed(acc)
           long   == Closed(acc) \o LongPlans(f, size)
           t == Through(f - 1)
           u == Through(f)
<1>1. /\ OfFile(f) = (t + 1)..u /\ OfFile(f) \in RowSets /\ t \in Nat /\ u = t + Len(Windows[f])
      /\ count = Len(Windows[f]) /\ count \in Nat
  BY OfFileFacts
<1>2. /\ acc.open \in RowSets /\ acc.plans \in Seq(RowSets) /\ size \in Nat \ {0}
      /\ size <= MaxShardRows /\ MaxShardRows \in Nat
  BY ConstantsAssumption DEF Cuts, SizesOf
<1>3. c \in Nat /\ c <= t /\ t - c <= size /\ acc.open = (c + 1)..t
  BY DEF OpenAt
<1>4. Chain(Closed(acc), PlanSlices, a, t) /\ Closed(acc) \in Seq(RowSets)
  <2>1. Closed(acc) \in Seq(RowSets)
    BY <1>2, AppendProperties DEF Closed
  <2>2. Chain(Closed(acc), PlanSlices, a, t)
    BY ClosedCut
  <2> QED
    BY <2>1, <2>2
<1>5. Cardinality(acc.open) = t - c
  <2>1. c + 1 \in Int /\ t \in Int
    BY <1>1, <1>3
  <2>2. Cardinality((c + 1)..t) = IF c + 1 > t THEN 0 ELSE t - (c + 1) + 1
    BY <2>1, FS_Interval
  <2> QED
    BY <1>1, <1>3, <2>2
<1>6. PICK nearly \in BOOLEAN : Cut(size, acc, f) =
            IF count = 0 THEN acc
            ELSE IF count > size THEN [open |-> {}, plans |-> long]
            ELSE IF nearly THEN [open |-> {}, plans |-> Append(before, open)]
            ELSE [open |-> open, plans |-> before]
  BY CutCases
<1>7. count > size => Chain(long, PlanSlices, a, u)
  <2>1. count > size => Len(Windows[f]) # 0
    BY <1>1, <1>2
  <2>2. count > size => LongPlans(f, size) \in Seq(RowSets) /\ Chain(LongPlans(f, size), PlanSlices, t, u)
    BY <1>2, <2>1, LongPlansTyped, LongCut
  <2> HIDE DEF count, t, u
  <2> QED
    BY <1>4, <2>2, ChainJoin
<1> DEFINE d == IF fits THEN c ELSE t
<1>8. count <= size => d \in Nat /\ Chain(before, PlanSlices, a, d) /\ OpenAt(size, open, d, u)
                       /\ before \in Seq(RowSets) /\ open \in RowSets
  <2>1. ASSUME fits PROVE acc.open \cup OfFile(f) = (c + 1)..u /\ u - c <= size /\ c <= u
    BY <1>1, <1>3, <1>5, <2>1
  <2>2. count <= size => u - t <= size /\ t <= u
    BY <1>1
  <2>3. acc.open \cup OfFile(f) \in RowSets
    BY <1>1, <1>2 DEF RowSets
  <2>4. u \in Nat
    BY <1>1
  <2> HIDE DEF RowSets, count, fits, t, u
  <2> QED
    BY <1>1, <1>2, <1>3, <1>4, <2>1, <2>2, <2>3, <2>4 DEF OpenAt
<1>9. CASE count = 0
  <2>1. u = t /\ Cut(size, acc, f) = acc
    BY <1>1, <1>6, <1>9
  <2> QED
    BY <1>3, <2>1
<1>10. OpenAt(size, {}, u, u) /\ u \in Nat
  <2>1. u \in Nat /\ (u + 1)..u = {} /\ u - u <= size
    BY <1>1, <1>2
  <2> QED
    BY <2>1 DEF OpenAt
<1>11. CASE count > size
  <2>1. Cut(size, acc, f) = [open |-> {}, plans |-> long]
    BY <1>1, <1>2, <1>6, <1>11
  <2> HIDE DEF long, u
  <2>2. Cut(size, acc, f).plans = long /\ Cut(size, acc, f).open = {}
    BY <2>1
  <2>3. Chain(long, PlanSlices, a, u)
    BY <1>7, <1>11
  <2> QED
    BY <1>10, <2>2, <2>3 DEF u
<1>12. ASSUME count # 0, count <= size PROVE Chain(Append(before, open), PlanSlices, a, u)
  <2>1. [open |-> open, plans |-> before] \in Cuts
    <3> HIDE DEF before, open, RowSets
    <3> QED
      BY <1>8, <1>12 DEF Cuts
  <2>2. open # {}
    <3>1. u \in OfFile(f)
      BY <1>1, <1>12
    <3> QED
      BY <3>1
  <2> DEFINE now == [open |-> open, plans |-> before]
  <2>3. Closed(now) = Append(before, open)
    BY <2>2 DEF Closed
  <2>4. now \in Cuts /\ now.plans = before /\ now.open = open
    BY <2>1
  <2> HIDE DEF now, before, open, d, u, count
  <2> QED
    BY <1>8, <1>12, <2>3, <2>4, ClosedCut
<1>13. CASE count # 0 /\ ~(count > size)
  <2>1. count <= size
    BY <1>1, <1>2, <1>13
  <2>2. Cut(size, acc, f) = (IF nearly THEN [open |-> {}, plans |-> Append(before, open)]
                             ELSE [open |-> open, plans |-> before])
    BY <1>6, <1>13
  <2> HIDE DEF before, open, d, u, count
  <2>3. CASE nearly
    <3>1. Cut(size, acc, f).plans = Append(before, open) /\ Cut(size, acc, f).open = {}
      BY <2>2, <2>3
    <3>2. Chain(Append(before, open), PlanSlices, a, u)
      BY <1>12, <1>13, <2>1
    <3> QED
      BY <1>10, <3>1, <3>2 DEF u
  <2>4. CASE ~nearly
    <3>1. Cut(size, acc, f).plans = before /\ Cut(size, acc, f).open = open
      BY <2>2, <2>4
    <3>2. d \in Nat /\ Chain(before, PlanSlices, a, d) /\ OpenAt(size, open, d, u)
      BY <1>8, <2>1
    <3> QED
      BY <3>1, <3>2 DEF u
  <2> QED
    BY <2>3, <2>4
<1> QED
  BY <1>9, <1>11, <1>13

\* The files are cut where they follow each other.
LEMMA CutAllAt ==
    ASSUME NEW size \in SizesOf, NEW open \in RowSets, NEW files \in Seq(Files), NEW c, NEW x, NEW y,
           OpenAt(size, open, c, x), Chain(files, FileSlices, x, y)
    PROVE  \E d \in Nat : /\ Chain(CutAll(size, open, files).plans, PlanSlices, c, d)
                          /\ OpenAt(size, CutAll(size, open, files).open, d, y)
<1> DEFINE n == Len(files)
<1>1. n \in Nat /\ files \in [1..n -> Files]
  BY LenProperties
<1>2. PICK h \in [0..n -> Cuts] : Cutting(h, size, open, files, n) /\ CutAll(size, open, files) = h[n]
  BY CutAllIsFold
<1>3. PICK e \in [0..n -> Nat] : e[0] = x /\ e[n] = y /\ \A i \in 1..n : <<files[i], e[i - 1], e[i]>> \in FileSlices
  BY DEF Chain
<1> HIDE DEF n
<1> DEFINE At(k) == \E d \in Nat : Chain(h[k].plans, PlanSlices, c, d) /\ OpenAt(size, h[k].open, d, e[k])
           T == {k \in 0..n : At(k)}
<1>4. 0 \in T
  <2>1. h[0] = [open |-> open, plans |-> <<>>] /\ 0 \in 0..n
    BY <1>1, <1>2 DEF Cutting
  <2>2. h[0].open = open /\ h[0].plans = <<>>
    BY <2>1
  <2>3. c \in Nat
    BY DEF OpenAt
  <2>4. Chain(<<>>, PlanSlices, c, c)
    BY <2>3, ChainNone
  <2>5. At(0)
    BY <1>3, <2>2, <2>3, <2>4
  <2> QED
    BY <2>1, <2>5
<1>5. ASSUME NEW k \in 1..n, k - 1 \in T PROVE k \in T
  <2>1. PICK d \in Nat : Chain(h[k - 1].plans, PlanSlices, c, d) /\ OpenAt(size, h[k - 1].open, d, e[k - 1])
    BY <1>5
  <2>2. k - 1 \in 0..n /\ k \in 0..n /\ files[k] \in Files /\ h[k - 1] \in Cuts
    BY <1>1
  <2>3. e[k - 1] = Through(files[k] - 1) /\ e[k] = Through(files[k])
    <3>1. <<files[k], e[k - 1], e[k]>> \in FileSlices
      BY <1>3
    <3> QED
      BY <3>1, SliceFacts
  <2>4. h[k] = Cut(size, h[k - 1], files[k])
    BY <1>2 DEF Cutting
  <2>5. \E b \in Nat : /\ Chain(Cut(size, h[k - 1], files[k]).plans, PlanSlices, c, b)
                       /\ OpenAt(size, Cut(size, h[k - 1], files[k]).open, b, Through(files[k]))
    BY <2>1, <2>2, <2>3, CutAt
  <2>6. At(k)
    BY <2>3, <2>4, <2>5
  <2> HIDE DEF At
  <2> QED
    BY <2>2, <2>6
<1>6. 0..n \subseteq T
  <2> HIDE DEF T
  <2> QED
    BY <1>1, <1>4, <1>5, Induction
<1>7. n \in T
  BY <1>1, <1>6
<1>8. At(n)
  <2> HIDE DEF At
  <2> QED
    BY <1>7
<1> QED
  BY <1>2, <1>3, <1>8

\* The plans of a file go on from those before, and the planner waits at its end.
LEMMA PlannedAt ==
    ASSUME NEW f \in Files, planner \in Planners, NEW c, PlannerAt(planner, c, Through(f - 1))
    PROVE  \E d \in Nat : /\ Chain(Planned(f).plans, PlanSlices, c, d)
                          /\ PlannerAt(Planned(f).planner, d, Through(f))
<1> DEFINE t == Through(f - 1)
           u == Through(f)
<1>0. MaxShardRows \in Nat \ {0} /\ t \in Nat /\ u \in Nat /\ Chain(<<f>>, FileSlices, t, u)
  <2>1. t \in Nat /\ Through(f) = t + Len(Windows[f]) /\ Len(Windows[f]) \in Nat
    BY OfFileFacts
  <2>2. u \in Nat
    BY <2>1
  <2>3. <<f, t, u>> \in FileSlices
    BY <2>1, <2>2, SliceFacts
  <2>4. Chain(<<f>>, FileSlices, t, u)
    <3> HIDE DEF t, u
    <3> QED
      BY <2>1, <2>2, <2>3, ChainOne
  <2> QED
    BY <2>1, <2>2, <2>4, ConstantsAssumption
<1>1. planner.size \in 0..MaxShardRows /\ planner.held \in Seq(Files) /\ planner.open \in RowSets
  BY DEF Planners
<1>2. CASE planner.size # 0
  <2> DEFINE cut == CutAll(planner.size, planner.open, <<f>>)
             after == [planner EXCEPT !.open = cut.open]
  <2>1. <<f>> \in Seq(Files)
    OBVIOUS
  <2>2. planner.size \in SizesOf
    BY <1>0, <1>1, <1>2 DEF SizesOf
  <2>3. planner.held = <<>> /\ OpenAt(planner.size, planner.open, c, t)
    BY <1>2 DEF PlannerAt
  <2>4. PICK d \in Nat : Chain(cut.plans, PlanSlices, c, d) /\ OpenAt(planner.size, cut.open, d, u)
    <3> HIDE DEF t, u
    <3> QED
      BY <1>0, <1>1, <2>1, <2>2, <2>3, CutAllAt
  <2>5. Planned(f) = [planner |-> after, plans |-> cut.plans]
    BY <1>2 DEF Planned
  <2> HIDE DEF cut
  <2>6. after.size = planner.size /\ after.held = planner.held /\ after.open = cut.open
    BY DEF Planners
  <2> HIDE DEF after
  <2>7. PlannerAt(after, d, u)
    BY <1>2, <2>3, <2>4, <2>6 DEF PlannerAt
  <2>8. Planned(f).plans = cut.plans /\ Planned(f).planner = after
    BY <2>5
  <2> QED
    BY <2>4, <2>7, <2>8
<1>3. CASE planner.size = 0
  <2> DEFINE held  == Append(planner.held, f)
             size  == ShardRowsFor(HeldRows(held))
             cut   == CutAll(size, {}, held)
             waits == [planner EXCEPT !.held = held]
             after == [size |-> size, held |-> <<>>, open |-> cut.open]
  <2>1. c = 0 /\ planner.open = {} /\ Chain(planner.held, FileSlices, 0, t)
    BY <1>3 DEF PlannerAt
  <2>2. held \in Seq(Files) /\ Chain(held, FileSlices, 0, u)
    <3>1. held \in Seq(Files)
      BY <1>1, AppendProperties
    <3>2. <<f, t, u>> \in FileSlices
      BY <1>0, SliceFacts
    <3>3. Chain(held, FileSlices, 0, u)
      <4> HIDE DEF t, u
      <4> QED
        BY <1>0, <1>1, <2>1, <3>2, ChainMore
    <3> QED
      BY <3>1, <3>3
  <2>3. size \in SizesOf /\ {} \in RowSets
    BY SizeTyped DEF RowSets
  <2>4. OpenAt(size, {}, 0, 0)
    <3>1. (0 + 1)..0 = {} /\ 0 - 0 <= size
      BY <1>0, <2>3 DEF SizesOf
    <3> QED
      BY <3>1 DEF OpenAt
  <2>5. PICK d \in Nat : Chain(cut.plans, PlanSlices, 0, d) /\ OpenAt(size, cut.open, d, u)
    <3> HIDE DEF size, held, t, u
    <3> QED
      BY <2>2, <2>3, <2>4, CutAllAt
  <2>6. Planned(f) = IF HeldRows(held) < MaxShardRows * CPUs
                     THEN [planner |-> waits, plans |-> <<>>]
                     ELSE [planner |-> after, plans |-> cut.plans]
    BY <1>3 DEF Planned
  <2> HIDE DEF cut, size, held
  <2>7. waits.size = 0 /\ waits.held = held /\ waits.open = {}
    BY <1>3, <2>1 DEF Planners
  <2>8. PlannerAt(waits, 0, u) /\ Chain(<<>>, PlanSlices, 0, 0)
    <3>1. Chain(<<>>, PlanSlices, 0, 0)
      BY ChainNone
    <3> HIDE DEF waits, u
    <3> QED
      BY <2>2, <2>7, <3>1 DEF PlannerAt
  <2>9. PlannerAt(after, d, u)
    <3>1. size # 0
      BY <2>3 DEF SizesOf
    <3> QED
      BY <2>5, <3>1 DEF PlannerAt
  <2> HIDE DEF waits, after
  <2>10. CASE HeldRows(held) < MaxShardRows * CPUs
    <3>1. Planned(f).plans = <<>> /\ Planned(f).planner = waits
      BY <2>6, <2>10
    <3> QED
      BY <2>1, <2>8, <3>1
  <2>11. CASE ~(HeldRows(held) < MaxShardRows * CPUs)
    <3>1. Planned(f).plans = cut.plans /\ Planned(f).planner = after
      BY <2>6, <2>11
    <3> QED
      BY <2>1, <2>5, <2>9, <3>1
  <2> QED
    BY <2>10, <2>11
<1> QED
  BY <1>2, <1>3

\* The last plans cut what is left.
LEMMA LastPlansAt ==
    ASSUME planner \in Planners, NEW c, NEW t, PlannerAt(planner, c, t)
    PROVE  Chain(LastPlans, PlanSlices, c, t)
<1> DEFINE size == IF planner.size # 0 THEN planner.size ELSE ShardRowsFor(HeldRows(planner.held))
           cut  == CutAll(size, planner.open, planner.held)
<1>0. MaxShardRows \in Nat \ {0}
  BY ConstantsAssumption
<1>1. planner.size \in 0..MaxShardRows /\ planner.held \in Seq(Files) /\ planner.open \in RowSets
  BY DEF Planners
<1>2. size \in SizesOf
  <2>1. ShardRowsFor(HeldRows(planner.held)) \in SizesOf
    BY SizeTyped
  <2>2. planner.size # 0 => planner.size \in SizesOf
    BY <1>0, <1>1 DEF SizesOf
  <2> QED
    BY <2>1, <2>2
<1>3. PICK x : OpenAt(size, planner.open, c, x) /\ Chain(planner.held, FileSlices, x, t)
  <2>1. CASE planner.size # 0
    <3>1. planner.held = <<>> /\ OpenAt(size, planner.open, c, t)
      BY <2>1 DEF PlannerAt
    <3>2. t \in Nat
      BY <3>1 DEF OpenAt
    <3>3. Chain(planner.held, FileSlices, t, t)
      BY <3>1, <3>2, ChainNone
    <3> QED
      BY <3>1, <3>3
  <2>2. CASE planner.size = 0
    <3>1. c = 0 /\ planner.open = {} /\ Chain(planner.held, FileSlices, 0, t)
      BY <2>2 DEF PlannerAt
    <3>2. (0 + 1)..0 = {} /\ 0 - 0 <= size
      <4> HIDE DEF size
      <4> QED
        BY <1>0, <1>2 DEF SizesOf
    <3>3. OpenAt(size, planner.open, c, 0)
      <4> HIDE DEF size
      <4> QED
        BY <3>1, <3>2 DEF OpenAt
    <3> HIDE DEF size
    <3> QED
      BY <3>1, <3>3
  <2> QED
    BY <2>1, <2>2
<1>4. PICK d \in Nat : Chain(cut.plans, PlanSlices, c, d) /\ OpenAt(size, cut.open, d, t)
  <2> HIDE DEF size
  <2> QED
    BY <1>1, <1>2, <1>3, CutAllAt
<1>5. cut \in Cuts
  <2> HIDE DEF size
  <2> QED
    BY <1>1, <1>2, CutAllTyped
<1>6. LastPlans = Closed(cut)
  BY DEF LastPlans, Closed
<1> HIDE DEF cut, size
<1> QED
  BY <1>2, <1>4, <1>5, <1>6, ClosedCut

-----------------------------------------------------------------------------
(* From the planner to the shards.                                         *)

\* A plan on its way, and any other message; a shard that has a build.
MessageSlices == {t \in Messages \X Nat \X Nat :
                     IF t[1].to = "graphs" THEN <<t[1].rows, t[2], t[3]>> \in PlanSlices ELSE t[2] = t[3]}
ShardSlices   == {t \in Shards \X Nat \X Nat : <<t[1].rows, t[2], t[3]>> \in PlanSlices}

\* These slices, written out.
LEMMA CarriedFacts ==
    ASSUME NEW m, NEW x, NEW y
    PROVE  /\ <<m, x, y>> \in MessageSlices <=>
                 /\ m \in Messages /\ x \in Nat /\ y \in Nat
                 /\ IF m.to = "graphs" THEN <<m.rows, x, y>> \in PlanSlices ELSE x = y
           /\ <<m, x, y>> \in ShardSlices <=>
                 m \in Shards /\ x \in Nat /\ y \in Nat /\ <<m.rows, x, y>> \in PlanSlices
<1> HIDE DEF Messages, Shards, PlanSlices
<1> QED
  BY DEF MessageSlices, ShardSlices

\* The plans that are sent go where the plans go.
LEMMA ToGraphsAt ==
    ASSUME NEW sets \in Seq(RowSets), NEW a, NEW b, Chain(sets, PlanSlices, a, b)
    PROVE  Chain(ToGraphs(sets), MessageSlices, a, b)
<1>1. DOMAIN sets = 1..Len(sets) /\ Len(sets) \in Nat /\ \A i \in 1..Len(sets) : sets[i] \in RowSets
  BY LenProperties, ElementOfSeq
<1> DEFINE r == ToGraphs(sets)
<1>2. r = [i \in 1..Len(sets) |-> Message("graphs", sets[i])] /\ Len(r) = Len(sets)
  BY <1>1 DEF ToGraphs
<1>3. ASSUME NEW i \in 1..Len(sets), NEW x \in Nat, NEW y \in Nat, <<sets[i], x, y>> \in PlanSlices
      PROVE  <<r[i], x, y>> \in MessageSlices
  <2>1. r[i].to = "graphs" /\ r[i].rows = sets[i]
    BY <1>2 DEF Message
  <2>2. r[i] \in Messages
    <3> HIDE DEF RowSets, r
    <3> QED
      BY <1>1, <1>2 DEF Message, Messages
  <2> QED
    BY <1>3, <2>1, <2>2, CarriedFacts
<1> HIDE DEF r
<1>4. Chain(r, MessageSlices, a, b)
  BY <1>1, <1>2, <1>3, ChainSame
<1> QED
  BY <1>4 DEF r

\* Other messages carry no plan.
LEMMA NoPlanAt ==
    ASSUME NEW q \in Seq(Messages), NEW a \in Nat, \A i \in 1..Len(q) : q[i].to # "graphs"
    PROVE  Chain(q, MessageSlices, a, a)
<1>1. ASSUME NEW i \in 1..Len(q), NEW x \in Nat PROVE <<q[i], x, x>> \in MessageSlices
  <2>1. q[i] \in Messages
    BY ElementOfSeq
  <2> QED
    BY <2>1, CarriedFacts
<1> QED
  BY <1>1, ChainStays

\* The shards cut the rows from the first to n.
Covers(n) ==
    /\ \A i \in DOMAIN shards :
          /\ Min(shards[i].rows) = (IF i = 1 THEN 1 ELSE Max(shards[i - 1].rows) + 1)
          /\ Cardinality(shards[i].rows) = Max(shards[i].rows) - Min(shards[i].rows) + 1
          /\ Cardinality(shards[i].rows) <= MaxShardRows
    /\ UNION {shards[i].rows : i \in DOMAIN shards} = 1..n

\* The ends of a shard.
LEMMA SliceEnds ==
    ASSUME NEW s, NEW x \in Nat, NEW y \in Nat, <<s, x, y>> \in PlanSlices
    PROVE  s = (x + 1)..y /\ x < y /\ y <= x + MaxShardRows /\ Min(s) = x + 1 /\ Max(s) = y /\ Cardinality(s) = y - x
<1>1. s = (x + 1)..y /\ x < y /\ y <= x + MaxShardRows
  BY SliceFacts
<1>2. x + 1 \in s /\ y \in s /\ s \in SUBSET Nat /\ s \in SUBSET (0..y) /\ s # {}
  <2>1. x + 1 \in (x + 1)..y /\ y \in (x + 1)..y
    BY <1>1
  <2>2. \A k \in (x + 1)..y : k \in Nat /\ k \in 0..y
    BY <1>1
  <2> QED
    BY <1>1, <2>1, <2>2
<1>3. Min(s) = x + 1
  <2>1. Min(s) \in s /\ Min(s) <= x + 1
    BY <1>2, LeastOf
  <2> QED
    BY <1>1, <2>1
<1>4. Max(s) = y
  <2>1. Max(s) \in s /\ y <= Max(s)
    BY <1>2, Greatest
  <2> QED
    BY <1>1, <2>1
<1>5. Cardinality(s) = y - x
  <2>1. Cardinality((x + 1)..y) = IF x + 1 > y THEN 0 ELSE y - (x + 1) + 1
    <3>1. x + 1 \in Int /\ y \in Int
      OBVIOUS
    <3> QED
      BY <3>1, FS_Interval
  <2> QED
    BY <1>1, <2>1
<1> QED
  BY <1>1, <1>3, <1>4, <1>5

\* A chain of shards leaves no gap and takes no row twice.
LEMMA ChainCovers ==
    ASSUME shards \in Seq(Shards), NEW n, Chain(shards, ShardSlices, 0, n)
    PROVE  Covers(n)
<1> DEFINE m == Len(shards)
<1>1. m \in Nat /\ DOMAIN shards = 1..m
  BY LenProperties
<1>2. PICK e \in [0..m -> Nat] :
         e[0] = 0 /\ e[m] = n /\ \A i \in 1..m : <<shards[i], e[i - 1], e[i]>> \in ShardSlices
  BY DEF Chain
<1> HIDE DEF m
<1>3. ASSUME NEW i \in 1..m
      PROVE  /\ i - 1 \in 0..m /\ i \in 0..m
             /\ shards[i].rows = (e[i - 1] + 1)..e[i] /\ e[i - 1] < e[i] /\ e[i] <= e[i - 1] + MaxShardRows
             /\ Min(shards[i].rows) = e[i - 1] + 1 /\ Max(shards[i].rows) = e[i]
             /\ Cardinality(shards[i].rows) = e[i] - e[i - 1]
  <2>1. i - 1 \in 0..m /\ i \in 0..m
    BY <1>1
  <2>2. e[i - 1] \in Nat /\ e[i] \in Nat /\ <<shards[i].rows, e[i - 1], e[i]>> \in PlanSlices
    <3>1. <<shards[i], e[i - 1], e[i]>> \in ShardSlices
      BY <1>2
    <3> QED
      BY <3>1, CarriedFacts
  <2> QED
    BY <2>1, <2>2, SliceEnds
<1>4. ASSUME NEW i \in 1..m
      PROVE  /\ Min(shards[i].rows) = (IF i = 1 THEN 1 ELSE Max(shards[i - 1].rows) + 1)
             /\ Cardinality(shards[i].rows) = Max(shards[i].rows) - Min(shards[i].rows) + 1
             /\ Cardinality(shards[i].rows) <= MaxShardRows
  <2>1. e[i - 1] \in Nat /\ e[i] \in Nat
    BY <1>3
  <2>2. i = 1 => e[i - 1] = 0
    BY <1>2
  <2>3. i # 1 => i - 1 \in 1..m
    BY <1>1
  <2>4. i # 1 => Max(shards[i - 1].rows) = e[i - 1]
    BY <2>3, <1>3
  <2>5. MaxShardRows \in Nat
    BY ConstantsAssumption
  <2> QED
    BY <1>3, <2>1, <2>2, <2>4, <2>5
<1> DEFINE Part(k) == UNION {shards[i].rows : i \in 1..k}
           T == {k \in 0..m : Part(k) = 1..e[k]}
<1>5. 0 \in T
  <2>1. 1..0 = {} /\ 0 \in 0..m
    BY <1>1
  <2> QED
    BY <1>2, <2>1
<1>6. ASSUME NEW k \in 1..m, k - 1 \in T PROVE k \in T
  <2>1. Part(k - 1) = 1..e[k - 1]
    BY <1>6
  <2>2. 1..k = (1..(k - 1)) \cup {k}
    BY <1>1
  <2>3. Part(k) = Part(k - 1) \cup shards[k].rows
    BY <2>2
  <2>4. e[k - 1] \in Nat /\ e[k] \in Nat /\ e[k - 1] < e[k] /\ shards[k].rows = (e[k - 1] + 1)..e[k] /\ k \in 0..m
    BY <1>3
  <2>5. (1..e[k - 1]) \cup ((e[k - 1] + 1)..e[k]) = 1..e[k]
    BY <2>4
  <2> HIDE DEF Part
  <2> QED
    BY <2>1, <2>3, <2>4, <2>5
<1>7. 0..m \subseteq T
  <2> HIDE DEF T
  <2> QED
    BY <1>1, <1>5, <1>6, Induction
<1>8. Part(m) = 1..n
  <2> HIDE DEF Part
  <2>1. m \in T
    BY <1>1, <1>7
  <2> QED
    BY <1>2, <2>1
<1> QED
  BY <1>1, <1>4, <1>8 DEF Covers

-----------------------------------------------------------------------------
(* The invariant of a build that may succeed.                              *)

\* A file is lost only after a cancel; a source that ends with no error has read every
\* file; a loop that gave up was canceled.
SourceInv ==
    /\ \A f \in Files : stage[f] = "lost" => canceled
    /\ source = "ended" /\ causes["source"] = NoCause => InStage({"unread"}) = {}
    /\ failed => canceled

\* The shards, the plans that wait, the plans on their way and the planner cut the rows
\* that are in, one after the other.
Joined(built, waiting, sent, p, place, t) ==
    \E a, b, c \in Nat :
        /\ Chain(built, ShardSlices, 0, a) /\ Chain(waiting, PlanSlices, a, b) /\ Chain(sent, MessageSlices, b, c)
        /\ IF place = "receive" THEN PlannerAt(p, c, t) ELSE c = t

\* While nothing is canceled no plan is dropped, no shard build stops, and a stream that
\* ends has built and linked what it has.
CutInv ==
    ~canceled =>
        /\ \A i \in DOMAIN shards : shards[i].state # "stopped"
        /\ stream = "ended" => plans = <<>> /\ \A i \in DOMAIN shards : shards[i].state # "linkable"
        /\ Joined(shards, plans, todo, planner, loop, Len(rows))

\* The slices are the same in the next state.
LEMMA SameSlices ==
    /\ PlanSlices' = PlanSlices /\ FileSlices' = FileSlices
    /\ MessageSlices' = MessageSlices /\ ShardSlices' = ShardSlices
<1>1. RowSets' = RowSets /\ Files' = Files
  BY DEF RowSets, AllRows, Files
<1>2. Upto' = Upto
  BY DEF Upto, IsUpto, RowsOf, LastFile, Files
<1>3. PlanSlices' = PlanSlices
  BY <1>1 DEF PlanSlices
<1>4. FileSlices' = FileSlices
  BY <1>1, <1>2 DEF FileSlices, Through
<1>5. MessageSlices' = MessageSlices
  BY <1>1, <1>3 DEF MessageSlices, Messages
<1>6. ShardSlices' = ShardSlices
  BY <1>1, <1>3 DEF ShardSlices, Shards
<1> QED
  BY <1>3, <1>4, <1>5, <1>6

\* CutInv of the next state.
LEMMA CutNext ==
    ASSUME canceled' \/ ( /\ \A i \in DOMAIN shards' : shards'[i].state # "stopped"
                          /\ stream' = "ended" => plans' = <<>> /\ \A i \in DOMAIN shards' : shards'[i].state # "linkable"
                          /\ Joined(shards', plans', todo', planner', loop', Len(rows')) )
    PROVE  CutInv'
<1>1. ASSUME Joined(shards', plans', todo', planner', loop', Len(rows'))
      PROVE  Joined(shards, plans, todo, planner, loop, Len(rows))'
  BY <1>1, SameSlices DEF Joined, Chain, PlannerAt, OpenAt
<1> QED
  BY <1>1 DEF CutInv

\* A canceled build stays canceled.
LEMMA CancelStays ==
    ASSUME [Next]_vars, canceled
    PROVE  canceled'
<1>1. CASE EndSource \/ Extraction \/ Return \/ UNCHANGED vars
  BY <1>1, Frames DEF vars
<1>2. CASE Loop
  BY <1>2 DEF Loop, Receive, Merge, MergeFile, Abandon, EndFiles, CloseChannels
<1>3. CASE Encode
  BY <1>3 DEF Encode, TakeBatch, StartCall, EndCall, TakeResult, EndEncoder
<1>4. CASE Collect
  BY <1>4 DEF Collect, CollectBatch, CollectCopies, EndCollector, Write
<1>5. CASE Graphs
  BY <1>5 DEF Graphs, TakePlan, Submit, EndStream, TakeBlock, StartShard, LeaseShard, BuildShard
<1>6. CASE Interrupt
  BY <1>6 DEF Interrupt
<1> QED
  BY <1>1, <1>2, <1>3, <1>4, <1>5, <1>6, NextCases

\* The end of the source says that every file was read, or why not.
LEMMA StepKeepsSource ==
    ASSUME TypedPlaces, TypedLoop, TypedEnds, SourceInv, [Next]_vars
    PROVE  SourceInv'
<1>0. (canceled => canceled') /\ Files' = Files /\ canceled \in BOOLEAN
  BY CancelStays DEF Files, TypedEnds
<1>1. ASSUME UNCHANGED source, causes'["source"] = causes["source"], failed' => failed \/ canceled',
             \A f \in Files : stage'[f] = "unread" => stage[f] = "unread",
             \A f \in Files : stage'[f] = "lost" => stage[f] = "lost" \/ canceled'
      PROVE  SourceInv'
  <2>1. InStage({"unread"})' \subseteq InStage({"unread"})
    BY <1>0, <1>1 DEF InStage
  <2> QED
    BY <1>0, <1>1, <2>1 DEF SourceInv
<1>2. CASE EndSource
  <2>1. UNCHANGED <<stage, canceled, failed>> /\ source' = "ended" /\ causes["source"] \in Causes
    BY <1>2 DEF EndSource, loopVars, TypedEnds
  <2>2. ASSUME causes'["source"] = NoCause PROVE InStage({"unread"}) = {}
    <3>1. ASSUME NEW cause \in {"failure", "canceled"}, Tell("source", cause) PROVE FALSE
      BY <2>2, <3>1 DEF Tell, TypedEnds, NoCause
    <3> QED
      BY <1>2, <3>1 DEF EndSource
  <2>3. InStage({"unread"})' = InStage({"unread"})
    BY <2>1, <1>0 DEF InStage
  <2> QED
    BY <1>0, <2>1, <2>2, <2>3 DEF SourceInv
<1>3. ASSUME NEW f \in Files, NEW place, Goto(f, place), place # "unread", place = "lost" => canceled',
             UNCHANGED source, causes'["source"] = causes["source"], failed' => failed \/ canceled'
      PROVE  SourceInv'
  <2>1. \A g \in Files : stage'[g] = IF g = f THEN place ELSE stage[g]
    BY <1>3, Moved
  <2> QED
    BY <1>1, <1>3, <2>1
<1>4. CASE Extraction
  <2>1. PICK f \in Files : Take(f) \/ Dispatch(f) \/ StartExtract(f) \/ Extract(f) \/ QuitWorker(f)
    BY <1>4 DEF Extraction
  <2>2. UNCHANGED <<source, causes, failed, canceled>>
    BY <1>4, Frames DEF loopVars
  <2>3. PICK place \in {"read", "cpu", "lost", "parse", "send", "send failure", "send canceled", "dropped"} :
           Goto(f, place) /\ (place = "lost" => canceled)
    BY <2>1 DEF Take, Dispatch, StartExtract, Extract, QuitWorker
  <2>4. place # "unread"
    OBVIOUS
  <2> QED
    BY <1>3, <2>2, <2>3, <2>4
<1>5. CASE \E f \in Files : Receive(f)
  <2>1. PICK f \in Files : Receive(f)
    BY <1>5
  <2>2. UNCHANGED source
    BY <2>1 DEF Receive
  <2>3. PICK place \in {"pending", "dropped"} : Goto(f, place)
    BY <2>1 DEF Receive
  <2>4. causes'["source"] = causes["source"]
    BY <2>1 DEF Receive, Tell, TypedEnds
  <2>5. failed' => failed \/ canceled'
    BY <1>0, <2>1 DEF Receive, Sending
  <2>6. place # "unread" /\ place # "lost"
    OBVIOUS
  <2> QED
    BY <1>3, <2>2, <2>3, <2>4, <2>5, <2>6
<1>6. CASE \E f \in Files : Merge(f)
  <2>1. PICK f \in Files : Merge(f)
    BY <1>6
  <2>2. Goto(f, "merged") /\ UNCHANGED <<source, causes, failed>>
    BY <2>1 DEF Merge, MergeFile
  <2> QED
    BY <1>3, <2>2
<1>7. CASE Abandon \/ CloseChannels
  <2>1. UNCHANGED <<stage, source, causes>> /\ (failed' => failed \/ canceled')
    BY <1>0, <1>7 DEF Abandon, CloseChannels
  <2> QED
    BY <1>1, <2>1
<1>8. CASE EndFiles
  <2>1. stage' = [f \in Files |-> IF stage[f] = "pending" THEN "dropped" ELSE stage[f]]
        /\ UNCHANGED <<source, causes, failed>>
    BY <1>8 DEF EndFiles
  <2> QED
    BY <1>1, <2>1
<1>9. CASE Encode \/ Return \/ Interrupt \/ UNCHANGED vars
  <2>1. UNCHANGED <<stage, source, causes, failed>>
    BY <1>9, Frames DEF loopVars, vars
  <2> QED
    BY <1>1, <2>1
<1>10. CASE Collect \/ Graphs
  <2>1. UNCHANGED <<stage, source, failed>>
    BY <1>10, Frames
  <2>2. UNCHANGED causes \/ \E s \in {"output", "graphs"} : \E cause : Tell(s, cause)
    BY <1>10 DEF Collect, CollectBatch, CollectCopies, EndCollector, Write,
       Graphs, TakePlan, Submit, EndStream, TakeBlock, StartShard, LeaseShard, BuildShard
  <2>3. causes'["source"] = causes["source"]
    BY <2>2 DEF Tell, TypedEnds
  <2> QED
    BY <1>1, <2>1, <2>3
<1> QED
  BY <1>2, <1>4, <1>5, <1>6, <1>7, <1>8, <1>9, <1>10, NextCases DEF Loop

\* How many rows are in, and where the planner goes on.
LEMMA RowsIn ==
    ASSUME TypedLoop, MergedInv
    PROVE  /\ Len(rows) \in Nat
           /\ \A f \in Files : next = f => Len(rows) = Through(f - 1)
<1>1. LastFile \in Nat /\ next \in 1..(LastFile + 1)
  BY Constants DEF TypedLoop, LastFile
<1>2. next - 1 \in 0..LastFile
  BY <1>1
<1>3. Len(rows) = Through(next - 1) /\ Through(next - 1) \in Nat
  BY <1>2, UptoSteps DEF MergedInv, Through
<1> QED
  BY <1>3

\* What comes with a step that leaves the chain alone.
LEMMA CutStays ==
    ASSUME CutInv, canceled => canceled', UNCHANGED <<shards, plans, todo, planner, loop, rows, stream>>
    PROVE  CutInv'
<1>1. CASE canceled'
  BY <1>1, CutNext
<1>2. CASE ~canceled'
  <2>1. /\ \A i \in DOMAIN shards : shards[i].state # "stopped"
        /\ stream = "ended" => plans = <<>> /\ \A i \in DOMAIN shards : shards[i].state # "linkable"
        /\ Joined(shards, plans, todo, planner, loop, Len(rows))
    BY <1>2 DEF CutInv
  <2>2. /\ \A i \in DOMAIN shards' : shards'[i].state # "stopped"
        /\ stream' = "ended" => plans' = <<>> /\ \A i \in DOMAIN shards' : shards'[i].state # "linkable"
        /\ Joined(shards', plans', todo', planner', loop', Len(rows'))
    BY <2>1
  <2> QED
    BY <2>2, CutNext
<1> QED
  BY <1>1, <1>2

\* The windows of a file that comes go on where the planner was.
LEMMA MergeKeepsCut ==
    ASSUME TypedPlaces, TypedLoop, TypedGraphs, MergedInv, Apart, CutInv, NEW f \in Files, Merge(f)
    PROVE  CutInv'
<1>1. next = f /\ loop = "receive" /\ todo = <<>> /\ UNCHANGED <<shards, plans, loop, stream, canceled>>
  BY DEF Merge, MergeFile, graphVars
<1>2. CASE canceled
  BY <1>1, <1>2, CutNext
<1>3. CASE ~canceled
  <2>1. /\ \A i \in DOMAIN shards : shards[i].state # "stopped"
        /\ stream = "ended" => plans = <<>> /\ \A i \in DOMAIN shards : shards[i].state # "linkable"
        /\ Joined(shards, plans, todo, planner, loop, Len(rows))
    BY <1>3 DEF CutInv
  <2> DEFINE t == Through(f - 1)
             u == Through(f)
             of == [w \in DOMAIN Windows[f] |-> <<f, w>>]
             sorted == Sorted(Len(rows), f)
             first == IF of = <<>> THEN <<>> ELSE ToGraphs(Planned(f).plans)
  <2>2. Len(rows) = t /\ t \in Nat /\ u = t + Len(Windows[f]) /\ Len(Windows[f]) \in Nat
    BY <1>1, RowsIn, OfFileFacts
  <2>3. PICK a, b, c \in Nat :
           /\ Chain(shards, ShardSlices, 0, a) /\ Chain(plans, PlanSlices, a, b) /\ Chain(todo, MessageSlices, b, c)
           /\ PlannerAt(planner, c, t)
    BY <1>1, <2>1, <2>2 DEF Joined
  <2>4. b = c
    BY <1>1, <2>3, ChainNone
  <2>5. /\ todo' = first \o sorted.out
        /\ planner' = IF of = <<>> THEN planner ELSE Planned(f).planner
    BY DEF Merge, MergeFile
  <2>6. SortedUpTo(sorted, Len(rows), f, Len(Windows[f])) /\ sorted.out \in Seq(Messages) /\ Len(rows') = u
    <3>1. Len(rows') = Len(rows) + Len(Windows[f])
      BY MergeFacts
    <3>2. SortedUpTo(sorted, Len(rows), f, Len(Windows[f])) /\ sorted.out \in Seq(Messages)
      BY MergeFacts
    <3> QED
      BY <2>2, <3>1, <3>2
  <2> HIDE DEF sorted
  <2>7. \A i \in 1..Len(sorted.out) : sorted.out[i].to # "graphs"
    <3> DEFINE M == [to : {"encoder", "collector"}, rows : SUBSET (1..(Len(rows) + Len(Windows[f])))]
    <3>1. sorted.out \in Seq(M)
      BY <2>6 DEF SortedUpTo
    <3>2. \A m \in M : m.to # "graphs"
      OBVIOUS
    <3> HIDE DEF M
    <3> QED
      BY <3>1, <3>2, ElementOfSeq
  <2>8. \E d \in Nat : Chain(first, MessageSlices, c, d) /\ PlannerAt(planner', d, u) /\ first \in Seq(Messages)
    <3>1. CASE of = <<>>
      <4>1. Len(of) = Len(Windows[f]) /\ Len(<<>>) = 0
        <5>1. DOMAIN Windows[f] = 1..Len(Windows[f])
          BY Constants
        <5>2. of = [w \in 1..Len(Windows[f]) |-> <<f, w>>]
          BY <5>1
        <5> HIDE DEF of
        <5> QED
          BY <2>2, <5>2
      <4>2. u = t
        <5> HIDE DEF of, t, u
        <5>1. Len(Windows[f]) = 0
          BY <3>1, <4>1
        <5> QED
          BY <2>2, <5>1
      <4>3. first = <<>> /\ planner' = planner
        BY <2>5, <3>1
      <4>4. Chain(<<>>, MessageSlices, c, c) /\ <<>> \in Seq(Messages)
        BY ChainNone, EmptySeq
      <4> HIDE DEF first, t, u, of
      <4> QED
        BY <2>3, <4>2, <4>3, <4>4
    <3>2. CASE of # <<>>
      <4>1. planner \in Planners
        BY DEF TypedLoop
      <4>2. PICK d \in Nat : Chain(Planned(f).plans, PlanSlices, c, d) /\ PlannerAt(Planned(f).planner, d, u)
        BY <2>3, <4>1, PlannedAt
      <4>3. Planned(f).plans \in Seq(RowSets)
        BY <4>1, PlannedTyped
      <4>4. Chain(ToGraphs(Planned(f).plans), MessageSlices, c, d) /\ ToGraphs(Planned(f).plans) \in Seq(Messages)
        BY <4>2, <4>3, ToGraphsAt, ToGraphsFacts
      <4>5. first = ToGraphs(Planned(f).plans) /\ planner' = Planned(f).planner
        BY <2>5, <3>2
      <4> HIDE DEF first, u
      <4> QED
        BY <4>2, <4>4, <4>5
    <3> QED
      BY <3>1, <3>2
  <2> HIDE DEF first, t, u
  <2>9. PICK d \in Nat : Chain(first, MessageSlices, c, d) /\ PlannerAt(planner', d, u) /\ first \in Seq(Messages)
    BY <2>8
  <2>10. Chain(sorted.out, MessageSlices, d, d)
    BY <2>6, <2>7, NoPlanAt
  <2>11. Chain(todo', MessageSlices, b, d)
    BY <2>4, <2>5, <2>6, <2>9, <2>10, ChainJoin
  <2>12. Joined(shards', plans', todo', planner', loop', Len(rows'))
    BY <1>1, <2>3, <2>6, <2>9, <2>11 DEF Joined
  <2> QED
    BY <1>1, <2>1, <2>12, CutNext
<1> QED
  BY <1>2, <1>3

\* The last plans cut what the planner has left.
LEMMA EndFilesKeepsCut ==
    ASSUME TypedPlaces, TypedLoop, TypedGraphs, TypedEnds, MergedInv, SourceInv, CutInv, EndFiles
    PROVE  CutInv'
<1>1. /\ loop = "receive" /\ todo = <<>> /\ loop' = "last"
      /\ UNCHANGED <<shards, plans, stream, canceled, planner, rows>>
  BY DEF EndFiles, graphVars
<1>2. CASE canceled
  BY <1>1, <1>2, CutNext
<1>3. CASE ~canceled
  <2>1. /\ \A i \in DOMAIN shards : shards[i].state # "stopped"
        /\ stream = "ended" => plans = <<>> /\ \A i \in DOMAIN shards : shards[i].state # "linkable"
        /\ Joined(shards, plans, todo, planner, loop, Len(rows))
    BY <1>3 DEF CutInv
  <2>2. PICK a, b, c \in Nat :
           /\ Chain(shards, ShardSlices, 0, a) /\ Chain(plans, PlanSlices, a, b) /\ Chain(todo, MessageSlices, b, c)
           /\ PlannerAt(planner, c, Len(rows))
    BY <1>1, <2>1 DEF Joined
  <2>3. b = c
    BY <1>1, <2>2, ChainNone
  <2> DEFINE first == IF batch = {} THEN <<>> ELSE <<Message("encoder", batch)>>
             last  == ToGraphs(LastPlans)
  <2>4. todo' = first \o last
    BY <1>3 DEF EndFiles, SourceInv
  <2>5. first \in Seq(Messages) /\ \A i \in 1..Len(first) : first[i].to # "graphs"
    <3>1. CASE batch = {}
      <4>1. first = <<>>
        BY <3>1
      <4>2. <<>> \in Seq(Messages) /\ 1..Len(<<>>) = {}
        BY EmptySeq
      <4> QED
        BY <4>1, <4>2
    <3>2. CASE batch # {}
      <4>1. first = <<Message("encoder", batch)>>
        BY <3>2
      <4>2. <<Message("encoder", batch)>> \in Seq(Messages)
        BY Alone DEF TypedLoop
      <4>3. Message("encoder", batch).to # "graphs"
        BY DEF Message
      <4> HIDE DEF Message
      <4>4. \A i \in 1..Len(<<Message("encoder", batch)>>) : <<Message("encoder", batch)>>[i].to # "graphs"
        BY <4>3
      <4> QED
        BY <4>1, <4>2, <4>4
    <3> QED
      BY <3>1, <3>2
  <2>6. Chain(first, MessageSlices, c, c)
    <3> HIDE DEF first
    <3> QED
      BY <2>5, NoPlanAt
  <2>7. Chain(last, MessageSlices, c, Len(rows)) /\ last \in Seq(Messages)
    <3>1. planner \in Planners
      BY DEF TypedLoop
    <3>2. LastPlans \in Seq(RowSets) /\ Chain(LastPlans, PlanSlices, c, Len(rows))
      BY <2>2, <3>1, LastPlansTyped, LastPlansAt
    <3> QED
      BY <3>2, ToGraphsAt, ToGraphsFacts
  <2> HIDE DEF first, last
  <2>8. Chain(todo', MessageSlices, b, Len(rows))
    BY <2>3, <2>4, <2>5, <2>6, <2>7, ChainJoin
  <2>9. Len(rows) \in Nat
    BY RowsIn
  <2>10. Joined(shards', plans', todo', planner', loop', Len(rows'))
    BY <1>1, <2>2, <2>8, <2>9 DEF Joined
  <2> QED
    BY <1>1, <2>1, <2>10, CutNext
<1> QED
  BY <1>2, <1>3

\* The encoder and the collector take messages that carry no plan.
LEMMA SendKeepsCut ==
    ASSUME TypedLoop, TypedGraphs, CutInv, canceled => canceled', NEW to, to # "graphs", Sends(to),
           UNCHANGED <<shards, plans, planner, loop, rows, stream>>
    PROVE  CutInv'
<1>1. todo # <<>> /\ todo \in Seq(Messages) /\ Head(todo).to # "graphs" /\ todo' = Tail(todo)
  BY DEF Sends, TypedLoop
<1>2. CASE canceled'
  BY <1>2, CutNext
<1>3. CASE ~canceled'
  <2>1. /\ \A i \in DOMAIN shards : shards[i].state # "stopped"
        /\ stream = "ended" => plans = <<>> /\ \A i \in DOMAIN shards : shards[i].state # "linkable"
        /\ Joined(shards, plans, todo, planner, loop, Len(rows))
    BY <1>3 DEF CutInv
  <2>2. PICK a, b, c \in Nat :
           /\ Chain(shards, ShardSlices, 0, a) /\ Chain(plans, PlanSlices, a, b) /\ Chain(todo, MessageSlices, b, c)
           /\ IF loop = "receive" THEN PlannerAt(planner, c, Len(rows)) ELSE c = Len(rows)
    BY <2>1 DEF Joined
  <2>3. PICK d \in Nat : <<Head(todo), b, d>> \in MessageSlices /\ Chain(Tail(todo), MessageSlices, d, c)
    BY <1>1, <2>2, ChainFirst
  <2>4. b = d
    BY <1>1, <2>3, CarriedFacts
  <2>5. Joined(shards', plans', todo', planner', loop', Len(rows'))
    BY <1>1, <2>2, <2>3, <2>4 DEF Joined
  <2> QED
    BY <2>1, <2>5, CutNext
<1> QED
  BY <1>2, <1>3

\* A shard build that goes on keeps its rows.
LEMMA ShardKeepsCut ==
    ASSUME TypedGraphs, CutInv, canceled => canceled', NEW i \in DOMAIN shards, NEW state, ShardTo(i, state),
           state \in {"cpu", "build", "linkable", "whole", "stopped"}, state = "stopped" => canceled', stream # "ended",
           UNCHANGED <<plans, todo, planner, loop, rows, stream>>
    PROVE  CutInv'
<1>1. CASE canceled'
  BY <1>1, CutNext
<1>2. CASE ~canceled'
  <2>1. /\ \A j \in DOMAIN shards : shards[j].state # "stopped"
        /\ Joined(shards, plans, todo, planner, loop, Len(rows))
    BY <1>2 DEF CutInv
  <2>2. /\ Len(shards) \in Nat /\ DOMAIN shards = 1..Len(shards)
        /\ \A j \in 1..Len(shards) : shards[j] \in Shards
    BY LenProperties, ElementOfSeq DEF TypedGraphs
  <2>3. /\ Len(shards') = Len(shards) /\ DOMAIN shards' = 1..Len(shards)
        /\ \A j \in 1..Len(shards) : shards'[j] = IF j = i THEN [shards[j] EXCEPT !.state = state] ELSE shards[j]
    BY <2>2 DEF ShardTo, TypedGraphs
  <2>4. \A j \in 1..Len(shards) : shards'[j].rows = shards[j].rows /\ shards'[j] \in Shards
                                  /\ shards'[j].state # "stopped"
    <3> SUFFICES ASSUME NEW j \in 1..Len(shards)
                 PROVE  shards'[j].rows = shards[j].rows /\ shards'[j] \in Shards /\ shards'[j].state # "stopped"
      OBVIOUS
    <3>1. shards[j] \in Shards /\ shards[j].state # "stopped" /\ state # "stopped"
      BY <1>2, <2>1, <2>2
    <3> HIDE DEF RowSets
    <3>2. [shards[j] EXCEPT !.state = state] \in Shards /\ [shards[j] EXCEPT !.state = state].rows = shards[j].rows
          /\ [shards[j] EXCEPT !.state = state].state = state
      BY <3>1 DEF Shards
    <3> QED
      BY <2>3, <3>1, <3>2
  <2>5. PICK a, b, c \in Nat :
           /\ Chain(shards, ShardSlices, 0, a) /\ Chain(plans, PlanSlices, a, b) /\ Chain(todo, MessageSlices, b, c)
           /\ IF loop = "receive" THEN PlannerAt(planner, c, Len(rows)) ELSE c = Len(rows)
    BY <2>1 DEF Joined
  <2>6. \A j \in 1..Len(shards) : \A x, y \in Nat :
           <<shards[j], x, y>> \in ShardSlices => <<shards'[j], x, y>> \in ShardSlices
    BY <2>4, CarriedFacts
  <2>7. Chain(shards', ShardSlices, 0, a)
    BY <2>2, <2>3, <2>5, <2>6, ChainSame
  <2>8. Joined(shards', plans', todo', planner', loop', Len(rows'))
    BY <2>5, <2>7 DEF Joined
  <2> QED
    BY <2>3, <2>4, <2>8, CutNext
<1> QED
  BY <1>1, <1>2

\* The stream takes plans in order, starts their shards in order, and ends when each one
\* is built.
LEMMA GraphsKeepCut ==
    ASSUME TypedLoop, TypedGraphs, TypedEnds, EndInv, CutInv, canceled => canceled', Graphs
    PROVE  CutInv'
<1>0. UNCHANGED <<planner, loop, rows>>
  BY Frames
<1>1. CASE \E b \in blocks : TakeBlock(b)
  <2>1. UNCHANGED <<plans, shards, stream, todo>>
    BY <1>1 DEF TakeBlock, loopVars
  <2> QED
    BY <1>0, <2>1, CutStays
<1>2. CASE TakePlan
  <2>1. /\ todo # <<>> /\ todo \in Seq(Messages) /\ Head(todo).to = "graphs" /\ todo' = Tail(todo)
        /\ UNCHANGED <<shards, stream, canceled>> /\ stream # "ended"
        /\ plans' = IF canceled THEN plans ELSE Append(plans, Head(todo).rows)
    BY <1>2 DEF TakePlan, Sends, Listens, TypedLoop
  <2>2. CASE canceled
    BY <2>1, <2>2, CutNext
  <2>3. CASE ~canceled
    <3>1. /\ \A i \in DOMAIN shards : shards[i].state # "stopped"
          /\ Joined(shards, plans, todo, planner, loop, Len(rows))
      BY <2>3 DEF CutInv
    <3>2. PICK a, b, c \in Nat :
             /\ Chain(shards, ShardSlices, 0, a) /\ Chain(plans, PlanSlices, a, b) /\ Chain(todo, MessageSlices, b, c)
             /\ IF loop = "receive" THEN PlannerAt(planner, c, Len(rows)) ELSE c = Len(rows)
      BY <3>1 DEF Joined
    <3>3. PICK d \in Nat : <<Head(todo), b, d>> \in MessageSlices /\ Chain(Tail(todo), MessageSlices, d, c)
      BY <2>1, <3>2, ChainFirst
    <3>4. <<Head(todo).rows, b, d>> \in PlanSlices
      BY <2>1, <3>3, CarriedFacts
    <3>5. Head(todo).rows \in RowSets /\ plans \in Seq(RowSets)
      BY <3>4, SliceFacts DEF TypedGraphs
    <3>6. Chain(plans', PlanSlices, a, d)
      <4> HIDE DEF RowSets
      <4> QED
        BY <2>1, <2>3, <3>2, <3>4, <3>5, ChainMore
    <3>7. Joined(shards', plans', todo', planner', loop', Len(rows'))
      BY <1>0, <2>1, <3>2, <3>3, <3>6 DEF Joined
    <3> QED
      BY <2>1, <3>1, <3>7, CutNext
  <2> QED
    BY <2>2, <2>3
<1>3. CASE Submit
  <2> DEFINE s == [rows |-> Head(plans), state |-> "start"]
  <2>1. /\ plans # <<>> /\ ~canceled /\ plans' = Tail(plans) /\ shards' = Append(shards, s)
        /\ UNCHANGED <<stream, todo>> /\ stream # "ended"
    BY <1>3 DEF Submit, HeadReady, loopVars
  <2>2. /\ \A i \in DOMAIN shards : shards[i].state # "stopped"
        /\ Joined(shards, plans, todo, planner, loop, Len(rows))
    BY <2>1 DEF CutInv
  <2>3. PICK a, b, c \in Nat :
           /\ Chain(shards, ShardSlices, 0, a) /\ Chain(plans, PlanSlices, a, b) /\ Chain(todo, MessageSlices, b, c)
           /\ IF loop = "receive" THEN PlannerAt(planner, c, Len(rows)) ELSE c = Len(rows)
    BY <2>2 DEF Joined
  <2>4. plans \in Seq(RowSets) /\ shards \in Seq(Shards)
    BY DEF TypedGraphs
  <2>5. PICK d \in Nat : <<Head(plans), a, d>> \in PlanSlices /\ Chain(Tail(plans), PlanSlices, d, b)
    <3> HIDE DEF RowSets
    <3> QED
      BY <2>1, <2>3, <2>4, ChainFirst
  <2>6. s \in Shards /\ s.rows = Head(plans) /\ s.state # "stopped"
    <3>1. Head(plans) \in RowSets
      BY <2>5, SliceFacts
    <3> HIDE DEF RowSets
    <3> QED
      BY <3>1 DEF Shards
  <2> HIDE DEF s
  <2>7. <<s, a, d>> \in ShardSlices
    BY <2>5, <2>6, CarriedFacts
  <2>8. Chain(shards', ShardSlices, 0, d)
    BY <2>1, <2>3, <2>4, <2>6, <2>7, ChainMore
  <2>9. \A i \in DOMAIN shards' : shards'[i].state # "stopped"
    <3>1. /\ DOMAIN shards = 1..Len(shards) /\ DOMAIN shards' = 1..(Len(shards) + 1) /\ Len(shards) \in Nat
          /\ \A i \in 1..Len(shards) : shards'[i] = shards[i]
          /\ shards'[Len(shards) + 1] = s
      BY <2>1, <2>4, <2>6
    <3>2. \A i \in 1..(Len(shards) + 1) : i \in 1..Len(shards) \/ i = Len(shards) + 1
      BY <3>1
    <3> QED
      BY <2>2, <2>6, <3>1, <3>2
  <2>10. Joined(shards', plans', todo', planner', loop', Len(rows'))
    BY <1>0, <2>1, <2>3, <2>5, <2>8 DEF Joined
  <2> QED
    BY <2>1, <2>9, <2>10, CutNext
<1>4. ASSUME NEW i \in DOMAIN shards, StartShard(i) \/ LeaseShard(i) \/ BuildShard(i) PROVE CutInv'
  <2>1. UNCHANGED <<plans, stream, todo>> /\ shards[i].state \in {"start", "cpu", "build"}
    BY <1>4 DEF StartShard, LeaseShard, BuildShard, loopVars
  <2>2. stream # "ended"
    <3>1. i \in Running
      BY <2>1 DEF Running
    <3> QED
      BY <3>1 DEF EndInv
  <2>3. PICK state \in {"cpu", "build", "linkable", "whole", "stopped"} :
           ShardTo(i, state) /\ (state = "stopped" => canceled')
    BY <1>4 DEF StartShard, LeaseShard, BuildShard
  <2> QED
    BY <1>0, <2>1, <2>2, <2>3, ShardKeepsCut
<1>5. CASE EndStream
  <2>1. UNCHANGED <<plans, todo>> /\ stream' = "ended"
    BY <1>5 DEF EndStream, loopVars
  <2>2. CASE canceled'
    BY <2>2, CutNext
  <2>3. CASE ~canceled'
    <3>1. ~canceled /\ plans = <<>>
          /\ shards' = [i \in DOMAIN shards |->
                          IF shards[i].state = "linkable" THEN [shards[i] EXCEPT !.state = "linked"] ELSE shards[i]]
      BY <1>5, <2>3 DEF EndStream
    <3>2. /\ \A i \in DOMAIN shards : shards[i].state # "stopped"
          /\ Joined(shards, plans, todo, planner, loop, Len(rows))
      BY <3>1 DEF CutInv
    <3>3. /\ Len(shards) \in Nat /\ DOMAIN shards = 1..Len(shards)
          /\ \A j \in 1..Len(shards) : shards[j] \in Shards
      BY LenProperties, ElementOfSeq DEF TypedGraphs
    <3>4. DOMAIN shards' = 1..Len(shards) /\ Len(shards') = Len(shards)
      BY <3>1, <3>3
    <3>5. ASSUME NEW j \in 1..Len(shards)
          PROVE  /\ shards'[j].rows = shards[j].rows /\ shards'[j] \in Shards
                 /\ shards'[j].state \notin {"stopped", "linkable"}
      <4>1. shards[j] \in Shards /\ shards[j].state # "stopped"
        BY <3>2, <3>3
      <4> HIDE DEF RowSets
      <4>2. [shards[j] EXCEPT !.state = "linked"] \in Shards
            /\ [shards[j] EXCEPT !.state = "linked"].rows = shards[j].rows
            /\ [shards[j] EXCEPT !.state = "linked"].state = "linked"
        BY <4>1 DEF Shards
      <4>3. shards'[j] = IF shards[j].state = "linkable" THEN [shards[j] EXCEPT !.state = "linked"] ELSE shards[j]
        BY <3>1, <3>3
      <4> QED
        BY <4>1, <4>2, <4>3
    <3>6. PICK a, b, c \in Nat :
             /\ Chain(shards, ShardSlices, 0, a) /\ Chain(plans, PlanSlices, a, b) /\ Chain(todo, MessageSlices, b, c)
             /\ IF loop = "receive" THEN PlannerAt(planner, c, Len(rows)) ELSE c = Len(rows)
      BY <3>2 DEF Joined
    <3>7. \A j \in 1..Len(shards) : \A x, y \in Nat :
             <<shards[j], x, y>> \in ShardSlices => <<shards'[j], x, y>> \in ShardSlices
      BY <3>5, CarriedFacts
    <3>8. Chain(shards', ShardSlices, 0, a)
      BY <3>3, <3>4, <3>6, <3>7, ChainSame
    <3>9. Joined(shards', plans', todo', planner', loop', Len(rows'))
      BY <1>0, <2>1, <3>6, <3>8 DEF Joined
    <3> QED
      BY <2>1, <3>1, <3>4, <3>5, <3>9, CutNext
  <2> QED
    BY <2>2, <2>3
<1> QED
  BY <1>1, <1>2, <1>3, <1>4, <1>5 DEF Graphs

\* So every step keeps the chain.
LEMMA StepKeepsCut ==
    ASSUME TypedPlaces, TypedLoop, TypedGraphs, TypedEnds, MergedInv, Apart, EndInv, SourceInv, CutInv, [Next]_vars
    PROVE  CutInv'
<1>0. canceled => canceled'
  BY CancelStays
<1>1. CASE EndSource \/ Extraction \/ Return \/ Interrupt \/ UNCHANGED vars
  <2>1. UNCHANGED <<shards, plans, todo, planner, loop, rows, stream>>
    BY <1>1, Frames DEF loopVars, graphVars, vars
  <2> QED
    BY <1>0, <2>1, CutStays
<1>2. CASE \E f \in Files : Receive(f)
  <2>1. UNCHANGED <<shards, plans, todo, planner, loop, rows, stream>>
    BY <1>2 DEF Receive, graphVars
  <2> QED
    BY <1>0, <2>1, CutStays
<1>3. CASE Abandon
  <2>1. canceled'
    BY <1>3 DEF Abandon
  <2> QED
    BY <2>1, CutNext
<1>4. CASE CloseChannels
  <2>1. /\ loop = "last" /\ loop' = "wait"
        /\ UNCHANGED <<shards, plans, todo, planner, rows, stream, canceled>>
    BY <1>4 DEF CloseChannels, graphVars
  <2>2. CASE canceled'
    BY <2>2, CutNext
  <2>3. CASE ~canceled'
    <3>1. /\ \A i \in DOMAIN shards : shards[i].state # "stopped"
          /\ stream = "ended" => plans = <<>> /\ \A i \in DOMAIN shards : shards[i].state # "linkable"
          /\ Joined(shards, plans, todo, planner, loop, Len(rows))
      BY <2>1, <2>3 DEF CutInv
    <3>2. Joined(shards, plans, todo, planner, loop', Len(rows))
      BY <2>1, <3>1 DEF Joined
    <3>3. /\ \A i \in DOMAIN shards' : shards'[i].state # "stopped"
          /\ stream' = "ended" => plans' = <<>> /\ \A i \in DOMAIN shards' : shards'[i].state # "linkable"
          /\ Joined(shards', plans', todo', planner', loop', Len(rows'))
      BY <2>1, <3>1, <3>2
    <3> QED
      BY <3>3, CutNext
  <2> QED
    BY <2>2, <2>3
<1>5. CASE Encode
  <2>0. UNCHANGED <<shards, plans, planner, loop, rows, stream>>
    BY <1>5, Frames DEF graphVars
  <2>1. CASE TakeBatch
    <3>1. Sends("encoder")
      BY <2>1 DEF TakeBatch
    <3> QED
      BY <1>0, <2>0, <3>1, SendKeepsCut
  <2>2. CASE ~TakeBatch
    <3>1. UNCHANGED todo
      BY <1>5, <2>2 DEF Encode, StartCall, EndCall, TakeResult, EndEncoder, loopVars
    <3> QED
      BY <1>0, <2>0, <3>1, CutStays
  <2> QED
    BY <2>1, <2>2
<1>6. CASE Collect
  <2>0. UNCHANGED <<shards, plans, planner, loop, rows, stream>>
    BY <1>6, Frames DEF graphVars
  <2>1. CASE CollectCopies
    <3>1. Sends("collector")
      BY <2>1 DEF CollectCopies
    <3> QED
      BY <1>0, <2>0, <3>1, SendKeepsCut
  <2>2. CASE ~CollectCopies
    <3>1. UNCHANGED todo
      BY <1>6, <2>2 DEF Collect, CollectBatch, EndCollector, loopVars
    <3> QED
      BY <1>0, <2>0, <3>1, CutStays
  <2> QED
    BY <2>1, <2>2
<1>7. CASE Loop
  BY <1>2, <1>3, <1>4, <1>7, MergeKeepsCut, EndFilesKeepsCut DEF Loop
<1>8. CASE Graphs
  BY <1>0, <1>8, GraphsKeepCut
<1> QED
  BY <1>1, <1>5, <1>6, <1>7, <1>8, NextCases

\* A build that returned changes nothing of its result.
LEMMA ReturnedStays ==
    ASSUME EndInv, result # "none", [Next]_vars
    PROVE  UNCHANGED <<rows, written, shards, result>>
<1>1. /\ loop = "wait" /\ collector = "ended" /\ stream = "ended" /\ Running = {}
  BY DEF EndInv
<1>2. CASE EndSource \/ Extraction \/ Interrupt \/ UNCHANGED vars
  BY <1>2, Frames DEF loopVars, diskVars, graphVars, endVars, vars
<1>3. CASE Loop
  BY <1>1, <1>3, Frames DEF Loop, Receive, Merge, Abandon, EndFiles, CloseChannels, diskVars, graphVars, endVars
<1>4. CASE Encode
  BY <1>4, Frames DEF diskVars, graphVars, endVars
<1>5. CASE Collect
  BY <1>1, <1>5 DEF Collect, CollectBatch, CollectCopies, EndCollector, Ready
<1>6. CASE Graphs
  <2>1. UNCHANGED <<rows, written, result>>
    BY <1>6, Frames DEF endVars
  <2>2. ASSUME NEW i \in DOMAIN shards, StartShard(i) \/ LeaseShard(i) \/ BuildShard(i) PROVE FALSE
    <3>1. i \in Running
      BY <2>2 DEF StartShard, LeaseShard, BuildShard, Running
    <3> QED
      BY <1>1, <3>1
  <2>3. UNCHANGED shards
    BY <1>1, <1>6, <2>2 DEF Graphs, TakePlan, Submit, EndStream, TakeBlock, Listens
  <2> QED
    BY <2>1, <2>3
<1>7. CASE Return
  BY <1>7 DEF Return
<1> QED
  BY <1>2, <1>3, <1>4, <1>5, <1>6, <1>7, NextCases

\* When the build succeeds, every file is merged, every row is on disk, and the chain of
\* shards ends at the last row.
LEMMA ReturnIsWhole ==
    ASSUME TypedPlaces, TypedLoop, TypedDisk, TypedGraphs, TypedEnds, MergedInv, EndInv, CancelInv,
           SourceInv, CutInv, Return, result' = "ok"
    PROVE  /\ rows = AllRows /\ written = DOMAIN AllRows
           /\ \A i \in DOMAIN shards : shards[i].state \in {"whole", "linked"}
           /\ Covers(Len(AllRows))
<1>1. /\ loop = "wait" /\ collector = "ended" /\ stream = "ended" /\ DispatchEnded
      /\ Cause = NoCause /\ Cardinality(written) = Len(rows) /\ ~failed /\ next = Dispatched + 1
  BY DEF Return, Cause, NoCause
<1>2. ~interrupted /\ ~(\E s \in DOMAIN causes : causes[s] = "failure") /\ causes["source"] = NoCause
  <2>1. ~interrupted /\ ~(\E s \in DOMAIN causes : causes[s] = "failure")
        /\ ~(\E s \in DOMAIN causes : causes[s] = "canceled")
    BY <1>1 DEF Cause, NoCause
  <2>2. "source" \in DOMAIN causes /\ causes["source"] \in Causes
    BY DEF TypedEnds
  <2> QED
    BY <2>1, <2>2 DEF Causes
<1>3. ~canceled
  <2>1. encoder.at = "ended"
    BY <1>1 DEF EndInv
  <2> QED
    BY <1>2, <2>1 DEF CancelInv
<1>4. InStage({"pending", "merged", "dropped"} \cup Extracting \cup Sending) = Files
  <2>1. InStage({"unread"}) = {} /\ InStage({"read"}) = {}
    BY <1>1, <1>2 DEF DispatchEnded, SourceInv
  <2>2. \A f \in Files : stage[f] \notin {"unread", "read", "lost"}
    BY <1>3, <2>1 DEF InStage, SourceInv
  <2>3. \A f \in Files : stage[f] \in {"unread", "lost", "merged", "dropped"} \cup Held
    BY DEF TypedPlaces
  <2>4. \A f \in Files : stage[f] \in {"pending", "merged", "dropped"} \cup Extracting \cup Sending
    BY <2>2, <2>3 DEF Held
  <2> QED
    BY <2>4 DEF InStage
<1>5. LastFile \in Nat /\ Files = 1..LastFile /\ Cardinality(Files) = LastFile
  <2>1. LastFile \in Nat /\ Files = 1..LastFile
    BY Constants
  <2>2. Cardinality(1..LastFile) = IF 1 > LastFile THEN 0 ELSE LastFile - 1 + 1
    <3>1. 1 \in Int /\ LastFile \in Int
      BY <2>1
    <3> QED
      BY <3>1, FS_Interval
  <2> QED
    BY <2>1, <2>2
<1>6. rows = AllRows
  <2>1. next = LastFile + 1
    BY <1>1, <1>4, <1>5 DEF Dispatched
  <2>2. next - 1 = LastFile
    BY <1>5, <2>1
  <2> QED
    BY <2>2, UptoSteps DEF MergedInv
<1>7. Len(AllRows) \in Nat /\ DOMAIN AllRows = 1..Len(AllRows)
  BY AllRowsFacts
<1>8. written = DOMAIN AllRows
  <2>1. IsFiniteSet(1..Len(AllRows)) /\ Cardinality(1..Len(AllRows)) = Len(AllRows)
    <3>1. 1 \in Int /\ Len(AllRows) \in Int
      BY <1>7
    <3>2. /\ IsFiniteSet(1..Len(AllRows))
          /\ Cardinality(1..Len(AllRows)) = IF 1 > Len(AllRows) THEN 0 ELSE Len(AllRows) - 1 + 1
      BY <3>1, FS_Interval
    <3> QED
      BY <1>7, <3>2
  <2>2. written \in SUBSET (1..Len(AllRows))
    BY <1>7 DEF TypedDisk, RowSets
  <2>3. Cardinality(written) = Len(AllRows)
    BY <1>1, <1>6
  <2>4. 1..Len(AllRows) = written
    <3> DEFINE all == 1..Len(AllRows)
    <3>1. IsFiniteSet(all) /\ written \in SUBSET all /\ Cardinality(all) = Cardinality(written)
      BY <2>1, <2>2, <2>3
    <3> HIDE DEF all
    <3>2. all = written
      BY <3>1, FS_Subset
    <3> QED
      BY <3>2 DEF all
  <2> QED
    BY <1>7, <2>4
<1>9. /\ \A i \in DOMAIN shards : shards[i].state \notin {"stopped", "linkable"}
      /\ plans = <<>> /\ todo = <<>> /\ Joined(shards, plans, todo, planner, loop, Len(rows))
  <2>1. /\ \A i \in DOMAIN shards : shards[i].state # "stopped"
        /\ plans = <<>> /\ \A i \in DOMAIN shards : shards[i].state # "linkable"
        /\ Joined(shards, plans, todo, planner, loop, Len(rows))
    BY <1>1, <1>3 DEF CutInv
  <2>2. todo = <<>>
    BY <1>1 DEF EndInv
  <2> QED
    BY <2>1, <2>2
<1>10. \A i \in DOMAIN shards : shards[i].state \in {"whole", "linked"}
  <2> SUFFICES ASSUME NEW i \in DOMAIN shards PROVE shards[i].state \in {"whole", "linked"}
    OBVIOUS
  <2>1. i \notin Running
    BY <1>1 DEF EndInv
  <2>2. shards[i].state \notin {"start", "cpu", "build"}
    BY <2>1 DEF Running
  <2>3. shards[i].state \in {"start", "cpu", "build", "linkable", "linked", "whole", "stopped"}
    <3>1. shards[i] \in Shards
      BY LenProperties, ElementOfSeq DEF TypedGraphs
    <3> HIDE DEF RowSets
    <3> QED
      BY <3>1 DEF Shards
  <2> QED
    BY <1>9, <2>2, <2>3
<1>11. Chain(shards, ShardSlices, 0, Len(AllRows))
  <2>1. PICK a, b, c \in Nat :
           /\ Chain(shards, ShardSlices, 0, a) /\ Chain(plans, PlanSlices, a, b) /\ Chain(todo, MessageSlices, b, c)
           /\ IF loop = "receive" THEN PlannerAt(planner, c, Len(rows)) ELSE c = Len(rows)
    BY <1>9 DEF Joined
  <2>2. a = b /\ b = c
    BY <1>9, <2>1, ChainNone
  <2>3. c = Len(AllRows)
    BY <1>1, <1>6, <2>1
  <2> QED
    BY <2>1, <2>2, <2>3
<1>12. Covers(Len(AllRows))
  BY <1>11, ChainCovers DEF TypedGraphs
<1> QED
  BY <1>6, <1>8, <1>10, <1>12

\* The inductive invariant with what makes a build whole.
WInv == IInv /\ SourceInv /\ CutInv /\ BuiltWhole

\* Nothing is cut at the start.
LEMMA InitIsWhole == Init => WInv
<1> SUFFICES ASSUME Init PROVE WInv
  OBVIOUS
<1>1. IInv
  BY InitHolds
<1>2. SourceInv /\ BuiltWhole
  <2>1. \A f \in Files : stage[f] = "unread"
    BY DEF Init
  <2>2. source = "open" /\ failed = FALSE /\ result = "none"
    BY DEF Init
  <2> QED
    BY <2>1, <2>2 DEF SourceInv, BuiltWhole
<1>3. CutInv
  <2>1. /\ shards = <<>> /\ plans = <<>> /\ todo = <<>> /\ rows = <<>> /\ loop = "receive"
        /\ stream = "select" /\ planner = [size |-> 0, held |-> <<>>, open |-> {}]
    BY DEF Init, NoPlanner
  <2>2. \A R : Chain(<<>>, R, 0, 0)
    BY ChainNone
  <2>3. PlannerAt(planner, 0, 0) /\ Len(rows) = 0 /\ DOMAIN shards = {}
    BY <2>1, <2>2 DEF PlannerAt
  <2>4. Joined(shards, plans, todo, planner, loop, Len(rows))
    BY <2>1, <2>2, <2>3 DEF Joined
  <2> QED
    BY <2>1, <2>3, <2>4 DEF CutInv
<1> QED
  BY <1>1, <1>2, <1>3 DEF WInv

\* Each step keeps it.
LEMMA StepIsWhole == WInv /\ [Next]_vars => WInv'
<1> SUFFICES ASSUME WInv, [Next]_vars PROVE WInv'
  OBVIOUS
<1>1. /\ TypedPlaces /\ TypedLoop /\ TypedDisk /\ TypedGraphs /\ TypedEnds /\ MergedInv /\ Apart /\ EndInv /\ CancelInv
      /\ IInv /\ SourceInv /\ CutInv /\ BuiltWhole
  BY DEF WInv, IInv, Typed
<1>2. IInv' /\ SourceInv' /\ CutInv'
  BY <1>1, StepHolds, StepKeepsSource, StepKeepsCut
<1>3. AllRows' = AllRows
  BY DEF AllRows, Files
<1>4. CASE result # "none"
  <2>1. UNCHANGED <<rows, written, shards, result>>
    BY <1>1, <1>4, ReturnedStays
  <2>2. BuiltWhole'
    BY <1>1, <1>3, <2>1 DEF BuiltWhole
  <2> QED
    BY <1>2, <2>2 DEF WInv
<1>5. CASE result = "none"
  <2>1. CASE Return
    <3>1. UNCHANGED <<rows, written, shards>>
      BY <2>1, Frames DEF loopVars, diskVars, graphVars
    <3>2. CASE result' = "ok"
      <4>1. /\ rows = AllRows /\ written = DOMAIN AllRows
            /\ \A i \in DOMAIN shards : shards[i].state \in {"whole", "linked"}
            /\ Covers(Len(AllRows))
        BY <1>1, <2>1, <3>2, ReturnIsWhole
      <4>2. DOMAIN AllRows = 1..Len(AllRows)
        BY AllRowsFacts
      <4>3. BuiltWhole'
        <5>1. \A i \in DOMAIN shards' :
                 /\ shards'[i].state \in {"whole", "linked"}
                 /\ Min(shards'[i].rows) = (IF i = 1 THEN 1 ELSE Max(shards'[i - 1].rows) + 1)
                 /\ Cardinality(shards'[i].rows) = Max(shards'[i].rows) - Min(shards'[i].rows) + 1
                 /\ Cardinality(shards'[i].rows) <= MaxShardRows
          BY <3>1, <4>1 DEF Covers
        <5>2. UNION {shards'[i].rows : i \in DOMAIN shards'} = DOMAIN AllRows
          BY <3>1, <4>1, <4>2 DEF Covers
        <5>3. rows' = AllRows /\ written' = DOMAIN AllRows
          BY <3>1, <4>1
        <5> QED
          BY <1>3, <5>1, <5>2, <5>3 DEF BuiltWhole
      <4> QED
        BY <1>2, <4>3 DEF WInv
    <3>3. CASE result' # "ok"
      <4>1. BuiltWhole'
        BY <3>3 DEF BuiltWhole
      <4> QED
        BY <1>2, <4>1 DEF WInv
    <3> QED
      BY <3>2, <3>3
  <2>2. CASE ~Return
    <3>1. UNCHANGED result
      BY <2>2, NextCases, Frames DEF endVars, vars
    <3>2. BuiltWhole'
      BY <1>5, <3>1 DEF BuiltWhole
    <3> QED
      BY <1>2, <3>2 DEF WInv
  <2> QED
    BY <2>1, <2>2
<1> QED
  BY <1>4, <1>5

\* A build that succeeds holds every window of every file in file order, each row on
\* disk, and its graph shards cut these rows in order, with no gap and no row twice, none
\* longer than the largest shard: whatever stage is slow, and whatever the anchors and
\* the sizes are.
THEOREM WholeBuilds == Spec => []BuiltWhole
<1>1. Init => WInv
  BY InitIsWhole
<1>2. WInv /\ [Next]_vars => WInv'
  BY StepIsWhole
<1>3. WInv => BuiltWhole
  BY DEF WInv
<1> QED
  BY <1>1, <1>2, <1>3, PTL DEF Spec

=============================================================================
