------------------------ MODULE CacheEvictionProof ------------------------
(***************************************************************************)
(* Theorems about CacheEviction, for any corpora, searches, collections,   *)
(* sizes, budgets and faults:                                              *)
(*   1. TypeCorrect, the types, gc.lock and what .trash has;               *)
(*   2. LedgersTell, a ledger that is not measured again tells the bytes;  *)
(*   3. UseSpared, an eviction takes nothing that was used before its last *)
(*      look;                                                              *)
(*   4. BuildsSpared, a sweep takes no directory of a build, and an        *)
(*      eviction none of a build that ran before it.                       *)
(* Inv, before them, is the inductive invariant.                           *)
(***************************************************************************)
EXTENDS CacheEviction, TLAPS, WellFoundedInduction, FiniteSetTheorems

-----------------------------------------------------------------------------
(* Induction over the natural numbers, and what the sum of a function over *)
(* a finite set is.  MapThenSumSet is a fold that a CHOOSE defines; its    *)
(* value is found by induction over the size of the set.                   *)

\* A set of natural numbers that is not empty has a least one.
LEMMA LeastNumber ==
    ASSUME NEW T \in SUBSET Nat, T # {}
    PROVE  \E m \in T : \A n \in T : m <= n
<1> DEFINE R == OpToRel(<, Nat)
<1>1. IsWellFoundedOn(R, Nat)
  BY NatLessThanWellFounded
<1>2. \A x, y \in Nat : x < y => <<x, y>> \in R
  BY DEF OpToRel
<1> HIDE DEF R
<1>3. PICK m \in T : \A y \in T : <<y, m>> \notin R
  BY <1>1, WFMin
<1>4. ASSUME NEW n \in T PROVE m <= n
  <2>1. m \in Nat /\ n \in Nat
    OBVIOUS
  <2>2. ~(n < m)
    BY <1>2, <1>3, <2>1
  <2> QED
    BY <2>1, <2>2
<1> QED
  BY <1>4

\* Induction, for a set instead of a predicate.
LEMMA Induction ==
    ASSUME NEW S, 0 \in S, \A n \in Nat : n \in S => n + 1 \in S
    PROVE  Nat \subseteq S
<1> SUFFICES ASSUME Nat \ S # {} PROVE FALSE
  OBVIOUS
<1>1. PICK m \in Nat \ S : \A n \in Nat \ S : m <= n
  BY LeastNumber
<1>2. m # 0 /\ m - 1 \in Nat
  BY <1>1
<1>3. m - 1 \in S
  BY <1>1, <1>2
<1> QED
  BY <1>1, <1>2, <1>3

-----------------------------------------------------------------------------
(* Sums.                                                                   *)

Total(f, S) == MapThenSumSet(LAMBDA x : f[x], S)

Numbers(f, S) == \A x \in S : f[x] \in Nat

\* What the fold does with one set, and a function that does so.
Chosen(s) == CHOOSE x \in s : TRUE
Rest(s)   == s \ {Chosen(s)}
Summed(f, g, s) == IF s = {} THEN 0 ELSE f[Chosen(s)] + g[Rest(s)]
Sums(f, g, S)   == \A s \in SUBSET S : g[s] = Summed(f, g, s)
HasFold(f, S)   == \E g \in [SUBSET S -> Nat] : g = [s \in SUBSET S |-> Summed(f, g, s)]
HasSums(f, S)   == \E g \in [SUBSET S -> Nat] :
                      Sums(f, g, S) /\ \A s \in SUBSET S : Total(f, s) = g[s]

\* Each subset of a finite set that is not empty is an element more than another.
LEMMA Subsets ==
    ASSUME NEW S, IsFiniteSet(S), NEW s \in SUBSET S
    PROVE  /\ IsFiniteSet(s) /\ Cardinality(s) \in Nat /\ (Cardinality(s) = 0 <=> s = {})
           /\ \A x \in s : s \ {x} \in SUBSET S /\ Cardinality(s \ {x}) = Cardinality(s) - 1
           /\ s # {} => /\ Chosen(s) \in s /\ Rest(s) \in SUBSET S
                        /\ Cardinality(Rest(s)) = Cardinality(s) - 1
<1>1. IsFiniteSet(s) /\ Cardinality(s) \in Nat /\ (Cardinality(s) = 0 <=> s = {})
  BY FS_Subset, FS_CardinalityType, FS_EmptySet
<1>2. ASSUME NEW x \in s PROVE s \ {x} \in SUBSET S /\ Cardinality(s \ {x}) = Cardinality(s) - 1
  BY <1>1, FS_RemoveElement
<1> QED
  BY <1>1, <1>2 DEF Chosen, Rest

\* The fold has a value for each subset of a finite set.
LEMMA FoldExists ==
    ASSUME NEW S, IsFiniteSet(S), NEW f, Numbers(f, S)
    PROVE  HasFold(f, S)
<1> DEFINE Good(g, n) == \A s \in SUBSET S : Cardinality(s) <= n => g[s] = Summed(f, g, s)
           Sizes == {n \in Nat : \E g \in [SUBSET S -> Nat] : Good(g, n)}
<1>1. \A g \in [SUBSET S -> Nat] : \A s \in SUBSET S : Summed(f, g, s) \in Nat
  <2> SUFFICES ASSUME NEW g \in [SUBSET S -> Nat], NEW s \in SUBSET S, s # {}
               PROVE  f[Chosen(s)] + g[Rest(s)] \in Nat
    BY DEF Summed
  <2>1. Chosen(s) \in S /\ Rest(s) \in SUBSET S
    BY Subsets
  <2> QED
    BY <2>1 DEF Numbers
<1>2. 0 \in Sizes
  <2> DEFINE g == [s \in SUBSET S |-> 0]
  <2>1. \A s \in SUBSET S : Cardinality(s) <= 0 => s = {}
    BY Subsets
  <2>2. Good(g, 0)
    BY <2>1 DEF Summed
  <2> QED
    BY <2>2
<1>3. ASSUME NEW n \in Nat, n \in Sizes PROVE n + 1 \in Sizes
  <2>1. PICK g \in [SUBSET S -> Nat] : Good(g, n)
    BY <1>3
  <2> DEFINE h == [s \in SUBSET S |-> IF Cardinality(s) <= n THEN g[s] ELSE Summed(f, g, s)]
  <2>2. h \in [SUBSET S -> Nat]
    <3>1. \A s \in SUBSET S : g[s] \in Nat /\ Summed(f, g, s) \in Nat
      BY <1>1
    <3> QED
      BY <3>1
  <2>3. ASSUME NEW s \in SUBSET S, Cardinality(s) <= n + 1 PROVE h[s] = Summed(f, h, s)
    <3>1. h[s] = Summed(f, g, s)
      BY <2>1
    <3>2. s # {} => Rest(s) \in SUBSET S /\ Cardinality(Rest(s)) <= n
      BY <2>3, Subsets
    <3>3. s # {} => h[Rest(s)] = g[Rest(s)]
      BY <3>2
    <3> HIDE DEF h
    <3> QED
      BY <3>1, <3>3 DEF Summed
  <2>4. \E k \in [SUBSET S -> Nat] : Good(k, n + 1)
    <3>1. Good(h, n + 1)
      BY <2>3
    <3> HIDE DEF h, Good
    <3> QED
      BY <2>2, <3>1
  <2> QED
    BY <2>4
<1>4. Nat \subseteq Sizes
  <2> HIDE DEF Sizes
  <2> QED
    BY <1>2, <1>3, Induction
<1>5. Cardinality(S) \in Sizes
  BY <1>4, Subsets
<1>6. PICK g \in [SUBSET S -> Nat] : Good(g, Cardinality(S))
  BY <1>5
<1>7. \A s \in SUBSET S : g[s] = Summed(f, g, s)
  BY <1>6, FS_Subset
<1> QED
  BY <1>7 DEF HasFold

\* Two folds over sets with the same numbers agree.
LEMMA FoldsAgree ==
    ASSUME NEW U, IsFiniteSet(U), NEW f, NEW g, Sums(f, g, U),
           NEW e, NEW h, Sums(e, h, U), \A x \in U : f[x] = e[x]
    PROVE  g[U] = h[U]
<1> DEFINE Same == {n \in Nat : \A s \in SUBSET U : Cardinality(s) = n => g[s] = h[s]}
<1>1. 0 \in Same
  BY Subsets DEF Sums, Summed
<1>2. ASSUME NEW n \in Nat, n \in Same PROVE n + 1 \in Same
  <2> SUFFICES ASSUME NEW s \in SUBSET U, Cardinality(s) = n + 1 PROVE g[s] = h[s]
    OBVIOUS
  <2>1. s # {} /\ Chosen(s) \in U /\ Rest(s) \in SUBSET U /\ Cardinality(Rest(s)) = n
    BY Subsets
  <2>2. g[Rest(s)] = h[Rest(s)] /\ f[Chosen(s)] = e[Chosen(s)]
    BY <1>2, <2>1
  <2> QED
    BY <2>1, <2>2 DEF Sums, Summed
<1>3. Nat \subseteq Same
  <2> HIDE DEF Same
  <2> QED
    BY <1>1, <1>2, Induction
<1>4. Cardinality(U) \in Same
  BY <1>3, Subsets
<1> QED
  BY <1>4

\* So the sum of each subset is what one such function gives.
LEMMA TotalIsSummed ==
    ASSUME NEW S, IsFiniteSet(S), NEW f, Numbers(f, S)
    PROVE  HasSums(f, S)
<1>1a. HasFold(f, S)
  BY FoldExists
<1>1. PICK g \in [SUBSET S -> Nat] : g = [s \in SUBSET S |-> Summed(f, g, s)]
  BY <1>1a DEF HasFold
<1>2. Sums(f, g, S)
  BY <1>1 DEF Sums
<1>3. ASSUME NEW T \in SUBSET S PROVE Total(f, T) = g[T]
  <2> DEFINE Is(h) == h = [s \in SUBSET T |-> Summed(f, h, s)]
             fold == CHOOSE h : Is(h)
  <2>1. Total(f, T) = fold[T]
    BY DEF Total, MapThenSumSet, MapThenFoldSet, Chosen, Rest, Summed
  <2>2. IsFiniteSet(T) /\ Numbers(f, T)
    BY FS_Subset DEF Numbers
  <2>2a. HasFold(f, T)
    BY <2>2, FoldExists
  <2>3. Is(fold)
    BY <2>2a DEF HasFold
  <2>4. Sums(f, fold, T)
    BY <2>3 DEF Sums
  <2>5. Sums(f, g, T)
    BY <1>2 DEF Sums
  <2> HIDE DEF fold
  <2>6. fold[T] = g[T]
    BY <2>2, <2>4, <2>5, FoldsAgree
  <2> QED
    BY <2>1, <2>6
<1> QED
  BY <1>2, <1>3 DEF HasSums

\* The sum of no numbers is 0.
LEMMA TotalOfNone == \A f : Total(f, {}) = 0
<1> SUFFICES ASSUME NEW f PROVE Total(f, {}) = 0
  OBVIOUS
<1>1. Numbers(f, {}) /\ IsFiniteSet({})
  BY FS_EmptySet DEF Numbers
<1>2a. HasSums(f, {})
  BY <1>1, TotalIsSummed
<1>2. PICK g \in [SUBSET {} -> Nat] : Sums(f, g, {}) /\ \A s \in SUBSET {} : Total(f, s) = g[s]
  BY <1>2a DEF HasSums
<1> QED
  BY <1>2 DEF Sums, Summed

\* A sum of natural numbers is one.
LEMMA TotalType ==
    ASSUME NEW S, IsFiniteSet(S), NEW f, Numbers(f, S)
    PROVE  Total(f, S) \in Nat
<1>1a. HasSums(f, S)
  BY TotalIsSummed
<1>1. PICK g \in [SUBSET S -> Nat] : Sums(f, g, S) /\ \A s \in SUBSET S : Total(f, s) = g[s]
  BY <1>1a DEF HasSums
<1> QED
  BY <1>1

\* The sum depends on the numbers alone.
LEMMA TotalOfSame ==
    ASSUME NEW S, IsFiniteSet(S), NEW f, Numbers(f, S), NEW e, \A x \in S : e[x] = f[x]
    PROVE  Total(f, S) = Total(e, S)
<1>1a. HasSums(f, S)
  BY TotalIsSummed
<1>1. PICK g \in [SUBSET S -> Nat] : Sums(f, g, S) /\ \A s \in SUBSET S : Total(f, s) = g[s]
  BY <1>1a DEF HasSums
<1>2. Numbers(e, S)
  BY DEF Numbers
<1>3a. HasSums(e, S)
  BY <1>2, TotalIsSummed
<1>3. PICK h \in [SUBSET S -> Nat] : Sums(e, h, S) /\ \A s \in SUBSET S : Total(e, s) = h[s]
  BY <1>3a DEF HasSums
<1>4. g[S] = h[S]
  BY <1>1, <1>3, FoldsAgree
<1> QED
  BY <1>1, <1>3, <1>4

\* Any element can be taken out of a sum.
LEMMA TotalSplits ==
    ASSUME NEW S, IsFiniteSet(S), NEW f, Numbers(f, S), NEW y \in S
    PROVE  Total(f, S) = f[y] + Total(f, S \ {y})
<1>1a. HasSums(f, S)
  BY TotalIsSummed
<1>1. PICK g \in [SUBSET S -> Nat] : Sums(f, g, S) /\ \A s \in SUBSET S : Total(f, s) = g[s]
  BY <1>1a DEF HasSums
<1> DEFINE Free == {n \in Nat : \A s \in SUBSET S : Cardinality(s) = n =>
                                   \A x \in s : g[s] = f[x] + g[s \ {x}]}
<1>2. 0 \in Free
  BY Subsets
<1>3. ASSUME NEW n \in Nat, n \in Free PROVE n + 1 \in Free
  <2> SUFFICES ASSUME NEW s \in SUBSET S, Cardinality(s) = n + 1, NEW x \in s
               PROVE  g[s] = f[x] + g[s \ {x}]
    OBVIOUS
  <2> DEFINE c == Chosen(s)
  <2>1. c \in s /\ g[s] = f[c] + g[s \ {c}]
    BY <1>1, Subsets DEF Sums, Summed, Rest
  <2> HIDE DEF c
  <2>2. CASE c # x
    <3> DEFINE t == s \ {c}
               u == s \ {x}
               v == t \ {x}
    <3>1. t \in SUBSET S /\ Cardinality(t) = n /\ x \in t
      BY <2>1, <2>2, Subsets
    <3>2. u \in SUBSET S /\ Cardinality(u) = n /\ c \in u
      BY <2>1, <2>2, Subsets
    <3>3. g[t] = f[x] + g[v]
      BY <1>3, <3>1
    <3>4. g[u] = f[c] + g[u \ {c}]
      BY <1>3, <3>2
    <3>5. u \ {c} = v /\ v \in SUBSET S
      OBVIOUS
    <3>9. g[u \ {c}] = g[v]
      BY <3>5
    <3>6. f[x] \in Nat /\ f[c] \in Nat /\ g[v] \in Nat
      BY <2>1, <3>5 DEF Numbers
    <3> HIDE DEF t, u, v
    <3>7. g[s] = f[c] + g[t]
      BY <2>1 DEF t
    <3>8. g[s] = f[x] + g[u]
      BY <3>3, <3>4, <3>6, <3>7, <3>9
    <3> QED
      BY <3>8 DEF u
  <2> QED
    BY <2>1, <2>2
<1>4. Nat \subseteq Free
  <2> HIDE DEF Free
  <2> QED
    BY <1>2, <1>3, Induction
<1>5. Cardinality(S) \in Free
  BY <1>4, Subsets
<1>6. g[S] = f[y] + g[S \ {y}]
  BY <1>5
<1> QED
  BY <1>1, <1>6

\* A part of a sum is not greater than the sum.
LEMMA TotalOfPart ==
    ASSUME NEW S, IsFiniteSet(S), NEW f, Numbers(f, S), NEW T \in SUBSET S
    PROVE  Total(f, T) <= Total(f, S)
<1> DEFINE Grows == {n \in Nat : \A s \in SUBSET S : Cardinality(s) = n =>
                                    \A t \in SUBSET s : Total(f, t) <= Total(f, s)}
<1>0. \A s \in SUBSET S : IsFiniteSet(s) /\ Numbers(f, s) /\ Total(f, s) \in Nat
  <2> SUFFICES ASSUME NEW s \in SUBSET S PROVE IsFiniteSet(s) /\ Numbers(f, s) /\ Total(f, s) \in Nat
    OBVIOUS
  <2>1. IsFiniteSet(s) /\ Numbers(f, s)
    BY FS_Subset DEF Numbers
  <2> QED
    BY <2>1, TotalType
<1>1. 0 \in Grows
  <2> SUFFICES ASSUME NEW s \in SUBSET S, Cardinality(s) = 0, NEW t \in SUBSET s
               PROVE  Total(f, t) <= Total(f, s)
    OBVIOUS
  <2>1. t = s
    BY Subsets
  <2> QED
    BY <1>0, <2>1
<1>2. ASSUME NEW n \in Nat, n \in Grows PROVE n + 1 \in Grows
  <2> SUFFICES ASSUME NEW s \in SUBSET S, Cardinality(s) = n + 1, NEW t \in SUBSET s, t # s
               PROVE  Total(f, t) <= Total(f, s)
    BY <1>0
  <2>1. PICK y \in s : y \notin t
    OBVIOUS
  <2> DEFINE rest == s \ {y}
  <2>2. rest \in SUBSET S /\ Cardinality(rest) = n /\ t \in SUBSET rest
    BY <2>1, Subsets
  <2>3. Total(f, t) <= Total(f, rest)
    BY <1>2, <2>2
  <2>4. Total(f, s) = f[y] + Total(f, rest)
    BY <1>0, <2>1, TotalSplits
  <2> HIDE DEF rest
  <2>5. f[y] \in Nat /\ Total(f, t) \in Nat /\ Total(f, rest) \in Nat
    BY <1>0, <2>1, <2>2 DEF Numbers
  <2> QED
    BY <2>3, <2>4, <2>5
<1>3. Nat \subseteq Grows
  <2> HIDE DEF Grows
  <2> QED
    BY <1>1, <1>2, Induction
<1>4. Cardinality(S) \in Grows
  BY <1>3, Subsets
<1> QED
  BY <1>4

-----------------------------------------------------------------------------

\* A finite set of natural numbers that is not empty has a greatest one.
LEMMA GreatestNumber ==
    ASSUME NEW S \in SUBSET Nat, IsFiniteSet(S), S # {}
    PROVE  \E m \in S : \A n \in S : n <= m
<1> DEFINE Has(s)  == s # {} => \E m \in s : \A n \in s : n <= m
           Bounded == {n \in Nat : \A s \in SUBSET S : Cardinality(s) = n => Has(s)}
<1>1. 0 \in Bounded
  BY Subsets
<1>2. ASSUME NEW n \in Nat, n \in Bounded PROVE n + 1 \in Bounded
  <2> SUFFICES ASSUME NEW s \in SUBSET S, Cardinality(s) = n + 1, s # {} PROVE Has(s)
    OBVIOUS
  <2>1. PICK y \in s : TRUE
    OBVIOUS
  <2>0. s \ {y} \in SUBSET S /\ Cardinality(s \ {y}) = Cardinality(s) - 1
    BY Subsets, ZenonT(30)
  <2>2. s \ {y} \in SUBSET S /\ Cardinality(s \ {y}) = n
    BY <2>0
  <2>3. Has(s \ {y})
    BY <1>2, <2>2
  <2>4. CASE s \ {y} = {}
    BY <2>4
  <2>5. CASE s \ {y} # {}
    <3>1. PICK m \in s \ {y} : \A k \in s \ {y} : k <= m
      BY <2>3, <2>5
    <3>2. CASE y <= m
      BY <3>1, <3>2
    <3>3. CASE ~(y <= m)
      <4>1. m \in Nat /\ y \in Nat /\ s \subseteq Nat
        OBVIOUS
      <4>2. \A k \in s : k <= y
        BY <3>1, <3>3, <4>1
      <4> QED
        BY <4>2
    <3> QED
      BY <3>2, <3>3
  <2> QED
    BY <2>4, <2>5
<1>3. Nat \subseteq Bounded
  <2> HIDE DEF Bounded
  <2> QED
    BY <1>1, <1>2, Induction
<1>4. Cardinality(S) \in Bounded
  BY <1>3, Subsets
<1> QED
  BY <1>4

-----------------------------------------------------------------------------
(* The inductive invariant.                                                *)

Steps == {"start", "gate"} \cup InSearch \cup InCollection

\* The steps in which an actor works on one corpus.
OnOne == {"write", "building", "swapped", "reading", "probed", "look", "rename", "remove"}

DiskTyped ==
    /\ now \in Times /\ now > Old
    /\ corpora \in [Corpora -> CorpusDirs] /\ units \subseteq Units
    /\ stamp \in Times
    /\ artifacts \in [Artifacts -> [used : Times, path : {"none", "whole", "part"}, marked : BOOLEAN]]

PlaceTyped ==
    /\ pc \in [Actors -> Steps]
    /\ \A a \in Searches : pc[a] \in {"start"} \cup InSearch \cup InEviction
    /\ \A a \in Collections : pc[a] \in {"start", "gate"} \cup InCollection
    /\ at \in [Actors -> Corpora \cup {NoOne}]
    /\ \A a \in Actors : pc[a] \in OnOne => at[a] \in Corpora

ActorsTyped ==
    /\ goal \in [Actors -> {"none", "check", "total", "record", "plan"}]
    /\ started \in [Actors -> Times]
    /\ todo \in [Actors -> SUBSET Corpora] /\ listed \in [Actors -> [Corpora -> Times]]
    /\ sizes \in [Actors -> [Corpora -> Bytes \cup {0}]] /\ measured \in [Actors -> Bytes \cup {0}]
    /\ plan \in [Actors -> SUBSET (Corpora \cup Units \cup Artifacts)]

HistTyped ==
    /\ runs \in 0..MaxRuns /\ faults \in 0..MaxFaults /\ overlap \subseteq Corpora
    /\ touched \in [Actors -> SUBSET Corpora] /\ alone \subseteq Actors

Typed == DiskTyped /\ PlaceTyped /\ ActorsTyped /\ HistTyped

\* What no corpus has is a value of each type.
LEMMA NothingTyped ==
    /\ NoCorpus \in CorpusDirs /\ NotListed \in [Corpora -> Times]
    /\ NoSizes \in [Corpora -> Bytes \cup {0}] /\ NoOne \notin Corpora /\ Never \in Times
BY ConstantsAssumption DEF NoCorpus, CorpusDirs, NotListed, NoSizes, NoOne, Times, Never

\* The end of a run.
LEMMA EndTyped ==
    ASSUME PlaceTyped, ActorsTyped, HistTyped, NEW a \in Actors, End(a)
    PROVE  PlaceTyped' /\ ActorsTyped' /\ touched' \in [Actors -> SUBSET Corpora]
           /\ runs' \in 0..MaxRuns
<1>1. PlaceTyped'
  BY DEF End, PlaceTyped, Goto, Steps, OnOne, NoOne
<1>2. ActorsTyped'
  BY NothingTyped, ConstantsAssumption DEF End, ActorsTyped, Times, Never
<1>3. touched' \in [Actors -> SUBSET Corpora] /\ runs' \in 0..MaxRuns
  BY DEF End, HistTyped
<1> QED
  BY <1>1, <1>2, <1>3

\* What the actions take from the corpora are corpora.
LEMMA SubsetsTyped ==
    /\ Present \in SUBSET Corpora /\ \A a : Listed(a) \in SUBSET Corpora
    /\ \A s \in Searches : Uses[s] \in SUBSET Corpora
    /\ \A s \in Searches : \A stale \in SUBSET Uses[s] : stale \in SUBSET Corpora
    /\ \A a : \A d \in Corpora : Pending(a, d) \subseteq Corpora
BY ConstantsAssumption DEF Present, Pending, Listed

\* A corpus directory in which one field is written.
LEMMA FieldWritten ==
    ASSUME NEW c \in CorpusDirs, NEW t \in Times, NEW b \in Bytes \cup {0}
    PROVE  /\ [c EXCEPT !.used = t] \in CorpusDirs /\ [c EXCEPT !.published = t] \in CorpusDirs
           /\ [c EXCEPT !.build = t] \in CorpusDirs /\ [c EXCEPT !.bytes = b] \in CorpusDirs
           /\ [c EXCEPT !.sized = t] \in CorpusDirs /\ [c EXCEPT !.size = b] \in CorpusDirs
           /\ [c EXCEPT !.there = TRUE] \in CorpusDirs
           /\ c.bytes \in Bytes \cup {0} /\ c.size \in Bytes \cup {0}
           /\ c.published \in Times /\ c.used \in Times /\ c.sized \in Times /\ c.build \in Times
BY DEF CorpusDirs

\* A corpus directory that is written is one.
LEMMA DirWritten ==
    ASSUME NEW f \in [Corpora -> CorpusDirs], NEW d \in Corpora, NEW c \in CorpusDirs
    PROVE  [f EXCEPT ![d] = c] \in [Corpora -> CorpusDirs]
OBVIOUS

\* CheckBudget lets the search go on, asks for the whole cache, or ends the run.
LEMMA CheckBudgetGoes ==
    ASSUME NEW s, CheckBudget(s)
    PROVE  /\ pc[s] = "ledger"
           /\ \/ PassBudget(s)
              \/ /\ goal' = [goal EXCEPT ![s] = "total"] /\ todo' = [todo EXCEPT ![s] = Present]
                 /\ UNCHANGED <<pc, at, measured, started, listed, sizes, plan, runs, touched>>
              \/ End(s)
BY DEF CheckBudget, listVars

\* Enforce ends the run or records the ledgers that are stale.
LEMMA EnforceGoes ==
    ASSUME NEW s, Enforce(s)
    PROVE  /\ pc[s] = "search"
           /\ \/ End(s)
              \/ /\ Goto(s, "ledger") /\ goal' = [goal EXCEPT ![s] = "record"]
                 /\ \E stale \in SUBSET Uses[s] : todo' = [todo EXCEPT ![s] = stale]
                 /\ UNCHANGED <<at, measured, started, listed, sizes, plan, runs, touched>>
<1> DEFINE stale == {d \in Uses[s] : LedgerStale(d)}
<1>1. stale \in SUBSET Uses[s]
  OBVIOUS
<1> QED
  BY <1>1 DEF Enforce, listVars

\* Plan ends the run or takes what is old enough.
LEMMA PlanGoes ==
    ASSUME NEW a, Plan(a)
    PROVE  /\ pc[a] = "ledger"
           /\ \/ End(a)
              \/ /\ \E D \in SUBSET (Corpora \cup units) :
                       /\ plan' = [plan EXCEPT ![a] = D]
                       /\ a \notin All => D \cap Corpora \subseteq Evictable(a) \cup units
                 /\ todo' = [todo EXCEPT ![a] = Listed(a)]
                 /\ goal' = [goal EXCEPT ![a] = "none"] /\ sizes' = [sizes EXCEPT ![a] = NoSizes]
                 /\ Goto(a, IF a \in Searches THEN "evict" ELSE "orphans")
                 /\ UNCHANGED <<at, measured, started, listed, runs, touched>>
<1> DEFINE total  == Sum(sizes[a]) + Cardinality(units)
           budget == CacheBudget(total)
           spare  == IF a \in All THEN Cardinality(units)
                     ELSE Least(Cardinality(units), Minus(total, budget))
           older(d) == {e \in Evictable(a) : Before(a, e, d)}
           left(d)  == total - spare - MapThenSumSet(LAMBDA e : sizes[a][e], older(d))
           due == IF a \in All THEN Listed(a) ELSE {d \in Evictable(a) : left(d) > budget}
<1>1. due \subseteq Corpora /\ (a \notin All => due \subseteq Evictable(a))
  BY DEF Listed, Evictable
<1> HIDE DEF spare, left, due
<1>2. \E segments \in {S \in SUBSET units : Cardinality(S) = spare} :
         IF a \in Searches /\ due \cup segments = {} THEN End(a)
         ELSE /\ plan' = [plan EXCEPT ![a] = due \cup segments]
              /\ todo' = [todo EXCEPT ![a] = Listed(a)]
              /\ goal' = [goal EXCEPT ![a] = "none"] /\ sizes' = [sizes EXCEPT ![a] = NoSizes]
              /\ Goto(a, IF a \in Searches THEN "evict" ELSE "orphans")
              /\ UNCHANGED <<at, measured, started, listed, runs, touched>>
  BY DEF Plan, due, left, spare
<1>3. PICK segments \in SUBSET units :
         IF a \in Searches /\ due \cup segments = {} THEN End(a)
         ELSE /\ plan' = [plan EXCEPT ![a] = due \cup segments]
              /\ todo' = [todo EXCEPT ![a] = Listed(a)]
              /\ goal' = [goal EXCEPT ![a] = "none"] /\ sizes' = [sizes EXCEPT ![a] = NoSizes]
              /\ Goto(a, IF a \in Searches THEN "evict" ELSE "orphans")
              /\ UNCHANGED <<at, measured, started, listed, runs, touched>>
  BY <1>2
<1>4. /\ due \cup segments \in SUBSET (Corpora \cup units)
      /\ a \notin All => (due \cup segments) \cap Corpora \subseteq Evictable(a) \cup units
  BY <1>1
<1>5. pc[a] = "ledger"
  BY DEF Plan
<1> QED
  BY <1>3, <1>4, <1>5

\* What each file and time is, after a step.
LEMMA DiskStep == Typed /\ [Next]_vars => DiskTyped'
<1> SUFFICES ASSUME Typed, [Next]_vars PROVE DiskTyped'
  OBVIOUS
<1> USE ConstantsAssumption, NothingTyped, EndTyped
       DEF Typed, diskVars, listVars, actorVars, histVars, Goto, Never, Old, NoOne, Times, Actors, Alone
<1>t. ASSUME Tick PROVE DiskTyped'
  BY <1>t DEF Tick, DiskTyped, PlaceTyped
<1>s1. ASSUME NEW s \in Searches, CheckBudget(s) PROVE DiskTyped'
  BY <1>s1 DEF CheckBudget, PassBudget, DiskTyped, PlaceTyped
<1>s2. ASSUME NEW s \in Searches, SwapFamily(s) PROVE DiskTyped'
  <2>1. at[s] \in Corpora
    BY <1>s2 DEF SwapFamily, PlaceTyped, OnOne
  <2>2. PICK b \in Bytes : corpora' = [corpora EXCEPT ![at[s]].bytes = b, ![at[s]].build = Never]
    BY <1>s2 DEF SwapFamily
  <2> DEFINE made == [[corpora[at[s]] EXCEPT !.bytes = b] EXCEPT !.build = Never]
  <2>3. corpora' = [corpora EXCEPT ![at[s]] = made]
    BY <2>1, <2>2 DEF DiskTyped
  <2>4. Never \in Times /\ b \in Bytes \cup {0} /\ corpora[at[s]] \in CorpusDirs
    BY <2>1 DEF DiskTyped, Times
  <2>5. made \in CorpusDirs
    BY <2>4, FieldWritten
  <2> HIDE DEF made
  <2> QED
    BY <1>s2, <2>1, <2>3, <2>5, DirWritten DEF SwapFamily, DiskTyped
<1>s3. ASSUME NEW s \in Searches, PublishState(s) PROVE DiskTyped'
  <2>1. at[s] \in Corpora
    BY <1>s3 DEF PublishState, PlaceTyped, OnOne
  <2> QED
    BY <1>s3, <2>1, FieldWritten, DirWritten DEF PublishState, Work, DiskTyped
<1>s4. ASSUME NEW s \in Searches, EndRead(s) PROVE DiskTyped'
  <2>1. at[s] \in Corpora
    BY <1>s4 DEF EndRead, PlaceTyped, OnOne
  <2> QED
    BY <1>s4, <2>1, FieldWritten, DirWritten DEF EndRead, Touch, Work, DiskTyped
<1>s5. ASSUME NEW s \in Searches, Enforce(s) PROVE DiskTyped'
  BY <1>s5 DEF Enforce, DiskTyped, PlaceTyped
<1>s6. ASSUME NEW s \in Searches, EndRecord(s) PROVE DiskTyped'
  BY <1>s6 DEF EndRecord, Work, DiskTyped, PlaceTyped
<1>s7. ASSUME NEW s \in Searches, NEW d \in Corpora, StartBuild(s, d) PROVE DiskTyped'
  <2> DEFINE old  == IF corpora[d].there THEN corpora[d] ELSE NoCorpus
             made == [old EXCEPT !.there = TRUE, !.build = now]
  <2>1. old \in CorpusDirs /\ now \in Times
    BY DEF DiskTyped
  <2>2. made = [[old EXCEPT !.there = TRUE] EXCEPT !.build = now]
    OBVIOUS
  <2>3. made \in CorpusDirs
    <3> HIDE DEF old
    <3> QED
      BY <2>1, <2>2, FieldWritten
  <2> HIDE DEF made
  <2>4. [made EXCEPT !.used = now] \in CorpusDirs
    BY <2>1, <2>3, FieldWritten
  <2>5. corpora' = [corpora EXCEPT ![d] = [made EXCEPT !.used = now]]
    BY <1>s7 DEF StartBuild, Touch, DiskTyped, made
  <2> QED
    BY <1>s7, <2>4, <2>5, DirWritten DEF StartBuild, Work, DiskTyped
<1>s8. ASSUME NEW s \in Searches, NEW d \in Corpora, StartRead(s, d) PROVE DiskTyped'
  BY <1>s8 DEF StartRead, Work, DiskTyped, PlaceTyped
<1>s9. ASSUME NEW s \in Searches, NEW d \in Corpora, SkipNode(s, d) PROVE DiskTyped'
  BY <1>s9 DEF SkipNode, Work, DiskTyped, PlaceTyped
<1>s10. ASSUME NEW s \in Searches, LoseBuild(s) PROVE DiskTyped'
  BY <1>s10 DEF LoseBuild, Work, DiskTyped, PlaceTyped
<1>g1. ASSUME NEW g \in Collections, Throttled(g) PROVE DiskTyped'
  BY <1>g1 DEF Throttled, DiskTyped, PlaceTyped
<1>g2. ASSUME NEW g \in Collections, TakeGcLock(g) PROVE DiskTyped'
  BY <1>g2 DEF TakeGcLock, InCollection, InEviction, DiskTyped, PlaceTyped
<1>g3. ASSUME NEW g \in Collections, SweepBuildDir(g) PROVE DiskTyped'
  <2>1. at[g] \in Corpora
    BY <1>g3 DEF SweepBuildDir, PlaceTyped, OnOne
  <2> DEFINE t    == IF corpora[at[g]].build + MaxAge < started[g] THEN Never ELSE corpora[at[g]].build
             made == [corpora[at[g]] EXCEPT !.build = t]
  <2>2. corpora' = [corpora EXCEPT ![at[g]] = made]
    BY <1>g3, <2>1 DEF SweepBuildDir, DiskTyped
  <2>3. corpora[at[g]] \in CorpusDirs /\ t \in Times
    BY <2>1, FieldWritten DEF DiskTyped, Times
  <2> HIDE DEF t
  <2>4. made \in CorpusDirs
    BY <2>3, FieldWritten
  <2> HIDE DEF made
  <2> QED
    BY <1>g3, <2>1, <2>2, <2>4, DirWritten DEF SweepBuildDir, DiskTyped
<1>g4. ASSUME NEW g \in Collections, ListArtifacts(g) PROVE DiskTyped'
  BY <1>g4 DEF ListArtifacts, DiskTyped, PlaceTyped
<1>g5. ASSUME NEW g \in Collections, Stamp(g) PROVE DiskTyped'
  BY <1>g5 DEF Stamp, DiskTyped, PlaceTyped
<1>g6. ASSUME NEW g \in Collections, TimeOut(g) PROVE DiskTyped'
  BY <1>g6 DEF TimeOut, Fault, DiskTyped, PlaceTyped
<1>g7. ASSUME NEW g \in Collections, NEW d \in Corpora, ProbeBuild(g, d) PROVE DiskTyped'
  BY <1>g7 DEF ProbeBuild, DiskTyped, PlaceTyped
<1>g8. ASSUME NEW g \in Collections, NEW r \in Artifacts, Mark(g, r) PROVE DiskTyped'
  BY <1>g8 DEF Mark, Retire, DiskTyped
<1>g9. ASSUME NEW g \in Collections, NEW r \in Artifacts, Spare(g, r) PROVE DiskTyped'
  BY <1>g9 DEF Spare, Retire, DiskTyped, PlaceTyped
<1>g10. ASSUME NEW g \in Collections, NEW r \in Artifacts, RemoveMarked(g, r) PROVE DiskTyped'
  BY ZenonT(60), <1>g10 DEF RemoveMarked, Retire, DiskTyped
<1>a1. ASSUME NEW a \in Actors, Begin(a) PROVE DiskTyped'
  BY <1>a1 DEF Begin, DiskTyped, PlaceTyped
<1>a2. ASSUME NEW a \in Actors, Crash(a) PROVE DiskTyped'
  BY <1>a2 DEF Crash, Fault, DiskTyped, PlaceTyped
<1>a3. ASSUME NEW a \in Actors, WriteLedger(a) PROVE DiskTyped'
  <2>1. at[a] \in Corpora
    BY <1>a3 DEF WriteLedger, PlaceTyped, OnOne
  <2>2. CASE corpora[at[a]].there
    <3> DEFINE made == [[corpora[at[a]] EXCEPT !.size = measured[a]] EXCEPT !.sized = now]
    <3>1. corpora' = [corpora EXCEPT ![at[a]] = made]
      BY <1>a3, <2>1, <2>2 DEF WriteLedger, DiskTyped
    <3>2. corpora[at[a]] \in CorpusDirs /\ now \in Times /\ measured[a] \in Bytes \cup {0}
      BY <2>1 DEF DiskTyped, ActorsTyped
    <3>3. made \in CorpusDirs
      BY <3>2, FieldWritten
    <3> HIDE DEF made
    <3> QED
      BY <1>a3, <2>1, <3>1, <3>3, DirWritten DEF WriteLedger, DiskTyped
  <2>3. CASE ~corpora[at[a]].there
    BY <1>a3, <2>3 DEF WriteLedger, DiskTyped
  <2> QED
    BY <2>2, <2>3
<1>a4. ASSUME NEW a \in Actors, DrainTrash(a) PROVE DiskTyped'
  BY <1>a4 DEF DrainTrash, DiskTyped, PlaceTyped
<1>a5. ASSUME NEW a \in Actors, List(a) PROVE DiskTyped'
  BY <1>a5 DEF List, DiskTyped, PlaceTyped
<1>a6. ASSUME NEW a \in Actors, Plan(a) PROVE DiskTyped'
  BY <1>a6 DEF Plan, DiskTyped, PlaceTyped
<1>a7. ASSUME NEW a \in Actors, RemoveEvicted(a) PROVE DiskTyped'
  BY <1>a7 DEF RemoveEvicted, Fault, NextCorpus, DiskTyped, PlaceTyped
<1>a8. ASSUME NEW a \in Actors, EvictUnits(a) PROVE DiskTyped'
  BY <1>a8 DEF EvictUnits, DiskTyped, PlaceTyped
<1>a9. ASSUME NEW a \in Actors, NEW d \in Corpora, ReadLedger(a, d) PROVE DiskTyped'
  BY <1>a9 DEF ReadLedger, DiskTyped, PlaceTyped
<1>a10. ASSUME NEW a \in Actors, NEW d \in Corpora, Measure(a, d) PROVE DiskTyped'
  BY <1>a10 DEF Measure, DiskTyped, PlaceTyped
<1>a11. ASSUME NEW a \in Actors, NEW d \in Corpora, KeepCorpus(a, d) PROVE DiskTyped'
  BY <1>a11 DEF KeepCorpus, InEvict, NextCorpus, DiskTyped, PlaceTyped
<1>a12. ASSUME NEW a \in Actors, NEW d \in Corpora, Evict(a, d) PROVE DiskTyped'
  BY <1>a12 DEF Evict, Pending, DiskTyped, PlaceTyped
<1>a13. ASSUME NEW a \in Actors, NEW d \in Corpora, TakeCorpus(a, d) PROVE DiskTyped'
  BY <1>a13 DEF TakeCorpus, InEvict, DiskTyped, PlaceTyped
<1>a14. ASSUME NEW a \in Actors, FindUnused(a) PROVE DiskTyped'
  BY <1>a14 DEF FindUnused, DiskTyped, PlaceTyped
<1>r. ASSUME NEW r \in Artifacts, UseArtifact(r) PROVE DiskTyped'
  BY <1>r DEF UseArtifact, DiskTyped, PlaceTyped
<1>u. CASE UNCHANGED vars
  BY <1>u DEF vars, DiskTyped, PlaceTyped
<1> QED
  BY <1>t, <1>s1, <1>s2, <1>s3, <1>s4, <1>s5, <1>s6, <1>s7, <1>s8, <1>s9, <1>s10, <1>g1, <1>g2, <1>g3,
     <1>g4, <1>g5, <1>g6, <1>g7, <1>g8, <1>g9, <1>g10, <1>a1, <1>a2, <1>a3, <1>a4, <1>a5, <1>a6,
     <1>a7, <1>a8, <1>a9, <1>a10, <1>a11, <1>a12, <1>a13, <1>a14, <1>r, <1>u
     DEF Next, Search, Collect, Reclaim

\* Where each actor is.
LEMMA PlaceStep == Typed /\ [Next]_vars => PlaceTyped'
<1> SUFFICES ASSUME Typed, [Next]_vars PROVE PlaceTyped'
  OBVIOUS
<1> USE ConstantsAssumption, NothingTyped, EndTyped
       DEF Typed, diskVars, listVars, actorVars, histVars, Goto, Never, Old, NoOne, Times, Actors, Alone
<1>t. ASSUME Tick PROVE PlaceTyped'
  BY <1>t DEF Tick, PlaceTyped, Steps, OnOne, InSearch, InEviction, InCollection
<1>s1. ASSUME NEW s \in Searches, CheckBudget(s) PROVE PlaceTyped'
  <2>1. CASE End(s)
    BY <2>1
  <2>2. CASE ~End(s)
    BY <1>s1, <2>2, CheckBudgetGoes DEF PassBudget, Steps, OnOne, InSearch, InEviction,
       InCollection, PlaceTyped
  <2> QED
    BY <2>1, <2>2
<1>s2. ASSUME NEW s \in Searches, SwapFamily(s) PROVE PlaceTyped'
  BY <1>s2 DEF SwapFamily, PlaceTyped, Steps, OnOne, InSearch, InEviction, InCollection
<1>s3. ASSUME NEW s \in Searches, PublishState(s) PROVE PlaceTyped'
  BY <1>s3 DEF PublishState, Pending, Work, PlaceTyped, Steps, OnOne, InSearch, InEviction,
     InCollection
<1>s4. ASSUME NEW s \in Searches, EndRead(s) PROVE PlaceTyped'
  BY <1>s4 DEF EndRead, Touch, Work, PlaceTyped, Steps, OnOne, InSearch, InEviction, InCollection
<1>s5. ASSUME NEW s \in Searches, Enforce(s) PROVE PlaceTyped'
  <2>1. CASE End(s)
    BY <2>1
  <2>2. CASE ~End(s)
    BY <1>s5, <2>2, EnforceGoes DEF Steps, OnOne, InSearch, InEviction, InCollection, PlaceTyped
  <2> QED
    BY <2>1, <2>2
<1>s6. ASSUME NEW s \in Searches, EndRecord(s) PROVE PlaceTyped'
  BY <1>s6 DEF EndRecord, Work, PlaceTyped, Steps, OnOne, InSearch, InEviction, InCollection
<1>s7. ASSUME NEW s \in Searches, NEW d \in Corpora, StartBuild(s, d) PROVE PlaceTyped'
  BY <1>s7 DEF StartBuild, Touch, Work, PlaceTyped, Steps, OnOne, InSearch, InEviction, InCollection
<1>s8. ASSUME NEW s \in Searches, NEW d \in Corpora, StartRead(s, d) PROVE PlaceTyped'
  BY <1>s8 DEF StartRead, Work, PlaceTyped, Steps, OnOne, InSearch, InEviction, InCollection
<1>s9. ASSUME NEW s \in Searches, NEW d \in Corpora, SkipNode(s, d) PROVE PlaceTyped'
  BY <1>s9 DEF SkipNode, Work, PlaceTyped, Steps, OnOne, InSearch, InEviction, InCollection
<1>s10. ASSUME NEW s \in Searches, LoseBuild(s) PROVE PlaceTyped'
  BY <1>s10 DEF LoseBuild, Work, PlaceTyped, Steps, OnOne, InSearch, InEviction, InCollection
<1>g1. ASSUME NEW g \in Collections, Throttled(g) PROVE PlaceTyped'
  BY <1>g1 DEF Throttled, PlaceTyped, Steps, OnOne, InSearch, InEviction, InCollection
<1>g2. ASSUME NEW g \in Collections, TakeGcLock(g) PROVE PlaceTyped'
  <2>1. CASE End(g)
    BY <2>1
  <2>2. CASE ~End(g)
    BY <1>g2, <2>2 DEF TakeGcLock, Steps, OnOne, InSearch, InEviction, InCollection, PlaceTyped
  <2> QED
    BY <2>1, <2>2
<1>g3. ASSUME NEW g \in Collections, SweepBuildDir(g) PROVE PlaceTyped'
  BY <1>g3 DEF SweepBuildDir, PlaceTyped, Steps, OnOne, InSearch, InEviction, InCollection
<1>g4. ASSUME NEW g \in Collections, ListArtifacts(g) PROVE PlaceTyped'
  BY <1>g4 DEF ListArtifacts, PlaceTyped, Steps, OnOne, InSearch, InEviction, InCollection
<1>g5. ASSUME NEW g \in Collections, Stamp(g) PROVE PlaceTyped'
  BY <1>g5 DEF Stamp, PlaceTyped, Steps, OnOne, InSearch, InEviction, InCollection
<1>g6. ASSUME NEW g \in Collections, TimeOut(g) PROVE PlaceTyped'
  BY <1>g6 DEF TimeOut, Fault, PlaceTyped, Steps, OnOne, InSearch, InEviction, InCollection
<1>g7. ASSUME NEW g \in Collections, NEW d \in Corpora, ProbeBuild(g, d) PROVE PlaceTyped'
  BY <1>g7 DEF ProbeBuild, PlaceTyped, Steps, OnOne, InSearch, InEviction, InCollection
<1>g8. ASSUME NEW g \in Collections, NEW r \in Artifacts, Mark(g, r) PROVE PlaceTyped'
  BY <1>g8 DEF Mark, Retire, PlaceTyped, Steps, OnOne, InSearch, InEviction, InCollection
<1>g9. ASSUME NEW g \in Collections, NEW r \in Artifacts, Spare(g, r) PROVE PlaceTyped'
  BY <1>g9 DEF Spare, Retire, PlaceTyped, Steps, OnOne, InSearch, InEviction, InCollection
<1>g10. ASSUME NEW g \in Collections, NEW r \in Artifacts, RemoveMarked(g, r) PROVE PlaceTyped'
  BY <1>g10 DEF RemoveMarked, Retire, PlaceTyped, Steps, OnOne, InSearch, InEviction, InCollection
<1>a1. ASSUME NEW a \in Actors, Begin(a) PROVE PlaceTyped'
  <2>1. CASE a \in Searches
    BY <1>a1, <2>1 DEF Begin, PlaceTyped, Steps, OnOne, InSearch, InEviction, InCollection
  <2>2. CASE a \in Collections
    BY <1>a1, <2>2 DEF Begin, PlaceTyped, Steps, OnOne, InSearch, InEviction, InCollection
  <2> QED
    BY <2>1, <2>2
<1>a2. ASSUME NEW a \in Actors, Crash(a) PROVE PlaceTyped'
  BY <1>a2 DEF Crash, Fault, PlaceTyped, Steps, OnOne, InSearch, InEviction, InCollection
<1>a3. ASSUME NEW a \in Actors, WriteLedger(a) PROVE PlaceTyped'
  BY <1>a3 DEF WriteLedger, Pending, PlaceTyped, Steps, OnOne, InSearch, InEviction, InCollection
<1>a4. ASSUME NEW a \in Actors, DrainTrash(a) PROVE PlaceTyped'
  <2>1. CASE End(a)
    BY <2>1
  <2>2. CASE ~End(a)
    BY <1>a4, <2>2 DEF DrainTrash, Steps, OnOne, InSearch, InEviction, InCollection, PlaceTyped
  <2> QED
    BY <2>1, <2>2
<1>a5. ASSUME NEW a \in Actors, List(a) PROVE PlaceTyped'
  BY <1>a5 DEF List, PlaceTyped, Steps, OnOne, InSearch, InEviction, InCollection
<1>a6. ASSUME NEW a \in Actors, Plan(a) PROVE PlaceTyped'
  <2>1. CASE End(a)
    BY <2>1
  <2>2. CASE ~End(a)
    BY <1>a6, <2>2, PlanGoes DEF Steps, OnOne, InSearch, InEviction, InCollection, PlaceTyped
  <2> QED
    BY <2>1, <2>2
<1>a7. ASSUME NEW a \in Actors, RemoveEvicted(a) PROVE PlaceTyped'
  BY <1>a7 DEF RemoveEvicted, Fault, NextCorpus, PlaceTyped, Steps, OnOne, InSearch, InEviction,
     InCollection
<1>a8. ASSUME NEW a \in Actors, EvictUnits(a) PROVE PlaceTyped'
  BY <1>a8 DEF EvictUnits, PlaceTyped, Steps, OnOne, InSearch, InEviction, InCollection
<1>a9. ASSUME NEW a \in Actors, NEW d \in Corpora, ReadLedger(a, d) PROVE PlaceTyped'
  BY <1>a9 DEF ReadLedger, PlaceTyped, Steps, OnOne, InSearch, InEviction, InCollection
<1>a10. ASSUME NEW a \in Actors, NEW d \in Corpora, Measure(a, d) PROVE PlaceTyped'
  BY <1>a10 DEF Measure, PlaceTyped, Steps, OnOne, InSearch, InEviction, InCollection
<1>a11. ASSUME NEW a \in Actors, NEW d \in Corpora, KeepCorpus(a, d) PROVE PlaceTyped'
  BY <1>a11 DEF KeepCorpus, InEvict, NextCorpus, PlaceTyped, Steps, OnOne, InSearch, InEviction,
     InCollection
<1>a12. ASSUME NEW a \in Actors, NEW d \in Corpora, Evict(a, d) PROVE PlaceTyped'
  BY <1>a12 DEF Evict, Pending, PlaceTyped, Steps, OnOne, InSearch, InEviction,
     InCollection
<1>a13. ASSUME NEW a \in Actors, NEW d \in Corpora, TakeCorpus(a, d) PROVE PlaceTyped'
  BY <1>a13 DEF TakeCorpus, InEvict, PlaceTyped, Steps, OnOne, InSearch, InEviction, InCollection
<1>a14. ASSUME NEW a \in Actors, FindUnused(a) PROVE PlaceTyped'
  BY <1>a14 DEF FindUnused, PlaceTyped, Steps, OnOne, InSearch, InEviction, InCollection
<1>r. ASSUME NEW r \in Artifacts, UseArtifact(r) PROVE PlaceTyped'
  BY <1>r DEF UseArtifact, PlaceTyped, Steps, OnOne, InSearch, InEviction, InCollection
<1>u. CASE UNCHANGED vars
  BY <1>u DEF vars, PlaceTyped, Steps, OnOne, InSearch, InEviction, InCollection
<1> QED
  BY <1>t, <1>s1, <1>s2, <1>s3, <1>s4, <1>s5, <1>s6, <1>s7, <1>s8, <1>s9, <1>s10, <1>g1, <1>g2, <1>g3,
     <1>g4, <1>g5, <1>g6, <1>g7, <1>g8, <1>g9, <1>g10, <1>a1, <1>a2, <1>a3, <1>a4, <1>a5, <1>a6,
     <1>a7, <1>a8, <1>a9, <1>a10, <1>a11, <1>a12, <1>a13, <1>a14, <1>r, <1>u
     DEF Next, Search, Collect, Reclaim

\* What each actor holds.
LEMMA ActorsStep == Typed /\ [Next]_vars => ActorsTyped'
<1> SUFFICES ASSUME Typed, [Next]_vars PROVE ActorsTyped'
  OBVIOUS
<1> USE ConstantsAssumption, NothingTyped, EndTyped
       DEF Typed, diskVars, listVars, actorVars, histVars, Goto, Never, Old, NoOne, Times, Actors, Alone
<1>t. ASSUME Tick PROVE ActorsTyped'
  BY <1>t, SubsetsTyped, FieldWritten DEF Tick, DiskTyped, PlaceTyped, ActorsTyped
<1>s1. ASSUME NEW s \in Searches, CheckBudget(s) PROVE ActorsTyped'
  <2>1. CASE End(s)
    BY <2>1
  <2>2. CASE ~End(s)
    <3>1. todo' = [todo EXCEPT ![s] = Uses[s]] \/ todo' = [todo EXCEPT ![s] = Present]
      BY <1>s1, <2>2, CheckBudgetGoes DEF PassBudget
    <3>2. Uses[s] \in SUBSET Corpora /\ Present \in SUBSET Corpora
      BY SubsetsTyped
    <3>3. todo' \in [Actors -> SUBSET Corpora]
      <4>1. CASE todo' = [todo EXCEPT ![s] = Uses[s]]
        BY <4>1, <3>2 DEF ActorsTyped
      <4>2. CASE todo' = [todo EXCEPT ![s] = Present]
        BY <4>2, <3>2 DEF ActorsTyped
      <4> QED
        BY <3>1, <4>1, <4>2
    <3>6. sizes' = [sizes EXCEPT ![s] = NoSizes] \/ sizes' = sizes
      BY <1>s1, <2>2, CheckBudgetGoes DEF PassBudget
    <3>4. sizes' \in [Actors -> [Corpora -> Bytes \cup {0}]]
      BY <3>6 DEF ActorsTyped
    <3>5. goal' \in [Actors -> {"none", "check", "total", "record", "plan"}]
      BY SMTT(30), <1>s1, <2>2, CheckBudgetGoes DEF PassBudget, ActorsTyped
    <3> QED
      BY <1>s1, <2>2, <3>3, <3>4, <3>5, CheckBudgetGoes DEF PassBudget, ActorsTyped
  <2> QED
    BY <2>1, <2>2
<1>s2. ASSUME NEW s \in Searches, SwapFamily(s) PROVE ActorsTyped'
  BY <1>s2, SubsetsTyped, FieldWritten DEF SwapFamily, DiskTyped, PlaceTyped, ActorsTyped
<1>s3. ASSUME NEW s \in Searches, PublishState(s) PROVE ActorsTyped'
  BY <1>s3, SubsetsTyped, FieldWritten DEF PublishState, Pending, Work, DiskTyped, PlaceTyped,
     ActorsTyped
<1>s4. ASSUME NEW s \in Searches, EndRead(s) PROVE ActorsTyped'
  BY <1>s4, SubsetsTyped, FieldWritten DEF EndRead, Touch, Work, DiskTyped, PlaceTyped, ActorsTyped
<1>s5. ASSUME NEW s \in Searches, Enforce(s) PROVE ActorsTyped'
  <2>1. CASE End(s)
    BY <2>1
  <2>2. CASE ~End(s)
    <3>1. PICK stale \in SUBSET Uses[s] : todo' = [todo EXCEPT ![s] = stale]
      BY <1>s5, <2>2, EnforceGoes
    <3>2. todo' \in [Actors -> SUBSET Corpora]
      BY <3>1, SubsetsTyped DEF ActorsTyped
    <3>3. /\ goal' = [goal EXCEPT ![s] = "record"]
          /\ UNCHANGED <<measured, started, listed, sizes, plan>>
      BY <1>s5, <2>2, EnforceGoes
    <3> QED
      BY <3>2, <3>3 DEF ActorsTyped
  <2> QED
    BY <2>1, <2>2
<1>s6. ASSUME NEW s \in Searches, EndRecord(s) PROVE ActorsTyped'
  BY <1>s6, SubsetsTyped, FieldWritten DEF EndRecord, Work, DiskTyped, PlaceTyped, ActorsTyped
<1>s7. ASSUME NEW s \in Searches, NEW d \in Corpora, StartBuild(s, d) PROVE ActorsTyped'
  BY <1>s7, SubsetsTyped, FieldWritten DEF StartBuild, Touch, Work, DiskTyped, PlaceTyped,
     ActorsTyped
<1>s8. ASSUME NEW s \in Searches, NEW d \in Corpora, StartRead(s, d) PROVE ActorsTyped'
  BY <1>s8, SubsetsTyped, FieldWritten DEF StartRead, Work, DiskTyped, PlaceTyped, ActorsTyped
<1>s9. ASSUME NEW s \in Searches, NEW d \in Corpora, SkipNode(s, d) PROVE ActorsTyped'
  BY <1>s9, SubsetsTyped, FieldWritten DEF SkipNode, Work, DiskTyped, PlaceTyped, ActorsTyped
<1>s10. ASSUME NEW s \in Searches, LoseBuild(s) PROVE ActorsTyped'
  BY <1>s10, SubsetsTyped, FieldWritten DEF LoseBuild, Work, DiskTyped, PlaceTyped, ActorsTyped
<1>g1. ASSUME NEW g \in Collections, Throttled(g) PROVE ActorsTyped'
  BY <1>g1, SubsetsTyped, FieldWritten DEF Throttled, DiskTyped, PlaceTyped, ActorsTyped
<1>g2. ASSUME NEW g \in Collections, TakeGcLock(g) PROVE ActorsTyped'
  <2>1. CASE End(g)
    BY <2>1
  <2>2. CASE ~End(g)
    BY <1>g2, <2>2 DEF TakeGcLock, ActorsTyped
  <2> QED
    BY <2>1, <2>2
<1>g3. ASSUME NEW g \in Collections, SweepBuildDir(g) PROVE ActorsTyped'
  BY <1>g3, SubsetsTyped, FieldWritten DEF SweepBuildDir, DiskTyped, PlaceTyped, ActorsTyped
<1>g4. ASSUME NEW g \in Collections, ListArtifacts(g) PROVE ActorsTyped'
  BY <1>g4, SubsetsTyped, FieldWritten DEF ListArtifacts, DiskTyped, PlaceTyped, ActorsTyped
<1>g5. ASSUME NEW g \in Collections, Stamp(g) PROVE ActorsTyped'
  BY <1>g5, SubsetsTyped, FieldWritten DEF Stamp, DiskTyped, PlaceTyped, ActorsTyped
<1>g6. ASSUME NEW g \in Collections, TimeOut(g) PROVE ActorsTyped'
  BY <1>g6, SubsetsTyped, FieldWritten DEF TimeOut, Fault, DiskTyped, PlaceTyped, ActorsTyped
<1>g7. ASSUME NEW g \in Collections, NEW d \in Corpora, ProbeBuild(g, d) PROVE ActorsTyped'
  BY <1>g7, SubsetsTyped, FieldWritten DEF ProbeBuild, DiskTyped, PlaceTyped, ActorsTyped
<1>g8. ASSUME NEW g \in Collections, NEW r \in Artifacts, Mark(g, r) PROVE ActorsTyped'
  BY <1>g8, SubsetsTyped, FieldWritten DEF Mark, Retire, DiskTyped, PlaceTyped, ActorsTyped
<1>g9. ASSUME NEW g \in Collections, NEW r \in Artifacts, Spare(g, r) PROVE ActorsTyped'
  BY <1>g9, SubsetsTyped, FieldWritten DEF Spare, Retire, DiskTyped, PlaceTyped, ActorsTyped
<1>g10. ASSUME NEW g \in Collections, NEW r \in Artifacts, RemoveMarked(g, r) PROVE ActorsTyped'
  BY <1>g10, SubsetsTyped, FieldWritten DEF RemoveMarked, Retire, DiskTyped, PlaceTyped, ActorsTyped
<1>a1. ASSUME NEW a \in Actors, Begin(a) PROVE ActorsTyped'
  <2>1. todo' \in [Actors -> SUBSET Corpora]
    BY <1>a1, SubsetsTyped DEF Begin, ActorsTyped
  <2> QED
    BY <1>a1, <2>1 DEF Begin, ActorsTyped, DiskTyped
<1>a2. ASSUME NEW a \in Actors, Crash(a) PROVE ActorsTyped'
  BY <1>a2, SubsetsTyped, FieldWritten DEF Crash, Fault, DiskTyped, PlaceTyped, ActorsTyped
<1>a3. ASSUME NEW a \in Actors, WriteLedger(a) PROVE ActorsTyped'
  BY <1>a3, SubsetsTyped, FieldWritten DEF WriteLedger, Pending, DiskTyped, PlaceTyped, ActorsTyped
<1>a4. ASSUME NEW a \in Actors, DrainTrash(a) PROVE ActorsTyped'
  <2>1. CASE End(a)
    BY <2>1
  <2>2. CASE ~End(a)
    BY <1>a4, <2>2 DEF DrainTrash, ActorsTyped
  <2> QED
    BY <2>1, <2>2
<1>a5. ASSUME NEW a \in Actors, List(a) PROVE ActorsTyped'
  <2>1. [d \in Corpora |-> IF d \in Present THEN corpora[d].used ELSE Never] \in [Corpora -> Times]
    BY FieldWritten DEF DiskTyped
  <2>2. listed' \in [Actors -> [Corpora -> Times]]
    BY <1>a5, <2>1 DEF List, ActorsTyped
  <2>3. todo' \in [Actors -> SUBSET Corpora]
    BY <1>a5, SubsetsTyped DEF List, ActorsTyped
  <2> QED
    BY <1>a5, <2>2, <2>3 DEF List, ActorsTyped
<1>a6. ASSUME NEW a \in Actors, Plan(a) PROVE ActorsTyped'
  <2>1. CASE End(a)
    BY <2>1
  <2>2. CASE ~End(a)
    <3>1. PICK D \in SUBSET (Corpora \cup units) : plan' = [plan EXCEPT ![a] = D]
      BY <1>a6, <2>2, PlanGoes
    <3>2. plan' \in [Actors -> SUBSET (Corpora \cup Units \cup Artifacts)]
      BY <3>1 DEF DiskTyped, ActorsTyped
    <3>6. todo' = [todo EXCEPT ![a] = Listed(a)]
      BY <1>a6, <2>2, PlanGoes
    <3>3. todo' \in [Actors -> SUBSET Corpora]
      BY <3>6, SubsetsTyped DEF ActorsTyped
    <3>4. sizes' \in [Actors -> [Corpora -> Bytes \cup {0}]]
      BY SMTT(30), <1>a6, <2>2, PlanGoes DEF ActorsTyped
    <3>5. goal' \in [Actors -> {"none", "check", "total", "record", "plan"}]
      BY SMTT(30), <1>a6, <2>2, PlanGoes DEF ActorsTyped
    <3> QED
      BY <1>a6, <2>2, <3>2, <3>3, <3>4, <3>5, PlanGoes DEF ActorsTyped
  <2> QED
    BY <2>1, <2>2
<1>a7. ASSUME NEW a \in Actors, RemoveEvicted(a) PROVE ActorsTyped'
  BY <1>a7, SubsetsTyped, FieldWritten DEF RemoveEvicted, Fault, NextCorpus, DiskTyped, PlaceTyped,
     ActorsTyped
<1>a8. ASSUME NEW a \in Actors, EvictUnits(a) PROVE ActorsTyped'
  BY <1>a8, SubsetsTyped, FieldWritten DEF EvictUnits, DiskTyped, PlaceTyped, ActorsTyped
<1>a9. ASSUME NEW a \in Actors, NEW d \in Corpora, ReadLedger(a, d) PROVE ActorsTyped'
  BY <1>a9, SubsetsTyped, FieldWritten DEF ReadLedger, DiskTyped, PlaceTyped, ActorsTyped
<1>a10. ASSUME NEW a \in Actors, NEW d \in Corpora, Measure(a, d) PROVE ActorsTyped'
  BY <1>a10, SubsetsTyped, FieldWritten DEF Measure, DiskTyped, PlaceTyped, ActorsTyped
<1>a11. ASSUME NEW a \in Actors, NEW d \in Corpora, KeepCorpus(a, d) PROVE ActorsTyped'
  BY <1>a11, SubsetsTyped, FieldWritten DEF KeepCorpus, InEvict, NextCorpus, DiskTyped, PlaceTyped,
     ActorsTyped
<1>a12. ASSUME NEW a \in Actors, NEW d \in Corpora, Evict(a, d) PROVE ActorsTyped'
  BY <1>a12, SubsetsTyped, FieldWritten DEF Evict, Pending, DiskTyped, PlaceTyped,
     ActorsTyped
<1>a13. ASSUME NEW a \in Actors, NEW d \in Corpora, TakeCorpus(a, d) PROVE ActorsTyped'
  BY <1>a13, SubsetsTyped, FieldWritten DEF TakeCorpus, InEvict, DiskTyped, PlaceTyped, ActorsTyped
<1>a14. ASSUME NEW a \in Actors, FindUnused(a) PROVE ActorsTyped'
  BY <1>a14, SubsetsTyped, FieldWritten DEF FindUnused, DiskTyped, PlaceTyped, ActorsTyped
<1>r. ASSUME NEW r \in Artifacts, UseArtifact(r) PROVE ActorsTyped'
  BY <1>r, SubsetsTyped, FieldWritten DEF UseArtifact, DiskTyped, PlaceTyped, ActorsTyped
<1>u. CASE UNCHANGED vars
  BY <1>u, SubsetsTyped, FieldWritten DEF vars, DiskTyped, PlaceTyped, ActorsTyped
<1> QED
  BY <1>t, <1>s1, <1>s2, <1>s3, <1>s4, <1>s5, <1>s6, <1>s7, <1>s8, <1>s9, <1>s10, <1>g1, <1>g2, <1>g3,
     <1>g4, <1>g5, <1>g6, <1>g7, <1>g8, <1>g9, <1>g10, <1>a1, <1>a2, <1>a3, <1>a4, <1>a5, <1>a6,
     <1>a7, <1>a8, <1>a9, <1>a10, <1>a11, <1>a12, <1>a13, <1>a14, <1>r, <1>u
     DEF Next, Search, Collect, Reclaim

\* The counters and the history.
LEMMA HistStep == Typed /\ [Next]_vars => HistTyped'
<1> SUFFICES ASSUME Typed, [Next]_vars PROVE HistTyped'
  OBVIOUS
<1> USE ConstantsAssumption, NothingTyped, EndTyped
       DEF Typed, diskVars, listVars, actorVars, histVars, Goto, Never, Old, NoOne, Times, Actors, Alone
<1>t. ASSUME Tick PROVE HistTyped'
  BY <1>t, SubsetsTyped, FieldWritten DEF Tick, HistTyped
<1>s1. ASSUME NEW s \in Searches, CheckBudget(s) PROVE HistTyped'
  <2>1. touched' \in [Actors -> SUBSET Corpora] /\ runs' \in 0..MaxRuns
    BY <1>s1, CheckBudgetGoes DEF PassBudget, HistTyped
  <2> QED
    BY <1>s1, <2>1 DEF CheckBudget, HistTyped
<1>s2. ASSUME NEW s \in Searches, SwapFamily(s) PROVE HistTyped'
  BY <1>s2, SubsetsTyped, FieldWritten DEF SwapFamily, HistTyped
<1>s3. ASSUME NEW s \in Searches, PublishState(s) PROVE HistTyped'
  <2>1. at[s] \in Corpora
    BY <1>s3 DEF PublishState, PlaceTyped, OnOne
  <2> QED
    BY <1>s3, <2>1, SubsetsTyped DEF PublishState, Work, HistTyped
<1>s4. ASSUME NEW s \in Searches, EndRead(s) PROVE HistTyped'
  <2>1. at[s] \in Corpora
    BY <1>s4 DEF EndRead, PlaceTyped, OnOne
  <2> QED
    BY <1>s4, <2>1 DEF EndRead, Touch, Work, HistTyped
<1>s5. ASSUME NEW s \in Searches, Enforce(s) PROVE HistTyped'
  BY <1>s5, SubsetsTyped, FieldWritten DEF Enforce, HistTyped
<1>s6. ASSUME NEW s \in Searches, EndRecord(s) PROVE HistTyped'
  BY <1>s6, SubsetsTyped, FieldWritten DEF EndRecord, Work, HistTyped
<1>s7. ASSUME NEW s \in Searches, NEW d \in Corpora, StartBuild(s, d) PROVE HistTyped'
  BY <1>s7, SubsetsTyped, FieldWritten DEF StartBuild, Touch, Work, HistTyped
<1>s8. ASSUME NEW s \in Searches, NEW d \in Corpora, StartRead(s, d) PROVE HistTyped'
  BY <1>s8, SubsetsTyped, FieldWritten DEF StartRead, Work, HistTyped
<1>s9. ASSUME NEW s \in Searches, NEW d \in Corpora, SkipNode(s, d) PROVE HistTyped'
  BY <1>s9, SubsetsTyped, FieldWritten DEF SkipNode, Work, HistTyped
<1>s10. ASSUME NEW s \in Searches, LoseBuild(s) PROVE HistTyped'
  BY <1>s10, SubsetsTyped, FieldWritten DEF LoseBuild, Work, HistTyped
<1>g1. ASSUME NEW g \in Collections, Throttled(g) PROVE HistTyped'
  BY <1>g1, SubsetsTyped, FieldWritten DEF Throttled, HistTyped
<1>g2. ASSUME NEW g \in Collections, TakeGcLock(g) PROVE HistTyped'
  BY <1>g2, SubsetsTyped, FieldWritten DEF TakeGcLock, InCollection, InEviction, HistTyped
<1>g3. ASSUME NEW g \in Collections, SweepBuildDir(g) PROVE HistTyped'
  BY <1>g3, SubsetsTyped, FieldWritten DEF SweepBuildDir, HistTyped
<1>g4. ASSUME NEW g \in Collections, ListArtifacts(g) PROVE HistTyped'
  BY <1>g4, SubsetsTyped, FieldWritten DEF ListArtifacts, HistTyped
<1>g5. ASSUME NEW g \in Collections, Stamp(g) PROVE HistTyped'
  BY <1>g5, SubsetsTyped, FieldWritten DEF Stamp, HistTyped
<1>g6. ASSUME NEW g \in Collections, TimeOut(g) PROVE HistTyped'
  BY <1>g6, SubsetsTyped, FieldWritten DEF TimeOut, Fault, HistTyped
<1>g7. ASSUME NEW g \in Collections, NEW d \in Corpora, ProbeBuild(g, d) PROVE HistTyped'
  BY <1>g7, SubsetsTyped, FieldWritten DEF ProbeBuild, HistTyped
<1>g8. ASSUME NEW g \in Collections, NEW r \in Artifacts, Mark(g, r) PROVE HistTyped'
  BY <1>g8, SubsetsTyped, FieldWritten DEF Mark, Retire, HistTyped
<1>g9. ASSUME NEW g \in Collections, NEW r \in Artifacts, Spare(g, r) PROVE HistTyped'
  BY <1>g9, SubsetsTyped, FieldWritten DEF Spare, Retire, HistTyped
<1>g10. ASSUME NEW g \in Collections, NEW r \in Artifacts, RemoveMarked(g, r) PROVE HistTyped'
  BY <1>g10, SubsetsTyped, FieldWritten DEF RemoveMarked, Retire, HistTyped
<1>a1. ASSUME NEW a \in Actors, Begin(a) PROVE HistTyped'
  BY <1>a1, SubsetsTyped, FieldWritten DEF Begin, HistTyped
<1>a2. ASSUME NEW a \in Actors, Crash(a) PROVE HistTyped'
  <2>1. {d \in {at[a]} : pc[a] = "swapped"} \subseteq Corpora
    BY DEF PlaceTyped, OnOne
  <2>2. faults' \in 0..MaxFaults /\ alone' = {}
    BY <1>a2 DEF Crash, Fault, HistTyped
  <2> QED
    BY <1>a2, <2>1, <2>2 DEF Crash, HistTyped
<1>a3. ASSUME NEW a \in Actors, WriteLedger(a) PROVE HistTyped'
  <2>1. at[a] \in Corpora
    BY <1>a3 DEF WriteLedger, PlaceTyped, OnOne
  <2> QED
    BY <1>a3, <2>1, SubsetsTyped DEF WriteLedger, HistTyped
<1>a4. ASSUME NEW a \in Actors, DrainTrash(a) PROVE HistTyped'
  BY <1>a4, SubsetsTyped, FieldWritten DEF DrainTrash, HistTyped
<1>a5. ASSUME NEW a \in Actors, List(a) PROVE HistTyped'
  BY <1>a5, SubsetsTyped, FieldWritten DEF List, HistTyped
<1>a6. ASSUME NEW a \in Actors, Plan(a) PROVE HistTyped'
  BY <1>a6, SubsetsTyped, FieldWritten DEF Plan, HistTyped
<1>a7. ASSUME NEW a \in Actors, RemoveEvicted(a) PROVE HistTyped'
  BY <1>a7, SubsetsTyped, FieldWritten DEF RemoveEvicted, Fault, NextCorpus, HistTyped
<1>a8. ASSUME NEW a \in Actors, EvictUnits(a) PROVE HistTyped'
  BY <1>a8, SubsetsTyped, FieldWritten DEF EvictUnits, HistTyped
<1>a9. ASSUME NEW a \in Actors, NEW d \in Corpora, ReadLedger(a, d) PROVE HistTyped'
  BY <1>a9, SubsetsTyped, FieldWritten DEF ReadLedger, HistTyped
<1>a10. ASSUME NEW a \in Actors, NEW d \in Corpora, Measure(a, d) PROVE HistTyped'
  BY <1>a10, SubsetsTyped, FieldWritten DEF Measure, HistTyped
<1>a11. ASSUME NEW a \in Actors, NEW d \in Corpora, KeepCorpus(a, d) PROVE HistTyped'
  BY <1>a11, SubsetsTyped, FieldWritten DEF KeepCorpus, InEvict, NextCorpus, HistTyped
<1>a12. ASSUME NEW a \in Actors, NEW d \in Corpora, Evict(a, d) PROVE HistTyped'
  BY <1>a12, SubsetsTyped, FieldWritten DEF Evict, Pending, HistTyped
<1>a13. ASSUME NEW a \in Actors, NEW d \in Corpora, TakeCorpus(a, d) PROVE HistTyped'
  BY <1>a13, SubsetsTyped, FieldWritten DEF TakeCorpus, InEvict, HistTyped
<1>a14. ASSUME NEW a \in Actors, FindUnused(a) PROVE HistTyped'
  BY <1>a14, SubsetsTyped, FieldWritten DEF FindUnused, HistTyped
<1>r. ASSUME NEW r \in Artifacts, UseArtifact(r) PROVE HistTyped'
  BY <1>r, SubsetsTyped, FieldWritten DEF UseArtifact, HistTyped
<1>u. CASE UNCHANGED vars
  BY <1>u, SubsetsTyped, FieldWritten DEF vars, HistTyped
<1> QED
  BY <1>t, <1>s1, <1>s2, <1>s3, <1>s4, <1>s5, <1>s6, <1>s7, <1>s8, <1>s9, <1>s10, <1>g1, <1>g2, <1>g3,
     <1>g4, <1>g5, <1>g6, <1>g7, <1>g8, <1>g9, <1>g10, <1>a1, <1>a2, <1>a3, <1>a4, <1>a5, <1>a6,
     <1>a7, <1>a8, <1>a9, <1>a10, <1>a11, <1>a12, <1>a13, <1>a14, <1>r, <1>u
     DEF Next, Search, Collect, Reclaim

\* Each step keeps the types.
LEMMA TypedStep == Typed /\ [Next]_vars => Typed'
BY DiskStep, PlaceStep, ActorsStep, HistStep DEF Typed

-----------------------------------------------------------------------------
(* What the steps write in a corpus directory.                             *)

\* The other directories stay as they are.
Only(d) == \A e \in Corpora \ {d} : corpora'[e] = corpora[e]

\* The content of a directory: its bytes, its records and its ledger.
SameLedger(d) ==
    /\ corpora'[d].bytes = corpora[d].bytes /\ corpora'[d].published = corpora[d].published
    /\ corpora'[d].size = corpora[d].size /\ corpora'[d].sized = corpora[d].sized

\* A build touches .used and makes its directory; a new corpus has nothing else.
LEMMA StartBuildWrites ==
    ASSUME Typed, NEW s \in Searches, NEW d \in Corpora, StartBuild(s, d)
    PROVE  /\ Only(d) /\ corpora'[d].there /\ corpora'[d].used = now /\ corpora'[d].build = now
           /\ corpora[d].there => SameLedger(d)
           /\ ~corpora[d].there => /\ corpora'[d].published = Never /\ corpora'[d].sized = Never
                                   /\ corpora'[d].bytes = 0 /\ corpora'[d].size = 0
<1> DEFINE old  == IF corpora[d].there THEN corpora[d] ELSE NoCorpus
           made == [old EXCEPT !.there = TRUE, !.build = now]
<1>1. old \in CorpusDirs
  BY NothingTyped DEF Typed, DiskTyped
<1>2. corpora' = [corpora EXCEPT ![d] = [made EXCEPT !.used = now]]
  BY <1>1 DEF StartBuild, Touch, Typed, DiskTyped
<1>3. corpora'[d] = [made EXCEPT !.used = now] /\ Only(d)
  BY <1>2 DEF Typed, DiskTyped, Only
<1>4. /\ corpora'[d].there /\ corpora'[d].used = now /\ corpora'[d].build = now
      /\ corpora'[d].bytes = old.bytes /\ corpora'[d].published = old.published
      /\ corpora'[d].size = old.size /\ corpora'[d].sized = old.sized
  <2> HIDE DEF old
  <2> QED
    BY <1>1, <1>3 DEF CorpusDirs
<1> QED
  BY <1>3, <1>4 DEF NoCorpus, SameLedger

\* A swap writes the bytes and takes the directory of the build.
LEMMA SwapWrites ==
    ASSUME Typed, NEW s \in Searches, SwapFamily(s)
    PROVE  /\ at[s] \in Corpora /\ Only(at[s])
           /\ corpora'[at[s]].there = corpora[at[s]].there
           /\ corpora'[at[s]].used = corpora[at[s]].used
           /\ corpora'[at[s]].published = corpora[at[s]].published
           /\ corpora'[at[s]].sized = corpora[at[s]].sized
           /\ corpora'[at[s]].build = Never
<1>1. at[s] \in Corpora
  BY DEF SwapFamily, Typed, PlaceTyped, OnOne, Actors
<1>2. PICK b \in Bytes : corpora' = [corpora EXCEPT ![at[s]].bytes = b, ![at[s]].build = Never]
  BY DEF SwapFamily
<1> QED
  BY <1>1, <1>2 DEF Typed, DiskTyped, CorpusDirs, Only

\* A publish writes the time of the records.
LEMMA PublishWrites ==
    ASSUME Typed, NEW s \in Searches, PublishState(s)
    PROVE  /\ at[s] \in Corpora /\ Only(at[s])
           /\ corpora'[at[s]].there = corpora[at[s]].there
           /\ corpora'[at[s]].used = corpora[at[s]].used
           /\ corpora'[at[s]].published = now
           /\ corpora'[at[s]].sized = corpora[at[s]].sized
           /\ corpora'[at[s]].bytes = corpora[at[s]].bytes
           /\ corpora'[at[s]].size = corpora[at[s]].size
           /\ corpora'[at[s]].build = corpora[at[s]].build
<1>1. at[s] \in Corpora
  BY DEF PublishState, Typed, PlaceTyped, OnOne, Actors
<1> QED
  BY <1>1 DEF PublishState, Typed, DiskTyped, CorpusDirs, Only

\* The end of a read touches .used.
LEMMA EndReadWrites ==
    ASSUME Typed, NEW s \in Searches, EndRead(s)
    PROVE  /\ at[s] \in Corpora /\ Only(at[s]) /\ SameLedger(at[s])
           /\ corpora'[at[s]].there = corpora[at[s]].there
           /\ corpora'[at[s]].used = now
           /\ corpora'[at[s]].build = corpora[at[s]].build
<1>1. at[s] \in Corpora
  BY DEF EndRead, Typed, PlaceTyped, OnOne, Actors
<1> QED
  BY <1>1 DEF EndRead, Touch, Typed, DiskTyped, CorpusDirs, Only, SameLedger

\* A sweep takes a directory that is old enough.
LEMMA SweepWrites ==
    ASSUME Typed, NEW g \in Collections, SweepBuildDir(g)
    PROVE  /\ at[g] \in Corpora /\ Only(at[g]) /\ SameLedger(at[g])
           /\ corpora'[at[g]].there = corpora[at[g]].there
           /\ corpora'[at[g]].used = corpora[at[g]].used
           /\ corpora'[at[g]].build = IF corpora[at[g]].build + MaxAge < started[g] THEN Never
                                      ELSE corpora[at[g]].build
<1>1. at[g] \in Corpora
  BY DEF SweepBuildDir, Typed, PlaceTyped, OnOne, Actors
<1> QED
  BY <1>1 DEF SweepBuildDir, Typed, DiskTyped, CorpusDirs, Only, SameLedger

\* A ledger is written where there is a directory.
LEMMA LedgerWrites ==
    ASSUME Typed, NEW a \in Actors, WriteLedger(a)
    PROVE  /\ at[a] \in Corpora /\ Only(at[a])
           /\ corpora'[at[a]].there = corpora[at[a]].there
           /\ corpora'[at[a]].used = corpora[at[a]].used
           /\ corpora'[at[a]].build = corpora[at[a]].build
           /\ corpora'[at[a]].published = corpora[at[a]].published
           /\ corpora'[at[a]].bytes = corpora[at[a]].bytes
           /\ corpora[at[a]].there => corpora'[at[a]].size = measured[a] /\ corpora'[at[a]].sized = now
           /\ ~corpora[at[a]].there => corpora' = corpora
<1>1. at[a] \in Corpora
  BY DEF WriteLedger, Typed, PlaceTyped, OnOne
<1>2. CASE corpora[at[a]].there
  BY <1>1, <1>2 DEF WriteLedger, Typed, DiskTyped, CorpusDirs, Only
<1>3. CASE ~corpora[at[a]].there
  BY <1>1, <1>3 DEF WriteLedger, Typed, DiskTyped, CorpusDirs, Only
<1> QED
  BY <1>2, <1>3

\* An eviction takes all.
LEMMA EvictWrites ==
    ASSUME Typed, NEW a \in Actors, NEW d \in Corpora, Evict(a, d)
    PROVE  Only(d) /\ corpora'[d] = NoCorpus
BY DEF Evict, Typed, DiskTyped, Only

-----------------------------------------------------------------------------
(* What a step does to the run of each actor.                              *)

EndsRun(a) ==
    /\ pc'[a] = "start" /\ started'[a] = Never /\ listed'[a] = NotListed /\ plan'[a] = {}
    /\ touched'[a] = {}

BeginsRun(a) ==
    /\ pc[a] = "start" /\ pc'[a] \in {"ledger", "gate"} /\ started'[a] = now
    /\ listed'[a] = listed[a] /\ plan'[a] = plan[a] /\ touched'[a] = touched[a]

\* The steps from the plan to the last eviction.
Evicting == {"evict", "look", "rename", "remove", "orphans", "probed"}

\* What the run knows of the corpora, and that it plans evictions in Plan alone.
GoesOn(a) ==
    /\ pc'[a] = "start" <=> pc[a] = "start"
    /\ started'[a] = started[a]
    /\ listed'[a] = listed[a] \/ List(a)
    /\ pc'[a] \in Evicting => \/ pc[a] \in Evicting /\ plan'[a] = plan[a] /\ listed'[a] = listed[a]
                              \/ Plan(a) /\ listed'[a] = listed[a] /\ pc[a] = "ledger"

RunStep(a) == EndsRun(a) \/ BeginsRun(a) \/ GoesOn(a)

\* The end of a run ends that run alone.
LEMMA EndEnds ==
    ASSUME Typed, NEW a \in Actors, End(a)
    PROVE  EndsRun(a) /\ \A b \in Actors \ {a} : GoesOn(b)
<1>1. EndsRun(a)
  BY DEF End, EndsRun, Goto, Typed, PlaceTyped, ActorsTyped, HistTyped
<1>2. ASSUME NEW b \in Actors \ {a} PROVE GoesOn(b)
  BY DEF End, GoesOn, Goto, Evicting, Typed, PlaceTyped, ActorsTyped
<1> QED
  BY <1>1, <1>2

\* Each actor ends its run, begins one or goes on with it.
LEMMA RunSteps == Typed /\ [Next]_vars => (\A b \in Actors : RunStep(b))
<1> SUFFICES ASSUME Typed, [Next]_vars PROVE (\A b \in Actors : RunStep(b))
  OBVIOUS
<1> USE ConstantsAssumption DEF diskVars, listVars, actorVars, histVars, Goto, Never, Actors, Alone
<1>t. ASSUME Tick PROVE (\A b \in Actors : RunStep(b))
  BY <1>t DEF Tick, RunStep, EndsRun, BeginsRun, GoesOn, Evicting, InSearch, InEviction,
     InCollection, Typed, PlaceTyped, ActorsTyped, HistTyped
<1>s1. ASSUME NEW s \in Searches, CheckBudget(s) PROVE (\A b \in Actors : RunStep(b))
  <2>1. CASE End(s)
    BY <2>1, EndEnds DEF RunStep
  <2>2. CASE ~End(s)
    BY <1>s1, <2>2, CheckBudgetGoes DEF PassBudget, RunStep, EndsRun, BeginsRun, GoesOn, Evicting,
       InSearch, InEviction, InCollection, Typed, PlaceTyped, ActorsTyped, HistTyped
  <2> QED
    BY <2>1, <2>2
<1>s2. ASSUME NEW s \in Searches, SwapFamily(s) PROVE (\A b \in Actors : RunStep(b))
  BY <1>s2 DEF SwapFamily, RunStep, EndsRun, BeginsRun, GoesOn, Evicting, InSearch, InEviction,
     InCollection, Typed, PlaceTyped, ActorsTyped, HistTyped
<1>s3. ASSUME NEW s \in Searches, PublishState(s) PROVE (\A b \in Actors : RunStep(b))
  BY <1>s3 DEF PublishState, Work, RunStep, EndsRun, BeginsRun, GoesOn, Evicting, InSearch,
     InEviction, InCollection, Typed, PlaceTyped, ActorsTyped, HistTyped
<1>s4. ASSUME NEW s \in Searches, EndRead(s) PROVE (\A b \in Actors : RunStep(b))
  BY <1>s4 DEF EndRead, Touch, Work, RunStep, EndsRun, BeginsRun, GoesOn, Evicting, InSearch,
     InEviction, InCollection, Typed, PlaceTyped, ActorsTyped, HistTyped
<1>s5. ASSUME NEW s \in Searches, Enforce(s) PROVE (\A b \in Actors : RunStep(b))
  <2>1. CASE End(s)
    BY <2>1, EndEnds DEF RunStep
  <2>2. CASE ~End(s)
    BY <1>s5, <2>2, EnforceGoes DEF RunStep, EndsRun, BeginsRun, GoesOn, Evicting, InSearch,
       InEviction, InCollection, Typed, PlaceTyped, ActorsTyped, HistTyped
  <2> QED
    BY <2>1, <2>2
<1>s6. ASSUME NEW s \in Searches, EndRecord(s) PROVE (\A b \in Actors : RunStep(b))
  BY <1>s6 DEF EndRecord, Work, RunStep, EndsRun, BeginsRun, GoesOn, Evicting, InSearch,
     InEviction, InCollection, Typed, PlaceTyped, ActorsTyped, HistTyped
<1>s7. ASSUME NEW s \in Searches, NEW d \in Corpora, StartBuild(s, d)
       PROVE (\A b \in Actors : RunStep(b))
  BY <1>s7 DEF StartBuild, Touch, Work, RunStep, EndsRun, BeginsRun, GoesOn, Evicting, InSearch,
     InEviction, InCollection, Typed, PlaceTyped, ActorsTyped, HistTyped
<1>s8. ASSUME NEW s \in Searches, NEW d \in Corpora, StartRead(s, d)
       PROVE (\A b \in Actors : RunStep(b))
  BY <1>s8 DEF StartRead, Work, RunStep, EndsRun, BeginsRun, GoesOn, Evicting, InSearch,
     InEviction, InCollection, Typed, PlaceTyped, ActorsTyped, HistTyped
<1>s9. ASSUME NEW s \in Searches, NEW d \in Corpora, SkipNode(s, d)
       PROVE (\A b \in Actors : RunStep(b))
  BY <1>s9 DEF SkipNode, Work, RunStep, EndsRun, BeginsRun, GoesOn, Evicting, InSearch, InEviction,
     InCollection, Typed, PlaceTyped, ActorsTyped, HistTyped
<1>s10. ASSUME NEW s \in Searches, LoseBuild(s) PROVE (\A b \in Actors : RunStep(b))
  BY <1>s10 DEF LoseBuild, Work, RunStep, EndsRun, BeginsRun, GoesOn, Evicting, InSearch,
     InEviction, InCollection, Typed, PlaceTyped, ActorsTyped, HistTyped
<1>g1. ASSUME NEW g \in Collections, Throttled(g) PROVE (\A b \in Actors : RunStep(b))
  BY <1>g1, EndEnds DEF Throttled, RunStep
<1>g2. ASSUME NEW g \in Collections, TakeGcLock(g) PROVE (\A b \in Actors : RunStep(b))
  <2>1. CASE End(g)
    BY <2>1, EndEnds DEF RunStep
  <2>2. CASE ~End(g)
    BY <1>g2, <2>2 DEF TakeGcLock, RunStep, EndsRun, BeginsRun, GoesOn, Evicting, InSearch,
       InEviction, InCollection, Typed, PlaceTyped, ActorsTyped, HistTyped
  <2> QED
    BY <2>1, <2>2
<1>g3. ASSUME NEW g \in Collections, SweepBuildDir(g) PROVE (\A b \in Actors : RunStep(b))
  BY <1>g3 DEF SweepBuildDir, RunStep, EndsRun, BeginsRun, GoesOn, Evicting, InSearch, InEviction,
     InCollection, Typed, PlaceTyped, ActorsTyped, HistTyped
<1>g4. ASSUME NEW g \in Collections, ListArtifacts(g) PROVE (\A b \in Actors : RunStep(b))
  BY <1>g4 DEF ListArtifacts, RunStep, EndsRun, BeginsRun, GoesOn, Evicting, InSearch, InEviction,
     InCollection, Typed, PlaceTyped, ActorsTyped, HistTyped
<1>g5. ASSUME NEW g \in Collections, Stamp(g) PROVE (\A b \in Actors : RunStep(b))
  BY <1>g5, EndEnds DEF Stamp, RunStep
<1>g6. ASSUME NEW g \in Collections, TimeOut(g) PROVE (\A b \in Actors : RunStep(b))
  BY <1>g6 DEF TimeOut, Fault, RunStep, EndsRun, BeginsRun, GoesOn, Evicting, InSearch, InEviction,
     InCollection, Typed, PlaceTyped, ActorsTyped, HistTyped
<1>g7. ASSUME NEW g \in Collections, NEW d \in Corpora, ProbeBuild(g, d)
       PROVE (\A b \in Actors : RunStep(b))
  BY <1>g7 DEF ProbeBuild, RunStep, EndsRun, BeginsRun, GoesOn, Evicting, InSearch, InEviction,
     InCollection, Typed, PlaceTyped, ActorsTyped, HistTyped
<1>g8. ASSUME NEW g \in Collections, NEW r \in Artifacts, Mark(g, r)
       PROVE (\A b \in Actors : RunStep(b))
  BY <1>g8 DEF Mark, Retire, RunStep, EndsRun, BeginsRun, GoesOn, Evicting, InSearch, InEviction,
     InCollection, Typed, PlaceTyped, ActorsTyped, HistTyped
<1>g9. ASSUME NEW g \in Collections, NEW r \in Artifacts, Spare(g, r)
       PROVE (\A b \in Actors : RunStep(b))
  BY <1>g9 DEF Spare, Retire, RunStep, EndsRun, BeginsRun, GoesOn, Evicting, InSearch, InEviction,
     InCollection, Typed, PlaceTyped, ActorsTyped, HistTyped
<1>g10. ASSUME NEW g \in Collections, NEW r \in Artifacts, RemoveMarked(g, r)
        PROVE (\A b \in Actors : RunStep(b))
  BY <1>g10 DEF RemoveMarked, Retire, RunStep, EndsRun, BeginsRun, GoesOn, Evicting, InSearch,
     InEviction, InCollection, Typed, PlaceTyped, ActorsTyped, HistTyped
<1>a1. ASSUME NEW a \in Actors, Begin(a) PROVE (\A b \in Actors : RunStep(b))
  BY <1>a1 DEF Begin, RunStep, EndsRun, BeginsRun, GoesOn, Evicting, InSearch, InEviction,
     InCollection, Typed, PlaceTyped, ActorsTyped, HistTyped
<1>a2. ASSUME NEW a \in Actors, Crash(a) PROVE (\A b \in Actors : RunStep(b))
  BY <1>a2, EndEnds DEF Crash, RunStep
<1>a3. ASSUME NEW a \in Actors, WriteLedger(a) PROVE (\A b \in Actors : RunStep(b))
  BY <1>a3 DEF WriteLedger, RunStep, EndsRun, BeginsRun, GoesOn, Evicting, InSearch, InEviction,
     InCollection, Typed, PlaceTyped, ActorsTyped, HistTyped
<1>a4. ASSUME NEW a \in Actors, DrainTrash(a) PROVE (\A b \in Actors : RunStep(b))
  <2>1. CASE End(a)
    BY <2>1, EndEnds DEF RunStep
  <2>2. CASE ~End(a)
    BY <1>a4, <2>2 DEF DrainTrash, RunStep, EndsRun, BeginsRun, GoesOn, Evicting, InSearch,
       InEviction, InCollection, Typed, PlaceTyped, ActorsTyped, HistTyped
  <2> QED
    BY <2>1, <2>2
<1>a5. ASSUME NEW a \in Actors, List(a) PROVE (\A b \in Actors : RunStep(b))
  <2>1. GoesOn(a)
    BY <1>a5 DEF List, EndsRun, BeginsRun, GoesOn, Evicting, InSearch, InEviction, InCollection,
       Typed, PlaceTyped, ActorsTyped, HistTyped
  <2>2. ASSUME NEW b \in Actors \ {a} PROVE GoesOn(b)
    BY <1>a5 DEF List, EndsRun, BeginsRun, GoesOn, Evicting, InSearch, InEviction, InCollection,
       Typed, PlaceTyped, ActorsTyped, HistTyped
  <2> QED
    BY <2>1, <2>2 DEF RunStep
<1>a6. ASSUME NEW a \in Actors, Plan(a) PROVE (\A b \in Actors : RunStep(b))
  <2>1. CASE End(a)
    BY <2>1, EndEnds DEF RunStep
  <2>2. CASE ~End(a)
    BY <1>a6, <2>2, PlanGoes DEF RunStep, EndsRun, BeginsRun, GoesOn, Evicting, InSearch,
       InEviction, InCollection, Typed, PlaceTyped, ActorsTyped, HistTyped
  <2> QED
    BY <2>1, <2>2
<1>a7. ASSUME NEW a \in Actors, RemoveEvicted(a) PROVE (\A b \in Actors : RunStep(b))
  BY <1>a7 DEF RemoveEvicted, Fault, NextCorpus, RunStep, EndsRun, BeginsRun, GoesOn, Evicting,
     InSearch, InEviction, InCollection, Typed, PlaceTyped, ActorsTyped, HistTyped
<1>a8. ASSUME NEW a \in Actors, EvictUnits(a) PROVE (\A b \in Actors : RunStep(b))
  BY <1>a8 DEF EvictUnits, RunStep, EndsRun, BeginsRun, GoesOn, Evicting, InSearch, InEviction,
     InCollection, Typed, PlaceTyped, ActorsTyped, HistTyped
<1>a9. ASSUME NEW a \in Actors, NEW d \in Corpora, ReadLedger(a, d)
       PROVE (\A b \in Actors : RunStep(b))
  BY <1>a9 DEF ReadLedger, RunStep, EndsRun, BeginsRun, GoesOn, Evicting, InSearch, InEviction,
     InCollection, Typed, PlaceTyped, ActorsTyped, HistTyped
<1>a10. ASSUME NEW a \in Actors, NEW d \in Corpora, Measure(a, d)
        PROVE (\A b \in Actors : RunStep(b))
  BY <1>a10 DEF Measure, RunStep, EndsRun, BeginsRun, GoesOn, Evicting, InSearch, InEviction,
     InCollection, Typed, PlaceTyped, ActorsTyped, HistTyped
<1>a11. ASSUME NEW a \in Actors, NEW d \in Corpora, KeepCorpus(a, d)
        PROVE (\A b \in Actors : RunStep(b))
  BY <1>a11 DEF KeepCorpus, InEvict, NextCorpus, RunStep, EndsRun, BeginsRun, GoesOn, Evicting,
     InSearch, InEviction, InCollection, Typed, PlaceTyped, ActorsTyped, HistTyped
<1>a12. ASSUME NEW a \in Actors, NEW d \in Corpora, Evict(a, d) PROVE (\A b \in Actors : RunStep(b))
  BY <1>a12 DEF Evict, RunStep, EndsRun, BeginsRun, GoesOn, Evicting, InSearch,
     InEviction, InCollection, Typed, PlaceTyped, ActorsTyped, HistTyped
<1>a13. ASSUME NEW a \in Actors, NEW d \in Corpora, TakeCorpus(a, d)
       PROVE (\A b \in Actors : RunStep(b))
  BY <1>a13 DEF TakeCorpus, InEvict, RunStep, EndsRun, BeginsRun, GoesOn, Evicting, InSearch, InEviction,
     InCollection, Typed, PlaceTyped, ActorsTyped, HistTyped
<1>a14. ASSUME NEW a \in Actors, FindUnused(a) PROVE (\A b \in Actors : RunStep(b))
  BY <1>a14 DEF FindUnused, RunStep, EndsRun, BeginsRun, GoesOn, Evicting, InSearch, InEviction,
     InCollection, Typed, PlaceTyped, ActorsTyped, HistTyped
<1>r. ASSUME NEW r \in Artifacts, UseArtifact(r) PROVE (\A b \in Actors : RunStep(b))
  BY <1>r DEF UseArtifact, RunStep, EndsRun, BeginsRun, GoesOn, Evicting, InSearch, InEviction,
     InCollection, Typed, PlaceTyped, ActorsTyped, HistTyped
<1>u. CASE UNCHANGED vars
  BY <1>u DEF vars, RunStep, EndsRun, BeginsRun, GoesOn, Evicting, InSearch, InEviction,
     InCollection, Typed, PlaceTyped, ActorsTyped, HistTyped
<1> QED
  BY <1>t, <1>s1, <1>s2, <1>s3, <1>s4, <1>s5, <1>s6, <1>s7, <1>s8, <1>s9, <1>s10, <1>g1, <1>g2, <1>g3,
     <1>g4, <1>g5, <1>g6, <1>g7, <1>g8, <1>g9, <1>g10, <1>a1, <1>a2, <1>a3, <1>a4, <1>a5, <1>a6,
     <1>a7, <1>a8, <1>a9, <1>a10, <1>a11, <1>a12, <1>a13, <1>a14, <1>r, <1>u
     DEF Next, Search, Collect, Reclaim

-----------------------------------------------------------------------------
(* The steps that write in a corpus directory.                             *)

Written ==
    \/ \E s \in Searches : SwapFamily(s) \/ PublishState(s) \/ EndRead(s)
    \/ \E s \in Searches : \E d \in Corpora : StartBuild(s, d)
    \/ \E g \in Collections : SweepBuildDir(g)
    \/ \E a \in Actors : WriteLedger(a)
    \/ \E a \in Actors : \E d \in Corpora : Evict(a, d)

Kept  == corpora' = corpora /\ overlap \subseteq overlap'
Pause == now' = now + 1 /\ UNCHANGED <<corpora, overlap, pc, at, measured, started, listed, touched>>

\* Every other step leaves the directories as they are.
LEMMA DiskSteps == Typed /\ [Next]_vars => (Written \/ Kept) /\ (now' = now \/ Pause)
<1> SUFFICES ASSUME Typed, [Next]_vars PROVE (Written \/ Kept) /\ (now' = now \/ Pause)
  OBVIOUS
<1> USE ConstantsAssumption DEF diskVars, listVars, actorVars, histVars, Goto, Never, Actors, Alone
<1>t. ASSUME Tick PROVE (Written \/ Kept) /\ (now' = now \/ Pause)
  BY <1>t DEF Tick, Kept, Pause
<1>so. ASSUME NEW s \in Searches,
             \/ CheckBudget(s) \/ Enforce(s)
             \/ EndRecord(s) \/ LoseBuild(s)
             \/ \E d \in Corpora : StartRead(s, d)
             \/ \E d \in Corpora : SkipNode(s, d)
      PROVE  (Written \/ Kept) /\ (now' = now \/ Pause)
  BY <1>so, CheckBudgetGoes, EnforceGoes DEF CheckBudget, PassBudget, Kept, Pause, Enforce,
     EndRecord, LoseBuild, Work, StartRead, SkipNode
<1>s2. ASSUME NEW s \in Searches, SwapFamily(s) PROVE (Written \/ Kept) /\ (now' = now \/ Pause)
  <2>1. Written
    BY <1>s2 DEF Written
  <2>2. now' = now
    BY <1>s2 DEF SwapFamily
  <2> QED
    BY <2>1, <2>2
<1>s3. ASSUME NEW s \in Searches, PublishState(s) PROVE (Written \/ Kept) /\ (now' = now \/ Pause)
  <2>1. Written
    BY <1>s3 DEF Written
  <2>2. now' = now
    BY <1>s3 DEF PublishState, Work
  <2> QED
    BY <2>1, <2>2
<1>s4. ASSUME NEW s \in Searches, EndRead(s) PROVE (Written \/ Kept) /\ (now' = now \/ Pause)
  <2>1. Written
    BY <1>s4 DEF Written
  <2>2. now' = now
    BY <1>s4 DEF EndRead, Touch, Work
  <2> QED
    BY <2>1, <2>2
<1>s7. ASSUME NEW s \in Searches, NEW d \in Corpora, StartBuild(s, d)
       PROVE (Written \/ Kept) /\ (now' = now \/ Pause)
  <2>1. Written
    BY <1>s7 DEF Written
  <2>2. now' = now
    BY <1>s7 DEF StartBuild, Touch, Work
  <2> QED
    BY <2>1, <2>2
<1>go. ASSUME NEW g \in Collections,
             \/ Throttled(g) \/ TakeGcLock(g) \/ ListArtifacts(g) \/ Stamp(g) \/ TimeOut(g)
             \/ \E d \in Corpora : ProbeBuild(g, d)
             \/ \E r \in Artifacts : Mark(g, r)
             \/ \E r \in Artifacts : Spare(g, r)
             \/ \E r \in Artifacts : RemoveMarked(g, r)
      PROVE  (Written \/ Kept) /\ (now' = now \/ Pause)
  BY <1>go DEF Throttled, Kept, Pause, TakeGcLock, InCollection, InEviction, ListArtifacts, Stamp,
     TimeOut, Fault, ProbeBuild, Mark, Retire, Spare, RemoveMarked
<1>g3. ASSUME NEW g \in Collections, SweepBuildDir(g)
       PROVE (Written \/ Kept) /\ (now' = now \/ Pause)
  <2>1. Written
    BY <1>g3 DEF Written
  <2>2. now' = now
    BY <1>g3 DEF SweepBuildDir
  <2> QED
    BY <2>1, <2>2
<1>ao. ASSUME NEW a \in Actors,
             \/ Begin(a) \/ Crash(a) \/ DrainTrash(a) \/ List(a) \/ Plan(a)
             \/ RemoveEvicted(a) \/ EvictUnits(a) \/ FindUnused(a)
             \/ \E d \in Corpora : ReadLedger(a, d)
             \/ \E d \in Corpora : Measure(a, d)
             \/ \E d \in Corpora : KeepCorpus(a, d)
             \/ \E d \in Corpora : TakeCorpus(a, d)
      PROVE  (Written \/ Kept) /\ (now' = now \/ Pause)
  BY <1>ao, PlanGoes DEF Begin, Kept, Pause, Crash, Fault, DrainTrash, List, Plan, RemoveEvicted,
     NextCorpus, EvictUnits, FindUnused, ReadLedger, Measure, KeepCorpus, TakeCorpus, InEvict
<1>a3. ASSUME NEW a \in Actors, WriteLedger(a) PROVE (Written \/ Kept) /\ (now' = now \/ Pause)
  <2>1. Written
    BY <1>a3 DEF Written
  <2>2. now' = now
    BY <1>a3 DEF WriteLedger
  <2> QED
    BY <2>1, <2>2
<1>a12. ASSUME NEW a \in Actors, NEW d \in Corpora, Evict(a, d)
        PROVE (Written \/ Kept) /\ (now' = now \/ Pause)
  <2>1. Written
    BY <1>a12 DEF Written
  <2>2. now' = now
    BY <1>a12 DEF Evict
  <2> QED
    BY <2>1, <2>2
<1>r. ASSUME NEW r \in Artifacts, UseArtifact(r) PROVE (Written \/ Kept) /\ (now' = now \/ Pause)
  BY <1>r DEF UseArtifact, Kept, Pause
<1>u. CASE UNCHANGED vars
  BY <1>u DEF vars, Kept, Pause
<1> QED
  BY <1>t, <1>so, <1>s2, <1>s3, <1>s4, <1>s7, <1>go, <1>g3, <1>ao, <1>a3, <1>a12, <1>r, <1>u
     DEF Next, Search, Collect, Reclaim

\* What brings an actor to the steps in which it works on one corpus.
Stays(b) == pc'[b] = pc[b] /\ at'[b] = at[b] /\ measured'[b] = measured[b]

PlaceMove(b) ==
    /\ pc'[b] = "write" => Stays(b) \/ \E d \in Corpora : Measure(b, d)
    /\ pc[b] = "swapped" => Stays(b) \/ PublishState(b) \/ Crash(b)
    /\ pc'[b] \in {"building", "swapped"} =>
          \/ pc[b] \in {"building", "swapped"} /\ at'[b] = at[b]
          \/ \E d \in Corpora : StartBuild(b, d)
    /\ pc'[b] = "probed" => Stays(b) \/ \E d \in Corpora : ProbeBuild(b, d)
    /\ pc'[b] = "look" => Stays(b) \/ \E d \in Corpora : TakeCorpus(b, d)
    /\ pc'[b] = "rename" => Stays(b) \/ FindUnused(b)
    /\ pc'[b] = "remove" => Stays(b) \/ \E d \in Corpora : Evict(b, d)

\* An actor that stays makes one of these moves.
LEMMA StaysMoves == \A b : Stays(b) => PlaceMove(b)
BY DEF Stays, PlaceMove

\* So does a step that leads elsewhere from elsewhere.
LEMMA OtherMoves ==
    \A b : /\ pc'[b] \notin {"write", "building", "swapped", "probed", "look", "rename", "remove"}
           /\ pc[b] # "swapped"
           => PlaceMove(b)
BY DEF PlaceMove

\* Each step is one of these for each actor.
LEMMA PlaceSteps == Typed /\ [Next]_vars => (\A b \in Actors : PlaceMove(b))
<1> SUFFICES ASSUME Typed, [Next]_vars PROVE (\A b \in Actors : PlaceMove(b))
  OBVIOUS
<1> USE ConstantsAssumption DEF diskVars, listVars, actorVars, histVars, Goto, Never, Actors, Alone
<1>t. ASSUME Tick PROVE (\A b \in Actors : PlaceMove(b))
  BY <1>t, StaysMoves DEF Tick, Stays, Typed, PlaceTyped, ActorsTyped
<1>s1. ASSUME NEW s \in Searches, CheckBudget(s) PROVE (\A b \in Actors : PlaceMove(b))
  <2>1. PlaceMove(s)
    BY <1>s1, CheckBudgetGoes, OtherMoves DEF PassBudget, End, Typed, PlaceTyped
  <2>2. ASSUME NEW b \in Actors \ {s} PROVE Stays(b)
    BY <1>s1, CheckBudgetGoes DEF PassBudget, End, Stays, Typed, PlaceTyped, ActorsTyped
  <2> QED
    BY <2>1, <2>2, StaysMoves
<1>s2. ASSUME NEW s \in Searches, SwapFamily(s) PROVE (\A b \in Actors : PlaceMove(b))
  <2>1. PlaceMove(s)
    BY <1>s2 DEF SwapFamily, PlaceMove, Stays, Typed, PlaceTyped, ActorsTyped
  <2>2. ASSUME NEW b \in Actors \ {s} PROVE Stays(b)
    BY <1>s2 DEF SwapFamily, Stays, Typed, PlaceTyped, ActorsTyped
  <2> QED
    BY <2>1, <2>2, StaysMoves
<1>s3. ASSUME NEW s \in Searches, PublishState(s) PROVE (\A b \in Actors : PlaceMove(b))
  <2>1. PlaceMove(s)
    BY <1>s3 DEF PublishState, Work, PlaceMove, Typed, PlaceTyped
  <2>2. ASSUME NEW b \in Actors \ {s} PROVE Stays(b)
    BY <1>s3 DEF PublishState, Work, Stays, Typed, PlaceTyped, ActorsTyped
  <2> QED
    BY <2>1, <2>2, StaysMoves
<1>s4. ASSUME NEW s \in Searches, EndRead(s) PROVE (\A b \in Actors : PlaceMove(b))
  <2>1. PlaceMove(s)
    BY <1>s4, OtherMoves DEF EndRead, Touch, Work, Typed, PlaceTyped
  <2>2. ASSUME NEW b \in Actors \ {s} PROVE Stays(b)
    BY <1>s4 DEF EndRead, Touch, Work, Stays, Typed, PlaceTyped, ActorsTyped
  <2> QED
    BY <2>1, <2>2, StaysMoves
<1>s5. ASSUME NEW s \in Searches, Enforce(s) PROVE (\A b \in Actors : PlaceMove(b))
  <2>1. PlaceMove(s)
    BY <1>s5, EnforceGoes, OtherMoves DEF End, Typed, PlaceTyped
  <2>2. ASSUME NEW b \in Actors \ {s} PROVE Stays(b)
    BY <1>s5, EnforceGoes DEF End, Stays, Typed, PlaceTyped, ActorsTyped
  <2> QED
    BY <2>1, <2>2, StaysMoves
<1>s6. ASSUME NEW s \in Searches, EndRecord(s) PROVE (\A b \in Actors : PlaceMove(b))
  <2>1. PlaceMove(s)
    BY <1>s6, OtherMoves DEF EndRecord, Touch, Work, Typed, PlaceTyped
  <2>2. ASSUME NEW b \in Actors \ {s} PROVE Stays(b)
    BY <1>s6 DEF EndRecord, Touch, Work, Stays, Typed, PlaceTyped, ActorsTyped
  <2> QED
    BY <2>1, <2>2, StaysMoves
<1>s7. ASSUME NEW s \in Searches, NEW d \in Corpora, StartBuild(s, d)
       PROVE (\A b \in Actors : PlaceMove(b))
  <2>1. PlaceMove(s)
    <3>1. pc[s] = "search" /\ pc'[s] = "building"
      BY <1>s7 DEF StartBuild, Work, Typed, PlaceTyped
    <3> QED
      BY <1>s7, <3>1 DEF PlaceMove
  <2>2. ASSUME NEW b \in Actors \ {s} PROVE Stays(b)
    BY <1>s7 DEF StartBuild, Work, Stays, Typed, PlaceTyped, ActorsTyped
  <2> QED
    BY <2>1, <2>2, StaysMoves
<1>s8. ASSUME NEW s \in Searches, NEW d \in Corpora, StartRead(s, d)
       PROVE (\A b \in Actors : PlaceMove(b))
  <2>1. PlaceMove(s)
    BY <1>s8, OtherMoves DEF StartRead, Touch, Work, Typed, PlaceTyped
  <2>2. ASSUME NEW b \in Actors \ {s} PROVE Stays(b)
    BY <1>s8 DEF StartRead, Touch, Work, Stays, Typed, PlaceTyped, ActorsTyped
  <2> QED
    BY <2>1, <2>2, StaysMoves
<1>s9. ASSUME NEW s \in Searches, NEW d \in Corpora, SkipNode(s, d)
       PROVE (\A b \in Actors : PlaceMove(b))
  <2>1. PlaceMove(s)
    BY <1>s9, OtherMoves DEF SkipNode, Touch, Work, Typed, PlaceTyped
  <2>2. ASSUME NEW b \in Actors \ {s} PROVE Stays(b)
    BY <1>s9 DEF SkipNode, Touch, Work, Stays, Typed, PlaceTyped, ActorsTyped
  <2> QED
    BY <2>1, <2>2, StaysMoves
<1>s10. ASSUME NEW s \in Searches, LoseBuild(s) PROVE (\A b \in Actors : PlaceMove(b))
  <2>1. PlaceMove(s)
    BY <1>s10, OtherMoves DEF LoseBuild, Work, Typed, PlaceTyped
  <2>2. ASSUME NEW b \in Actors \ {s} PROVE Stays(b)
    BY <1>s10 DEF LoseBuild, Work, Stays, Typed, PlaceTyped, ActorsTyped
  <2> QED
    BY <2>1, <2>2, StaysMoves
<1>g1. ASSUME NEW g \in Collections, Throttled(g) PROVE (\A b \in Actors : PlaceMove(b))
  <2>1. PlaceMove(g)
    BY <1>g1, OtherMoves DEF Throttled, End, Typed, PlaceTyped
  <2>2. ASSUME NEW b \in Actors \ {g} PROVE Stays(b)
    BY <1>g1 DEF Throttled, End, Stays, Typed, PlaceTyped, ActorsTyped
  <2> QED
    BY <2>1, <2>2, StaysMoves
<1>g2. ASSUME NEW g \in Collections, TakeGcLock(g) PROVE (\A b \in Actors : PlaceMove(b))
  <2>1. PlaceMove(g)
    BY <1>g2, OtherMoves DEF TakeGcLock, End, Typed, PlaceTyped
  <2>2. ASSUME NEW b \in Actors \ {g} PROVE Stays(b)
    BY <1>g2 DEF TakeGcLock, End, Stays, Typed, PlaceTyped, ActorsTyped
  <2> QED
    BY <2>1, <2>2, StaysMoves
<1>g3. ASSUME NEW g \in Collections, SweepBuildDir(g) PROVE (\A b \in Actors : PlaceMove(b))
  <2>1. PlaceMove(g)
    BY <1>g3, OtherMoves DEF SweepBuildDir, Typed, PlaceTyped
  <2>2. ASSUME NEW b \in Actors \ {g} PROVE Stays(b)
    BY <1>g3 DEF SweepBuildDir, Stays, Typed, PlaceTyped, ActorsTyped
  <2> QED
    BY <2>1, <2>2, StaysMoves
<1>g4. ASSUME NEW g \in Collections, ListArtifacts(g) PROVE (\A b \in Actors : PlaceMove(b))
  <2>1. PlaceMove(g)
    BY <1>g4, OtherMoves DEF ListArtifacts, Typed, PlaceTyped
  <2>2. ASSUME NEW b \in Actors \ {g} PROVE Stays(b)
    BY <1>g4 DEF ListArtifacts, Stays, Typed, PlaceTyped, ActorsTyped
  <2> QED
    BY <2>1, <2>2, StaysMoves
<1>g5. ASSUME NEW g \in Collections, Stamp(g) PROVE (\A b \in Actors : PlaceMove(b))
  <2>1. PlaceMove(g)
    BY <1>g5, OtherMoves DEF Stamp, End, Typed, PlaceTyped
  <2>2. ASSUME NEW b \in Actors \ {g} PROVE Stays(b)
    BY <1>g5 DEF Stamp, End, Stays, Typed, PlaceTyped, ActorsTyped
  <2> QED
    BY <2>1, <2>2, StaysMoves
<1>g6. ASSUME NEW g \in Collections, TimeOut(g) PROVE (\A b \in Actors : PlaceMove(b))
  <2>1. PlaceMove(g)
    BY <1>g6, OtherMoves DEF TimeOut, Fault, Typed, PlaceTyped
  <2>2. ASSUME NEW b \in Actors \ {g} PROVE Stays(b)
    BY <1>g6 DEF TimeOut, Fault, Stays, Typed, PlaceTyped, ActorsTyped
  <2> QED
    BY <2>1, <2>2, StaysMoves
<1>g7. ASSUME NEW g \in Collections, NEW d \in Corpora, ProbeBuild(g, d)
       PROVE (\A b \in Actors : PlaceMove(b))
  <2>1. PlaceMove(g)
    <3>1. pc[g] = "orphans" /\ pc'[g] \in {"evict", "probed"}
      BY <1>g7 DEF ProbeBuild, Typed, PlaceTyped
    <3> QED
      BY <1>g7, <3>1 DEF PlaceMove
  <2>2. ASSUME NEW b \in Actors \ {g} PROVE Stays(b)
    BY <1>g7 DEF ProbeBuild, Stays, Typed, PlaceTyped, ActorsTyped
  <2> QED
    BY <2>1, <2>2, StaysMoves
<1>g8. ASSUME NEW g \in Collections, NEW r \in Artifacts, Mark(g, r)
       PROVE (\A b \in Actors : PlaceMove(b))
  BY <1>g8, StaysMoves DEF Mark, Retire, Stays, Typed, PlaceTyped, ActorsTyped
<1>g9. ASSUME NEW g \in Collections, NEW r \in Artifacts, Spare(g, r)
       PROVE (\A b \in Actors : PlaceMove(b))
  BY <1>g9, StaysMoves DEF Spare, Retire, Stays, Typed, PlaceTyped, ActorsTyped
<1>g10. ASSUME NEW g \in Collections, NEW r \in Artifacts, RemoveMarked(g, r)
        PROVE (\A b \in Actors : PlaceMove(b))
  BY <1>g10, StaysMoves DEF RemoveMarked, Retire, Stays, Typed, PlaceTyped, ActorsTyped
<1>a1. ASSUME NEW a \in Actors, Begin(a) PROVE (\A b \in Actors : PlaceMove(b))
  <2>1. PlaceMove(a)
    BY <1>a1, OtherMoves DEF Begin, Typed, PlaceTyped
  <2>2. ASSUME NEW b \in Actors \ {a} PROVE Stays(b)
    BY <1>a1 DEF Begin, Stays, Typed, PlaceTyped, ActorsTyped
  <2> QED
    BY <2>1, <2>2, StaysMoves
<1>a2. ASSUME NEW a \in Actors, Crash(a) PROVE (\A b \in Actors : PlaceMove(b))
  <2>1. PlaceMove(a)
    <3>1. pc'[a] = "start"
      BY <1>a2 DEF Crash, End, Typed, PlaceTyped
    <3> QED
      BY <1>a2, <3>1 DEF PlaceMove
  <2>2. ASSUME NEW b \in Actors \ {a} PROVE Stays(b)
    BY <1>a2 DEF Crash, End, Stays, Typed, PlaceTyped, ActorsTyped
  <2> QED
    BY <2>1, <2>2, StaysMoves
<1>a3. ASSUME NEW a \in Actors, WriteLedger(a) PROVE (\A b \in Actors : PlaceMove(b))
  <2>1. PlaceMove(a)
    BY <1>a3, OtherMoves DEF WriteLedger, Typed, PlaceTyped
  <2>2. ASSUME NEW b \in Actors \ {a} PROVE Stays(b)
    BY <1>a3 DEF WriteLedger, Stays, Typed, PlaceTyped, ActorsTyped
  <2> QED
    BY <2>1, <2>2, StaysMoves
<1>a4. ASSUME NEW a \in Actors, DrainTrash(a) PROVE (\A b \in Actors : PlaceMove(b))
  <2>1. PlaceMove(a)
    BY <1>a4, OtherMoves DEF DrainTrash, End, Typed, PlaceTyped
  <2>2. ASSUME NEW b \in Actors \ {a} PROVE Stays(b)
    BY <1>a4 DEF DrainTrash, End, Stays, Typed, PlaceTyped, ActorsTyped
  <2> QED
    BY <2>1, <2>2, StaysMoves
<1>a5. ASSUME NEW a \in Actors, List(a) PROVE (\A b \in Actors : PlaceMove(b))
  <2>1. PlaceMove(a)
    BY <1>a5, OtherMoves DEF List, Typed, PlaceTyped
  <2>2. ASSUME NEW b \in Actors \ {a} PROVE Stays(b)
    BY <1>a5 DEF List, Stays, Typed, PlaceTyped, ActorsTyped
  <2> QED
    BY <2>1, <2>2, StaysMoves
<1>a6. ASSUME NEW a \in Actors, Plan(a) PROVE (\A b \in Actors : PlaceMove(b))
  <2>1. PlaceMove(a)
    BY <1>a6, PlanGoes, OtherMoves DEF End, Typed, PlaceTyped
  <2>2. ASSUME NEW b \in Actors \ {a} PROVE Stays(b)
    BY <1>a6, PlanGoes DEF End, Stays, Typed, PlaceTyped, ActorsTyped
  <2> QED
    BY <2>1, <2>2, StaysMoves
<1>a7. ASSUME NEW a \in Actors, RemoveEvicted(a) PROVE (\A b \in Actors : PlaceMove(b))
  <2>1. PlaceMove(a)
    BY <1>a7, OtherMoves DEF RemoveEvicted, Fault, NextCorpus, Typed, PlaceTyped
  <2>2. ASSUME NEW b \in Actors \ {a} PROVE Stays(b)
    BY <1>a7 DEF RemoveEvicted, Fault, NextCorpus, Stays, Typed, PlaceTyped, ActorsTyped
  <2> QED
    BY <2>1, <2>2, StaysMoves
<1>a8. ASSUME NEW a \in Actors, EvictUnits(a) PROVE (\A b \in Actors : PlaceMove(b))
  <2>1. PlaceMove(a)
    BY <1>a8, OtherMoves DEF EvictUnits, Typed, PlaceTyped
  <2>2. ASSUME NEW b \in Actors \ {a} PROVE Stays(b)
    BY <1>a8 DEF EvictUnits, Stays, Typed, PlaceTyped, ActorsTyped
  <2> QED
    BY <2>1, <2>2, StaysMoves
<1>a9. ASSUME NEW a \in Actors, NEW d \in Corpora, ReadLedger(a, d)
       PROVE (\A b \in Actors : PlaceMove(b))
  BY <1>a9, StaysMoves DEF ReadLedger, Stays, Typed, PlaceTyped, ActorsTyped
<1>a10. ASSUME NEW a \in Actors, NEW d \in Corpora, Measure(a, d)
        PROVE (\A b \in Actors : PlaceMove(b))
  <2>1. PlaceMove(a)
    <3>1. pc[a] = "ledger" /\ pc'[a] = "write"
      BY <1>a10 DEF Measure, Typed, PlaceTyped
    <3> QED
      BY <1>a10, <3>1 DEF PlaceMove
  <2>2. ASSUME NEW b \in Actors \ {a} PROVE Stays(b)
    BY <1>a10 DEF Measure, Stays, Typed, PlaceTyped, ActorsTyped
  <2> QED
    BY <2>1, <2>2, StaysMoves
<1>a11. ASSUME NEW a \in Actors, NEW d \in Corpora, KeepCorpus(a, d)
        PROVE (\A b \in Actors : PlaceMove(b))
  <2>1. PlaceMove(a)
    BY <1>a11, OtherMoves DEF KeepCorpus, InEvict, NextCorpus, Typed, PlaceTyped
  <2>2. ASSUME NEW b \in Actors \ {a} PROVE Stays(b)
    BY <1>a11 DEF KeepCorpus, InEvict, NextCorpus, Stays, Typed, PlaceTyped, ActorsTyped
  <2> QED
    BY <2>1, <2>2, StaysMoves
<1>a12. ASSUME NEW a \in Actors, NEW d \in Corpora, Evict(a, d)
        PROVE (\A b \in Actors : PlaceMove(b))
  <2>1. PlaceMove(a)
    <3>1. pc[a] = "rename" /\ pc'[a] = "remove"
      BY <1>a12 DEF Evict, Typed, PlaceTyped
    <3> QED
      BY <1>a12, <3>1 DEF PlaceMove
  <2>2. ASSUME NEW b \in Actors \ {a} PROVE PlaceMove(b)
    <3>1. CASE pc[b] = "building" /\ at[b] = d
      <4>1. pc'[b] = "lost"
        BY <1>a12, <3>1 DEF Evict
      <4> QED
        BY <3>1, <4>1, OtherMoves
    <3>2. CASE ~(pc[b] = "building" /\ at[b] = d)
      BY <1>a12, <3>2, StaysMoves DEF Evict, Stays, Typed, PlaceTyped, ActorsTyped
    <3> QED
      BY <3>1, <3>2
  <2> QED
    BY <2>1, <2>2
<1>a13. ASSUME NEW a \in Actors, NEW d \in Corpora, TakeCorpus(a, d)
        PROVE (\A b \in Actors : PlaceMove(b))
  <2>1. PlaceMove(a)
    <3>1. pc[a] = "evict" /\ pc'[a] = "look"
      BY <1>a13 DEF TakeCorpus, InEvict, Typed, PlaceTyped
    <3> QED
      BY <1>a13, <3>1 DEF PlaceMove
  <2>2. ASSUME NEW b \in Actors \ {a} PROVE Stays(b)
    BY <1>a13 DEF TakeCorpus, InEvict, Stays, Typed, PlaceTyped, ActorsTyped
  <2> QED
    BY <2>1, <2>2, StaysMoves
<1>a14. ASSUME NEW a \in Actors, FindUnused(a) PROVE (\A b \in Actors : PlaceMove(b))
  <2>1. PlaceMove(a)
    <3>1. pc[a] = "look" /\ pc'[a] = "rename"
      BY <1>a14 DEF FindUnused, Typed, PlaceTyped
    <3> QED
      BY <1>a14, <3>1 DEF PlaceMove
  <2>2. ASSUME NEW b \in Actors \ {a} PROVE Stays(b)
    BY <1>a14 DEF FindUnused, Stays, Typed, PlaceTyped, ActorsTyped
  <2> QED
    BY <2>1, <2>2, StaysMoves
<1>r. ASSUME NEW r \in Artifacts, UseArtifact(r) PROVE (\A b \in Actors : PlaceMove(b))
  BY <1>r, StaysMoves DEF UseArtifact, Stays, Typed, PlaceTyped, ActorsTyped
<1>u. CASE UNCHANGED vars
  BY <1>u, StaysMoves DEF vars, Stays, Typed, PlaceTyped, ActorsTyped
<1> QED
  BY <1>t, <1>s1, <1>s2, <1>s3, <1>s4, <1>s5, <1>s6, <1>s7, <1>s8, <1>s9, <1>s10, <1>g1, <1>g2, <1>g3,
     <1>g4, <1>g5, <1>g6, <1>g7, <1>g8, <1>g9, <1>g10, <1>a1, <1>a2, <1>a3, <1>a4, <1>a5, <1>a6,
     <1>a7, <1>a8, <1>a9, <1>a10, <1>a11, <1>a12, <1>a13, <1>a14, <1>r, <1>u
     DEF Next, Search, Collect, Reclaim

-----------------------------------------------------------------------------
(* No file has a time that is to come.                                     *)

PastDir(d) ==
    /\ corpora[d].published <= now /\ corpora[d].used <= now
    /\ corpora[d].sized <= now /\ corpora[d].build <= now
PastActor(a) == started[a] <= now /\ \A d \in Corpora : listed[a][d] <= now

Past == (\A d \in Corpora : PastDir(d)) /\ \A a \in Actors : PastActor(a)

\* Times are numbers.
LEMMA TimeIsNat == Typed => /\ now \in Nat /\ now > Old
                            /\ \A d \in Corpora : /\ corpora[d].published \in Nat /\ corpora[d].used \in Nat
                                                  /\ corpora[d].sized \in Nat /\ corpora[d].build \in Nat
                            /\ \A a \in Actors : started[a] \in Nat /\ \A d \in Corpora : listed[a][d] \in Nat
<1> SUFFICES ASSUME Typed
             PROVE  /\ now \in Nat /\ now > Old
                    /\ \A d \in Corpora : /\ corpora[d].published \in Nat /\ corpora[d].used \in Nat
                                          /\ corpora[d].sized \in Nat /\ corpora[d].build \in Nat
                    /\ \A a \in Actors : started[a] \in Nat /\ \A d \in Corpora : listed[a][d] \in Nat
  OBVIOUS
<1>1. \A t \in Times : t \in Nat
  BY ConstantsAssumption DEF Times
<1>2. now \in Nat /\ now > Old
  BY <1>1, ConstantsAssumption DEF Typed, DiskTyped
<1>3. ASSUME NEW d \in Corpora
      PROVE  /\ corpora[d].published \in Nat /\ corpora[d].used \in Nat
             /\ corpora[d].sized \in Nat /\ corpora[d].build \in Nat
  <2>1. corpora[d] \in CorpusDirs
    BY DEF Typed, DiskTyped
  <2> QED
    BY <2>1, <1>1 DEF CorpusDirs
<1>4. ASSUME NEW a \in Actors PROVE started[a] \in Nat /\ \A d \in Corpora : listed[a][d] \in Nat
  BY <1>1 DEF Typed, ActorsTyped
<1> QED
  BY <1>2, <1>3, <1>4

\* Time does not go back, and it stands in a step that writes.
LEMMA TimeSteps == Typed /\ [Next]_vars => /\ now' \in Nat /\ now <= now'
                                           /\ Written => now' = now
<1> SUFFICES ASSUME Typed, [Next]_vars PROVE now' \in Nat /\ now <= now' /\ (Written => now' = now)
  OBVIOUS
<1>1. now \in Nat /\ (now' = now \/ Pause)
  BY TimeIsNat, DiskSteps
<1>2. ASSUME Written PROVE now' = now
  BY <1>2 DEF Written, SwapFamily, PublishState, EndRead, StartBuild, SweepBuildDir, WriteLedger,
     Evict,
              Touch, Work
<1> QED
  BY <1>1, <1>2 DEF Pause

\* A step that writes in the directory d.
WritesAt(d) ==
    \/ \E s \in Searches : at[s] = d /\ (SwapFamily(s) \/ PublishState(s) \/ EndRead(s))
    \/ \E s \in Searches : StartBuild(s, d)
    \/ \E g \in Collections : at[g] = d /\ SweepBuildDir(g)
    \/ \E a \in Actors : at[a] = d /\ WriteLedger(a)
    \/ \E a \in Actors : Evict(a, d)

WritesOne == \E d \in Corpora : Only(d) /\ WritesAt(d)

\* A step writes in one directory at most.
LEMMA WrittenAt == Typed /\ Written => WritesOne
<1> SUFFICES ASSUME Typed, Written PROVE WritesOne
  OBVIOUS
<1>1. ASSUME NEW s \in Searches, SwapFamily(s) PROVE WritesOne
  BY <1>1, SwapWrites DEF WritesOne, WritesAt
<1>2. ASSUME NEW s \in Searches, PublishState(s) PROVE WritesOne
  BY <1>2, PublishWrites DEF WritesOne, WritesAt
<1>3. ASSUME NEW s \in Searches, EndRead(s) PROVE WritesOne
  BY <1>3, EndReadWrites DEF WritesOne, WritesAt
<1>4. ASSUME NEW s \in Searches, NEW d \in Corpora, StartBuild(s, d) PROVE WritesOne
  BY <1>4, StartBuildWrites DEF WritesOne, WritesAt
<1>5. ASSUME NEW g \in Collections, SweepBuildDir(g) PROVE WritesOne
  BY <1>5, SweepWrites DEF WritesOne, WritesAt
<1>6. ASSUME NEW a \in Actors, WriteLedger(a) PROVE WritesOne
  BY <1>6, LedgerWrites DEF WritesOne, WritesAt
<1>7. ASSUME NEW a \in Actors, NEW d \in Corpora, Evict(a, d) PROVE WritesOne
  BY <1>7, EvictWrites DEF WritesOne, WritesAt
<1> QED
  BY <1>1, <1>2, <1>3, <1>4, <1>5, <1>6, <1>7 DEF Written

\* A step writes the time of now, or a time that was already there.
LEMMA PastStep == Typed /\ Past /\ [Next]_vars => Past'
<1> SUFFICES ASSUME Typed, Past, [Next]_vars PROVE Past'
  OBVIOUS
<1>t. now \in Nat /\ now' \in Nat /\ now <= now' /\ (Written => now' = now)
  BY TimeIsNat, TimeSteps
<1>d. ASSUME NEW e \in Corpora PROVE PastDir(e)'
  <2>1. CASE Kept
    BY <2>1, <1>t, TimeIsNat DEF Kept, Past, PastDir
  <2>2. CASE Written
    <3>1. PICK d \in Corpora : Only(d) /\ WritesAt(d)
      BY <2>2, WrittenAt DEF WritesOne
    <3>t. now' = now
      BY <2>2, <1>t
    <3> USE DEF Past, PastDir, SameLedger, Never
    <3>2. CASE e # d
      BY <3>1, <3>2, <3>t DEF Only
    <3>3. CASE \E s \in Searches : at[s] = d /\ SwapFamily(s)
      BY <1>t, <3>t, <3>3, <3>2, SwapWrites
    <3>4. CASE \E s \in Searches : at[s] = d /\ PublishState(s)
      BY <1>t, <3>t, <3>4, <3>2, PublishWrites
    <3>5. CASE \E s \in Searches : at[s] = d /\ EndRead(s)
      BY <1>t, <3>t, <3>5, <3>2, EndReadWrites
    <3>6. CASE \E s \in Searches : StartBuild(s, d)
      BY <1>t, <3>t, <3>6, <3>2, StartBuildWrites
    <3>7. CASE \E g \in Collections : at[g] = d /\ SweepBuildDir(g)
      BY <1>t, <3>t, <3>7, <3>2, SweepWrites
    <3>8. CASE \E a \in Actors : at[a] = d /\ WriteLedger(a)
      BY <1>t, <3>t, <3>8, <3>2, LedgerWrites
    <3>9. CASE \E a \in Actors : Evict(a, d)
      BY <1>t, <3>t, <3>9, <3>2, EvictWrites DEF NoCorpus
    <3> QED
      BY <3>1, <3>3, <3>4, <3>5, <3>6, <3>7, <3>8, <3>9 DEF WritesAt
  <2> QED
    BY <2>1, <2>2, DiskSteps
<1>a. ASSUME NEW a \in Actors PROVE PastActor(a)'
  <2>0. RunStep(a) /\ PastActor(a) /\ started[a] \in Nat /\ \A d \in Corpora : listed[a][d] \in Nat
    BY RunSteps, TimeIsNat DEF Past
  <2>1. CASE EndsRun(a)
    BY <2>1, <1>t DEF EndsRun, PastActor, NotListed, Never
  <2>2. CASE BeginsRun(a)
    BY <2>0, <2>2, <1>t DEF BeginsRun, PastActor
  <2>3. CASE GoesOn(a) /\ listed'[a] = listed[a]
    BY <2>0, <2>3, <1>t DEF GoesOn, PastActor
  <2>4. CASE GoesOn(a) /\ List(a)
    <3>1. listed'[a] = [d \in Corpora |-> IF d \in Present THEN corpora[d].used ELSE Never]
      BY <2>4 DEF List, Typed, ActorsTyped
    <3>2. \A d \in Corpora : listed'[a][d] <= now
      BY <1>t, <3>1 DEF Past, PastDir, Never
    <3>3. \A d \in Corpora : listed'[a][d] \in Nat
      BY <3>1, TimeIsNat DEF Never
    <3> QED
      BY <2>0, <2>4, <3>2, <3>3, <1>t DEF GoesOn, PastActor
  <2> QED
    BY <2>0, <2>1, <2>2, <2>3, <2>4 DEF RunStep, GoesOn
<1> QED
  BY <1>d, <1>a DEF Past

-----------------------------------------------------------------------------
(* Evictions spare what is in use.                                         *)

\* A corpus that is there was used when a running command used it, or later.
UseIsTold(a) ==
    /\ pc[a] = "start" => touched[a] = {}
    /\ pc[a] # "start" => \A d \in touched[a] : corpora[d].there => started[a] <= corpora[d].used

\* What an eviction plans was on its list with an older use, and is not its own.
PlanIsOld(a) ==
    pc[a] \in Evicting /\ a \notin All =>
        \A d \in plan[a] \cap Corpora : d \notin Keep(a) /\ listed[a][d] < started[a]

UsesInv == \A a \in Actors : UseIsTold(a) /\ PlanIsOld(a)

\* touchUsed gives a corpus to every command that runs, but not to an eviction that
\* renames it.
TouchedBy(a, d) ==
    touched'[a] = IF pc[a] = "start" THEN {}
                  ELSE IF pc[a] = "rename" /\ at[a] = d THEN touched[a] ELSE touched[a] \cup {d}

\* A build and the end of a read touch .used.
LEMMA TouchStep ==
    ASSUME Typed, NEW a \in Actors
    PROVE  /\ \A s \in Searches : \A d \in Corpora : StartBuild(s, d) => TouchedBy(a, d)
           /\ \A s \in Searches : EndRead(s) => TouchedBy(a, at[s])
BY DEF StartBuild, EndRead, Touch, TouchedBy

\* The other steps give nobody a corpus.
Touches == \E s \in Searches : EndRead(s) \/ \E d \in Corpora : StartBuild(s, d)

\* Every other step leaves an actor what it has used, or ends its run.
LEMMA TouchedSteps ==
    Typed /\ [Next]_vars => (Touches \/ \A b \in Actors : touched'[b] \in {touched[b], {}})
<1> SUFFICES ASSUME Typed, [Next]_vars
             PROVE (Touches \/ \A b \in Actors : touched'[b] \in {touched[b], {}})
  OBVIOUS
<1> USE ConstantsAssumption DEF diskVars, listVars, actorVars, histVars, Goto, Never, Actors, Alone
<1>t. ASSUME Tick PROVE (Touches \/ \A b \in Actors : touched'[b] \in {touched[b], {}})
  BY <1>t DEF Tick, Typed, HistTyped
<1>so. ASSUME NEW s \in Searches,
             \/ CheckBudget(s) \/ SwapFamily(s) \/ PublishState(s) \/ Enforce(s)
             \/ EndRecord(s) \/ LoseBuild(s)
             \/ \E d \in Corpora : StartRead(s, d)
             \/ \E d \in Corpora : SkipNode(s, d)
      PROVE  (Touches \/ \A b \in Actors : touched'[b] \in {touched[b], {}})
  BY <1>so, CheckBudgetGoes, EnforceGoes DEF CheckBudget, PassBudget, End, Typed, HistTyped,
     SwapFamily, PublishState, Work, Enforce, EndRecord, LoseBuild, StartRead, SkipNode
<1>s4. ASSUME NEW s \in Searches, EndRead(s)
       PROVE (Touches \/ \A b \in Actors : touched'[b] \in {touched[b], {}})
  BY <1>s4 DEF Touches
<1>s7. ASSUME NEW s \in Searches, NEW d \in Corpora, StartBuild(s, d)
       PROVE (Touches \/ \A b \in Actors : touched'[b] \in {touched[b], {}})
  BY <1>s7 DEF Touches
<1>go. ASSUME NEW g \in Collections,
             \/ Throttled(g) \/ TakeGcLock(g) \/ SweepBuildDir(g) \/ ListArtifacts(g) \/ Stamp(g)
             \/ TimeOut(g)
             \/ \E d \in Corpora : ProbeBuild(g, d)
             \/ \E r \in Artifacts : Mark(g, r)
             \/ \E r \in Artifacts : Spare(g, r)
             \/ \E r \in Artifacts : RemoveMarked(g, r)
      PROVE  (Touches \/ \A b \in Actors : touched'[b] \in {touched[b], {}})
  BY <1>go DEF Throttled, End, Typed, HistTyped, TakeGcLock, InCollection, InEviction,
     SweepBuildDir, ListArtifacts, Stamp, TimeOut, Fault, ProbeBuild, Mark, Retire, Spare,
     RemoveMarked
<1>ao. ASSUME NEW a \in Actors,
             \/ Begin(a) \/ Crash(a) \/ WriteLedger(a) \/ DrainTrash(a) \/ List(a)
             \/ Plan(a) \/ RemoveEvicted(a) \/ EvictUnits(a) \/ FindUnused(a)
             \/ \E d \in Corpora : ReadLedger(a, d)
             \/ \E d \in Corpora : Measure(a, d)
             \/ \E d \in Corpora : KeepCorpus(a, d)
             \/ \E d \in Corpora : TakeCorpus(a, d)
             \/ \E d \in Corpora : Evict(a, d)
      PROVE  (Touches \/ \A b \in Actors : touched'[b] \in {touched[b], {}})
  BY <1>ao, PlanGoes DEF Begin, Typed, HistTyped, Crash, Fault, End, WriteLedger, DrainTrash, List,
     Plan, RemoveEvicted, NextCorpus, EvictUnits, FindUnused, ReadLedger, Measure, KeepCorpus,
     TakeCorpus, InEvict, Evict
<1>r. ASSUME NEW r \in Artifacts, UseArtifact(r)
      PROVE (Touches \/ \A b \in Actors : touched'[b] \in {touched[b], {}})
  BY <1>r DEF UseArtifact, Typed, HistTyped
<1>u. CASE UNCHANGED vars
  BY <1>u DEF vars, Typed, HistTyped
<1> QED
  BY <1>t, <1>so, <1>s4, <1>s7, <1>go, <1>ao, <1>r, <1>u DEF Next, Search, Collect, Reclaim

\* A run that goes on keeps what is known of its uses and its plan.
LEMMA UsesStep == Typed /\ Past /\ UsesInv /\ [Next]_vars => UsesInv'
<1> SUFFICES ASSUME Typed, Past, UsesInv, [Next]_vars, NEW a \in Actors
             PROVE  UseIsTold(a)' /\ PlanIsOld(a)'
  BY DEF UsesInv
<1>0. RunStep(a) /\ UseIsTold(a) /\ PlanIsOld(a) /\ now \in Nat /\ PastActor(a)
  BY RunSteps, TimeIsNat DEF UsesInv, Past
<1>1. CASE EndsRun(a)
  BY <1>1 DEF EndsRun, UseIsTold, PlanIsOld, Evicting
<1>u. CASE ~EndsRun(a)
  <2>1. pc'[a] = "start" => pc[a] = "start"
    BY <1>0, <1>u DEF RunStep, BeginsRun, GoesOn
  <2>2. UseIsTold(a)'
    <3>1. CASE pc'[a] = "start"
      <4>1. touched[a] = {} /\ touched'[a] = {}
        BY <1>0, <2>1, <3>1, TouchedSteps, TouchStep DEF UseIsTold, TouchedBy, Touches
      <4> QED
        BY <3>1, <4>1 DEF UseIsTold
    <3>2. CASE BeginsRun(a)
      <4>1. touched'[a] = {}
        BY <1>0, <3>2 DEF UseIsTold, BeginsRun
      <4> QED
        BY <3>2, <4>1 DEF UseIsTold, BeginsRun
    <3>3. CASE GoesOn(a) /\ pc'[a] # "start"
      <4>0. pc[a] # "start" /\ started'[a] = started[a] /\ started[a] \in Nat /\ started[a] <= now
        BY <1>0, <3>3, TimeIsNat DEF GoesOn, PastActor
      <4> SUFFICES ASSUME NEW e \in touched'[a], corpora'[e].there PROVE started[a] <= corpora'[e].used
        BY <4>0, <3>3 DEF UseIsTold
      <4>e. e \in Corpora
        BY TypedStep DEF Typed, HistTyped
      <4>n. e \in touched[a] /\ corpora[e].there => started[a] <= corpora[e].used
        BY <1>0, <4>0 DEF UseIsTold
      <4>1. CASE Touches
        <5>0. PICK d \in Corpora : Only(d) /\ TouchedBy(a, d) /\ corpora'[d].used = now
          BY <4>1, TouchStep, EndReadWrites, StartBuildWrites DEF Touches
        <5>1. touched'[a] \subseteq touched[a] \cup {d}
          BY <4>0, <5>0 DEF TouchedBy
        <5>2. CASE e = d
          BY <4>0, <5>0, <5>2
        <5>3. CASE e # d
          BY <4>n, <4>e, <5>0, <5>1, <5>3 DEF Only
        <5> QED
          BY <5>2, <5>3
      <4>2. CASE ~Touches
        <5>1. e \in touched[a]
          BY <4>2, TouchedSteps
        <5>2. CASE Kept
          BY <4>n, <5>1, <5>2 DEF Kept
        <5>3. CASE Written
          <6>1. PICK d \in Corpora : Only(d) /\ WritesAt(d)
            BY <5>3, WrittenAt DEF WritesOne
          <6>2. e = d => \/ corpora'[d].there = corpora[d].there /\ corpora'[d].used = corpora[d].used
                         \/ corpora'[d] = NoCorpus
            BY <4>2, <6>1, SwapWrites, PublishWrites, SweepWrites, LedgerWrites, EvictWrites
               DEF WritesAt, Touches
          <6> QED
            BY <4>n, <4>e, <5>1, <6>1, <6>2 DEF Only, NoCorpus
        <5> QED
          BY <5>2, <5>3, DiskSteps
      <4> QED
        BY <4>1, <4>2
    <3> QED
      BY <1>0, <1>u, <3>1, <3>2, <3>3 DEF RunStep
  <2>3. PlanIsOld(a)'
    <3> SUFFICES ASSUME pc'[a] \in Evicting, a \notin All, NEW d \in plan'[a] \cap Corpora
                 PROVE  d \notin Keep(a) /\ listed'[a][d] < started'[a]
      BY DEF PlanIsOld, Keep
    <3>1. GoesOn(a) /\ started'[a] = started[a]
      BY <1>0, <1>u DEF RunStep, BeginsRun, GoesOn, Evicting
    <3>2. CASE pc[a] \in Evicting /\ plan'[a] = plan[a] /\ listed'[a] = listed[a]
      BY <1>0, <3>1, <3>2 DEF PlanIsOld
    <3>3. CASE Plan(a) /\ listed'[a] = listed[a]
      <4>1. PICK D \in SUBSET (Corpora \cup units) :
               /\ plan' = [plan EXCEPT ![a] = D]
               /\ a \notin All => D \cap Corpora \subseteq Evictable(a) \cup units
        BY <1>u, <3>1, <3>3, PlanGoes, EndEnds
      <4>2. d \in Evictable(a)
        BY <4>1, ConstantsAssumption DEF Typed, ActorsTyped, DiskTyped
      <4>3. listed[a][d] \in Nat /\ listed[a][d] <= now /\ started[a] \in Nat
        BY <1>0, TimeIsNat DEF PastActor
      <4> QED
        BY <1>0, <3>1, <3>3, <4>2, <4>3 DEF Evictable, UsedByARunningCommand
    <3> QED
      BY <3>1, <3>2, <3>3 DEF GoesOn
  <2> QED
    BY <2>2, <2>3
<1> QED
  BY <1>1, <1>u

-----------------------------------------------------------------------------
(* What an eviction has taken.                                             *)

Takes(a) == pc[a] \in {"look", "rename"}

\* The corpus that an eviction has taken is due and is there, and no other eviction
\* has it; a build in it began after the eviction took it; and nobody used it
\* before the eviction looked at .used.
TakenHolds(a) ==
    Takes(a) =>
        /\ at[a] \in plan[a] /\ corpora[at[a]].there
        /\ \A b \in Actors : Takes(b) /\ at[b] = at[a] => b = a
        /\ Building(at[a]) => started[a] <= corpora[at[a]].used
        /\ pc[a] = "rename" /\ a \notin All => at[a] \notin touched[a]

TakenInv == \A a \in Actors : TakenHolds(a)

\* An eviction takes its corpus in TakeCorpus, or has it.
LEMMA TakesMove ==
    ASSUME Typed, [Next]_vars, NEW a \in Actors, Takes(a)'
    PROVE  /\ \/ Takes(a) /\ at'[a] = at[a] /\ (Stays(a) \/ FindUnused(a))
              \/ \E d \in Corpora : at'[a] = d /\ TakeCorpus(a, d)
           /\ at'[a] \in Corpora /\ plan'[a] = plan[a] /\ started'[a] = started[a]
           /\ pc[a] # "start" /\ pc[a] \in Evicting
<1>1. PlaceMove(a) /\ RunStep(a)
  BY PlaceSteps, RunSteps
<1>2. \/ Takes(a) /\ at'[a] = at[a] /\ (Stays(a) \/ FindUnused(a))
      \/ \E d \in Corpora : at'[a] = d /\ TakeCorpus(a, d)
  <2>1. CASE Stays(a)
    BY <2>1 DEF Takes, Stays
  <2>2. CASE FindUnused(a)
    BY <2>2 DEF Takes, FindUnused
  <2>3. CASE \E d \in Corpora : TakeCorpus(a, d)
    BY <2>3 DEF TakeCorpus, Typed, PlaceTyped
  <2> QED
    BY <1>1, <2>1, <2>2, <2>3 DEF PlaceMove, Takes
<1>3. pc[a] \in {"evict", "look", "rename"} /\ pc'[a] \in {"look", "rename"}
  BY <1>2 DEF Takes, TakeCorpus, InEvict
<1>4. at'[a] \in Corpora
  BY <1>2 DEF Takes, Typed, PlaceTyped, OnOne
<1>5. plan'[a] = plan[a] /\ started'[a] = started[a]
  BY <1>1, <1>3 DEF RunStep, EndsRun, BeginsRun, GoesOn, Evicting
<1> QED
  BY <1>2, <1>3, <1>4, <1>5 DEF Evicting

\* What is taken stays taken until the rename, and builds that begin meanwhile touch
\* .used.
LEMMA TakenStep == Typed /\ Past /\ UsesInv /\ TakenInv /\ [Next]_vars => TakenInv'
<1> SUFFICES ASSUME Typed, Past, UsesInv, TakenInv, [Next]_vars, NEW a \in Actors, Takes(a)'
             PROVE  /\ at'[a] \in plan'[a] /\ corpora'[at'[a]].there
                    /\ \A b \in Actors : Takes(b)' /\ at'[b] = at'[a] => b = a
                    /\ Building(at[a])' => started'[a] <= corpora'[at'[a]].used
                    /\ pc'[a] = "rename" /\ a \notin All => at'[a] \notin touched'[a]
  BY DEF TakenInv, TakenHolds
<1> DEFINE d == at'[a]
<1>0. /\ \/ Takes(a) /\ d = at[a] /\ (Stays(a) \/ FindUnused(a))
         \/ TakeCorpus(a, d)
      /\ d \in Corpora /\ plan'[a] = plan[a] /\ started'[a] = started[a]
      /\ pc[a] # "start" /\ pc[a] \in Evicting
  BY TakesMove
<1>h. TakenHolds(a) /\ UseIsTold(a) /\ PlanIsOld(a) /\ PastActor(a)
  BY DEF TakenInv, UsesInv, Past
<1>n. /\ now \in Nat /\ started[a] \in Nat /\ started[a] <= now
      /\ corpora[d].used \in Nat /\ listed[a][d] \in Nat
  BY <1>0, <1>h, TimeIsNat DEF PastActor
<1>1. d \in plan'[a] /\ corpora[d].there
  BY <1>0, <1>h DEF TakenHolds, TakeCorpus, CanTake
<1>2. ASSUME NEW b \in Actors, Takes(b)', at'[b] = d PROVE b = a
  <2>0. \/ Takes(b) /\ d = at[b] /\ (Stays(b) \/ FindUnused(b))
        \/ TakeCorpus(b, d)
    BY <1>2, TakesMove
  <2>1. CASE Takes(a) /\ d = at[a] /\ Takes(b) /\ d = at[b]
    BY <1>h, <2>1 DEF TakenHolds
  <2>2. CASE TakeCorpus(a, d) /\ Takes(b) /\ d = at[b]
    BY <2>2 DEF TakeCorpus, CanTake, Taken, Takes
  <2>3. CASE TakeCorpus(b, d) /\ Takes(a) /\ d = at[a]
    BY <2>3 DEF TakeCorpus, CanTake, Taken, Takes
  <2>4. CASE TakeCorpus(a, d) /\ TakeCorpus(b, d)
    <3>1. pc' = [pc EXCEPT ![a] = "look"] /\ pc[b] = "evict"
      BY <2>4 DEF TakeCorpus, InEvict, Goto
    <3> QED
      BY <1>2, <3>1 DEF Takes, Typed, PlaceTyped
  <2> QED
    BY <1>0, <2>0, <2>1, <2>2, <2>3, <2>4
<1>3. ~\E b \in Actors : Evict(b, d)
  <2> SUFFICES ASSUME NEW b \in Actors, Evict(b, d) PROVE FALSE
    OBVIOUS
  <2>1. Takes(b) /\ at[b] = d /\ pc'[b] = "remove"
    BY DEF Evict, Takes
  <2>2. CASE Takes(a) /\ d = at[a]
    <3>1. b = a
      BY <1>h, <2>1, <2>2 DEF TakenHolds
    <3> QED
      BY <2>1, <3>1 DEF Takes
  <2>3. CASE TakeCorpus(a, d)
    BY <2>1, <2>3 DEF TakeCorpus, CanTake, Taken, Takes
  <2> QED
    BY <1>0, <2>2, <2>3
<1>4. corpora'[d].there /\ corpora'[d].used \in {corpora[d].used, now}
  <2>1. CASE Kept
    BY <1>1, <2>1 DEF Kept
  <2>2. CASE Written
    <3>1. PICK c \in Corpora : Only(c) /\ WritesAt(c)
      BY <2>2, WrittenAt DEF WritesOne
    <3>2. CASE d # c
      BY <1>0, <1>1, <3>1, <3>2 DEF Only
    <3>3. CASE d = c
      BY <1>1, <1>3, <3>1, <3>3, SwapWrites, PublishWrites, EndReadWrites, StartBuildWrites,
         SweepWrites, LedgerWrites DEF WritesAt
    <3> QED
      BY <3>2, <3>3
  <2> QED
    BY <2>1, <2>2, DiskSteps
<1>5. ASSUME Building(at[a])' PROVE started'[a] <= corpora'[d].used
  <2>1. PICK s \in Searches : pc'[s] \in {"building", "swapped"} /\ at'[s] = d
    BY <1>5 DEF Building
  <2>2. (pc[s] \in {"building", "swapped"} /\ at[s] = d) \/ \E c \in Corpora : StartBuild(s, c)
    BY <2>1, PlaceSteps DEF PlaceMove, Actors
  <2>3. CASE \E c \in Corpora : StartBuild(s, c)
    <3>1. PICK c \in Corpora : StartBuild(s, c)
      BY <2>3
    <3>2. c = d
      BY <2>1, <3>1 DEF StartBuild, Work, Typed, PlaceTyped, Actors
    <3>3. corpora'[d].used = now
      BY <3>1, <3>2, StartBuildWrites
    <3> QED
      BY <1>0, <1>n, <3>3
  <2>4. CASE pc[s] \in {"building", "swapped"} /\ at[s] = d
    <3>1. Building(d) /\ Held(d)
      BY <2>4 DEF Building, Held
    <3>2. Takes(a) /\ d = at[a]
      BY <1>0, <3>1 DEF TakeCorpus, CanTake
    <3>3. started[a] <= corpora[d].used
      BY <1>h, <3>1, <3>2 DEF TakenHolds
    <3> QED
      BY <1>0, <1>n, <1>4, <3>3
  <2> QED
    BY <2>2, <2>3, <2>4
<1>6. ASSUME pc'[a] = "rename", a \notin All PROVE d \notin touched'[a]
  <2>1. CASE FindUnused(a)
    <3>1. pc[a] = "look" /\ d = at[a] /\ corpora[d].used <= listed[a][d] /\ touched' = touched
      BY <2>1 DEF FindUnused
    <3>2. listed[a][d] < started[a]
      BY <1>0, <1>1, <1>6, <1>h DEF PlanIsOld
    <3>3. ~(started[a] <= corpora[d].used)
      BY <1>n, <3>1, <3>2
    <3> QED
      BY <1>0, <1>1, <1>h, <3>1, <3>3 DEF UseIsTold
  <2>2. CASE Stays(a)
    <3>1. pc[a] = "rename" /\ d = at[a] /\ d \notin touched[a]
      BY <1>6, <1>h, <2>2 DEF Stays, TakenHolds, Takes
    <3>2. CASE Touches
      <4>1. PICK c : TouchedBy(a, c)
        BY <3>2, TouchStep DEF Touches
      <4> QED
        BY <3>1, <4>1 DEF TouchedBy
    <3>3. CASE ~Touches
      BY <3>1, <3>3, TouchedSteps
    <3> QED
      BY <3>2, <3>3
  <2>3. CASE TakeCorpus(a, d)
    BY <1>6, <2>3 DEF TakeCorpus, Goto, Typed, PlaceTyped
  <2> QED
    BY <1>0, <2>1, <2>2, <2>3
<1> QED
  BY <1>1, <1>2, <1>4, <1>5, <1>6

\* So nobody evicts what it keeps, or what somebody used since it began and before it
\* looked at .used.
LEMMA EvictsOld ==
    ASSUME Typed, UsesInv, TakenInv, NEW a \in Actors \ All, NEW d \in Corpora, Evict(a, d)
    PROVE  d \notin touched[a] \cup Keep(a)
<1>1. pc[a] = "rename" /\ at[a] = d
  BY DEF Evict
<1>2. PlanIsOld(a) /\ TakenHolds(a)
  BY DEF UsesInv, TakenInv
<1>3. d \in plan[a] /\ d \notin touched[a]
  BY <1>1, <1>2 DEF TakenHolds, Takes
<1>4. d \notin Keep(a)
  BY <1>1, <1>2, <1>3 DEF PlanIsOld, Evicting
<1> QED
  BY <1>3, <1>4

-----------------------------------------------------------------------------
(* A sweep spares the directory of a build.                                *)

\* A collection that found no build in a corpus sees no older one there.
ProbeHolds(g) ==
    pc[g] = "probed" /\ Building(at[g]) => corpora[at[g]].build = Never \/ started[g] <= corpora[at[g]].build

BuildsInv == \A g \in Collections : ProbeHolds(g)

\* A build that begins after the probe has a newer directory.
LEMMA BuildsStep == Typed /\ Past /\ BuildsInv /\ [Next]_vars => BuildsInv'
<1> SUFFICES ASSUME Typed, Past, BuildsInv, [Next]_vars, NEW g \in Collections,
                    pc'[g] = "probed", Building(at[g])'
             PROVE  corpora'[at'[g]].build = Never \/ started'[g] <= corpora'[at'[g]].build
  BY DEF BuildsInv, ProbeHolds
<1> DEFINE d == at'[g]
<1>0. g \in Actors /\ ProbeHolds(g) /\ RunStep(g) /\ PastActor(g)
  BY RunSteps DEF BuildsInv, Past, Actors
<1>1. GoesOn(g) /\ started'[g] = started[g] /\ started[g] \in Nat /\ now \in Nat /\ started[g] <= now
  BY <1>0, TimeIsNat DEF RunStep, EndsRun, BeginsRun, GoesOn, PastActor
<1>2. Stays(g) \/ \E c \in Corpora : ProbeBuild(g, c)
  BY <1>0, PlaceSteps DEF PlaceMove
<1>3. PICK s \in Searches : pc'[s] \in {"building", "swapped"} /\ at'[s] = d
  BY DEF Building
<1>4. (pc[s] \in {"building", "swapped"} /\ at[s] = d) \/ \E c \in Corpora : StartBuild(s, c)
  BY <1>3, PlaceSteps DEF PlaceMove, Actors
<1>5. CASE \E c \in Corpora : StartBuild(s, c)
  <2>1. PICK c \in Corpora : StartBuild(s, c)
    BY <1>5
  <2>2. c = d
    BY <1>3, <2>1 DEF StartBuild, Work, Typed, PlaceTyped, Actors
  <2>3. corpora'[d].build = now
    BY <2>1, <2>2, StartBuildWrites
  <2> QED
    BY <1>1, <2>3
<1>6. CASE pc[s] \in {"building", "swapped"} /\ at[s] = d
  <2>1. Building(d)
    BY <1>6 DEF Building
  <2>2. CASE \E c \in Corpora : ProbeBuild(g, c)
    <3>1. PICK c \in Corpora : ProbeBuild(g, c)
      BY <2>2
    <3>2. c = d /\ ~Building(c)
      BY <3>1 DEF ProbeBuild, Goto, Typed, PlaceTyped, Actors
    <3> QED
      BY <2>1, <3>2
  <2>3. CASE Stays(g)
    <3>1. pc[g] = "probed" /\ at[g] = d /\ d \in Corpora
      BY <1>0, <2>3 DEF Stays, Typed, PlaceTyped, OnOne
    <3>2. corpora[d].build = Never \/ started[g] <= corpora[d].build
      BY <1>0, <2>1, <3>1 DEF ProbeHolds
    <3>3. corpora'[d].build \in {corpora[d].build, now, Never}
      <4>1. CASE Kept
        BY <4>1 DEF Kept
      <4>2. CASE Written
        <5>1. PICK c \in Corpora : Only(c) /\ WritesAt(c)
          BY <4>2, WrittenAt DEF WritesOne
        <5>2. CASE d # c
          BY <3>1, <5>1, <5>2 DEF Only
        <5>3. CASE d = c
          BY <5>1, <5>3, SwapWrites, PublishWrites, EndReadWrites, StartBuildWrites, SweepWrites,
             LedgerWrites,
             EvictWrites DEF WritesAt, NoCorpus
        <5> QED
          BY <5>2, <5>3
      <4> QED
        BY <4>1, <4>2, DiskSteps
    <3> QED
      BY <1>1, <3>2, <3>3
  <2> QED
    BY <1>2, <2>2, <2>3
<1> QED
  BY <1>4, <1>5, <1>6

\* So only the swap of the build takes its directory, or an eviction that began before
\* the last use.
LEMMA SweepsOld ==
    ASSUME Typed, Past, BuildsInv, TakenInv, [Next]_vars, NEW d \in Corpora,
           corpora[d].build # Never, corpora'[d].build = Never, Building(d)
    PROVE  \/ \E s \in Searches : at[s] = d /\ SwapFamily(s)
           \/ \E a \in Actors : Evict(a, d) /\ started[a] <= corpora[d].used
<1>0. Written
  BY DiskSteps DEF Kept
<1>1. PICK c \in Corpora : Only(c) /\ WritesAt(c)
  BY <1>0, WrittenAt DEF WritesOne
<1>2. c = d
  BY <1>1 DEF Only
<1>n. now # Never
  BY TimeIsNat DEF Never, Old
<1>3. ASSUME NEW a \in Actors, Evict(a, d) PROVE started[a] <= corpora[d].used
  BY <1>3 DEF Evict, TakenInv, TakenHolds, Takes
<1>4. ASSUME NEW g \in Collections, at[g] = d, SweepBuildDir(g) PROVE FALSE
  <2>1. ProbeHolds(g) /\ pc[g] = "probed" /\ g \in Actors
    BY <1>4 DEF BuildsInv, SweepBuildDir, Actors
  <2>2. started[g] <= corpora[d].build
    BY <1>4, <2>1 DEF ProbeHolds
  <2>3. corpora[d].build + MaxAge < started[g]
    BY <1>4, SweepWrites
  <2>4. corpora[d].build \in Nat /\ started[g] \in Nat /\ MaxAge \in Nat
    BY <2>1, TimeIsNat, ConstantsAssumption
  <2> QED
    BY <2>2, <2>3, <2>4
<1> QED
  BY <1>1, <1>2, <1>n, <1>3, <1>4, PublishWrites, EndReadWrites, StartBuildWrites, LedgerWrites
     DEF WritesAt

-----------------------------------------------------------------------------
(* The ledgers tell the sizes.                                             *)

Swapping(d) == \E s \in Searches : pc[s] = "swapped" /\ at[s] = d

\* A ledger that nobody measures again.
LedgerHolds(d) ==
    corpora[d].there =>
        \/ d \in overlap \/ NeedsMeasure(d) \/ corpora[d].published = Never \/ Swapping(d)
        \/ corpora[d].size = corpora[d].bytes

\* A measure that was overtaken is known to be so.
MeasureHolds(b, d) ==
    pc[b] = "write" /\ at[b] = d /\ corpora[d].there =>
        \/ d \in overlap \/ corpora[d].published = Never \/ Swapping(d)
        \/ measured[b] = corpora[d].bytes

LedgerInv == \A d \in Corpora : LedgerHolds(d) /\ \A b \in Actors : MeasureHolds(b, d)

\* A swap goes on, or its corpus needs a measure, or it is known to be cut.
LEMMA SwapEnds ==
    ASSUME Typed, Past, [Next]_vars, NEW d \in Corpora, Swapping(d)
    PROVE  Swapping(d)' \/ d \in overlap' \/ \E s \in Searches : at[s] = d /\ PublishState(s)
<1>1. PICK s \in Searches : pc[s] = "swapped" /\ at[s] = d
  BY DEF Swapping
<1>2. Stays(s) \/ PublishState(s) \/ Crash(s)
  BY <1>1, PlaceSteps DEF PlaceMove, Actors
<1>3. CASE Stays(s)
  BY <1>1, <1>3 DEF Stays, Swapping
<1>4. CASE Crash(s)
  BY <1>1, <1>4 DEF Crash
<1> QED
  BY <1>1, <1>2, <1>3, <1>4

\* What a publish and a ledger leave to know of their corpus.
LEMMA PublishNeedsMeasure ==
    ASSUME Typed, Past, NEW s \in Searches, NEW d \in Corpora, at[s] = d, PublishState(s)
    PROVE  corpora'[d].there => NeedsMeasure(d)'
<1>2. corpora[d].sized <= now /\ corpora[d].sized \in Nat /\ now \in Nat /\ now > Old
  BY TimeIsNat DEF Past, PastDir
<1> DEFINE c == corpora'[d]
<1>3. c.published = now /\ c.sized = corpora[d].sized
  BY PublishWrites
<1>4. c.published # Never /\ (c.sized = Never \/ c.sized <= c.published)
  BY <1>2, <1>3 DEF Never, Old
<1> HIDE DEF c
<1>5. c.there => c.there /\ ((c.published # Never /\ (c.sized = Never \/ c.sized <= c.published)) \/ c.sized = Never)
  BY <1>4
<1> QED
  BY <1>5 DEF c, NeedsMeasure, LedgerStale

\* Actors that measured d stay known when the corpus is published or evicted, or
\* when a ledger tells its bytes.
LEMMA PendingTells ==
    \A a, d : \A b \in Actors \ {a} :
        pc[b] = "write" /\ at[b] = d /\ measured[b] # corpora[d].bytes => d \in Pending(a, d)
BY DEF Pending

\* A ledger goes on telling the bytes.
LEMMA LedgerHoldsStep ==
    ASSUME Typed, Past, LedgerInv, [Next]_vars, NEW d \in Corpora
    PROVE  LedgerHolds(d)'
<1> SUFFICES ASSUME corpora'[d].there, d \notin overlap', ~NeedsMeasure(d)',
                    corpora'[d].published # Never, ~Swapping(d)'
             PROVE  corpora'[d].size = corpora'[d].bytes
  BY DEF LedgerHolds
<1>p. ~\E s \in Searches : at[s] = d /\ PublishState(s)
  BY PublishNeedsMeasure
<1>s. ~Swapping(d)
  BY <1>p, SwapEnds
<1>l. LedgerHolds(d)
  BY DEF LedgerInv
<1>1. CASE Kept
  BY <1>1, <1>s, <1>l DEF Kept, LedgerHolds, NeedsMeasure, LedgerStale
<1>2. CASE Written
  <2>1. PICK c \in Corpora : Only(c) /\ WritesAt(c)
    BY <1>2, WrittenAt DEF WritesOne
  <2>2. CASE c # d
    <3>1. corpora'[d] = corpora[d]
      BY <2>1, <2>2 DEF Only
    <3>2. d \in overlap => d \in overlap'
      BY <2>1, <2>2 DEF WritesAt, SwapFamily, PublishState, EndRead, StartBuild, SweepBuildDir,
         WriteLedger, Evict
    <3> QED
      BY <3>1, <3>2, <1>s, <1>l DEF LedgerHolds, NeedsMeasure, LedgerStale
  <2>3. CASE c = d
    <3>1. CASE \E s \in Searches : at[s] = d /\ SwapFamily(s)
      <4>1. PICK s \in Searches : at[s] = d /\ SwapFamily(s)
        BY <3>1
      <4>2. pc'[s] = "swapped" /\ at'[s] = d
        BY <4>1 DEF SwapFamily, Goto, Typed, PlaceTyped, Actors
      <4> QED
        BY <4>2 DEF Swapping
    <3>2. CASE \/ \E s \in Searches : (at[s] = d /\ EndRead(s)) \/ StartBuild(s, d)
               \/ \E g \in Collections : at[g] = d /\ SweepBuildDir(g)
      <4>1. SameLedger(d) /\ corpora[d].there
        BY <3>2, EndReadWrites, StartBuildWrites, SweepWrites
      <4>2. overlap' = overlap
        BY <3>2 DEF EndRead, StartBuild, SweepBuildDir
      <4> QED
        BY <4>1, <4>2, <1>s, <1>l DEF SameLedger, LedgerHolds, NeedsMeasure, LedgerStale
    <3>3. CASE \E a \in Actors : at[a] = d /\ WriteLedger(a)
      <4>1. PICK a \in Actors : at[a] = d /\ WriteLedger(a)
        BY <3>3
      <4>2. /\ corpora[d].there /\ corpora'[d].size = measured[a] /\ corpora'[d].bytes = corpora[d].bytes
            /\ corpora'[d].published = corpora[d].published
        BY <4>1, LedgerWrites
      <4>3. CASE measured[a] = corpora[d].bytes
        BY <4>2, <4>3
      <4>4. CASE measured[a] # corpora[d].bytes
        <5>1. overlap' = overlap /\ pc[a] = "write"
          BY <4>1, <4>4 DEF WriteLedger
        <5>2. MeasureHolds(a, d)
          BY DEF LedgerInv
        <5> QED
          BY <4>1, <4>2, <4>4, <5>1, <5>2, <1>s DEF MeasureHolds
      <4> QED
        BY <4>3, <4>4
    <3>4. CASE \E a \in Actors : Evict(a, d)
      BY <3>4, EvictWrites DEF NoCorpus
    <3> QED
      BY <2>1, <2>3, <1>p, <3>1, <3>2, <3>3, <3>4 DEF WritesAt
  <2> QED
    BY <2>2, <2>3
<1> QED
  BY <1>1, <1>2, DiskSteps

\* A measure goes on telling them, until it is known to be overtaken.
LEMMA MeasureHoldsStep ==
    ASSUME Typed, Past, LedgerInv, [Next]_vars, NEW b \in Actors, NEW d \in Corpora
    PROVE  MeasureHolds(b, d)'
<1> SUFFICES ASSUME pc'[b] = "write", at'[b] = d, corpora'[d].there, d \notin overlap',
                    corpora'[d].published # Never, ~Swapping(d)'
             PROVE  measured'[b] = corpora'[d].bytes
  BY DEF MeasureHolds
<1>1. Stays(b) \/ \E c \in Corpora : Measure(b, c)
  BY PlaceSteps DEF PlaceMove
<1>2. CASE \E c \in Corpora : Measure(b, c)
  BY <1>2 DEF Measure, diskVars, Goto, Typed, PlaceTyped, ActorsTyped
<1>3. CASE Stays(b)
  <2>0. pc[b] = "write" /\ at[b] = d /\ measured'[b] = measured[b]
    BY <1>3 DEF Stays
  <2>m. MeasureHolds(b, d)
    BY DEF LedgerInv
  <2>1. ASSUME NEW s \in Searches, at[s] = d, PublishState(s) PROVE measured'[b] = corpora'[d].bytes
    <3>1. b # s
      BY <2>0, <2>1 DEF PublishState
    <3>2. d \notin Pending(s, d)
      BY <2>1 DEF PublishState
    <3>3. corpora'[d].bytes = corpora[d].bytes
      BY <2>1, PublishWrites
    <3> QED
      BY <2>0, <3>1, <3>2, <3>3, PendingTells
  <2>2. CASE ~\E s \in Searches : at[s] = d /\ PublishState(s)
    <3>s. ~Swapping(d)
      BY <2>2, SwapEnds
    <3>1. CASE Kept
      BY <2>0, <2>m, <3>s, <3>1 DEF Kept, MeasureHolds
    <3>2. CASE Written
      <4>1. PICK c \in Corpora : Only(c) /\ WritesAt(c)
        BY <3>2, WrittenAt DEF WritesOne
      <4>2. CASE c # d
        <5>1. corpora'[d] = corpora[d]
          BY <4>1, <4>2 DEF Only
        <5>2. d \in overlap => d \in overlap'
          BY <4>1, <4>2 DEF WritesAt, SwapFamily, PublishState, EndRead, StartBuild, SweepBuildDir,
             WriteLedger, Evict
        <5> QED
          BY <2>0, <2>m, <3>s, <5>1, <5>2 DEF MeasureHolds
      <4>3. CASE c = d
        <5>1. CASE \E s \in Searches : at[s] = d /\ SwapFamily(s)
          <6>1. PICK s \in Searches : at[s] = d /\ SwapFamily(s)
            BY <5>1
          <6>2. pc'[s] = "swapped" /\ at'[s] = d
            BY <6>1 DEF SwapFamily, Goto, Typed, PlaceTyped, Actors
          <6> QED
            BY <6>2 DEF Swapping
        <5>2. CASE \/ \E s \in Searches : (at[s] = d /\ EndRead(s)) \/ StartBuild(s, d)
                   \/ \E g \in Collections : at[g] = d /\ SweepBuildDir(g)
          <6>1. SameLedger(d) /\ corpora[d].there
            BY <5>2, EndReadWrites, StartBuildWrites, SweepWrites
          <6>2. overlap' = overlap
            BY <5>2 DEF EndRead, StartBuild, SweepBuildDir
          <6> QED
            BY <2>0, <2>m, <3>s, <6>1, <6>2 DEF SameLedger, MeasureHolds
        <5>3. CASE \E a \in Actors : at[a] = d /\ WriteLedger(a)
          <6>1. PICK a \in Actors : at[a] = d /\ WriteLedger(a)
            BY <5>3
          <6>2. /\ corpora[d].there /\ corpora'[d].bytes = corpora[d].bytes
                /\ corpora'[d].published = corpora[d].published
            BY <6>1, LedgerWrites
          <6>3. b # a
            BY <6>1 DEF WriteLedger, Goto, Typed, PlaceTyped
          <6>4. CASE measured[a] = corpora[d].bytes
            <7>1. d \notin Pending(a, d)
              BY <6>1, <6>4 DEF WriteLedger
            <7> QED
              BY <2>0, <6>2, <6>3, <7>1, PendingTells
          <6>5. CASE measured[a] # corpora[d].bytes
            <7>1. overlap' = overlap
              BY <6>1, <6>5 DEF WriteLedger
            <7> QED
              BY <2>0, <2>m, <3>s, <6>2, <7>1 DEF MeasureHolds
          <6> QED
            BY <6>4, <6>5
        <5>4. CASE \E a \in Actors : Evict(a, d)
          BY <5>4, EvictWrites DEF NoCorpus
        <5> QED
          BY <4>1, <4>3, <2>2, <5>1, <5>2, <5>3, <5>4 DEF WritesAt
      <4> QED
        BY <4>2, <4>3
    <3> QED
      BY <3>1, <3>2, DiskSteps
  <2> QED
    BY <2>1, <2>2
<1> QED
  BY <1>1, <1>2, <1>3

-----------------------------------------------------------------------------
(* gc.lock and .trash.                                                     *)

OneCollects ==
    \A g, h \in Collections : pc[g] \in InCollection /\ pc[h] \in InCollection => g = h

Removing == {a \in Actors : pc[a] = "remove"}

\* .trash has at least what is being removed.
TrashHolds == trash \in Nat /\ Total(measured, Removing) <= trash

GcMove(g) == pc'[g] \in InCollection => pc[g] \in InCollection \/ TakeGcLock(g)

\* A step that enters no collection.
LEMMA GcStays ==
    \A g : pc'[g] = pc[g] \/ pc'[g] \notin InCollection \/ pc[g] \in InCollection => GcMove(g)
BY DEF GcMove

\* A collection goes past its gate in TakeGcLock alone.
LEMMA GcSteps == Typed /\ [Next]_vars => (\A h \in Collections : GcMove(h))
<1> SUFFICES ASSUME Typed, [Next]_vars PROVE (\A h \in Collections : GcMove(h))
  OBVIOUS
<1> USE ConstantsAssumption DEF diskVars, listVars, actorVars, histVars, Goto, Never, Actors, Alone
<1>t. ASSUME Tick PROVE (\A h \in Collections : GcMove(h))
  BY <1>t, GcStays DEF Tick, End, Typed, PlaceTyped, InSearch, InEviction, InCollection
<1>so. ASSUME NEW s \in Searches,
             \/ CheckBudget(s) \/ SwapFamily(s) \/ PublishState(s) \/ EndRead(s) \/ Enforce(s)
             \/ EndRecord(s) \/ LoseBuild(s)
             \/ \E d \in Corpora : StartBuild(s, d)
             \/ \E d \in Corpora : StartRead(s, d)
             \/ \E d \in Corpora : SkipNode(s, d)
      PROVE  (\A h \in Collections : GcMove(h))
  BY <1>so, CheckBudgetGoes, GcStays, EnforceGoes DEF CheckBudget, PassBudget, End, Typed,
     PlaceTyped, InSearch, InEviction, InCollection, SwapFamily, PublishState, Work, EndRead,
     Touch, Enforce, EndRecord, LoseBuild, StartBuild, StartRead, SkipNode
<1>go. ASSUME NEW g \in Collections,
             \/ Throttled(g) \/ SweepBuildDir(g) \/ ListArtifacts(g) \/ Stamp(g) \/ TimeOut(g)
             \/ \E d \in Corpora : ProbeBuild(g, d)
             \/ \E r \in Artifacts : Mark(g, r)
             \/ \E r \in Artifacts : Spare(g, r)
             \/ \E r \in Artifacts : RemoveMarked(g, r)
      PROVE  (\A h \in Collections : GcMove(h))
  BY <1>go, GcStays DEF Throttled, End, Typed, PlaceTyped, InSearch, InEviction, InCollection,
     SweepBuildDir, ListArtifacts, Stamp, TimeOut, Fault, ProbeBuild, Mark, Retire, Spare,
     RemoveMarked
<1>g2. ASSUME NEW g \in Collections, TakeGcLock(g) PROVE (\A h \in Collections : GcMove(h))
  <2>1. \A h \in Actors \ {g} : pc'[h] = pc[h]
    BY <1>g2 DEF TakeGcLock, End, Typed, PlaceTyped
  <2>2. GcMove(g)
    BY <1>g2 DEF GcMove
  <2> QED
    BY <2>1, <2>2, GcStays
<1>ao. ASSUME NEW a \in Actors,
             \/ Begin(a) \/ Crash(a) \/ WriteLedger(a) \/ List(a) \/ Plan(a)
             \/ RemoveEvicted(a) \/ EvictUnits(a) \/ FindUnused(a)
             \/ \E d \in Corpora : ReadLedger(a, d)
             \/ \E d \in Corpora : Measure(a, d)
             \/ \E d \in Corpora : KeepCorpus(a, d)
             \/ \E d \in Corpora : TakeCorpus(a, d)
      PROVE  (\A h \in Collections : GcMove(h))
  BY ZenonT(60), <1>ao, GcStays, PlanGoes DEF Begin, End, Typed, PlaceTyped, InSearch, InEviction,
     InCollection, Crash, Fault, WriteLedger, List, Plan, RemoveEvicted, NextCorpus, EvictUnits, FindUnused,
     ReadLedger, Measure, KeepCorpus, TakeCorpus, InEvict
<1>a4. ASSUME NEW a \in Actors, DrainTrash(a) PROVE (\A h \in Collections : GcMove(h))
  <2>1. \A h \in Actors \ {a} : pc'[h] = pc[h]
    BY <1>a4 DEF DrainTrash, End, Typed, PlaceTyped
  <2>2. pc[a] \in InCollection \/ pc'[a] \notin InCollection
    BY <1>a4 DEF DrainTrash, End, Typed, PlaceTyped, InSearch, InEviction, InCollection
  <2> QED
    BY <2>1, <2>2, GcStays
<1>a12. ASSUME NEW a \in Actors, NEW d \in Corpora, Evict(a, d)
        PROVE (\A h \in Collections : GcMove(h))
  <2> SUFFICES ASSUME NEW h \in Collections, pc'[h] \in InCollection PROVE pc[h] \in InCollection
    BY DEF GcMove
  <2>1. CASE h = a
    BY <1>a12, <2>1 DEF Evict, InCollection, InEviction
  <2>2. CASE h # a
    BY <1>a12, <2>2 DEF Evict, InCollection, InEviction
  <2> QED
    BY <2>1, <2>2
<1>r. ASSUME NEW r \in Artifacts, UseArtifact(r) PROVE (\A h \in Collections : GcMove(h))
  BY <1>r, GcStays DEF UseArtifact, End, Typed, PlaceTyped, InSearch, InEviction, InCollection
<1>u. CASE UNCHANGED vars
  BY <1>u, GcStays DEF vars, End, Typed, PlaceTyped, InSearch, InEviction, InCollection
<1> QED
  BY <1>t, <1>so, <1>go, <1>g2, <1>ao, <1>a4, <1>a12, <1>r, <1>u DEF Next, Search, Collect, Reclaim

\* gc.lock is taken when nobody has it.
LEMMA OneCollectsStep == Typed /\ OneCollects /\ [Next]_vars => OneCollects'
<1> SUFFICES ASSUME Typed, OneCollects, [Next]_vars, NEW g \in Collections, NEW h \in Collections,
                    pc'[g] \in InCollection, pc'[h] \in InCollection
             PROVE  g = h
  BY DEF OneCollects
<1>1. /\ pc[g] \in InCollection \/ TakeGcLock(g)
      /\ pc[h] \in InCollection \/ TakeGcLock(h)
  BY GcSteps DEF GcMove
<1>2. ASSUME NEW k \in Collections, NEW m \in Collections, TakeGcLock(k), k # m,
             pc'[k] \in InCollection, pc'[m] \in InCollection
      PROVE  FALSE
  <2>1. ~\E n \in Collections : pc[n] \in InCollection
    BY <1>2 DEF TakeGcLock, End, Goto, Typed, PlaceTyped, Actors, InCollection, InEviction
  <2>2. pc'[m] = pc[m]
    BY <1>2, <2>1 DEF TakeGcLock, Goto, Typed, PlaceTyped, Actors
  <2> QED
    BY <1>2, <2>1, <2>2
<1> QED
  BY <1>1, <1>2 DEF OneCollects

\* The steps that change what .trash has.
TrashStep == \E a \in Actors : DrainTrash(a) \/ RemoveEvicted(a) \/ \E d \in Corpora : Evict(a, d)

\* Every other step leaves it.
LEMMA TrashSteps == Typed /\ [Next]_vars => (TrashStep \/ trash' = trash)
<1> SUFFICES ASSUME Typed, [Next]_vars PROVE (TrashStep \/ trash' = trash)
  OBVIOUS
<1> USE ConstantsAssumption DEF diskVars, listVars, actorVars, histVars, Goto, Never, Actors, Alone
<1>t. ASSUME Tick PROVE (TrashStep \/ trash' = trash)
  BY <1>t DEF Tick, Work, Touch
<1>so. ASSUME NEW s \in Searches,
             \/ CheckBudget(s) \/ SwapFamily(s) \/ PublishState(s) \/ EndRead(s) \/ Enforce(s)
             \/ EndRecord(s) \/ LoseBuild(s)
             \/ \E d \in Corpora : StartBuild(s, d)
             \/ \E d \in Corpora : StartRead(s, d)
             \/ \E d \in Corpora : SkipNode(s, d)
      PROVE  (TrashStep \/ trash' = trash)
  BY <1>so, CheckBudgetGoes, EnforceGoes DEF CheckBudget, PassBudget, Work, Touch, SwapFamily,
     PublishState, EndRead, Enforce, EndRecord, LoseBuild, StartBuild, StartRead, SkipNode
<1>go. ASSUME NEW g \in Collections,
             \/ Throttled(g) \/ TakeGcLock(g) \/ SweepBuildDir(g) \/ ListArtifacts(g) \/ Stamp(g)
             \/ TimeOut(g)
             \/ \E d \in Corpora : ProbeBuild(g, d)
             \/ \E r \in Artifacts : Mark(g, r)
             \/ \E r \in Artifacts : Spare(g, r)
             \/ \E r \in Artifacts : RemoveMarked(g, r)
      PROVE  (TrashStep \/ trash' = trash)
  BY <1>go DEF Throttled, Work, Touch, TakeGcLock, InCollection, InEviction, SweepBuildDir,
     ListArtifacts, Stamp, TimeOut, Fault, ProbeBuild, Mark, Retire, Spare, RemoveMarked
<1>ao. ASSUME NEW a \in Actors,
             \/ Begin(a) \/ Crash(a) \/ WriteLedger(a) \/ List(a) \/ Plan(a)
             \/ EvictUnits(a) \/ FindUnused(a)
             \/ \E d \in Corpora : ReadLedger(a, d)
             \/ \E d \in Corpora : Measure(a, d)
             \/ \E d \in Corpora : KeepCorpus(a, d)
             \/ \E d \in Corpora : TakeCorpus(a, d)
      PROVE  (TrashStep \/ trash' = trash)
  BY <1>ao, PlanGoes DEF Begin, Work, Touch, Crash, Fault, WriteLedger, List, Plan, EvictUnits, FindUnused,
     ReadLedger, Measure, KeepCorpus, TakeCorpus, InEvict, NextCorpus
<1>a4. ASSUME NEW a \in Actors, DrainTrash(a) PROVE (TrashStep \/ trash' = trash)
  BY <1>a4 DEF TrashStep
<1>a7. ASSUME NEW a \in Actors, RemoveEvicted(a) PROVE (TrashStep \/ trash' = trash)
  BY <1>a7 DEF TrashStep
<1>a12. ASSUME NEW a \in Actors, NEW d \in Corpora, Evict(a, d) PROVE (TrashStep \/ trash' = trash)
  BY <1>a12 DEF TrashStep
<1>r. ASSUME NEW r \in Artifacts, UseArtifact(r) PROVE (TrashStep \/ trash' = trash)
  BY <1>r DEF UseArtifact, Work, Touch
<1>u. CASE UNCHANGED vars
  BY <1>u DEF vars, Work, Touch
<1> QED
  BY <1>t, <1>so, <1>go, <1>ao, <1>a4, <1>a7, <1>a12, <1>r, <1>u DEF Next, Search, Collect, Reclaim

\* Sizes are numbers.
LEMMA BytesAreNumbers == \A b \in Bytes \cup {0} : b \in Nat
BY ConstantsAssumption

\* What is being removed is finite, and so is its size.
LEMMA MeasuredTyped ==
    Typed => /\ IsFiniteSet(Removing) /\ Numbers(measured, Removing)
             /\ \A a \in Actors : measured[a] \in Nat
             /\ Total(measured, Removing) \in Nat
<1> SUFFICES ASSUME Typed
             PROVE  /\ IsFiniteSet(Removing) /\ Numbers(measured, Removing)
                    /\ \A a \in Actors : measured[a] \in Nat
                    /\ Total(measured, Removing) \in Nat
  OBVIOUS
<1>1. IsFiniteSet(Removing)
  BY ConstantsAssumption, FS_Subset DEF Removing
<1>2. \A a \in Actors : measured[a] \in Nat
  BY BytesAreNumbers DEF Typed, ActorsTyped
<1>3. Numbers(measured, Removing)
  BY <1>2 DEF Numbers, Removing
<1> QED
  BY <1>1, <1>2, <1>3, TotalType

\* What goes on being removed was measured before, and a part of it is not more.
LEMMA PartOfRemoving ==
    ASSUME Typed, NEW R \in SUBSET Removing, NEW e, \A b \in R : e[b] = measured[b]
    PROVE  Total(e, R) \in Nat /\ Total(e, R) <= Total(measured, Removing)
<1>1. IsFiniteSet(Removing) /\ Numbers(measured, Removing)
  BY MeasuredTyped
<1>2. IsFiniteSet(R) /\ Numbers(measured, R)
  BY <1>1, FS_Subset DEF Numbers
<1>3. Total(measured, R) = Total(e, R)
  BY <1>2, TotalOfSame
<1>4. Total(measured, R) \in Nat
  BY <1>2, TotalType
<1>5. Total(measured, R) <= Total(measured, Removing)
  BY <1>1, TotalOfPart
<1> QED
  BY <1>3, <1>4, <1>5

\* An eviction adds its bytes, a removal takes its own, and a drain leaves those of others.
LEMMA TrashHoldsStep == Typed /\ Typed' /\ TrashHolds /\ [Next]_vars => TrashHolds'
<1> SUFFICES ASSUME Typed, Typed', TrashHolds, [Next]_vars PROVE TrashHolds'
  OBVIOUS
<1> DEFINE R == Removing'
           e == measured'
           T == Total(measured, Removing)
<1>0. T \in Nat /\ trash \in Nat /\ T <= trash /\ Removing \subseteq Actors
  BY MeasuredTyped DEF TrashHolds, Removing
<1>r. \A b \in R : b \in Actors /\ (Stays(b) \/ \E d \in Corpora : Evict(b, d))
  BY PlaceSteps DEF PlaceMove, Removing
<1>s. \A b : Stays(b) /\ b \in R => b \in Removing /\ e[b] = measured[b]
  BY DEF Stays, Removing
<1>t. trash' \in Nat /\ Total(e, R) <= trash' => TrashHolds'
  BY DEF TrashHolds
<1> HIDE DEF R, e
<1>1. ASSUME NEW a \in Actors, NEW d \in Corpora, Evict(a, d) PROVE TrashHolds'
  <2>1. /\ trash' = trash + corpora[d].bytes /\ e = [measured EXCEPT ![a] = corpora[d].bytes]
        /\ pc[a] = "rename" /\ pc'[a] = "remove"
        /\ \A b \in Actors \ {a} : pc'[b] = "remove" => pc[b] = "remove"
    BY <1>1 DEF Evict, e
  <2>2. a \in R /\ R \ {a} \in SUBSET Removing /\ R \subseteq Actors
    BY <2>1 DEF R, Removing, Typed, PlaceTyped
  <2>8. corpora[d].bytes \in Nat
    BY BytesAreNumbers, FieldWritten DEF Typed, DiskTyped
  <2>3. e[a] = corpora[d].bytes /\ \A b \in R \ {a} : e[b] = measured[b]
    BY <2>1, <2>2 DEF Typed, ActorsTyped, Removing
  <2>4. Total(e, R \ {a}) \in Nat /\ Total(e, R \ {a}) <= T
    BY <2>2, <2>3, PartOfRemoving
  <2>5. IsFiniteSet(R) /\ Numbers(e, R)
    <3>1. IsFiniteSet(R)
      BY <2>2, ConstantsAssumption, FS_Subset
    <3>2. \A b \in Actors : e[b] \in Nat
      BY BytesAreNumbers DEF e, Typed, ActorsTyped
    <3> QED
      BY <2>2, <3>1, <3>2 DEF Numbers
  <2>6. Total(e, R) = e[a] + Total(e, R \ {a})
    BY <2>2, <2>5, TotalSplits
  <2>7. trash' \in Nat /\ Total(e, R) <= trash'
    BY <1>0, <2>1, <2>3, <2>4, <2>6, <2>8
  <2> QED
    BY <2>7, <1>t
<1>2. ASSUME NEW a \in Actors, RemoveEvicted(a) PROVE TrashHolds'
  <2>1. /\ trash' = trash - measured[a] \/ trash' = trash
        /\ a \in Removing /\ a \notin R
    BY <1>2 DEF RemoveEvicted, NextCorpus, Goto, R, Removing, Typed, PlaceTyped
  <2>2. ~\E b \in Actors : \E d \in Corpora : Evict(b, d)
    BY <1>2 DEF RemoveEvicted, NextCorpus, Evict, Goto, Typed, PlaceTyped
  <2>3. R \in SUBSET (Removing \ {a}) /\ \A b \in R : e[b] = measured[b]
    BY <1>r, <1>s, <2>1, <2>2
  <2>4. T = measured[a] + Total(measured, Removing \ {a})
    BY <2>1, MeasuredTyped, TotalSplits
  <2>5. Total(measured, Removing \ {a}) \in Nat /\ measured[a] \in Nat
    BY <2>1, MeasuredTyped, PartOfRemoving DEF Removing
  <2>6. IsFiniteSet(Removing \ {a}) /\ Numbers(measured, Removing \ {a})
    BY MeasuredTyped, FS_Subset DEF Numbers
  <2>7. Total(measured, R) <= Total(measured, Removing \ {a})
    BY <2>3, <2>6, TotalOfPart
  <2>8. IsFiniteSet(R) /\ Numbers(measured, R)
    BY <2>3, <2>6, FS_Subset DEF Numbers
  <2>9. Total(measured, R) = Total(e, R) /\ Total(measured, R) \in Nat
    BY <2>3, <2>8, TotalOfSame, TotalType
  <2>10. trash' \in Nat /\ Total(e, R) <= trash'
    BY <1>0, <2>1, <2>4, <2>5, <2>7, <2>9
  <2> QED
    BY <2>10, <1>t
<1>3. CASE ~\E a \in Actors : \E d \in Corpora : Evict(a, d)
  <2>1. R \in SUBSET Removing /\ \A b \in R : e[b] = measured[b]
    BY <1>3, <1>r, <1>s
  <2>2. Total(e, R) \in Nat /\ Total(e, R) <= T
    BY <2>1, PartOfRemoving
  <2>3. ASSUME NEW a \in Actors, DrainTrash(a) PROVE TrashHolds'
    <3>1. pc[a] \in {"trash", "drain"}
      BY <2>3 DEF DrainTrash
    <3>2. {b \in Actors \ {a} : pc[b] = "remove"} = Removing
      BY <3>1 DEF Removing
    <3>3. trash' = T
      BY <2>3, <3>2 DEF DrainTrash, Total
    <3> QED
      BY <1>0, <1>t, <2>2, <3>3
  <2>4. CASE trash' = trash
    BY <1>0, <1>t, <2>2, <2>4
  <2> QED
    BY <1>2, <1>3, <2>3, <2>4, TrashSteps DEF TrashStep
<1> QED
  BY <1>1, <1>3

-----------------------------------------------------------------------------
(* The theorems.                                                           *)

Inv ==
    /\ Typed /\ Past /\ UsesInv /\ TakenInv /\ BuildsInv /\ LedgerInv
    /\ OneCollects /\ TrashHolds

\* The first states have the invariant.
LEMMA InvInit == Init => Inv
<1> SUFFICES ASSUME Init PROVE Inv
  OBVIOUS
<1> DEFINE big == Max(Bytes)
           full == [there : {TRUE}, bytes : {big}, published : {Old}, used : {Old}, size : {0},
                    sized : {Never}, build : {Never}]
<1>1. big \in Bytes
  <2>1. \E m \in Bytes : \A n \in Bytes : n <= m
    BY ConstantsAssumption, GreatestNumber
  <2>2. \E m \in Bytes : \A n \in Bytes : m >= n
    BY <2>1, ConstantsAssumption
  <2> QED
    BY <2>2 DEF Max
<1>2. Old \in Times /\ Never \in Times /\ Old + 1 \in Times /\ Old + 1 \in Nat /\ Old + 1 > Old
      /\ 0 \in 0..MaxRuns /\ 0 \in 0..MaxFaults
  BY ConstantsAssumption DEF Times, Old, Never
<1>3. corpora \in [Corpora -> {NoCorpus} \cup full]
  BY DEF Init
<1> HIDE DEF big
<1>4. full \subseteq CorpusDirs
  BY <1>1, <1>2 DEF CorpusDirs
<1>5. \A d \in Corpora : corpora[d] = NoCorpus \/ corpora[d] \in full
  BY <1>3
<1>f. \A c \in {NoCorpus} \cup full :
         /\ c.published \in {Never, Old} /\ c.used \in {Never, Old} /\ c.sized = Never /\ c.build = Never
  <2>1. ASSUME NEW c \in full
        PROVE  c.published = Old /\ c.used = Old /\ c.sized = Never /\ c.build = Never
    OBVIOUS
  <2>2. NoCorpus.published = Never /\ NoCorpus.used = Never /\ NoCorpus.sized = Never /\ NoCorpus.build = Never
    BY DEF NoCorpus
  <2> HIDE DEF full
  <2> QED
    BY <2>1, <2>2
<1> HIDE DEF full
<1>6. DiskTyped
  <2>1. corpora \in [Corpora -> CorpusDirs]
    BY <1>3, <1>4, NothingTyped
  <2> QED
    BY <2>1, <1>2 DEF Init, DiskTyped
<1>7. PlaceTyped
  BY ConstantsAssumption DEF Init, PlaceTyped, Steps, OnOne, Actors
<1>8. ActorsTyped
  BY <1>2, NothingTyped DEF Init, ActorsTyped
<1>9. HistTyped
  BY <1>2 DEF Init, HistTyped
<1>10. \A d \in Corpora : PastDir(d)
  BY <1>2, <1>5, <1>f DEF PastDir, Init, Old, Never
<1>11. \A a \in Actors : PastActor(a)
  BY <1>2 DEF Init, PastActor, NotListed, Old, Never
<1>12. UsesInv
  BY DEF Init, UsesInv, UseIsTold, PlanIsOld, Evicting
<1>13. BuildsInv /\ OneCollects /\ TakenInv
  BY DEF Init, BuildsInv, ProbeHolds, OneCollects, TakenInv, TakenHolds, Takes, Actors, InCollection,
     InEviction
<1>14. LedgerInv
  <2>1. ASSUME NEW d \in Corpora PROVE LedgerHolds(d)
    BY <1>5, <1>f DEF LedgerHolds, NeedsMeasure
  <2>2. ASSUME NEW d \in Corpora, NEW b \in Actors PROVE MeasureHolds(b, d)
    BY DEF Init, MeasureHolds
  <2> QED
    BY <2>1, <2>2 DEF LedgerInv
<1>15. TrashHolds
  <2>1. Removing = {} /\ trash = 1
    BY DEF Init, Removing
  <2>2. Total(measured, {}) = 0
    BY TotalOfNone
  <2> QED
    BY <2>1, <2>2 DEF TrashHolds
<1> QED
  BY <1>6, <1>7, <1>8, <1>9, <1>10, <1>11, <1>12, <1>13, <1>14, <1>15 DEF Inv, Typed, Past

\* Each step keeps it.
LEMMA InvStep == Inv /\ [Next]_vars => Inv'
<1> SUFFICES ASSUME Inv, [Next]_vars PROVE Inv'
  OBVIOUS
<1> USE DEF Inv
<1>1. Typed'
  BY TypedStep
<1>2. Past' /\ UsesInv' /\ TakenInv' /\ BuildsInv' /\ OneCollects'
  BY PastStep, UsesStep, TakenStep, BuildsStep, OneCollectsStep
<1>3. LedgerInv'
  <2>1. \A d \in Corpora : LedgerHolds(d)'
    BY LedgerHoldsStep
  <2>2. \A d \in Corpora : \A b \in Actors : MeasureHolds(b, d)'
    BY MeasureHoldsStep
  <2> QED
    BY <2>1, <2>2 DEF LedgerInv
<1>4. TrashHolds'
  BY <1>1, TrashHoldsStep
<1> QED
  BY <1>1, <1>2, <1>3, <1>4

\* In every behaviour.
LEMMA InvAlways == Spec => []Inv
BY InvInit, InvStep, PTL DEF Spec

\* The types, one collection at a time under gc.lock, and bytes in .trash for all
\* that is being removed.
THEOREM TypeCorrect == Spec => []TypeOK
<1>1. Inv => TypeOK
  <2> SUFFICES ASSUME Inv PROVE TypeOK
    OBVIOUS
  <2>1. Cardinality({a \in Collections : pc[a] \in InCollection}) <= 1
    <3> DEFINE S == {a \in Collections : pc[a] \in InCollection}
    <3>1. CASE S = {}
      BY <3>1, FS_EmptySet
    <3>2. CASE S # {}
      <4>1. PICK g \in S : TRUE
        BY <3>2
      <4>2. S = {g}
        BY <4>1 DEF Inv, OneCollects
      <4>3. Cardinality({g}) = 1
        BY FS_Singleton
      <4> QED
        BY <4>2, <4>3
    <3> QED
      BY <3>1, <3>2
  <2>2. ASSUME NEW a \in Actors, pc[a] = "remove" PROVE measured[a] <= trash
    <3>1. a \in Removing
      BY <2>2 DEF Removing
    <3>2. Total(measured, Removing) = measured[a] + Total(measured, Removing \ {a})
      BY <3>1, MeasuredTyped, TotalSplits DEF Inv
    <3>3. Total(measured, Removing \ {a}) \in Nat
      BY PartOfRemoving DEF Inv
    <3> QED
      BY <3>2, <3>3, MeasuredTyped DEF Inv, TrashHolds
  <2> QED
    BY <2>1, <2>2 DEF Inv, Typed, DiskTyped, PlaceTyped, ActorsTyped, HistTyped, TrashHolds, TypeOK
<1> QED
  BY <1>1, InvAlways, PTL

\* cache_budget.go, corpusSize: a ledger that nobody measures again tells the size
\* of its corpus, except after a publish that overlapped the measure.
THEOREM LedgersTell == Spec => []LedgerTells
<1>1. Inv => LedgerTells
  BY DEF Inv, LedgerInv, LedgerHolds, LedgerTells, Present, Swapping
<1> QED
  BY <1>1, InvAlways, PTL

\* cache_budget.go, usedByARunningCommand, and gc.go, evictCorpus: no eviction takes
\* what its search keeps, or what some command used since the evictor began and
\* before it looked at .used for the last time.  (What is used after that look is
\* not spared.)
THEOREM UseSpared == Spec => EvictionSparesUse
<1>1. Inv /\ [Next]_vars =>
         [\A a \in Actors \ All : \A d \in Corpora : Evict(a, d) => d \notin touched[a] \cup Keep(a)]_vars
  BY EvictsOld DEF Inv
<1> QED
  BY <1>1, InvAlways, PTL DEF Spec, EvictionSparesUse

\* gc.go, sweepCorpusOrphans and evictCorpus: a sweep never takes the directory of a
\* build, and an eviction takes none of a build that ran when the evictor began: the
\* corpus that it takes from a build was used since then.
THEOREM BuildsSpared == Spec => SweepSparesBuilds
<1>1. Inv /\ [Next]_vars =>
         [\A d \in Corpora :
             corpora[d].build # Never /\ corpora'[d].build = Never /\ Building(d)
             => \/ \E s \in Searches : at[s] = d /\ SwapFamily(s)
                \/ \E a \in Actors : Evict(a, d) /\ started[a] <= corpora[d].used]_vars
  BY SweepsOld DEF Inv
<1> QED
  BY <1>1, InvAlways, PTL DEF Spec, SweepSparesBuilds

=============================================================================
