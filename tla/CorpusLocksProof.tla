-------------------------- MODULE CorpusLocksProof --------------------------
(***************************************************************************)
(* Theorems about CorpusLocks, for any number of commands, nodes and       *)
(* evictors.  The proofs follow one line:                                  *)
(*   1. TypeCorrect, the types;                                            *)
(*   2. LocksHold, the locks that each step relies on are held, and the    *)
(*      held locks are ones that flock grants;                             *)
(*   3. OneIncarnation: with no evictor a node has one directory, so the   *)
(*      exclusion per incarnation becomes one per node;                    *)
(*   4. EvictInv: with one evictor, a swap has the directory in place, and *)
(*      the sweep that could take it away holds the same lock;             *)
(*   5. the shard family: with no evictor, a marker, a mixed family and a  *)
(*      manifest change only under the locks of 2, so a builder finds its  *)
(*      repair done (RepairedFirst), a reader finds no mixed family        *)
(*      (SwapAlone), and a repair of damage knows its family (MendInv).    *)
(***************************************************************************)
EXTENDS CorpusLocks, TLAPS

\* A task and a sweep are different processes, each with a node.
LEMMA ProcFacts ==
    /\ \A p \in Procs : Node(p) \in Nodes
    /\ Tasks \subseteq Procs /\ Sweeps \subseteq Procs
    /\ \A p \in Tasks : p \notin Sweeps
    /\ \A n \in Nodes : Evictors \X {n} \subseteq Sweeps
BY ConstantsAssumption DEF Procs, Tasks, Sweeps, Node

\* MkdirAll keeps the types of the directory state.
LEMMA MkDirType ==
    ASSUME DirTypeOK, NEW n \in Nodes, MkDir(n)
    PROVE  DirTypeOK' /\ inode'[n] \in Nat
<1>1. CASE present[n]
  BY <1>1 DEF MkDir, DirTypeOK, dirVars
<1>2. CASE ~present[n]
  <2>1. inode' = [inode EXCEPT ![n] = inode[n] + 1] /\ inode[n] \in Nat
    BY <1>2 DEF MkDir, DirTypeOK
  <2>2. inode' \in [Nodes -> Nat]
    BY <2>1 DEF DirTypeOK
  <2>3. idle' \subseteq Sweeps
    BY <1>2, ProcFacts DEF MkDir, DirTypeOK
  <2> QED
    BY <1>2, <2>2, <2>3 DEF MkDir, DirTypeOK
<1> QED
  BY <1>1, <1>2

\* The incarnation that an open finds is a number.
LEMMA InodeType ==
    ASSUME DirTypeOK, NEW p \in Procs
    PROVE  inode[Node(p)] \in Nat
BY ProcFacts DEF DirTypeOK

\* The first states have the declared types.
LEMMA TypeInit == Init => TypeOK
BY ConstantsAssumption DEF Init, TypeOK, DirTypeOK, ProcTypeOK, NoFamily, Families,
   TaskSteps, LockSet

\* Every step keeps the types of the directory state.
LEMMA DirTypeStep == TypeOK /\ [Next]_vars => DirTypeOK'
<1> SUFFICES ASSUME TypeOK, [Next]_vars PROVE DirTypeOK'
  OBVIOUS
<1> USE ProcFacts DEF TypeOK
<1>1. CASE UNCHANGED dirVars
  BY <1>1 DEF DirTypeOK, dirVars
<1>2. ASSUME NEW p \in Tasks, PrepareCold(p) PROVE DirTypeOK'
  BY <1>2, MkDirType DEF PrepareCold
<1>3. ASSUME NEW p \in Tasks, Repair(p) PROVE DirTypeOK'
  BY ZenonT(60), <1>3 DEF Repair, DirTypeOK, Touched, Families
<1>4. ASSUME NEW p \in Tasks, StartBuild(p) PROVE DirTypeOK'
  BY <1>1, <1>4, MkDirType DEF StartBuild
<1>5. ASSUME NEW p \in Tasks, StartSwap(p) PROVE DirTypeOK'
  BY <1>5 DEF StartSwap, DirTypeOK, Families
<1>6. ASSUME NEW p \in Tasks, EndSwap(p) PROVE DirTypeOK'
  BY <1>6 DEF EndSwap, SwapLeaves, Unmarked, DirTypeOK, NoFamily, Families
<1>7. ASSUME NEW p \in Tasks, OpenReadLock(p) PROVE DirTypeOK'
  BY <1>7 DEF OpenReadLock, DirTypeOK, CreateLockFile
<1>8. ASSUME NEW p \in Tasks, FindDamage(p) PROVE DirTypeOK'
  BY <1>8 DEF FindDamage, DirTypeOK
<1>9. ASSUME NEW p \in Tasks, FinishSearch(p) PROVE DirTypeOK'
  BY <1>9 DEF FinishSearch, DirTypeOK, Touched
<1>10. ASSUME NEW p \in Tasks, Mend(p) PROVE DirTypeOK'
  BY <1>10 DEF Mend, DirTypeOK
<1>11. ASSUME NEW p \in Tasks, FailSwap(p) PROVE DirTypeOK'
  <2>1. Node(p) \in Nodes
    BY ProcFacts
  <2>2. aside[Node(p)].family \in Families /\ aside[Node(p)].manifest \in BOOLEAN
    BY <2>1 DEF DirTypeOK
  <2>3. marker' \in [Nodes -> BOOLEAN] /\ aside' \in [Nodes -> [family: Families, manifest: BOOLEAN]]
    BY <1>11, <2>1 DEF FailSwap, Unmarked, DirTypeOK, NoFamily, Families
  <2>4. SwapLeaves(p) \subseteq Families
    BY DEF SwapLeaves, Families
  <2>5. family' \in [Nodes -> Families] /\ manifest' \in [Nodes -> BOOLEAN]
    BY <1>11, <2>1, <2>2, <2>4 DEF FailSwap, DirTypeOK
  <2> QED
    BY <1>11, <2>3, <2>5 DEF FailSwap, DirTypeOK
<1>12. ASSUME NEW s \in Sweeps, SweepList(s) PROVE DirTypeOK'
  BY <1>12 DEF SweepList, DirTypeOK
<1>13. ASSUME NEW s \in Sweeps, SweepOpen(s) PROVE DirTypeOK'
  BY <1>13 DEF SweepOpen, DirTypeOK, CreateLockFile
<1>14. ASSUME NEW s \in Sweeps, Evict(s) PROVE DirTypeOK'
  BY <1>14 DEF Evict, DirTypeOK, Families
<1>15. ASSUME NEW n \in Nodes, Damage(n) PROVE DirTypeOK'
  BY <1>15 DEF Damage, DirTypeOK, Families
<1>19. ASSUME NEW p \in Tasks, StageUncommitted(p) PROVE DirTypeOK'
  BY <1>19, MkDirType DEF StageUncommitted
<1>20. ASSUME NEW p \in Tasks, LoseCorpus(p) PROVE DirTypeOK'
  BY <1>1, <1>20, MkDirType DEF LoseCorpus
<1>16. ASSUME NEW p \in Procs, PrepareWarm(p) \/ AcquireSlot(p) \/ OpenBuildLock(p)
      \/ TakeBuildLock(p) \/ ServePeerShards(p) \/ WaitForFirstBuild(p)
      \/ FoundCurrent(p) \/ FinishBuild(p) \/ DiscardBuild(p) \/ FailBuild(p)
      \/ OpenPublishLock(p) \/ TakePublishLock(p) \/ RefusePublish(p) \/ Leave(p)
      \/ ServeStale(p) \/ TakeReadLock(p) \/ ListShards(p) \/ SeeTreeChange(p)
      \/ OpenMendLock(p) \/ TakeMendLock(p) \/ GiveUp(p) \/ SweepLock(p) \/ Probe(p)
      \/ EndProbe(p) \/ CheckUsed(p)
      PROVE  UNCHANGED dirVars
  BY <1>16 DEF PrepareWarm, AcquireSlot, OpenBuildLock, TakeBuildLock,
     ServePeerShards, WaitForFirstBuild, FoundCurrent, FinishBuild, DiscardBuild,
     FailBuild, OpenPublishLock, TakePublishLock, RefusePublish, Leave, ServeStale,
     TakeReadLock, ListShards, SeeTreeChange, OpenMendLock, TakeMendLock, GiveUp,
     SweepLock, Probe, EndProbe, CheckUsed
<1>17. ASSUME NEW c \in Commands, Crash(c) PROVE UNCHANGED dirVars
  BY <1>17 DEF Crash
<1>18. CASE Terminated \/ UNCHANGED vars
  BY <1>1, <1>18 DEF Terminated, vars, dirVars
<1> QED
  BY <1>1, <1>2, <1>3, <1>4, <1>5, <1>6, <1>7, <1>8, <1>9, <1>10, <1>11, <1>12,
     <1>13, <1>14, <1>15, <1>16, <1>17, <1>18, <1>19, <1>20 DEF Next, TaskStep, SweepStep

\* Every step keeps the types of the process state.
LEMMA ProcTypeStep == TypeOK /\ [Next]_vars => ProcTypeOK'
<1> SUFFICES ASSUME TypeOK, [Next]_vars PROVE ProcTypeOK'
  OBVIOUS
<1> USE ProcFacts, ConstantsAssumption DEF TypeOK, TaskSteps, SweepSteps, fdVars,
   taskVars
<1>1. ASSUME NEW p \in Tasks, PrepareWarm(p) PROVE ProcTypeOK'
  BY <1>1 DEF PrepareWarm, ProcTypeOK, Goto
<1>2. ASSUME NEW p \in Tasks, PrepareCold(p) PROVE ProcTypeOK'
  BY <1>2 DEF PrepareCold, ProcTypeOK, Goto
<1>3. ASSUME NEW p \in Tasks, AcquireSlot(p) PROVE ProcTypeOK'
  BY <1>3 DEF AcquireSlot, ProcTypeOK, Goto
<1>4. ASSUME NEW p \in Tasks, OpenBuildLock(p) PROVE ProcTypeOK'
  <2>1. p \in Procs /\ inode[Node(p)] \in Nat
    BY InodeType
  <2> QED
    BY <1>4, <2>1 DEF OpenBuildLock, ProcTypeOK, Goto
<1>5. ASSUME NEW p \in Tasks, TakeBuildLock(p) PROVE ProcTypeOK'
  BY <1>5 DEF TakeBuildLock, ProcTypeOK, Goto, Acquire, Lock, LockSet
<1>6. ASSUME NEW p \in Tasks, ServePeerShards(p) PROVE ProcTypeOK'
  BY <1>6 DEF ServePeerShards, ProcTypeOK, Goto
<1>7. ASSUME NEW p \in Tasks, WaitForFirstBuild(p) PROVE ProcTypeOK'
  BY <1>7 DEF WaitForFirstBuild, ProcTypeOK, Goto
<1>8. ASSUME NEW p \in Tasks, Repair(p) PROVE ProcTypeOK'
  BY <1>8 DEF Repair, ProcTypeOK, Goto, DirTypeOK
<1>9. ASSUME NEW p \in Tasks, FoundCurrent(p) PROVE ProcTypeOK'
  BY <1>9 DEF FoundCurrent, ProcTypeOK, Goto
<1>10. ASSUME NEW p \in Tasks, StartBuild(p) PROVE ProcTypeOK'
  <2>1. p \in Procs /\ (MkDir(Node(p)) => inode'[Node(p)] \in Nat)
    BY MkDirType
  <2> QED
    BY <1>10, <2>1 DEF StartBuild, ProcTypeOK, Goto
<1>11. ASSUME NEW p \in Tasks, FinishBuild(p) PROVE ProcTypeOK'
  BY <1>11 DEF FinishBuild, Lasting, ProcTypeOK, Goto
<1>12. ASSUME NEW p \in Tasks, DiscardBuild(p) PROVE ProcTypeOK'
  BY <1>12 DEF DiscardBuild, ProcTypeOK, Goto
<1>13. ASSUME NEW p \in Tasks, FailBuild(p) PROVE ProcTypeOK'
  BY <1>13 DEF FailBuild, ProcTypeOK, Goto, Drop
<1>14. ASSUME NEW p \in Tasks, OpenPublishLock(p) PROVE ProcTypeOK'
  <2>1. p \in Procs /\ inode[Node(p)] \in Nat
    BY InodeType
  <2> QED
    BY <1>14, <2>1 DEF OpenPublishLock, ProcTypeOK, Goto
<1>15. ASSUME NEW p \in Tasks, TakePublishLock(p) PROVE ProcTypeOK'
  BY <1>15 DEF TakePublishLock, ProcTypeOK, Goto, Acquire, Lock, LockSet
<1>16. ASSUME NEW p \in Tasks, RefusePublish(p) PROVE ProcTypeOK'
  BY SMTT(30), <1>16 DEF RefusePublish, ProcTypeOK, Goto, Drop, DirTypeOK
<1>17. ASSUME NEW p \in Tasks, StartSwap(p) PROVE ProcTypeOK'
  BY <1>17 DEF StartSwap, ProcTypeOK, Goto, DirTypeOK
<1>18. ASSUME NEW p \in Tasks, EndSwap(p) PROVE ProcTypeOK'
  BY <1>18 DEF EndSwap, ProcTypeOK, Goto, Drop, DirTypeOK
<1>19. ASSUME NEW p \in Tasks, Leave(p) PROVE ProcTypeOK'
  BY <1>19 DEF Leave, EndOfBuild, ProcTypeOK, Goto, Drop
<1>20. ASSUME NEW p \in Tasks, ServeStale(p) PROVE ProcTypeOK'
  <2>1. pc' \in [Procs -> TaskSteps \cup SweepSteps]
    <3>1. \/ pc' = [pc EXCEPT ![p] = "openRead"]
          \/ pc' = [pc EXCEPT ![p] = "skipped"]
      BY <1>20 DEF ServeStale, Goto
    <3> QED
      BY <3>1 DEF ProcTypeOK
  <2>2. stale' \in [Procs -> BOOLEAN]
    BY <1>20 DEF ServeStale, ProcTypeOK
  <2> QED
    BY <1>20, <2>1, <2>2 DEF ServeStale, EndOfBuild, ProcTypeOK
<1>21. ASSUME NEW p \in Tasks, OpenReadLock(p) PROVE ProcTypeOK'
  <2>1. p \in Procs /\ inode[Node(p)] \in Nat
    BY InodeType
  <2> QED
    BY <1>21, <2>1 DEF OpenReadLock, ProcTypeOK, Goto
<1>22. ASSUME NEW p \in Tasks, TakeReadLock(p) PROVE ProcTypeOK'
  BY <1>22 DEF TakeReadLock, ProcTypeOK, Goto, Acquire, Lock, LockSet
<1>23. ASSUME NEW p \in Tasks, ListShards(p) PROVE ProcTypeOK'
  BY <1>23 DEF ListShards, ProcTypeOK, Goto
<1>24. ASSUME NEW p \in Tasks, FindDamage(p) PROVE ProcTypeOK'
  <2>1. pc' \in [Procs -> TaskSteps \cup SweepSteps]
    BY <1>24 DEF FindDamage, ProcTypeOK, Goto, TaskSteps
  <2>2. locks' \subseteq LockSet
    BY <1>24 DEF FindDamage, ProcTypeOK, Drop
  <2>3. tries' \in [Procs -> 0..Retries]
    <3>1. CASE tries[p] = Retries /\ UNCHANGED tries
      BY <3>1 DEF ProcTypeOK
    <3>2. CASE tries[p] < Retries /\ tries' = [tries EXCEPT ![p] = @ + 1]
      BY <3>2, ConstantsAssumption DEF ProcTypeOK
    <3> QED
      BY <1>24, <3>1, <3>2 DEF FindDamage
  <2> QED
    BY <1>24, <2>1, <2>2, <2>3 DEF FindDamage, ProcTypeOK
<1>25. ASSUME NEW p \in Tasks, SeeTreeChange(p) PROVE ProcTypeOK'
  BY <1>25 DEF SeeTreeChange, ProcTypeOK, Goto, Drop
<1>26. ASSUME NEW p \in Tasks, FinishSearch(p) PROVE ProcTypeOK'
  BY <1>26 DEF FinishSearch, ProcTypeOK, Goto, Drop, DirTypeOK
<1>27. ASSUME NEW p \in Tasks, OpenMendLock(p) PROVE ProcTypeOK'
  <2>1. p \in Procs /\ inode[Node(p)] \in Nat
    BY InodeType
  <2> QED
    BY <1>27, <2>1 DEF OpenMendLock, ProcTypeOK, Goto
<1>28. ASSUME NEW p \in Tasks, TakeMendLock(p) PROVE ProcTypeOK'
  BY <1>28 DEF TakeMendLock, ProcTypeOK, Goto, Acquire, Lock, LockSet
<1>29. ASSUME NEW p \in Tasks, Mend(p) PROVE ProcTypeOK'
  BY <1>29 DEF Mend, ProcTypeOK, Goto, Drop, DirTypeOK
<1>30. ASSUME NEW p \in Tasks, FailSwap(p) PROVE ProcTypeOK'
  BY <1>30 DEF FailSwap, ProcTypeOK, Goto, Drop, Fault, DirTypeOK
<1>31. ASSUME NEW p \in Tasks, GiveUp(p) PROVE ProcTypeOK'
  BY <1>31 DEF GiveUp, ProcTypeOK, Goto, Drop, Fault
<1>32. ASSUME NEW s \in Sweeps, SweepList(s) PROVE ProcTypeOK'
  <2>1. faults' \in 0..MaxFaults
    BY <1>32 DEF SweepList, Fault, ProcTypeOK
  <2>2. pc' \in [Procs -> TaskSteps \cup SweepSteps]
    <3>1. pc' = [pc EXCEPT ![s] = "sweepOpen"] \/ pc' = [pc EXCEPT ![s] = "over"]
      BY <1>32 DEF SweepList, Goto
    <3> QED
      BY <3>1 DEF ProcTypeOK
  <2> QED
    BY <1>32, <2>1, <2>2 DEF SweepList, ProcTypeOK
<1>33. ASSUME NEW s \in Sweeps, SweepOpen(s) PROVE ProcTypeOK'
  <2>1. s \in Procs /\ inode[Node(s)] \in Nat
    BY InodeType
  <2> QED
    BY <1>33, <2>1 DEF SweepOpen, ProcTypeOK, Goto
<1>34. ASSUME NEW s \in Sweeps, SweepLock(s) PROVE ProcTypeOK'
  BY <1>34 DEF SweepLock, ProcTypeOK, Goto, Acquire, Lock, LockSet
<1>35. ASSUME NEW s \in Sweeps, Probe(s) PROVE ProcTypeOK'
  <2>1. s \in Procs /\ inode[Node(s)] \in Nat
    BY InodeType
  <2>2. Lock("build", s, inode[Node(s)]) \in LockSet
    BY <2>1 DEF Lock, LockSet
  <2> QED
    BY <1>35, <2>1, <2>2 DEF Probe, ProcTypeOK, Goto, Acquire, Drop
<1>36. ASSUME NEW s \in Sweeps, EndProbe(s) PROVE ProcTypeOK'
  BY <1>36 DEF EndProbe, ProcTypeOK, Goto, Drop
<1>37. ASSUME NEW s \in Sweeps, CheckUsed(s) PROVE ProcTypeOK'
  BY <1>37 DEF CheckUsed, ProcTypeOK, Goto, Drop
<1>38. ASSUME NEW s \in Sweeps, Evict(s) PROVE ProcTypeOK'
  BY <1>38 DEF Evict, ProcTypeOK, Goto, Drop, DirTypeOK
<1>39. ASSUME NEW c \in Commands, Crash(c) PROVE ProcTypeOK'
  BY <1>39 DEF Crash, ProcTypeOK, Fault
<1>40. ASSUME NEW n \in Nodes, Damage(n) PROVE ProcTypeOK'
  BY <1>40 DEF Damage, ProcTypeOK, Fault
<1>42. ASSUME NEW p \in Tasks, StageUncommitted(p) PROVE ProcTypeOK'
  <2>1. p \in Procs /\ (MkDir(Node(p)) => inode'[Node(p)] \in Nat)
    BY MkDirType
  <2>2. bdir' \in [Procs -> Nat]
    BY <1>42, <2>1 DEF StageUncommitted, ProcTypeOK
  <2> QED
    BY <1>42, <2>2 DEF StageUncommitted, ProcTypeOK, Goto
<1>43. ASSUME NEW p \in Tasks, LoseCorpus(p) PROVE ProcTypeOK'
  BY <1>43 DEF LoseCorpus, ProcTypeOK, Goto, Drop
<1>41. CASE Terminated \/ UNCHANGED vars
  BY <1>41 DEF Terminated, ProcTypeOK, vars
<1> QED
  BY <1>1, <1>2, <1>3, <1>4, <1>5, <1>6, <1>7, <1>8, <1>9, <1>10, <1>11, <1>12,
     <1>13, <1>14, <1>15, <1>16, <1>17, <1>18, <1>19, <1>20, <1>21, <1>22, <1>23,
     <1>24, <1>25, <1>26, <1>27, <1>28, <1>29, <1>30, <1>31, <1>32, <1>33, <1>34,
     <1>35, <1>36, <1>37, <1>38, <1>39, <1>40, <1>41, <1>42, <1>43 DEF Next, TaskStep, SweepStep

\* Every reachable state has the types that the module declares.
THEOREM TypeCorrect == Spec => []TypeOK
<1>1. TypeOK /\ [Next]_vars => TypeOK'
  BY DirTypeStep, ProcTypeStep DEF TypeOK
<1> QED
  BY TypeInit, <1>1, PTL DEF Spec

-----------------------------------------------------------------------------

\* No step needs a lock yet, and no lock is held.
LEMMA LockInit == Init => LockInvariant
BY DEF Init, LockInvariant, LocksCover, LocksExclude, Building, Reading, Procs

\* A task keeps what it relies on when its own step is not one of its sets.
LEMMA CoverStep == TypeOK /\ LocksCover /\ [Next]_vars => LocksCover'
<1> SUFFICES ASSUME TypeOK, LocksCover, [Next]_vars PROVE LocksCover'
  OBVIOUS
<1> USE ProcFacts DEF TypeOK, ProcTypeOK, LocksCover, Building, Reading, Lock, fdVars
<1>1. ASSUME NEW p \in Tasks, PrepareWarm(p) PROVE LocksCover'
  BY <1>1 DEF PrepareWarm, Goto
<1>2. ASSUME NEW p \in Tasks, PrepareCold(p) PROVE LocksCover'
  BY <1>2 DEF PrepareCold, Goto
<1>3. ASSUME NEW p \in Tasks, AcquireSlot(p) PROVE LocksCover'
  BY <1>3 DEF AcquireSlot, Goto
<1>4. ASSUME NEW p \in Tasks, OpenBuildLock(p) PROVE LocksCover'
  BY <1>4 DEF OpenBuildLock, Goto
<1>5. ASSUME NEW p \in Tasks, TakeBuildLock(p) PROVE LocksCover'
  BY <1>5 DEF TakeBuildLock, Goto, Acquire
<1>6. ASSUME NEW p \in Tasks, ServePeerShards(p) PROVE LocksCover'
  BY <1>6 DEF ServePeerShards, Goto
<1>7. ASSUME NEW p \in Tasks, WaitForFirstBuild(p) PROVE LocksCover'
  BY <1>7 DEF WaitForFirstBuild, Goto
<1>8. ASSUME NEW p \in Tasks, Repair(p) PROVE LocksCover'
  BY <1>8 DEF Repair, Goto
<1>9. ASSUME NEW p \in Tasks, FoundCurrent(p) PROVE LocksCover'
  BY <1>9 DEF FoundCurrent, Goto
<1>10. ASSUME NEW p \in Tasks, StartBuild(p) PROVE LocksCover'
  BY <1>10 DEF StartBuild, Goto
<1>11. ASSUME NEW p \in Tasks, FinishBuild(p) PROVE LocksCover'
  BY <1>11 DEF FinishBuild, Lasting, Goto
<1>12. ASSUME NEW p \in Tasks, DiscardBuild(p) PROVE LocksCover'
  BY <1>12 DEF DiscardBuild, Goto
<1>13. ASSUME NEW p \in Tasks, FailBuild(p) PROVE LocksCover'
  BY <1>13 DEF FailBuild, Goto, Drop
<1>14. ASSUME NEW p \in Tasks, OpenPublishLock(p) PROVE LocksCover'
  BY ZenonT(60), <1>14 DEF OpenPublishLock, Goto
<1>15. ASSUME NEW p \in Tasks, TakePublishLock(p) PROVE LocksCover'
  BY <1>15 DEF TakePublishLock, Goto, Acquire
<1>16. ASSUME NEW p \in Tasks, RefusePublish(p) PROVE LocksCover'
  BY <1>16 DEF RefusePublish, Goto, Drop
<1>17. ASSUME NEW p \in Tasks, StartSwap(p) PROVE LocksCover'
  BY <1>17 DEF StartSwap, Goto
<1>18. ASSUME NEW p \in Tasks, EndSwap(p) PROVE LocksCover'
  BY <1>18 DEF EndSwap, Goto, Drop
<1>19. ASSUME NEW p \in Tasks, Leave(p) PROVE LocksCover'
  BY <1>19 DEF Leave, EndOfBuild, Goto, Drop
<1>20. ASSUME NEW p \in Tasks, ServeStale(p) PROVE LocksCover'
  BY <1>20 DEF ServeStale, EndOfBuild, Goto
<1>21. ASSUME NEW p \in Tasks, OpenReadLock(p) PROVE LocksCover'
  BY <1>21 DEF OpenReadLock, Goto
<1>22. ASSUME NEW p \in Tasks, TakeReadLock(p) PROVE LocksCover'
  BY <1>22 DEF TakeReadLock, Goto, Acquire
<1>23. ASSUME NEW p \in Tasks, ListShards(p) PROVE LocksCover'
  BY <1>23 DEF ListShards, Goto
<1>24. ASSUME NEW p \in Tasks, FindDamage(p) PROVE LocksCover'
  BY <1>24 DEF FindDamage, Goto, Drop
<1>25. ASSUME NEW p \in Tasks, SeeTreeChange(p) PROVE LocksCover'
  BY <1>25 DEF SeeTreeChange, Goto, Drop
<1>26. ASSUME NEW p \in Tasks, FinishSearch(p) PROVE LocksCover'
  BY <1>26 DEF FinishSearch, Goto, Drop
<1>27. ASSUME NEW p \in Tasks, OpenMendLock(p) PROVE LocksCover'
  BY <1>27 DEF OpenMendLock, Goto
<1>28. ASSUME NEW p \in Tasks, TakeMendLock(p) PROVE LocksCover'
  BY <1>28 DEF TakeMendLock, Goto, Acquire
<1>29. ASSUME NEW p \in Tasks, Mend(p) PROVE LocksCover'
  BY <1>29 DEF Mend, Goto, Drop
<1>30. ASSUME NEW p \in Tasks, FailSwap(p) PROVE LocksCover'
  BY <1>30 DEF FailSwap, Goto, Drop
<1>31. ASSUME NEW p \in Tasks, GiveUp(p) PROVE LocksCover'
  BY <1>31 DEF GiveUp, Goto, Drop
<1>32. ASSUME NEW s \in Sweeps, SweepList(s) PROVE LocksCover'
  BY <1>32 DEF SweepList, Goto
<1>33. ASSUME NEW s \in Sweeps, SweepOpen(s) PROVE LocksCover'
  BY <1>33 DEF SweepOpen, Goto
<1>34. ASSUME NEW s \in Sweeps, SweepLock(s) PROVE LocksCover'
  BY <1>34 DEF SweepLock, Goto, Acquire
<1>35. ASSUME NEW s \in Sweeps, Probe(s) PROVE LocksCover'
  BY <1>35 DEF Probe, Goto, Acquire, Drop
<1>36. ASSUME NEW s \in Sweeps, EndProbe(s) PROVE LocksCover'
  BY <1>36 DEF EndProbe, Goto, Drop
<1>37. ASSUME NEW s \in Sweeps, CheckUsed(s) PROVE LocksCover'
  BY <1>37 DEF CheckUsed, Goto, Drop
<1>38. ASSUME NEW s \in Sweeps, Evict(s) PROVE LocksCover'
  BY <1>38 DEF Evict, Goto, Drop
<1>39. ASSUME NEW c \in Commands, Crash(c) PROVE LocksCover'
  BY <1>39 DEF Crash, Ended
<1>40. ASSUME NEW n \in Nodes, Damage(n) PROVE LocksCover'
  BY <1>40 DEF Damage
<1>42. ASSUME NEW p \in Tasks, StageUncommitted(p) PROVE LocksCover'
  BY <1>42 DEF StageUncommitted, Goto
<1>43. ASSUME NEW p \in Tasks, LoseCorpus(p) PROVE LocksCover'
  BY <1>43 DEF LoseCorpus, Goto, Drop
<1>41. CASE Terminated \/ UNCHANGED vars
  BY <1>41 DEF Terminated, vars
<1> QED
  BY <1>1, <1>2, <1>3, <1>4, <1>5, <1>6, <1>7, <1>8, <1>9, <1>10, <1>11, <1>12,
     <1>13, <1>14, <1>15, <1>16, <1>17, <1>18, <1>19, <1>20, <1>21, <1>22, <1>23,
     <1>24, <1>25, <1>26, <1>27, <1>28, <1>29, <1>30, <1>31, <1>32, <1>33, <1>34,
     <1>35, <1>36, <1>37, <1>38, <1>39, <1>40, <1>41, <1>42, <1>43 DEF Next, TaskStep, SweepStep

\* Every step keeps the held locks compatible: a lock is added only when it
\* is free.
LEMMA ExcludeStep == TypeOK /\ LocksExclude /\ [Next]_vars => LocksExclude'
<1> SUFFICES ASSUME TypeOK, LocksExclude, [Next]_vars PROVE LocksExclude'
  OBVIOUS
<1>1. CASE locks' \subseteq locks
  BY <1>1 DEF LocksExclude
<1> USE DEF LocksExclude, Acquire, Lock, Held
<1>2. ASSUME NEW p \in Tasks, TakeBuildLock(p) PROVE LocksExclude'
  BY <1>2 DEF TakeBuildLock, BuildFree
<1>3. ASSUME NEW p \in Tasks, TakePublishLock(p) PROVE LocksExclude'
  BY <1>3 DEF TakePublishLock, PublishFree
<1>4. ASSUME NEW p \in Tasks, TakeReadLock(p) PROVE LocksExclude'
  BY <1>4 DEF TakeReadLock, ReadFree
<1>5. ASSUME NEW p \in Tasks, TakeMendLock(p) PROVE LocksExclude'
  BY <1>5 DEF TakeMendLock, PublishFree
<1>6. ASSUME NEW s \in Sweeps, SweepLock(s) PROVE LocksExclude'
  BY <1>6 DEF SweepLock, PublishFree
<1>7. ASSUME NEW s \in Sweeps, Probe(s) PROVE LocksExclude'
  BY <1>7 DEF Probe, BuildFree, Drop
<1>8. ASSUME NEW p \in Procs, PrepareWarm(p) \/ PrepareCold(p) \/ AcquireSlot(p)
      \/ OpenBuildLock(p) \/ ServePeerShards(p) \/ WaitForFirstBuild(p) \/ Repair(p)
      \/ FoundCurrent(p) \/ StartBuild(p) \/ StageUncommitted(p) \/ FinishBuild(p)
      \/ DiscardBuild(p) \/ LoseCorpus(p)
      \/ FailBuild(p) \/ OpenPublishLock(p) \/ RefusePublish(p) \/ StartSwap(p)
      \/ EndSwap(p) \/ Leave(p) \/ ServeStale(p) \/ OpenReadLock(p) \/ ListShards(p)
      \/ FindDamage(p) \/ SeeTreeChange(p) \/ FinishSearch(p) \/ OpenMendLock(p)
      \/ Mend(p) \/ FailSwap(p) \/ GiveUp(p) \/ SweepList(p) \/ SweepOpen(p)
      \/ EndProbe(p) \/ CheckUsed(p) \/ Evict(p)
      PROVE  locks' \subseteq locks
  BY <1>8 DEF PrepareWarm, PrepareCold, AcquireSlot, OpenBuildLock, ServePeerShards,
     WaitForFirstBuild, Repair, FoundCurrent, StartBuild, StageUncommitted, LoseCorpus,
     FinishBuild, DiscardBuild,
     FailBuild, OpenPublishLock, RefusePublish, StartSwap, EndSwap, Leave,
     ServeStale, OpenReadLock, ListShards, FindDamage, SeeTreeChange, FinishSearch,
     OpenMendLock, Mend, FailSwap, GiveUp, SweepList, SweepOpen, EndProbe,
     CheckUsed, Evict, Drop
<1>9. ASSUME NEW c \in Commands, Crash(c) PROVE locks' \subseteq locks
  BY <1>9 DEF Crash
<1>10. ASSUME NEW n \in Nodes, Damage(n) PROVE locks' \subseteq locks
  BY <1>10 DEF Damage
<1>11. CASE Terminated \/ UNCHANGED vars
  BY <1>1, <1>11 DEF Terminated, vars
<1> QED
  BY ProcFacts, <1>1, <1>2, <1>3, <1>4, <1>5, <1>6, <1>7, <1>8, <1>9, <1>10, <1>11
     DEF Next, TaskStep, SweepStep

\* Each step that needs a lock has it, and the locks held exclude each other as
\* flock does (lockFileExclusive, lockFileSharedNB).
THEOREM LocksHold == Spec => []LockInvariant
<1>1. TypeOK /\ LockInvariant /\ [Next]_vars => LockInvariant'
  BY CoverStep, ExcludeStep DEF LockInvariant
<1> QED
  BY TypeCorrect, LockInit, <1>1, PTL DEF Spec

\* Whatever the collections, crashes and interrupts do, no two tasks that hold a
\* lock of the same incarnation of a corpus hold it against flock's rules.
THEOREM IncarnationExclusion == Spec => []IncarnationsExclude
<1>1. LockInvariant => IncarnationsExclude
  BY DEF LockInvariant, LocksCover, LocksExclude, IncarnationsExclude, Lock,
     Building, Reading
<1> QED
  BY LocksHold, <1>1, PTL

-----------------------------------------------------------------------------
(* Without evictions, a node has one incarnation, so the locks exclude by    *)
(* path and not only by incarnation.                                         *)

OpenLock == {"publishWait", "publish", "swap", "readWait", "list", "search",
             "mendWait", "mend"}

OneIncarnation ==
    /\ \A n \in Nodes : inode[n] = IF present[n] THEN 1 ELSE 0
    /\ \A p \in Tasks :
          /\ pc[p] \in OpenLock => fd[p] = 1 /\ inode[Node(p)] = 1
          /\ pc[p] \in {"tryBuild", "buildWait"} \cup Building => bfd[p] = 1

\* The first states have at most one incarnation of each node.
LEMMA OneIncarnationInit == Init => OneIncarnation
BY ProcFacts DEF Init, OneIncarnation, OpenLock, Building

\* MkdirAll makes the first and only incarnation of a node that nothing
\* evicts.
LEMMA MkDirOnce ==
    ASSUME DirTypeOK, NEW n \in Nodes, MkDir(n),
           \A m \in Nodes : inode[m] = IF present[m] THEN 1 ELSE 0
    PROVE  /\ \A m \in Nodes : inode'[m] = IF present'[m] THEN 1 ELSE 0
           /\ inode'[n] = 1
           /\ \A m \in Nodes : inode[m] = 1 => inode'[m] = 1
<1>1. CASE present[n]
  BY <1>1 DEF MkDir, dirVars
<1>2. CASE ~present[n]
  <2>1. /\ inode' = [inode EXCEPT ![n] = 1]
        /\ present' = [present EXCEPT ![n] = TRUE]
    BY <1>2 DEF MkDir, DirTypeOK
  <2> QED
    BY <2>1 DEF DirTypeOK
<1> QED
  BY <1>1, <1>2

\* While nothing evicts, every step keeps one incarnation per node.
LEMMA OneIncarnationStep ==
    ASSUME Evictors = {}, TypeOK, OneIncarnation, [Next]_vars
    PROVE  OneIncarnation'
<1> USE ProcFacts DEF OneIncarnation, OpenLock, Building, TypeOK, ProcTypeOK, DirTypeOK
<1>0. Sweeps = {} /\ \A p \in Tasks : Node(p) \in Nodes
  BY DEF Sweeps
<1>1. ASSUME NEW p \in Tasks, PrepareWarm(p) PROVE OneIncarnation'
  BY <1>0, <1>1 DEF PrepareWarm, Goto, dirVars, fdVars
<1>2. ASSUME NEW p \in Tasks, PrepareCold(p) PROVE OneIncarnation'
  <2>1. /\ \A m \in Nodes : inode'[m] = IF present'[m] THEN 1 ELSE 0
        /\ inode'[Node(p)] = 1
        /\ \A m \in Nodes : inode[m] = 1 => inode'[m] = 1
    BY <1>0, <1>2, MkDirOnce DEF PrepareCold
  <2> QED
    BY <1>2, <2>1 DEF PrepareCold, Goto, fdVars
<1>3. ASSUME NEW p \in Tasks, AcquireSlot(p) PROVE OneIncarnation'
  BY <1>0, <1>3 DEF AcquireSlot, Goto, dirVars, fdVars
<1>4. ASSUME NEW p \in Tasks, OpenBuildLock(p) PROVE OneIncarnation'
  BY <1>0, <1>4 DEF OpenBuildLock, Goto, dirVars
<1>5. ASSUME NEW p \in Tasks, TakeBuildLock(p) PROVE OneIncarnation'
  BY <1>0, <1>5 DEF TakeBuildLock, Goto, dirVars, fdVars
<1>6. ASSUME NEW p \in Tasks, ServePeerShards(p) PROVE OneIncarnation'
  BY <1>0, <1>6 DEF ServePeerShards, Goto, dirVars, fdVars
<1>7. ASSUME NEW p \in Tasks, WaitForFirstBuild(p) PROVE OneIncarnation'
  BY <1>0, <1>7 DEF WaitForFirstBuild, Goto, dirVars, fdVars
<1>8. ASSUME NEW p \in Tasks, Repair(p) PROVE OneIncarnation'
  BY <1>0, <1>8 DEF Repair, Goto, fdVars
<1>9. ASSUME NEW p \in Tasks, FoundCurrent(p) PROVE OneIncarnation'
  BY <1>0, <1>9 DEF FoundCurrent, Goto, dirVars, fdVars
<1>10. ASSUME NEW p \in Tasks, StartBuild(p) PROVE OneIncarnation'
  <2>1. /\ \A m \in Nodes : inode'[m] = IF present'[m] THEN 1 ELSE 0
        /\ \A m \in Nodes : inode[m] = 1 => inode'[m] = 1
    BY <1>0, <1>10, MkDirOnce DEF StartBuild, dirVars
  <2> QED
    BY <1>10, <2>1 DEF StartBuild, Goto
<1>11. ASSUME NEW p \in Tasks, FinishBuild(p) PROVE OneIncarnation'
  BY <1>0, <1>11 DEF FinishBuild, Lasting, Goto, dirVars, fdVars
<1>12. ASSUME NEW p \in Tasks, DiscardBuild(p) PROVE OneIncarnation'
  BY <1>0, <1>12 DEF DiscardBuild, Goto, dirVars, fdVars
<1>13. ASSUME NEW p \in Tasks, FailBuild(p) PROVE OneIncarnation'
  BY <1>0, <1>13 DEF FailBuild, Goto, dirVars, fdVars
<1>14. ASSUME NEW p \in Tasks, OpenPublishLock(p) PROVE OneIncarnation'
  BY <1>0, <1>14 DEF OpenPublishLock, Goto, dirVars
<1>15. ASSUME NEW p \in Tasks, TakePublishLock(p) PROVE OneIncarnation'
  BY <1>0, <1>15 DEF TakePublishLock, Goto, dirVars, fdVars
<1>16. ASSUME NEW p \in Tasks, RefusePublish(p) PROVE OneIncarnation'
  <2>1. UNCHANGED <<inode, present, fd, bfd>>
    BY <1>16 DEF RefusePublish, dirVars, fdVars
  <2>2. pc[p] \in {"publish", "swap"} /\ \E step \in {"leave", "failed"} : pc' = [pc
     EXCEPT ![p] = step]
    BY <1>16 DEF RefusePublish, Goto
  <2> QED
    BY <2>1, <2>2
<1>17. ASSUME NEW p \in Tasks, StartSwap(p) PROVE OneIncarnation'
  BY <1>0, <1>17 DEF StartSwap, Goto, fdVars
<1>18. ASSUME NEW p \in Tasks, EndSwap(p) PROVE OneIncarnation'
  <2>1. UNCHANGED <<inode, present, fd, bfd>>
    BY <1>18 DEF EndSwap, dirVars, fdVars
  <2>2. pc[p] \in {"publish", "swap"} /\ \E step \in {"leave"} : pc' = [pc EXCEPT
     ![p] = step]
    BY <1>18 DEF EndSwap, Goto
  <2> QED
    BY <2>1, <2>2
<1>19. ASSUME NEW p \in Tasks, Leave(p) PROVE OneIncarnation'
  BY <1>0, <1>19 DEF Leave, EndOfBuild, Goto, dirVars, fdVars
<1>20. ASSUME NEW p \in Tasks, ServeStale(p) PROVE OneIncarnation'
  BY <1>0, <1>20 DEF ServeStale, EndOfBuild, Goto, dirVars, fdVars
<1>21. ASSUME NEW p \in Tasks, OpenReadLock(p) PROVE OneIncarnation'
  BY <1>0, <1>21 DEF OpenReadLock, Goto
<1>22. ASSUME NEW p \in Tasks, TakeReadLock(p) PROVE OneIncarnation'
  BY <1>0, <1>22 DEF TakeReadLock, Goto, dirVars, fdVars
<1>23. ASSUME NEW p \in Tasks, ListShards(p) PROVE OneIncarnation'
  BY <1>0, <1>23 DEF ListShards, Goto, dirVars, fdVars
<1>24. ASSUME NEW p \in Tasks, FindDamage(p) PROVE OneIncarnation'
  BY <1>0, <1>24 DEF FindDamage, Goto, fdVars
<1>25. ASSUME NEW p \in Tasks, SeeTreeChange(p) PROVE OneIncarnation'
  BY <1>0, <1>25 DEF SeeTreeChange, Goto, dirVars, fdVars
<1>26. ASSUME NEW p \in Tasks, FinishSearch(p) PROVE OneIncarnation'
  BY <1>0, <1>26 DEF FinishSearch, Goto, fdVars
<1>27. ASSUME NEW p \in Tasks, OpenMendLock(p) PROVE OneIncarnation'
  BY <1>0, <1>27 DEF OpenMendLock, Goto, dirVars
<1>28. ASSUME NEW p \in Tasks, TakeMendLock(p) PROVE OneIncarnation'
  BY <1>0, <1>28 DEF TakeMendLock, Goto, dirVars, fdVars
<1>29. ASSUME NEW p \in Tasks, Mend(p) PROVE OneIncarnation'
  BY <1>0, <1>29 DEF Mend, Goto, fdVars
<1>30. ASSUME NEW p \in Tasks, FailSwap(p) PROVE OneIncarnation'
  BY <1>0, <1>30 DEF FailSwap, Goto, fdVars
<1>31. ASSUME NEW p \in Tasks, GiveUp(p) PROVE OneIncarnation'
  BY <1>0, <1>31 DEF GiveUp, Goto, dirVars, fdVars
<1>32. ASSUME NEW c \in Commands, Crash(c) PROVE OneIncarnation'
  BY <1>0, <1>32 DEF Crash, Ended, dirVars, fdVars
<1>33. ASSUME NEW n \in Nodes, Damage(n) PROVE OneIncarnation'
  BY <1>0, <1>33 DEF Damage, fdVars
<1>35. ASSUME NEW p \in Tasks, StageUncommitted(p) PROVE OneIncarnation'
  <2>1. /\ \A m \in Nodes : inode'[m] = IF present'[m] THEN 1 ELSE 0
        /\ \A m \in Nodes : inode[m] = 1 => inode'[m] = 1
    BY <1>0, <1>35, MkDirOnce DEF StageUncommitted
  <2> QED
    BY <1>35, <2>1 DEF StageUncommitted, Goto
<1>36. ASSUME NEW p \in Tasks, LoseCorpus(p) PROVE FALSE
  BY <1>0, <1>36 DEF LoseCorpus
<1>34. CASE Terminated \/ UNCHANGED vars
  BY <1>34 DEF Terminated, vars
<1> QED
  BY <1>0, <1>1, <1>2, <1>3, <1>4, <1>5, <1>6, <1>7, <1>8, <1>9, <1>10, <1>11,
     <1>12, <1>13, <1>14, <1>15, <1>16, <1>17, <1>18, <1>19, <1>20, <1>21, <1>22,
     <1>23, <1>24, <1>25, <1>26, <1>27, <1>28, <1>29, <1>30, <1>31, <1>32, <1>33,
     <1>34, <1>35, <1>36 DEF Next, TaskStep

\* While nothing evicts a corpus, no read of a node lists or searches its shards
\* while a swap of the node moves them.
THEOREM ReadersExcluded == Spec => []SwapExcludesReaders
<1>1. CASE Evictors = {}
  <2>1. TypeOK /\ OneIncarnation /\ [Next]_vars => OneIncarnation'
    BY <1>1, OneIncarnationStep
  <2>2. ASSUME OneIncarnation, IncarnationsExclude,
               NEW p \in Tasks, NEW q \in Tasks, Node(p) = Node(q),
               pc[p] = "swap", pc[q] \in Reading
        PROVE  FALSE
    <3>1. fd[p] = 1 /\ fd[q] = 1 /\ p # q
      BY <2>2 DEF OneIncarnation, OpenLock, Reading
    <3> QED
      BY <2>2, <3>1 DEF IncarnationsExclude
  <2>3. OneIncarnation /\ IncarnationsExclude => SwapExcludesReaders
    BY <2>2 DEF SwapExcludesReaders
  <2> QED
    BY TypeCorrect, OneIncarnationInit, IncarnationExclusion, <2>1, <2>3, PTL DEF Spec
<1>2. CASE Evictors # {}
  <2>1. SwapExcludesReaders
    BY <1>2 DEF SwapExcludesReaders
  <2> QED
    BY <2>1, PTL
<1> QED
  BY <1>1, <1>2

\* While nothing evicts a corpus, at most one task builds it.
THEOREM BuildersExcluded == Spec => []OneBuilder
<1>1. CASE Evictors = {}
  <2>1. TypeOK /\ OneIncarnation /\ [Next]_vars => OneIncarnation'
    BY <1>1, OneIncarnationStep
  <2>2. ASSUME OneIncarnation, IncarnationsExclude,
               NEW p \in Tasks, NEW q \in Tasks, Node(p) = Node(q),
               pc[p] \in Building, pc[q] \in Building, p # q
        PROVE  FALSE
    <3>1. bfd[p] = 1 /\ bfd[q] = 1
      BY <2>2 DEF OneIncarnation
    <3> QED
      BY <2>2, <3>1 DEF IncarnationsExclude
  <2>3. OneIncarnation /\ IncarnationsExclude => OneBuilder
    BY <2>2 DEF OneBuilder
  <2> QED
    BY TypeCorrect, OneIncarnationInit, IncarnationExclusion, <2>1, <2>3, PTL DEF Spec
<1>2. CASE Evictors # {}
  <2>1. OneBuilder
    BY <1>2 DEF OneBuilder
  <2> QED
    BY <2>1, PTL
<1> QED
  BY <1>1, <1>2

-----------------------------------------------------------------------------
(* One evictor.  The .lock that it holds is that of the corpus in place, so  *)
(* the exclusion by incarnation covers its rename by path too.               *)

SweepHolds == {"probe", "probed", "check", "evict"}

\* What a sweep relies on, and the order of the incarnations that a build saw.
SweepsOwnCorpus ==
    \A s \in Sweeps :
        /\ pc[s] \in SweepHolds \cup {"sweepLock"}
              => present[Node(s)] /\ fd[s] = inode[Node(s)]
        /\ pc[s] \in SweepHolds => Lock("publish", s, fd[s]) \in locks

BuildsInOrder ==
    \A p \in Tasks :
        /\ pc[p] \in {"build", "stage", "openPublish"} => bdir[p] \leq inode[Node(p)]
        /\ pc[p] \in {"publishWait", "publish", "swap"}
              => bdir[p] \leq fd[p] /\ fd[p] \leq inode[Node(p)]

SwapInPlace ==
    \A p \in Tasks : pc[p] = "swap" /\ bdir[p] # 0 =>
        /\ present[Node(p)]
        /\ fd[p] = inode[Node(p)]
        /\ bdir[p] = inode[Node(p)]

EvictInv == SweepsOwnCorpus /\ BuildsInOrder /\ SwapInPlace

\* The first states have the invariant of one evictor.
LEMMA EvictInvInit == Init => EvictInv
BY ProcFacts DEF Init, EvictInv, SweepsOwnCorpus, BuildsInOrder, SwapInPlace, SweepHolds

\* The incarnation of a node only grows, and only while its path is free.
LEMMA InodeGrows ==
    ASSUME TypeOK, [Next]_vars, NEW n \in Nodes
    PROVE  /\ inode'[n] \geq inode[n]
           /\ present[n] => inode'[n] = inode[n]
<1>0. inode[n] \in Nat
  BY DEF TypeOK, DirTypeOK
<1>1. CASE UNCHANGED inode
  BY <1>0, <1>1
<1>2. ASSUME NEW m \in Nodes, MkDir(m)
      PROVE  /\ inode'[n] \geq inode[n]
             /\ present[n] => inode'[n] = inode[n]
  <2>1. CASE present[m]
    BY <1>1, <1>2, <2>1 DEF MkDir, dirVars
  <2>2. CASE ~present[m]
    BY <1>0, <1>2, <2>2 DEF MkDir, TypeOK, DirTypeOK
  <2> QED
    BY <2>1, <2>2
<1>3. ASSUME NEW p \in Tasks, PrepareCold(p) \/ StartBuild(p) \/ StageUncommitted(p)
                               \/ LoseCorpus(p)
      PROVE  Node(p) \in Nodes /\ (MkDir(Node(p)) \/ UNCHANGED inode)
  BY <1>3, ProcFacts DEF PrepareCold, StartBuild, StageUncommitted, LoseCorpus, dirVars
<1>4. ASSUME NEW p \in Procs, PrepareWarm(p) \/ AcquireSlot(p) \/ OpenBuildLock(p)
      \/ TakeBuildLock(p) \/ ServePeerShards(p) \/ WaitForFirstBuild(p) \/ Repair(p)
      \/ FoundCurrent(p) \/ FinishBuild(p) \/ DiscardBuild(p) \/ FailBuild(p)
      \/ OpenPublishLock(p) \/ TakePublishLock(p) \/ RefusePublish(p) \/ StartSwap(p)
      \/ EndSwap(p) \/ Leave(p) \/ ServeStale(p) \/ OpenReadLock(p) \/ TakeReadLock(p)
      \/ ListShards(p) \/ FindDamage(p) \/ SeeTreeChange(p) \/ FinishSearch(p)
      \/ OpenMendLock(p) \/ TakeMendLock(p) \/ Mend(p) \/ FailSwap(p) \/ GiveUp(p)
      \/ SweepList(p) \/ SweepOpen(p) \/ SweepLock(p) \/ Probe(p) \/ EndProbe(p)
      \/ CheckUsed(p) \/ Evict(p)
      PROVE  UNCHANGED inode
  BY <1>4 DEF PrepareWarm, AcquireSlot, OpenBuildLock, TakeBuildLock,
     ServePeerShards, WaitForFirstBuild, Repair, FoundCurrent, FinishBuild,
     DiscardBuild, FailBuild, OpenPublishLock, TakePublishLock, RefusePublish,
     StartSwap, EndSwap, Leave, ServeStale, OpenReadLock, TakeReadLock, ListShards,
     FindDamage, SeeTreeChange, FinishSearch, OpenMendLock, TakeMendLock, Mend,
     FailSwap, GiveUp, SweepList, SweepOpen, SweepLock, Probe, EndProbe, CheckUsed,
     Evict, dirVars
<1>5. ASSUME NEW c \in Commands, Crash(c) PROVE UNCHANGED inode
  BY <1>5 DEF Crash, dirVars
<1>6. ASSUME NEW m \in Nodes, Damage(m) PROVE UNCHANGED inode
  BY <1>6 DEF Damage
<1>7. CASE Terminated \/ UNCHANGED vars
  BY <1>1, <1>7 DEF Terminated, vars
<1> QED
  BY ProcFacts, <1>1, <1>2, <1>3, <1>4, <1>5, <1>6, <1>7 DEF Next, TaskStep, SweepStep

\* With one evictor, the sweep that evicts a node is the only one of that node,
\* and it holds the lock that a swap or a read of the node would need.
LEMMA EvictExcludes ==
    ASSUME TypeOK, LockInvariant, EvictInv, NEW s \in Sweeps, pc[s] = "evict",
           NEW p \in Tasks, Node(p) = Node(s), fd[p] = inode[Node(p)]
    PROVE  pc[p] \notin Reading \cup {"publish", "swap", "mend"}
<1>1. /\ fd[s] = inode[Node(s)]
      /\ Lock("publish", s, fd[s]) \in locks
  BY DEF EvictInv, SweepsOwnCorpus, SweepHolds
<1>2. p # s
  BY ProcFacts
<1>3. Lock("publish", p, fd[p]) \notin locks /\ Lock("read", p, fd[p]) \notin locks
  BY <1>1, <1>2 DEF LockInvariant, LocksExclude, Lock
<1> QED
  BY <1>3 DEF LockInvariant, LocksCover

\* A corpus in place leaves only by the eviction of its sweep.
LEMMA PresentStays ==
    ASSUME TypeOK, [Next]_vars, NEW n \in Nodes, present[n], ~present'[n]
    PROVE  \E s \in Sweeps : Node(s) = n /\ Evict(s) /\ pc[s] = "evict"
<1>1. CASE UNCHANGED present
  BY <1>1
<1>2. ASSUME NEW m \in Nodes, MkDir(m) PROVE present'[n]
  BY <1>2 DEF MkDir, dirVars, TypeOK, DirTypeOK
<1>3. ASSUME NEW p \in Tasks, PrepareCold(p) \/ StartBuild(p) \/ StageUncommitted(p)
                               \/ LoseCorpus(p)
      PROVE  present'[n]
  <2>1. Node(p) \in Nodes /\ (MkDir(Node(p)) \/ UNCHANGED present)
    BY <1>3, ProcFacts DEF PrepareCold, StartBuild, StageUncommitted, LoseCorpus, dirVars
  <2> QED
    BY <1>2, <2>1
<1>4. ASSUME NEW s \in Sweeps, Evict(s) PROVE Node(s) = n /\ pc[s] = "evict"
  BY <1>4 DEF Evict, TypeOK, DirTypeOK
<1>5. ASSUME NEW p \in Procs, PrepareWarm(p) \/ AcquireSlot(p) \/ OpenBuildLock(p)
      \/ TakeBuildLock(p) \/ ServePeerShards(p) \/ WaitForFirstBuild(p) \/ Repair(p)
      \/ FoundCurrent(p) \/ FinishBuild(p) \/ DiscardBuild(p) \/ FailBuild(p)
      \/ OpenPublishLock(p) \/ TakePublishLock(p) \/ RefusePublish(p) \/ StartSwap(p)
      \/ EndSwap(p) \/ Leave(p) \/ ServeStale(p) \/ OpenReadLock(p) \/ TakeReadLock(p)
      \/ ListShards(p) \/ FindDamage(p) \/ SeeTreeChange(p) \/ FinishSearch(p)
      \/ OpenMendLock(p) \/ TakeMendLock(p) \/ Mend(p) \/ FailSwap(p) \/ GiveUp(p)
      \/ SweepList(p) \/ SweepOpen(p) \/ SweepLock(p) \/ Probe(p) \/ EndProbe(p)
      \/ CheckUsed(p)
      PROVE  UNCHANGED present
  BY <1>5 DEF PrepareWarm, AcquireSlot, OpenBuildLock, TakeBuildLock,
     ServePeerShards, WaitForFirstBuild, Repair, FoundCurrent, FinishBuild,
     DiscardBuild, FailBuild, OpenPublishLock, TakePublishLock, RefusePublish,
     StartSwap, EndSwap, Leave, ServeStale, OpenReadLock, TakeReadLock, ListShards,
     FindDamage, SeeTreeChange, FinishSearch, OpenMendLock, TakeMendLock, Mend,
     FailSwap, GiveUp, SweepList, SweepOpen, SweepLock, Probe, EndProbe, CheckUsed,
     dirVars
<1>6. ASSUME NEW c \in Commands, Crash(c) PROVE UNCHANGED present
  BY <1>6 DEF Crash, dirVars
<1>7. ASSUME NEW m \in Nodes, Damage(m) PROVE UNCHANGED present
  BY <1>7 DEF Damage
<1>8. CASE Terminated \/ UNCHANGED vars
  BY <1>1, <1>8 DEF Terminated, vars
<1> QED
  BY ProcFacts, <1>1, <1>3, <1>4, <1>5, <1>6, <1>7, <1>8 DEF Next, TaskStep, SweepStep

\* Every step keeps the order of the incarnations that a build saw.
LEMMA BuildsInOrderStep ==
    ASSUME TypeOK, TypeOK', BuildsInOrder, [Next]_vars
    PROVE  BuildsInOrder'
<1>0. \A n \in Nodes : inode[n] \in Nat /\ inode'[n] \in Nat /\ inode'[n] \geq inode[n]
  BY InodeGrows DEF TypeOK, DirTypeOK
<1> USE ProcFacts DEF BuildsInOrder, TypeOK, ProcTypeOK
<1>1. ASSUME NEW p \in Tasks, PrepareWarm(p) PROVE BuildsInOrder'
  BY <1>0, <1>1 DEF PrepareWarm, Goto, fdVars
<1>2. ASSUME NEW p \in Tasks, PrepareCold(p) PROVE BuildsInOrder'
  BY <1>0, <1>2 DEF PrepareCold, Goto, fdVars
<1>3. ASSUME NEW p \in Tasks, AcquireSlot(p) PROVE BuildsInOrder'
  BY <1>0, <1>3 DEF AcquireSlot, Goto, fdVars
<1>4. ASSUME NEW p \in Tasks, OpenBuildLock(p) PROVE BuildsInOrder'
  BY <1>0, <1>4 DEF OpenBuildLock, Goto
<1>5. ASSUME NEW p \in Tasks, TakeBuildLock(p) PROVE BuildsInOrder'
  BY <1>0, <1>5 DEF TakeBuildLock, Goto, Acquire, fdVars
<1>6. ASSUME NEW p \in Tasks, ServePeerShards(p) PROVE BuildsInOrder'
  BY <1>0, <1>6 DEF ServePeerShards, Goto, fdVars
<1>7. ASSUME NEW p \in Tasks, WaitForFirstBuild(p) PROVE BuildsInOrder'
  BY <1>0, <1>7 DEF WaitForFirstBuild, Goto, fdVars
<1>8. ASSUME NEW p \in Tasks, Repair(p) PROVE BuildsInOrder'
  BY <1>0, <1>8 DEF Repair, Goto, fdVars
<1>9. ASSUME NEW p \in Tasks, FoundCurrent(p) PROVE BuildsInOrder'
  BY <1>0, <1>9 DEF FoundCurrent, Goto, fdVars
<1>10. ASSUME NEW p \in Tasks, StartBuild(p) PROVE BuildsInOrder'
  BY <1>0, <1>10 DEF StartBuild, Goto
<1>11. ASSUME NEW p \in Tasks, FinishBuild(p) PROVE BuildsInOrder'
  BY <1>0, <1>11 DEF FinishBuild, Lasting, Goto, fdVars
<1>12. ASSUME NEW p \in Tasks, DiscardBuild(p) PROVE BuildsInOrder'
  BY <1>0, <1>12 DEF DiscardBuild, Goto, fdVars
<1>13. ASSUME NEW p \in Tasks, FailBuild(p) PROVE BuildsInOrder'
  BY <1>0, <1>13 DEF FailBuild, Goto, Drop, fdVars
<1>14. ASSUME NEW p \in Tasks, OpenPublishLock(p) PROVE BuildsInOrder'
  BY <1>0, <1>14 DEF OpenPublishLock, Goto
<1>15. ASSUME NEW p \in Tasks, TakePublishLock(p) PROVE BuildsInOrder'
  BY <1>0, <1>15 DEF TakePublishLock, Goto, Acquire, fdVars
<1>16. ASSUME NEW p \in Tasks, RefusePublish(p) PROVE BuildsInOrder'
  BY <1>0, <1>16 DEF RefusePublish, Goto, Drop, fdVars
<1>17. ASSUME NEW p \in Tasks, StartSwap(p) PROVE BuildsInOrder'
  BY <1>0, <1>17 DEF StartSwap, Goto, fdVars
<1>18. ASSUME NEW p \in Tasks, EndSwap(p) PROVE BuildsInOrder'
  BY <1>0, <1>18 DEF EndSwap, Goto, Drop, fdVars
<1>19. ASSUME NEW p \in Tasks, Leave(p) PROVE BuildsInOrder'
  BY <1>0, <1>19 DEF Leave, EndOfBuild, Goto, Drop, fdVars
<1>20. ASSUME NEW p \in Tasks, ServeStale(p) PROVE BuildsInOrder'
  <2>1. UNCHANGED <<inode, fd>> /\ bdir' = [bdir EXCEPT ![p] = 0]
    BY <1>20 DEF ServeStale, EndOfBuild, dirVars
  <2>2. \E step \in {"openRead", "skipped"} : pc' = [pc EXCEPT ![p] = step]
    BY <1>20 DEF ServeStale, Goto
  <2> QED
    BY <1>0, <2>1, <2>2
<1>21. ASSUME NEW p \in Tasks, OpenReadLock(p) PROVE BuildsInOrder'
  BY <1>0, <1>21 DEF OpenReadLock, Goto
<1>22. ASSUME NEW p \in Tasks, TakeReadLock(p) PROVE BuildsInOrder'
  BY <1>0, <1>22 DEF TakeReadLock, Goto, Acquire, fdVars
<1>23. ASSUME NEW p \in Tasks, ListShards(p) PROVE BuildsInOrder'
  BY <1>0, <1>23 DEF ListShards, Goto, fdVars
<1>24. ASSUME NEW p \in Tasks, FindDamage(p) PROVE BuildsInOrder'
  BY <1>0, <1>24 DEF FindDamage, Goto, Drop, fdVars
<1>25. ASSUME NEW p \in Tasks, SeeTreeChange(p) PROVE BuildsInOrder'
  BY <1>0, <1>25 DEF SeeTreeChange, Goto, Drop, fdVars
<1>26. ASSUME NEW p \in Tasks, FinishSearch(p) PROVE BuildsInOrder'
  BY <1>0, <1>26 DEF FinishSearch, Goto, Drop, fdVars
<1>27. ASSUME NEW p \in Tasks, OpenMendLock(p) PROVE BuildsInOrder'
  BY <1>0, <1>27 DEF OpenMendLock, Goto
<1>28. ASSUME NEW p \in Tasks, TakeMendLock(p) PROVE BuildsInOrder'
  BY <1>0, <1>28 DEF TakeMendLock, Goto, Acquire, fdVars
<1>29. ASSUME NEW p \in Tasks, Mend(p) PROVE BuildsInOrder'
  BY <1>0, <1>29 DEF Mend, Goto, Drop, fdVars
<1>30. ASSUME NEW p \in Tasks, FailSwap(p) PROVE BuildsInOrder'
  BY <1>0, <1>30 DEF FailSwap, Goto, Drop, fdVars
<1>31. ASSUME NEW p \in Tasks, GiveUp(p) PROVE BuildsInOrder'
  BY <1>0, <1>31 DEF GiveUp, Goto, Drop, fdVars
<1>32. ASSUME NEW s \in Sweeps, SweepList(s) PROVE BuildsInOrder'
  BY <1>0, <1>32 DEF SweepList, Goto, fdVars
<1>33. ASSUME NEW s \in Sweeps, SweepOpen(s) PROVE BuildsInOrder'
  BY <1>0, <1>33 DEF SweepOpen, Goto
<1>34. ASSUME NEW s \in Sweeps, SweepLock(s) PROVE BuildsInOrder'
  BY <1>0, <1>34 DEF SweepLock, Goto, Acquire, fdVars
<1>35. ASSUME NEW s \in Sweeps, Probe(s) PROVE BuildsInOrder'
  BY <1>0, <1>35 DEF Probe, Goto, Acquire, Drop
<1>36. ASSUME NEW s \in Sweeps, EndProbe(s) PROVE BuildsInOrder'
  BY <1>0, <1>36 DEF EndProbe, Goto, Drop, fdVars
<1>37. ASSUME NEW s \in Sweeps, CheckUsed(s) PROVE BuildsInOrder'
  BY <1>0, <1>37 DEF CheckUsed, Goto, Drop, fdVars
<1>38. ASSUME NEW s \in Sweeps, Evict(s) PROVE BuildsInOrder'
  BY <1>0, <1>38 DEF Evict, Goto, Drop, fdVars
<1>39. ASSUME NEW c \in Commands, Crash(c) PROVE BuildsInOrder'
  BY <1>0, <1>39 DEF Crash, Ended, fdVars
<1>40. ASSUME NEW n \in Nodes, Damage(n) PROVE BuildsInOrder'
  BY <1>0, <1>40 DEF Damage, fdVars
<1>42. ASSUME NEW p \in Tasks, StageUncommitted(p) PROVE BuildsInOrder'
  BY <1>0, <1>42 DEF StageUncommitted, Goto
<1>43. ASSUME NEW p \in Tasks, LoseCorpus(p) PROVE BuildsInOrder'
  BY <1>0, <1>43 DEF LoseCorpus, Goto, fdVars
<1>41. CASE Terminated \/ UNCHANGED vars
  BY <1>0, <1>41 DEF Terminated, vars
<1> QED
  BY <1>1, <1>2, <1>3, <1>4, <1>5, <1>6, <1>7, <1>8, <1>9, <1>10, <1>11, <1>12,
     <1>13, <1>14, <1>15, <1>16, <1>17, <1>18, <1>19, <1>20, <1>21, <1>22, <1>23,
     <1>24, <1>25, <1>26, <1>27, <1>28, <1>29, <1>30, <1>31, <1>32, <1>33, <1>34,
     <1>35, <1>36, <1>37, <1>38, <1>39, <1>40, <1>41, <1>42, <1>43 DEF Next, TaskStep, SweepStep

\* Every step keeps what a sweep relies on.
LEMMA SweepsOwnCorpusStep ==
    ASSUME SoleEvictor, TypeOK, SweepsOwnCorpus, [Next]_vars
    PROVE  SweepsOwnCorpus'
<1>0. ASSUME NEW s \in Sweeps, pc[s] \in SweepHolds \cup {"sweepLock"},
             pc'[s] \in SweepHolds \cup {"sweepLock"}
      PROVE  present'[Node(s)] /\ inode'[Node(s)] = inode[Node(s)]
  <2>1. present[Node(s)] /\ Node(s) \in Nodes
    BY <1>0, ProcFacts DEF SweepsOwnCorpus
  <2>2. ASSUME NEW t \in Sweeps, Node(t) = Node(s) PROVE t = s
    BY <2>2 DEF SoleEvictor, Sweeps, Node
  <2>3. ~Evict(s)
    BY <1>0, ProcFacts DEF Evict, Goto, SweepHolds, TypeOK, ProcTypeOK
  <2>4. present'[Node(s)] = TRUE \/ present'[Node(s)] = FALSE
    BY <2>1, DirTypeStep DEF DirTypeOK
  <2> QED
    BY <2>1, <2>2, <2>3, <2>4, PresentStays, InodeGrows
<1> USE ProcFacts DEF SweepsOwnCorpus, SweepHolds, TypeOK, ProcTypeOK, Lock
<1>1. ASSUME NEW p \in Tasks, PrepareWarm(p) PROVE SweepsOwnCorpus'
  BY <1>0, <1>1 DEF PrepareWarm, Goto, fdVars
<1>2. ASSUME NEW p \in Tasks, PrepareCold(p) PROVE SweepsOwnCorpus'
  BY <1>0, <1>2 DEF PrepareCold, Goto, fdVars
<1>3. ASSUME NEW p \in Tasks, AcquireSlot(p) PROVE SweepsOwnCorpus'
  BY <1>0, <1>3 DEF AcquireSlot, Goto, fdVars
<1>4. ASSUME NEW p \in Tasks, OpenBuildLock(p) PROVE SweepsOwnCorpus'
  BY <1>0, <1>4 DEF OpenBuildLock, Goto
<1>5. ASSUME NEW p \in Tasks, TakeBuildLock(p) PROVE SweepsOwnCorpus'
  BY <1>0, <1>5 DEF TakeBuildLock, Goto, Acquire, fdVars
<1>6. ASSUME NEW p \in Tasks, ServePeerShards(p) PROVE SweepsOwnCorpus'
  BY <1>0, <1>6 DEF ServePeerShards, Goto, fdVars
<1>7. ASSUME NEW p \in Tasks, WaitForFirstBuild(p) PROVE SweepsOwnCorpus'
  BY <1>0, <1>7 DEF WaitForFirstBuild, Goto, fdVars
<1>8. ASSUME NEW p \in Tasks, Repair(p) PROVE SweepsOwnCorpus'
  BY <1>0, <1>8 DEF Repair, Goto, fdVars
<1>9. ASSUME NEW p \in Tasks, FoundCurrent(p) PROVE SweepsOwnCorpus'
  BY <1>0, <1>9 DEF FoundCurrent, Goto, fdVars
<1>10. ASSUME NEW p \in Tasks, StartBuild(p) PROVE SweepsOwnCorpus'
  BY <1>0, <1>10 DEF StartBuild, Goto
<1>11. ASSUME NEW p \in Tasks, FinishBuild(p) PROVE SweepsOwnCorpus'
  BY <1>0, <1>11 DEF FinishBuild, Goto, fdVars
<1>12. ASSUME NEW p \in Tasks, DiscardBuild(p) PROVE SweepsOwnCorpus'
  BY <1>0, <1>12 DEF DiscardBuild, Goto, fdVars
<1>13. ASSUME NEW p \in Tasks, FailBuild(p) PROVE SweepsOwnCorpus'
  BY <1>0, <1>13 DEF FailBuild, Goto, Drop, fdVars
<1>14. ASSUME NEW p \in Tasks, OpenPublishLock(p) PROVE SweepsOwnCorpus'
  BY <1>0, <1>14 DEF OpenPublishLock, Goto
<1>15. ASSUME NEW p \in Tasks, TakePublishLock(p) PROVE SweepsOwnCorpus'
  BY <1>0, <1>15 DEF TakePublishLock, Goto, Acquire, fdVars
<1>16. ASSUME NEW p \in Tasks, RefusePublish(p) PROVE SweepsOwnCorpus'
  BY <1>0, <1>16 DEF RefusePublish, Goto, Drop, fdVars
<1>17. ASSUME NEW p \in Tasks, StartSwap(p) PROVE SweepsOwnCorpus'
  BY <1>0, <1>17 DEF StartSwap, Goto, fdVars
<1>18. ASSUME NEW p \in Tasks, EndSwap(p) PROVE SweepsOwnCorpus'
  BY <1>0, <1>18 DEF EndSwap, Goto, Drop, fdVars
<1>19. ASSUME NEW p \in Tasks, Leave(p) PROVE SweepsOwnCorpus'
  BY <1>0, <1>19 DEF Leave, EndOfBuild, Goto, Drop, fdVars
<1>20. ASSUME NEW p \in Tasks, ServeStale(p) PROVE SweepsOwnCorpus'
  BY <1>0, <1>20 DEF ServeStale, EndOfBuild, Goto, fdVars
<1>21. ASSUME NEW p \in Tasks, OpenReadLock(p) PROVE SweepsOwnCorpus'
  BY <1>0, <1>21 DEF OpenReadLock, Goto
<1>22. ASSUME NEW p \in Tasks, TakeReadLock(p) PROVE SweepsOwnCorpus'
  BY <1>0, <1>22 DEF TakeReadLock, Goto, Acquire, fdVars
<1>23. ASSUME NEW p \in Tasks, ListShards(p) PROVE SweepsOwnCorpus'
  BY <1>0, <1>23 DEF ListShards, Goto, fdVars
<1>24. ASSUME NEW p \in Tasks, FindDamage(p) PROVE SweepsOwnCorpus'
  BY <1>0, <1>24 DEF FindDamage, Goto, Drop, fdVars
<1>25. ASSUME NEW p \in Tasks, SeeTreeChange(p) PROVE SweepsOwnCorpus'
  BY <1>0, <1>25 DEF SeeTreeChange, Goto, Drop, fdVars
<1>26. ASSUME NEW p \in Tasks, FinishSearch(p) PROVE SweepsOwnCorpus'
  BY <1>0, <1>26 DEF FinishSearch, Goto, Drop, fdVars
<1>27. ASSUME NEW p \in Tasks, OpenMendLock(p) PROVE SweepsOwnCorpus'
  BY <1>0, <1>27 DEF OpenMendLock, Goto
<1>28. ASSUME NEW p \in Tasks, TakeMendLock(p) PROVE SweepsOwnCorpus'
  BY <1>0, <1>28 DEF TakeMendLock, Goto, Acquire, fdVars
<1>29. ASSUME NEW p \in Tasks, Mend(p) PROVE SweepsOwnCorpus'
  BY <1>0, <1>29 DEF Mend, Goto, Drop, fdVars
<1>30. ASSUME NEW p \in Tasks, FailSwap(p) PROVE SweepsOwnCorpus'
  BY <1>0, <1>30 DEF FailSwap, Goto, Drop, fdVars
<1>31. ASSUME NEW p \in Tasks, GiveUp(p) PROVE SweepsOwnCorpus'
  BY <1>0, <1>31 DEF GiveUp, Goto, Drop, fdVars
<1>32. ASSUME NEW s \in Sweeps, SweepList(s) PROVE SweepsOwnCorpus'
  BY <1>0, <1>32 DEF SweepList, Goto, fdVars
<1>33. ASSUME NEW s \in Sweeps, SweepOpen(s) PROVE SweepsOwnCorpus'
  BY <1>0, <1>33 DEF SweepOpen, Goto
<1>34. ASSUME NEW s \in Sweeps, SweepLock(s) PROVE SweepsOwnCorpus'
  BY <1>0, <1>34 DEF SweepLock, Goto, Acquire, fdVars
<1>35. ASSUME NEW s \in Sweeps, Probe(s) PROVE SweepsOwnCorpus'
  BY <1>0, <1>35 DEF Probe, Goto, Acquire, Drop
<1>36. ASSUME NEW s \in Sweeps, EndProbe(s) PROVE SweepsOwnCorpus'
  BY <1>0, <1>36 DEF EndProbe, Goto, Drop, fdVars
<1>37. ASSUME NEW s \in Sweeps, CheckUsed(s) PROVE SweepsOwnCorpus'
  BY <1>0, <1>37 DEF CheckUsed, Goto, Drop, fdVars
<1>38. ASSUME NEW s \in Sweeps, Evict(s) PROVE SweepsOwnCorpus'
  BY <1>0, <1>38 DEF Evict, Goto, Drop, fdVars
<1>39. ASSUME NEW c \in Commands, Crash(c) PROVE SweepsOwnCorpus'
  BY <1>0, <1>39 DEF Crash, Ended, fdVars
<1>40. ASSUME NEW n \in Nodes, Damage(n) PROVE SweepsOwnCorpus'
  BY <1>0, <1>40 DEF Damage, fdVars
<1>42. ASSUME NEW p \in Tasks, StageUncommitted(p) PROVE SweepsOwnCorpus'
  BY <1>0, <1>42 DEF StageUncommitted, Goto
<1>43. ASSUME NEW p \in Tasks, LoseCorpus(p) PROVE SweepsOwnCorpus'
  BY <1>0, <1>43 DEF LoseCorpus, Goto, Drop, fdVars
<1>41. CASE Terminated \/ UNCHANGED vars
  BY <1>0, <1>41 DEF Terminated, vars
<1> QED
  BY <1>1, <1>2, <1>3, <1>4, <1>5, <1>6, <1>7, <1>8, <1>9, <1>10, <1>11, <1>12,
     <1>13, <1>14, <1>15, <1>16, <1>17, <1>18, <1>19, <1>20, <1>21, <1>22, <1>23,
     <1>24, <1>25, <1>26, <1>27, <1>28, <1>29, <1>30, <1>31, <1>32, <1>33, <1>34,
     <1>35, <1>36, <1>37, <1>38, <1>39, <1>40, <1>41, <1>42, <1>43 DEF Next, TaskStep, SweepStep

\* A swap begins only with its corpus in place (publishShardFamilyLocked).
LEMMA SwapBegins ==
    ASSUME TypeOK, [Next]_vars, NEW q \in Tasks, pc'[q] = "swap"
    PROVE  \/ StartSwap(q)
           \/ pc[q] = "swap" /\ fd'[q] = fd[q] /\ bdir'[q] = bdir[q]
<1> DEFINE Goal == \/ StartSwap(q)
                   \/ pc[q] = "swap" /\ fd'[q] = fd[q] /\ bdir'[q] = bdir[q]
<1> USE ProcFacts DEF TypeOK, ProcTypeOK
<1>1. ASSUME NEW p \in Tasks, PrepareWarm(p) PROVE Goal
  BY <1>1 DEF PrepareWarm, Goto, fdVars
<1>2. ASSUME NEW p \in Tasks, PrepareCold(p) PROVE Goal
  BY <1>2 DEF PrepareCold, Goto, fdVars
<1>3. ASSUME NEW p \in Tasks, AcquireSlot(p) PROVE Goal
  BY <1>3 DEF AcquireSlot, Goto, fdVars
<1>4. ASSUME NEW p \in Tasks, OpenBuildLock(p) PROVE Goal
  BY <1>4 DEF OpenBuildLock, Goto
<1>5. ASSUME NEW p \in Tasks, TakeBuildLock(p) PROVE Goal
  BY <1>5 DEF TakeBuildLock, Goto, Acquire, fdVars
<1>6. ASSUME NEW p \in Tasks, ServePeerShards(p) PROVE Goal
  BY <1>6 DEF ServePeerShards, Goto, fdVars
<1>7. ASSUME NEW p \in Tasks, WaitForFirstBuild(p) PROVE Goal
  BY <1>7 DEF WaitForFirstBuild, Goto, fdVars
<1>8. ASSUME NEW p \in Tasks, Repair(p) PROVE Goal
  BY <1>8 DEF Repair, Goto, fdVars
<1>9. ASSUME NEW p \in Tasks, FoundCurrent(p) PROVE Goal
  BY <1>9 DEF FoundCurrent, Goto, fdVars
<1>10. ASSUME NEW p \in Tasks, StartBuild(p) PROVE Goal
  BY <1>10 DEF StartBuild, Goto
<1>11. ASSUME NEW p \in Tasks, FinishBuild(p) PROVE Goal
  BY <1>11 DEF FinishBuild, Lasting, Goto, fdVars
<1>12. ASSUME NEW p \in Tasks, DiscardBuild(p) PROVE Goal
  BY <1>12 DEF DiscardBuild, Goto, fdVars
<1>13. ASSUME NEW p \in Tasks, FailBuild(p) PROVE Goal
  BY <1>13 DEF FailBuild, Goto, Drop, fdVars
<1>14. ASSUME NEW p \in Tasks, OpenPublishLock(p) PROVE Goal
  BY <1>14 DEF OpenPublishLock, Goto
<1>15. ASSUME NEW p \in Tasks, TakePublishLock(p) PROVE Goal
  BY <1>15 DEF TakePublishLock, Goto, Acquire, fdVars
<1>16. ASSUME NEW p \in Tasks, RefusePublish(p) PROVE Goal
  BY <1>16 DEF RefusePublish, Goto, Drop, fdVars
<1>17. ASSUME NEW p \in Tasks, StartSwap(p) PROVE Goal
  <2>1. CASE p = q
    BY <1>17, <2>1
  <2>2. CASE p # q
    BY <1>17, <2>2 DEF StartSwap, Goto, fdVars
  <2> QED
    BY <2>1, <2>2
<1>18. ASSUME NEW p \in Tasks, EndSwap(p) PROVE Goal
  BY <1>18 DEF EndSwap, Goto, Drop, fdVars
<1>19. ASSUME NEW p \in Tasks, Leave(p) PROVE Goal
  BY <1>19 DEF Leave, EndOfBuild, Goto, Drop, fdVars
<1>20. ASSUME NEW p \in Tasks, ServeStale(p) PROVE Goal
  BY <1>20 DEF ServeStale, EndOfBuild, Goto, fdVars
<1>21. ASSUME NEW p \in Tasks, OpenReadLock(p) PROVE Goal
  BY <1>21 DEF OpenReadLock, Goto
<1>22. ASSUME NEW p \in Tasks, TakeReadLock(p) PROVE Goal
  BY <1>22 DEF TakeReadLock, Goto, Acquire, fdVars
<1>23. ASSUME NEW p \in Tasks, ListShards(p) PROVE Goal
  BY <1>23 DEF ListShards, Goto, fdVars
<1>24. ASSUME NEW p \in Tasks, FindDamage(p) PROVE Goal
  BY <1>24 DEF FindDamage, Goto, Drop, fdVars
<1>25. ASSUME NEW p \in Tasks, SeeTreeChange(p) PROVE Goal
  BY <1>25 DEF SeeTreeChange, Goto, Drop, fdVars
<1>26. ASSUME NEW p \in Tasks, FinishSearch(p) PROVE Goal
  BY <1>26 DEF FinishSearch, Goto, Drop, fdVars
<1>27. ASSUME NEW p \in Tasks, OpenMendLock(p) PROVE Goal
  BY <1>27 DEF OpenMendLock, Goto
<1>28. ASSUME NEW p \in Tasks, TakeMendLock(p) PROVE Goal
  BY <1>28 DEF TakeMendLock, Goto, Acquire, fdVars
<1>29. ASSUME NEW p \in Tasks, Mend(p) PROVE Goal
  BY <1>29 DEF Mend, Goto, Drop, fdVars
<1>30. ASSUME NEW p \in Tasks, FailSwap(p) PROVE Goal
  BY <1>30 DEF FailSwap, Goto, Drop, fdVars
<1>31. ASSUME NEW p \in Tasks, GiveUp(p) PROVE Goal
  BY <1>31 DEF GiveUp, Goto, Drop, fdVars
<1>32. ASSUME NEW s \in Sweeps, SweepList(s) PROVE Goal
  BY <1>32 DEF SweepList, Goto, fdVars
<1>33. ASSUME NEW s \in Sweeps, SweepOpen(s) PROVE Goal
  BY <1>33 DEF SweepOpen, Goto
<1>34. ASSUME NEW s \in Sweeps, SweepLock(s) PROVE Goal
  BY <1>34 DEF SweepLock, Goto, Acquire, fdVars
<1>35. ASSUME NEW s \in Sweeps, Probe(s) PROVE Goal
  BY <1>35 DEF Probe, Goto, Acquire, Drop
<1>36. ASSUME NEW s \in Sweeps, EndProbe(s) PROVE Goal
  BY <1>36 DEF EndProbe, Goto, Drop, fdVars
<1>37. ASSUME NEW s \in Sweeps, CheckUsed(s) PROVE Goal
  BY <1>37 DEF CheckUsed, Goto, Drop, fdVars
<1>38. ASSUME NEW s \in Sweeps, Evict(s) PROVE Goal
  BY <1>38 DEF Evict, Goto, Drop, fdVars
<1>39. ASSUME NEW c \in Commands, Crash(c) PROVE Goal
  BY <1>39 DEF Crash, Ended, fdVars
<1>40. ASSUME NEW n \in Nodes, Damage(n) PROVE Goal
  BY <1>40 DEF Damage, fdVars
<1>42. ASSUME NEW p \in Tasks, StageUncommitted(p) PROVE Goal
  BY <1>42 DEF StageUncommitted, Goto
<1>43. ASSUME NEW p \in Tasks, LoseCorpus(p) PROVE Goal
  BY <1>43 DEF LoseCorpus, Goto, Drop, fdVars
<1>41. CASE Terminated \/ UNCHANGED vars
  BY <1>41 DEF Terminated, vars
<1> QED
  BY <1>1, <1>2, <1>3, <1>4, <1>5, <1>6, <1>7, <1>8, <1>9, <1>10, <1>11, <1>12,
     <1>13, <1>14, <1>15, <1>16, <1>17, <1>18, <1>19, <1>20, <1>21, <1>22, <1>23,
     <1>24, <1>25, <1>26, <1>27, <1>28, <1>29, <1>30, <1>31, <1>32, <1>33, <1>34,
     <1>35, <1>36, <1>37, <1>38, <1>39, <1>40, <1>41, <1>42, <1>43 DEF Next, TaskStep, SweepStep

\* Every step keeps the corpus of a running swap in place.
LEMMA SwapInPlaceStep ==
    ASSUME TypeOK, LockInvariant, EvictInv, [Next]_vars
    PROVE  SwapInPlace'
<1> SUFFICES ASSUME NEW p \in Tasks, pc'[p] = "swap", bdir'[p] # 0
             PROVE  /\ present'[Node(p)]
                    /\ fd'[p] = inode'[Node(p)]
                    /\ bdir'[p] = inode'[Node(p)]
  BY DEF SwapInPlace
<1>1. Node(p) \in Nodes /\ p \in Procs
  BY ProcFacts
<1>2. CASE StartSwap(p)
  <2>1. fd[p] \in Nat /\ bdir[p] \in Nat /\ inode[Node(p)] \in Nat
    BY <1>1 DEF TypeOK, DirTypeOK, ProcTypeOK
  <2>2. bdir[p] = inode[Node(p)] /\ bdir[p] \leq fd[p] /\ fd[p] \leq inode[Node(p)]
    BY <1>2 DEF StartSwap, EvictInv, BuildsInOrder, fdVars
  <2> QED
    BY <1>2, <2>1, <2>2 DEF StartSwap, fdVars
<1>3. CASE pc[p] = "swap" /\ fd'[p] = fd[p] /\ bdir'[p] = bdir[p]
  <2>1. present[Node(p)] /\ fd[p] = inode[Node(p)] /\ bdir[p] = inode[Node(p)]
    BY <1>3 DEF EvictInv, SwapInPlace
  <2>2. ~\E s \in Sweeps : Node(s) = Node(p) /\ pc[s] = "evict"
    BY <1>3, <2>1, EvictExcludes
  <2>3. present'[Node(p)]
    BY <1>1, <2>1, <2>2, PresentStays
  <2> QED
    BY <1>1, <1>3, <2>1, <2>3, InodeGrows
<1> QED
  BY <1>2, <1>3, SwapBegins

\* With one evictor, each swap of the files of a build directory moves them into the
\* corpus in place, the one that its build was for and whose lock it holds.  It says
\* nothing of a Git build without a build directory, which has no such test.
THEOREM SwapKeepsItsCorpus == Spec => []SwapsOwnCorpus
<1>1. CASE SoleEvictor
  <2>1. TypeOK /\ TypeOK' /\ LockInvariant /\ EvictInv /\ [Next]_vars => EvictInv'
    BY <1>1, SweepsOwnCorpusStep, BuildsInOrderStep, SwapInPlaceStep DEF EvictInv
  <2>2. EvictInv => SwapsOwnCorpus
    BY DEF EvictInv, SwapInPlace, SwapsOwnCorpus
  <2> QED
    BY TypeCorrect, LocksHold, EvictInvInit, <2>1, <2>2, PTL DEF Spec
<1>2. CASE ~SoleEvictor
  <2>1. SwapsOwnCorpus
    BY <1>2 DEF SwapsOwnCorpus
  <2> QED
    BY <2>1, PTL
<1> QED
  BY <1>1, <1>2

\* With one evictor, no step takes a corpus away from a read, a swap or a mend.
THEOREM EvictionSpares == Spec => EvictionSparesUse
<1>1. CASE SoleEvictor
  <2>1. TypeOK /\ TypeOK' /\ LockInvariant /\ EvictInv /\ [Next]_vars => EvictInv'
    BY <1>1, SweepsOwnCorpusStep, BuildsInOrderStep, SwapInPlaceStep DEF EvictInv
  <2>2. TypeOK /\ LockInvariant /\ EvictInv /\ [Next]_vars
          => [SoleEvictor => SparesUse]_vars
    BY PresentStays, EvictExcludes DEF SparesUse
  <2> QED
    BY TypeCorrect, LocksHold, EvictInvInit, <2>1, <2>2, PTL DEF Spec, EvictionSparesUse
<1>2. CASE ~SoleEvictor
  <2>1. [Next]_vars => [SoleEvictor => SparesUse]_vars
    BY <1>2
  <2> QED
    BY <2>1, PTL DEF Spec, EvictionSparesUse
<1> QED
  BY <1>1, <1>2

-----------------------------------------------------------------------------
(* The shard family.  While nothing evicts, the locks exclude by path, so     *)
(* what one builder or one repair finds in the directory stays as it found    *)
(* it.                                                                        *)

\* A build of a node, or a read and a swap of it, leave no room for another.
PathsExclude == SwapExcludesReaders /\ OneBuilder /\ OneIncarnation

\* The steps of a build after its repair, up to the first move of its swap.
Repaired == {"recheck", "build", "stage", "openPublish", "publishWait", "publish"}

familyVars == <<family, manifest, marker, aside, sawManifest>>

\* A step in which a task enters no swap, leaves none and enters no repaired build.
SwapsStay ==
    \A t \in Tasks : /\ pc'[t] = "swap" <=> pc[t] = "swap"
                     /\ pc'[t] \in Repaired => pc[t] \in Repaired

\* The steps that write neither a family, its marker, its manifest, nor what a
\* read knows of it.
LEMMA FamilyFrame ==
    ASSUME TypeOK, NEW p \in Procs, PrepareWarm(p) \/ PrepareCold(p) \/ AcquireSlot(p)
      \/ OpenBuildLock(p) \/ TakeBuildLock(p) \/ ServePeerShards(p)
      \/ WaitForFirstBuild(p) \/ FoundCurrent(p) \/ StartBuild(p) \/ FinishBuild(p)
      \/ StageUncommitted(p)
      \/ DiscardBuild(p) \/ FailBuild(p) \/ OpenPublishLock(p) \/ TakePublishLock(p)
      \/ RefusePublish(p) \/ Leave(p) \/ ServeStale(p) \/ OpenReadLock(p)
      \/ TakeReadLock(p) \/ ListShards(p) \/ SeeTreeChange(p) \/ FinishSearch(p)
      \/ OpenMendLock(p) \/ TakeMendLock(p) \/ GiveUp(p) \/ SweepList(p)
      \/ SweepOpen(p) \/ SweepLock(p) \/ Probe(p) \/ EndProbe(p) \/ CheckUsed(p)
    PROVE  UNCHANGED familyVars /\ SwapsStay
<1>1. UNCHANGED familyVars
  BY DEF PrepareWarm, PrepareCold, AcquireSlot, OpenBuildLock, TakeBuildLock,
     ServePeerShards, WaitForFirstBuild, FoundCurrent, StartBuild, StageUncommitted, FinishBuild, Lasting,
     DiscardBuild, FailBuild, OpenPublishLock, TakePublishLock, RefusePublish, Leave,
     EndOfBuild, ServeStale, OpenReadLock, TakeReadLock, ListShards, SeeTreeChange, FinishSearch,
     OpenMendLock, TakeMendLock, GiveUp, SweepList, SweepOpen, SweepLock, Probe,
     EndProbe, CheckUsed, MkDir, dirVars, familyVars
<1>2. \E step \in TaskSteps \cup SweepSteps :
         /\ pc' = [pc EXCEPT ![p] = step]
         /\ step # "swap" /\ pc[p] # "swap"
         /\ step \in Repaired => pc[p] \in Repaired
  BY DEF PrepareWarm, PrepareCold, AcquireSlot, OpenBuildLock, TakeBuildLock,
     ServePeerShards, WaitForFirstBuild, FoundCurrent, StartBuild, StageUncommitted, FinishBuild, Lasting,
     DiscardBuild, FailBuild, OpenPublishLock, TakePublishLock, RefusePublish, Leave,
     EndOfBuild, ServeStale, OpenReadLock, TakeReadLock, ListShards, SeeTreeChange, FinishSearch,
     OpenMendLock, TakeMendLock, GiveUp, SweepList, SweepOpen, SweepLock, Probe,
     EndProbe, CheckUsed, Goto, Repaired, TaskSteps, SweepSteps
<1>3. SwapsStay
  BY <1>2, ProcFacts DEF SwapsStay, TypeOK, ProcTypeOK
<1> QED
  BY <1>1, <1>3

\* Without evictors, a step is one of those, or it is one of the eight that do.
LEMMA FamilySteps ==
    ASSUME TypeOK, PathsExclude, Evictors = {}, [Next]_vars
    PROVE  \/ UNCHANGED familyVars /\ SwapsStay
           \/ \E p \in Tasks : \/ Repair(p) \/ StartSwap(p) \/ EndSwap(p) \/ FailSwap(p)
                               \/ FindDamage(p) \/ Mend(p)
           \/ \E c \in Commands : Crash(c)
           \/ \E n \in Nodes : Damage(n)
<1>1. Sweeps = {}
  BY DEF Sweeps
<1>2. CASE Terminated \/ UNCHANGED vars
  BY <1>2 DEF Terminated, vars, familyVars, SwapsStay
<1>3. ASSUME NEW p \in Tasks, LoseCorpus(p) PROVE FALSE
  BY <1>3, ProcFacts DEF LoseCorpus, PathsExclude, OneIncarnation, OpenLock
<1> QED
  BY <1>1, <1>2, <1>3, FamilyFrame, ProcFacts DEF Next, TaskStep

\* A crash only ends steps.
LEMMA CrashSteps ==
    ASSUME NEW c, Crash(c)
    PROVE  /\ UNCHANGED familyVars
           /\ "crash" \in FaultKinds
           /\ \A t \in Tasks : pc'[t] = pc[t] \/ pc'[t] = "dead"
BY ProcFacts DEF Crash, Fault, dirVars, familyVars

\* What the steps of a repair, a swap and a damaged read write, and the step that
\* the task goes to.
Moves(p, step) == pc' = [pc EXCEPT ![p] = step]

Repairs(p, n) ==
    /\ pc[p] = "repair" /\ Moves(p, "recheck") /\ UNCHANGED aside
    /\ \/ ~marker[n] /\ UNCHANGED <<family, manifest, marker, sawManifest>>
       \/ /\ marker[n]
          /\ \E rest \in {"none", "part"} : family' = [family EXCEPT ![n] = rest]
          /\ manifest' = [manifest EXCEPT ![n] = FALSE]
          /\ marker' = [marker EXCEPT ![n] = FALSE]
          /\ sawManifest' \subseteq sawManifest

SwapStarts(p, n) ==
    /\ pc[p] = "publish" /\ Moves(p, "swap") /\ UNCHANGED sawManifest
    /\ aside' = [aside EXCEPT ![n] = [family |-> family[n], manifest |-> manifest[n]]]
    /\ family' = [family EXCEPT ![n] = "part"]
    /\ manifest' = [manifest EXCEPT ![n] = FALSE]
    /\ \/ marker' = [marker EXCEPT ![n] = TRUE] /\ bdir[p] # 0
       \/ UNCHANGED marker

SwapEnds(p, n) ==
    /\ pc[p] = "swap" /\ Moves(p, "leave")
    /\ aside' = [aside EXCEPT ![n] = NoFamily]
    /\ \E left \in {"whole", "damaged", "part"} :
          /\ left = "part" => bfd[p] # inode[n]
          /\ family' = [family EXCEPT ![n] = left]
          /\ manifest' = [manifest EXCEPT ![n] = left # "part"]
    /\ \/ marker' = [marker EXCEPT ![n] = FALSE]
       \/ bdir[p] = 0 /\ UNCHANGED marker
    /\ sawManifest' = {t \in sawManifest : Node(t) # n}

SwapFails(p, n) ==
    /\ pc[p] = "swap" /\ "disk" \in FaultKinds /\ Moves(p, "failed")
    /\ UNCHANGED sawManifest
    /\ aside' = [aside EXCEPT ![n] = NoFamily]
    /\ \/ /\ family' = [family EXCEPT ![n] = aside[n].family]
          /\ manifest' = [manifest EXCEPT ![n] = aside[n].manifest]
       \/ UNCHANGED <<family, manifest>>
       \/ /\ \E left \in Families : family' = [family EXCEPT ![n] = left]
          /\ UNCHANGED manifest
    /\ marker' = [marker EXCEPT ![n] = FALSE] \/ UNCHANGED marker

DamageFound(p, n) ==
    /\ pc[p] = "list" /\ (\E step \in {"skipped", "mendOpen", "start"} : Moves(p, step))
    /\ family[n] = "damaged" \/ FALSE \in ShardsExist(n)
    /\ UNCHANGED <<family, manifest, marker, aside>>
    /\ \/ UNCHANGED sawManifest
       \/ present[n] /\ sawManifest' = sawManifest \cup {p}

Mends(p, n) ==
    /\ pc[p] = "mend" /\ Moves(p, "start")
    /\ UNCHANGED <<family, marker, aside>>
    /\ \/ /\ p \in sawManifest
          /\ manifest' = [manifest EXCEPT ![n] = FALSE]
          /\ sawManifest' = {t \in sawManifest : Node(t) # n}
       \/ UNCHANGED <<manifest, sawManifest>>

\* The six actions write what those predicates say.
LEMMA FamilyWrites ==
    ASSUME NEW p
    PROVE  /\ Repair(p) => Repairs(p, Node(p))
           /\ StartSwap(p) => SwapStarts(p, Node(p))
           /\ EndSwap(p) => SwapEnds(p, Node(p))
           /\ FailSwap(p) => SwapFails(p, Node(p))
           /\ FindDamage(p) => DamageFound(p, Node(p))
           /\ Mend(p) => Mends(p, Node(p))
<1>1. Repair(p) => Repairs(p, Node(p))
  BY DEF Repair, Repairs, Goto, Moves
<1>2. StartSwap(p) => SwapStarts(p, Node(p))
  BY DEF StartSwap, SwapStarts, Goto, Moves
<1>3. EndSwap(p) => SwapEnds(p, Node(p))
  BY DEF EndSwap, SwapEnds, SwapLeaves, Unmarked, Goto, Moves
<1>4. FailSwap(p) => SwapFails(p, Node(p))
  BY DEF FailSwap, SwapFails, SwapLeaves, Families, Unmarked, Goto, Moves, Fault
<1>5. FindDamage(p) => DamageFound(p, Node(p))
  BY DEF FindDamage, DamageFound, Goto, Moves
<1>6. Mend(p) => Mends(p, Node(p))
  BY DEF Mend, Mends, Goto, Moves
<1> QED
  BY <1>1, <1>2, <1>3, <1>4, <1>5, <1>6

\* A step to anything but a repaired build.
MovesOn(p) == \E step : Moves(p, step) /\ step \notin Repaired

\* The end of a swap, a damaged read and a mend take their task to no repaired build.
LEMMA FamilyMoves ==
    ASSUME NEW p \in Tasks, EndSwap(p) \/ FailSwap(p) \/ FindDamage(p) \/ Mend(p)
    PROVE  MovesOn(p)
<1>1. CASE EndSwap(p)
  BY <1>1, FamilyWrites DEF SwapEnds, MovesOn, Repaired
<1>2. CASE FailSwap(p)
  BY <1>2, FamilyWrites DEF SwapFails, MovesOn, Repaired
<1>3. CASE FindDamage(p)
  BY <1>3, FamilyWrites DEF DamageFound, MovesOn, Repaired
<1>4. CASE Mend(p)
  BY <1>4, FamilyWrites DEF Mends, MovesOn, Repaired
<1> QED
  BY <1>1, <1>2, <1>3, <1>4

-----------------------------------------------------------------------------
(* Repair before a build.                                                    *)

\* A task whose corpus has no marker: a build after its repair, up to the end of a
\* swap that has none of its own.
Clean(p) == pc[p] \in Repaired \/ (pc[p] = "swap" /\ bdir[p] = 0)

RepairedFirst == \A p \in Tasks : Clean(p) => ~marker[Node(p)]

\* While nothing evicts, a marker appears only in the swap of the one builder, and
\* its repair removes the marker that an earlier one left.
LEMMA RepairedStep ==
    ASSUME Evictors = {}, TypeOK, PathsExclude, RepairedFirst, [Next]_vars
    PROVE  RepairedFirst'
<1> SUFFICES ASSUME NEW p \in Tasks, Clean(p)' PROVE ~marker'[Node(p)]
  BY DEF RepairedFirst
<1>0. Node(p) \in Nodes /\ p \in Procs /\ marker \in [Nodes -> BOOLEAN]
      /\ pc \in [Procs -> TaskSteps \cup SweepSteps]
  BY ProcFacts DEF TypeOK, DirTypeOK, ProcTypeOK
<1>s. StartSwap(p) \/ Clean(p) \/ pc'[p] \in Repaired
  BY SwapBegins DEF Clean
<1>1. CASE Clean(p) /\ UNCHANGED marker
  BY <1>1 DEF RepairedFirst
<1>4. ASSUME NEW q \in Tasks, StartSwap(q) PROVE ~marker'[Node(p)]
  <2>1. Node(q) \in Nodes /\ q \in Procs /\ SwapStarts(q, Node(q)) /\ bdir' = bdir
    BY <1>4, ProcFacts, FamilyWrites DEF StartSwap, fdVars
  <2>2. CASE p = q
    <3>1. pc'[p] = "swap" /\ bdir[p] = 0 /\ pc[p] = "publish"
      BY <1>0, <2>1, <2>2 DEF SwapStarts, Moves, Clean, Repaired
    <3> QED
      BY <2>1, <2>2, <3>1 DEF SwapStarts, RepairedFirst, Clean, Repaired
  <2>3. CASE p # q
    <3>1. Clean(p)
      BY <1>0, <2>1, <2>3 DEF SwapStarts, Moves, Clean
    <3>2. Node(p) # Node(q)
      BY <2>1, <2>3, <3>1 DEF SwapStarts, Clean, PathsExclude, OneBuilder, Building, Repaired
    <3> QED
      BY <1>0, <2>1, <3>1, <3>2 DEF SwapStarts, RepairedFirst
  <2> QED
    BY <2>2, <2>3
<1>2. CASE UNCHANGED familyVars /\ SwapsStay
  BY <1>1, <1>2, <1>4, <1>s DEF SwapsStay, familyVars, Clean
<1>3. ASSUME NEW q \in Tasks, EndSwap(q) \/ FailSwap(q) \/ FindDamage(q) \/ Mend(q)
      PROVE  ~marker'[Node(p)]
  <2>1. Node(q) \in Nodes /\ q \in Procs /\ MovesOn(q)
    BY <1>3, ProcFacts, FamilyMoves
  <2>2. marker' = [marker EXCEPT ![Node(q)] = FALSE] \/ UNCHANGED marker
    BY <1>3, FamilyWrites DEF SwapEnds, SwapFails, DamageFound, Mends
  <2>3. pc'[p] \in Repaired => pc[p] \in Repaired
    BY <1>0, <2>1 DEF MovesOn, Moves
  <2>4. CASE StartSwap(p)
    BY <1>4, <2>4
  <2>5. CASE Clean(p)
    BY <1>0, <2>1, <2>2, <2>5 DEF RepairedFirst
  <2> QED
    BY <1>s, <2>3, <2>4, <2>5 DEF Clean
<1>7. ASSUME NEW q \in Tasks, Repair(q) PROVE ~marker'[Node(p)]
  <2>1. Node(q) \in Nodes /\ q \in Procs /\ Repairs(q, Node(q))
    BY <1>7, ProcFacts, FamilyWrites
  <2>2. CASE p = q
    BY <1>0, <2>1, <2>2 DEF Repairs
  <2>3. CASE p # q
    <3>1. StartSwap(p) \/ Clean(p)
      BY <1>0, <1>s, <2>1, <2>3 DEF Repairs, Moves, Clean
    <3>2. Clean(p) => ~marker'[Node(p)]
      BY <1>0, <2>1 DEF Repairs, RepairedFirst
    <3> QED
      BY <1>4, <3>1, <3>2
  <2> QED
    BY <2>2, <2>3
<1>5. ASSUME NEW c \in Commands, Crash(c) PROVE ~marker'[Node(p)]
  BY <1>1, <1>4, <1>5, <1>s, CrashSteps DEF familyVars, Repaired, Clean
<1>6. ASSUME NEW n \in Nodes, Damage(n) PROVE ~marker'[Node(p)]
  BY <1>1, <1>4, <1>6, <1>s DEF Damage, Clean
<1> QED
  BY <1>2, <1>3, <1>4, <1>5, <1>6, <1>7, FamilySteps

\* While nothing evicts a corpus, a build has one incarnation of it, and goes on only
\* after the repair under its lock.
LEMMA CleanBuilds == Spec => [](Evictors = {} => OneIncarnation /\ RepairedFirst)
<1>1. CASE Evictors = {}
  <2>1. Init => RepairedFirst
    BY ProcFacts DEF Init, RepairedFirst, Repaired, Clean
  <2>2. TypeOK /\ OneIncarnation /\ [Next]_vars => OneIncarnation'
    BY <1>1, OneIncarnationStep
  <2>3. TypeOK /\ SwapExcludesReaders /\ OneBuilder /\ OneIncarnation /\ RepairedFirst
        /\ [Next]_vars => RepairedFirst'
    BY <1>1, RepairedStep DEF PathsExclude
  <2>4. OneIncarnation /\ RepairedFirst
          => (Evictors = {} => OneIncarnation /\ RepairedFirst)
    OBVIOUS
  <2> QED
    BY TypeCorrect, ReadersExcluded, BuildersExcluded, OneIncarnationInit, <2>1, <2>2,
       <2>3, <2>4, PTL DEF Spec
<1>2. CASE Evictors # {}
  <2>1. Evictors = {} => OneIncarnation /\ RepairedFirst
    BY <1>2
  <2> QED
    BY <2>1, PTL
<1> QED
  BY <1>1, <1>2

\* While nothing evicts a corpus, every build of it, up to its publish, finds no
\* marker of an interrupted swap: its repair, or that of the builder before it, ran
\* first, also after a crash in a swap, or a failed one.
THEOREM BuildsRepaired == Spec => []BuildsStartRepaired
<1>1. (Evictors = {} => OneIncarnation /\ RepairedFirst) => BuildsStartRepaired
  BY DEF RepairedFirst, BuildsStartRepaired, Repaired, Clean
<1> QED
  BY CleanBuilds, <1>1, PTL

-----------------------------------------------------------------------------
(* Reads of whole generations.                                               *)

\* Without a disk fault and without a crash, only a running swap leaves a mixed
\* family or its marker.
Swapping(n) == \E t \in Tasks : Node(t) = n /\ pc[t] = "swap"

SwapAlone == \A n \in Nodes : family[n] = "part" \/ marker[n] => Swapping(n)

\* A step of a task that is in no swap, and goes to none, leaves every swap running.
LEMMA SwapGoesOn ==
    ASSUME TypeOK, NEW q \in Tasks, NEW step, Moves(q, step), pc[q] # "swap", NEW n, Swapping(n)
    PROVE  Swapping(n)'
BY ProcFacts DEF Swapping, Moves, TypeOK, ProcTypeOK

\* A step of the swap of one node leaves the swaps of the others running.
LEMMA OtherSwapGoesOn ==
    ASSUME TypeOK, NEW q \in Tasks, NEW step, Moves(q, step),
           NEW n, Swapping(n), Node(q) # n
    PROVE  Swapping(n)'
BY ProcFacts DEF Swapping, Moves, TypeOK, ProcTypeOK

\* While nothing evicts, fails or crashes, a mixed family is that of a running swap.
LEMMA SwapAloneStep ==
    ASSUME NoTornSwap, TypeOK, PathsExclude, RepairedFirst, SwapAlone, [Next]_vars
    PROVE  SwapAlone'
<1> SUFFICES ASSUME NEW n \in Nodes, family'[n] = "part" \/ marker'[n] PROVE Swapping(n)'
  BY DEF SwapAlone
<1>0. /\ Evictors = {} /\ "crash" \notin FaultKinds /\ "disk" \notin FaultKinds
      /\ family \in [Nodes -> Families] /\ marker \in [Nodes -> BOOLEAN]
  BY DEF NoTornSwap, TypeOK, DirTypeOK
<1>1. CASE UNCHANGED familyVars /\ SwapsStay
  <2>1. Swapping(n)
    BY <1>1 DEF familyVars, SwapAlone
  <2> QED
    BY <1>1, <2>1 DEF Swapping, SwapsStay
<1>2. ASSUME NEW q \in Tasks, Repair(q) PROVE Swapping(n)'
  <2>1. Repairs(q, Node(q)) /\ Node(q) \in Nodes
    BY <1>2, FamilyWrites, ProcFacts
  <2>2. ~marker[Node(q)]
    BY <2>1 DEF SwapAlone, Swapping, Repairs, PathsExclude, OneBuilder, Building, NoTornSwap
  <2>3. UNCHANGED <<family, marker>> /\ Moves(q, "recheck") /\ pc[q] # "swap"
    BY <2>1, <2>2 DEF Repairs
  <2> QED
    BY <2>3, SwapGoesOn DEF SwapAlone
<1>3. ASSUME NEW q \in Tasks, StartSwap(q) PROVE Swapping(n)'
  <2>1. SwapStarts(q, Node(q)) /\ Node(q) \in Nodes
    BY <1>3, FamilyWrites, ProcFacts
  <2>2. CASE Node(q) = n
    BY <2>1, <2>2, ProcFacts DEF SwapStarts, Swapping, Moves, TypeOK, ProcTypeOK
  <2>3. CASE Node(q) # n
    <3>1. family'[n] = family[n] /\ marker'[n] = marker[n] /\ Moves(q, "swap")
      BY <1>0, <2>1, <2>3 DEF SwapStarts
    <3> QED
      BY <2>3, <3>1, OtherSwapGoesOn DEF SwapAlone
  <2> QED
    BY <2>2, <2>3
<1>4. ASSUME NEW q \in Tasks, EndSwap(q) PROVE Swapping(n)'
  <2>1. SwapEnds(q, Node(q)) /\ Node(q) \in Nodes
    BY <1>4, FamilyWrites, ProcFacts
  <2>2. Node(q) # n
    <3>1. inode[Node(q)] = 1 /\ bfd[q] = 1
      BY <2>1 DEF SwapEnds, PathsExclude, OneIncarnation, OpenLock, Building
    <3>2. bdir[q] = 0 => ~marker[Node(q)]
      BY <2>1 DEF SwapEnds, RepairedFirst, Clean
    <3>3. family'[Node(q)] # "part" /\ ~marker'[Node(q)]
      BY <1>0, <2>1, <3>1, <3>2 DEF SwapEnds
    <3> QED
      BY <3>3
  <2>3. family'[n] = family[n] /\ marker'[n] = marker[n] /\ Moves(q, "leave")
    BY <1>0, <2>1, <2>2 DEF SwapEnds
  <2> QED
    BY <2>2, <2>3, OtherSwapGoesOn DEF SwapAlone
<1>5. ASSUME NEW q \in Tasks, FindDamage(q) \/ Mend(q) PROVE Swapping(n)'
  <2>1. UNCHANGED <<family, marker>> /\ pc[q] # "swap" /\ \E step : Moves(q, step)
    BY <1>5, FamilyWrites DEF DamageFound, Mends
  <2> QED
    BY <2>1, SwapGoesOn DEF SwapAlone
<1>6. ASSUME NEW m \in Nodes, Damage(m) PROVE Swapping(n)'
  <2>1. UNCHANGED <<marker, pc>> /\ family' = [family EXCEPT ![m] = "damaged"]
    BY <1>6 DEF Damage
  <2>2. family'[n] = "part" => family[n] = "part"
    BY <1>0, <2>1
  <2> QED
    BY <2>1, <2>2 DEF SwapAlone, Swapping
<1>7. ASSUME NEW q \in Tasks, FailSwap(q) PROVE FALSE
  BY <1>0, <1>7 DEF FailSwap, Fault
<1>8. ASSUME NEW c \in Commands, Crash(c) PROVE FALSE
  BY <1>0, <1>8 DEF Crash, Fault
<1> QED
  BY <1>0, <1>1, <1>2, <1>3, <1>4, <1>5, <1>6, <1>7, <1>8, FamilySteps

\* Each process step goes on by one step of that process; from the list of the
\* shards, and from a mend, only one action goes on.
LEMMA StepMoves ==
    ASSUME TypeOK, NEW q, TaskStep(q) \/ FailSwap(q) \/ GiveUp(q) \/ SweepStep(q)
    PROVE  /\ \E step : Moves(q, step)
           /\ pc[q] = "list" => ListShards(q) \/ FindDamage(q)
           /\ pc[q] = "mend" => Mend(q)
<1>0. LoseCorpus(q) => \E step : Moves(q, step)
  <2>1. pc' = pc => Moves(q, pc[q])
    BY DEF Moves, TypeOK, ProcTypeOK
  <2> QED
    BY <2>1 DEF LoseCorpus, Goto, Moves
<1>1. \E step : Moves(q, step)
  BY <1>0 DEF TaskStep, SweepStep, Goto, Moves, PrepareWarm, PrepareCold, AcquireSlot,
     OpenBuildLock, TakeBuildLock, ServePeerShards, WaitForFirstBuild, Repair,
     FoundCurrent, StartBuild, StageUncommitted, FinishBuild, DiscardBuild, FailBuild,
     OpenPublishLock,
     TakePublishLock, RefusePublish, StartSwap, EndSwap, FailSwap, Leave, ServeStale,
     OpenReadLock, TakeReadLock, ListShards, FindDamage, SeeTreeChange, FinishSearch,
     OpenMendLock, TakeMendLock, Mend, GiveUp, SweepList, SweepOpen, SweepLock, Probe,
     EndProbe, CheckUsed, Evict
<1>2. pc[q] = "list" => ListShards(q) \/ FindDamage(q)
  BY DEF TaskStep, SweepStep, PrepareWarm, PrepareCold, AcquireSlot, OpenBuildLock,
     TakeBuildLock, ServePeerShards, WaitForFirstBuild, Repair, FoundCurrent,
     StartBuild, StageUncommitted, FinishBuild, LoseCorpus, Lasting, DiscardBuild, FailBuild, OpenPublishLock,
     TakePublishLock, RefusePublish, StartSwap, EndSwap, FailSwap, Leave, ServeStale,
     OpenReadLock, TakeReadLock, SeeTreeChange, FinishSearch, OpenMendLock,
     TakeMendLock, Mend, GiveUp, SweepList, SweepOpen, SweepLock, Probe, EndProbe,
     CheckUsed, Evict
<1>3. pc[q] = "mend" => Mend(q)
  BY DEF TaskStep, SweepStep, PrepareWarm, PrepareCold, AcquireSlot, OpenBuildLock,
     TakeBuildLock, ServePeerShards, WaitForFirstBuild, Repair, FoundCurrent,
     StartBuild, StageUncommitted, FinishBuild, LoseCorpus, Lasting, DiscardBuild, FailBuild, OpenPublishLock,
     TakePublishLock, RefusePublish, StartSwap, EndSwap, FailSwap, Leave, ServeStale,
     OpenReadLock, TakeReadLock, ListShards, FindDamage, SeeTreeChange, FinishSearch,
     OpenMendLock, TakeMendLock, GiveUp, SweepList, SweepOpen, SweepLock, Probe,
     EndProbe, CheckUsed, Evict
<1> QED
  BY <1>1, <1>2, <1>3

\* A task goes from the list to the search by ListShards, and from a mend to its
\* next try by Mend.
LEMMA SearchBegins ==
    ASSUME TypeOK, [Next]_vars, NEW p \in Tasks
    PROVE  /\ pc[p] = "list" /\ pc'[p] = "search" => ListShards(p)
           /\ pc[p] = "mend" /\ pc'[p] = "start" => Mend(p)
<1>0. p \in Procs /\ pc \in [Procs -> TaskSteps \cup SweepSteps]
  BY ProcFacts DEF TypeOK, ProcTypeOK
<1> DEFINE Goal == /\ pc[p] = "list" /\ pc'[p] = "search" => ListShards(p)
                   /\ pc[p] = "mend" /\ pc'[p] = "start" => Mend(p)
<1>1. CASE pc'[p] = pc[p] \/ pc'[p] = "dead"
  BY <1>1
<1>2. ASSUME NEW q \in Procs, TaskStep(q) \/ FailSwap(q) \/ GiveUp(q) \/ SweepStep(q) PROVE Goal
  <2>1. PICK step : Moves(q, step)
    BY <1>2, StepMoves
  <2>2. CASE q # p
    BY <1>0, <1>1, <2>1, <2>2 DEF Moves
  <2>3. CASE q = p
    <3>1. pc[p] = "list" => ListShards(p) \/ FindDamage(p)
      BY <1>2, <2>3, StepMoves
    <3>2. pc[p] = "mend" => Mend(p)
      BY <1>2, <2>3, StepMoves
    <3>3. FindDamage(p) => pc'[p] # "search"
      BY <1>0, FamilyWrites DEF DamageFound, Moves
    <3> QED
      BY <3>1, <3>2, <3>3
  <2> QED
    BY <2>2, <2>3
<1>3. ASSUME NEW c \in Commands, Crash(c) PROVE Goal
  BY <1>1, <1>3, CrashSteps
<1>4. CASE (\E n \in Nodes : Damage(n)) \/ Terminated \/ UNCHANGED vars
  BY <1>1, <1>4 DEF Damage, Terminated, vars
<1> QED
  BY <1>2, <1>3, <1>4, ProcFacts DEF Next

\* While nothing evicts a corpus, and with no disk fault and no crash, each search
\* of a node reads the files of one finished build.
THEOREM GenerationsWhole == Spec => ReadsWholeGenerations
<1>1. CASE NoTornSwap
  <2>1. Init => SwapAlone
    BY DEF Init, SwapAlone
  <2>2. TypeOK /\ SwapExcludesReaders /\ OneBuilder /\ SwapAlone /\ [Next]_vars
        /\ (Evictors = {} => OneIncarnation /\ RepairedFirst) => SwapAlone'
    BY <1>1, SwapAloneStep DEF PathsExclude, NoTornSwap
  <2>3. ASSUME TypeOK, SwapExcludesReaders, SwapAlone, [Next]_vars,
               NEW p \in Tasks, pc[p] = "list", pc'[p] = "search"
        PROVE  family[Node(p)] = "whole"
    <3>1. family[Node(p)] \in {"whole", "part"} /\ Node(p) \in Nodes
      BY <2>3, SearchBegins, ProcFacts DEF ListShards
    <3>2. family[Node(p)] # "part"
      BY <1>1, <2>3, <3>1 DEF SwapAlone, Swapping, SwapExcludesReaders, Reading, NoTornSwap
    <3> QED
      BY <3>1, <3>2
  <2>4. TypeOK /\ SwapExcludesReaders /\ SwapAlone /\ [Next]_vars
          => [NoTornSwap => \A p \in Tasks : pc[p] = "list" /\ pc'[p] = "search"
                                             => family[Node(p)] = "whole"]_vars
    BY <2>3
  <2> QED
    BY TypeCorrect, ReadersExcluded, BuildersExcluded, CleanBuilds, <2>1, <2>2, <2>4, PTL
       DEF Spec, ReadsWholeGenerations
<1>2. CASE ~NoTornSwap
  <2>1. [Next]_vars => [NoTornSwap => \A p \in Tasks : pc[p] = "list" /\ pc'[p] = "search"
                                             => family[Node(p)] = "whole"]_vars
    BY <1>2
  <2> QED
    BY <2>1, PTL DEF Spec, ReadsWholeGenerations
<1> QED
  BY <1>1, <1>2

-----------------------------------------------------------------------------
(* Repairs of damage.                                                        *)

\* A manifest names a family that some build finished.  While a swap of a node
\* runs it has none.  A read that saw one, which is still there or which the swap
\* moved aside, saw it over a damaged family.
Finished == {"whole", "damaged"}

ManifestsName ==
    \A n \in Nodes : /\ manifest[n] => family[n] \in Finished
                     /\ aside[n].manifest => aside[n].family \in Finished

SwapHides == \A n \in Nodes : Swapping(n) => ~manifest[n]

SawDamage ==
    \A q \in sawManifest : LET n == Node(q) IN
        /\ manifest[n] => family[n] = "damaged"
        /\ Swapping(n) /\ aside[n].manifest => aside[n].family = "damaged"

MendInv == ManifestsName /\ SwapHides /\ SawDamage

\* The first states have finished families, no swap and no damaged read.
LEMMA MendInvInit == Init => MendInv
BY ProcFacts DEF Init, MendInv, ManifestsName, SwapHides, SawDamage, Swapping, Finished,
   NoFamily

\* A swap that runs after a step ran before it, but the one that the step starts.
LEMMA SwapWasThere ==
    ASSUME TypeOK, NEW q \in Tasks, NEW step, Moves(q, step), step # "swap", NEW n, Swapping(n)'
    PROVE  Swapping(n)
BY ProcFacts DEF Swapping, Moves, TypeOK, ProcTypeOK

\* While nothing evicts, each step keeps what the swaps and the damaged reads know.
LEMMA MendInvStep ==
    ASSUME Evictors = {}, TypeOK, PathsExclude, MendInv, [Next]_vars
    PROVE  MendInv'
<1> SUFFICES ASSUME NEW n \in Nodes
             PROVE  /\ manifest'[n] => family'[n] \in Finished
                    /\ aside'[n].manifest => aside'[n].family \in Finished
                    /\ Swapping(n)' => ~manifest'[n]
                    /\ \A q \in sawManifest' : Node(q) = n =>
                          /\ manifest'[n] => family'[n] = "damaged"
                          /\ Swapping(n)' /\ aside'[n].manifest => aside'[n].family = "damaged"
  <2>1. \A q \in sawManifest' : Node(q) \in Nodes
    BY DirTypeStep, ProcFacts DEF DirTypeOK
  <2> QED
    BY <2>1 DEF MendInv, ManifestsName, SwapHides, SawDamage
<1> DEFINE Goal == /\ manifest'[n] => family'[n] \in Finished
                   /\ aside'[n].manifest => aside'[n].family \in Finished
                   /\ Swapping(n)' => ~manifest'[n]
                   /\ \A q \in sawManifest' : Node(q) = n =>
                         /\ manifest'[n] => family'[n] = "damaged"
                         /\ Swapping(n)' /\ aside'[n].manifest => aside'[n].family = "damaged"
<1>0. /\ family \in [Nodes -> Families] /\ marker \in [Nodes -> BOOLEAN]
      /\ manifest \in [Nodes -> BOOLEAN] /\ aside \in [Nodes -> [family: Families, manifest: BOOLEAN]]
      /\ sawManifest \subseteq Tasks
  BY DEF TypeOK, DirTypeOK
<1>i. /\ manifest[n] => family[n] \in Finished
      /\ aside[n].manifest => aside[n].family \in Finished
      /\ Swapping(n) => ~manifest[n]
      /\ \A q \in sawManifest : Node(q) = n =>
            /\ manifest[n] => family[n] = "damaged"
            /\ Swapping(n) /\ aside[n].manifest => aside[n].family = "damaged"
  BY DEF MendInv, ManifestsName, SwapHides, SawDamage
<1>s. ASSUME Swapping(n)' => Swapping(n), sawManifest' \subseteq sawManifest,
             manifest'[n] = manifest[n], family'[n] = family[n], aside'[n] = aside[n]
      PROVE  Goal
  BY <1>i, <1>s
<1>1. CASE UNCHANGED familyVars /\ SwapsStay
  <2>1. Swapping(n)' => Swapping(n)
    BY <1>1 DEF Swapping, SwapsStay
  <2> QED
    BY <1>1, <1>s, <2>1 DEF familyVars
<1>2. ASSUME NEW q \in Tasks, Repair(q) PROVE Goal
  <2>1. Repairs(q, Node(q)) /\ Node(q) \in Nodes
    BY <1>2, FamilyWrites, ProcFacts
  <2>2. Swapping(n)' => Swapping(n)
    BY <2>1, SwapWasThere DEF Repairs
  <2>3. CASE Node(q) = n /\ marker[n]
    <3>1. manifest'[n] = FALSE /\ aside'[n] = aside[n] /\ sawManifest' \subseteq sawManifest
      BY <1>0, <2>1, <2>3 DEF Repairs
    <3> QED
      BY <1>i, <2>2, <3>1
  <2>4. CASE ~(Node(q) = n /\ marker[n])
    <3>1. manifest'[n] = manifest[n] /\ family'[n] = family[n] /\ aside'[n] = aside[n]
          /\ sawManifest' \subseteq sawManifest
      BY <1>0, <2>1, <2>4 DEF Repairs
    <3> QED
      BY <1>s, <2>2, <3>1
  <2> QED
    BY <2>3, <2>4
<1>3. ASSUME NEW q \in Tasks, StartSwap(q) PROVE Goal
  <2>1. SwapStarts(q, Node(q)) /\ Node(q) \in Nodes
    BY <1>3, FamilyWrites, ProcFacts
  <2>2. CASE Node(q) = n
    <3>1. /\ aside'[n].family = family[n] /\ aside'[n].manifest = manifest[n]
          /\ manifest'[n] = FALSE /\ sawManifest' = sawManifest
      BY <1>0, <2>1, <2>2 DEF SwapStarts
    <3> QED
      BY <1>i, <3>1
  <2>3. CASE Node(q) # n
    <3>1. /\ aside'[n] = aside[n] /\ family'[n] = family[n] /\ manifest'[n] = manifest[n]
          /\ sawManifest' = sawManifest /\ Moves(q, "swap")
      BY <1>0, <2>1, <2>3 DEF SwapStarts
    <3>2. Swapping(n)' => Swapping(n)
      BY <2>3, <3>1, ProcFacts DEF Swapping, Moves, TypeOK, ProcTypeOK
    <3> QED
      BY <1>s, <3>1, <3>2
  <2> QED
    BY <2>2, <2>3
<1>4. ASSUME NEW q \in Tasks, EndSwap(q) PROVE Goal
  <2>1. SwapEnds(q, Node(q)) /\ Node(q) \in Nodes
    BY <1>4, FamilyWrites, ProcFacts
  <2>2. Swapping(n)' => Swapping(n)
    BY <2>1, SwapWasThere DEF SwapEnds
  <2>3. CASE Node(q) = n
    <3>1. aside'[n].manifest = FALSE /\ (manifest'[n] => family'[n] \in Finished)
          /\ \A t \in sawManifest' : Node(t) # n
      BY <1>0, <2>1, <2>3 DEF SwapEnds, NoFamily, Finished
    <3>2. ~Swapping(n)'
      BY <2>1, <2>3, ProcFacts DEF SwapEnds, Moves, Swapping, PathsExclude, OneBuilder, Building,
         TypeOK, ProcTypeOK
    <3> QED
      BY <3>1, <3>2
  <2>4. CASE Node(q) # n
    <3>1. /\ aside'[n] = aside[n] /\ family'[n] = family[n] /\ manifest'[n] = manifest[n]
          /\ sawManifest' \subseteq sawManifest
      BY <1>0, <2>1, <2>4 DEF SwapEnds
    <3> QED
      BY <1>s, <2>2, <3>1
  <2> QED
    BY <2>3, <2>4
<1>5. ASSUME NEW q \in Tasks, FailSwap(q) PROVE Goal
  <2>1. SwapFails(q, Node(q)) /\ Node(q) \in Nodes
    BY <1>5, FamilyWrites, ProcFacts
  <2>2. Swapping(n)' => Swapping(n)
    BY <2>1, SwapWasThere DEF SwapFails
  <2>3. CASE Node(q) = n
    <3>1. Swapping(n) /\ ~manifest[n]
      BY <1>i, <2>1, <2>3 DEF SwapFails, Swapping
    <3>2. ~Swapping(n)'
      BY <2>1, <2>3, ProcFacts DEF SwapFails, Moves, Swapping, PathsExclude, OneBuilder, Building,
         TypeOK, ProcTypeOK
    <3>3. aside'[n].manifest = FALSE /\ sawManifest' = sawManifest
      BY <1>0, <2>1, <2>3 DEF SwapFails, NoFamily
    <3>4. manifest'[n] => manifest'[n] = aside[n].manifest /\ family'[n] = aside[n].family
      BY <1>0, <2>1, <2>3, <3>1 DEF SwapFails
    <3> QED
      BY <1>i, <3>1, <3>2, <3>3, <3>4
  <2>4. CASE Node(q) # n
    <3>1. /\ aside'[n] = aside[n] /\ family'[n] = family[n] /\ manifest'[n] = manifest[n]
          /\ sawManifest' \subseteq sawManifest
      BY <1>0, <2>1, <2>4 DEF SwapFails
    <3> QED
      BY <1>s, <2>2, <3>1
  <2> QED
    BY <2>3, <2>4
<1>6. ASSUME NEW p \in Tasks, FindDamage(p) PROVE Goal
  <2>1. DamageFound(p, Node(p)) /\ Node(p) \in Nodes
    BY <1>6, FamilyWrites, ProcFacts
  <2>2. Swapping(n)' => Swapping(n)
    BY <2>1, SwapWasThere DEF DamageFound
  <2>3. CASE sawManifest' = sawManifest \/ Node(p) # n
    <3>1. manifest' = manifest /\ family' = family /\ aside' = aside
          /\ \A q \in sawManifest' : Node(q) = n => q \in sawManifest
      BY <2>1, <2>3 DEF DamageFound
    <3> QED
      BY <1>i, <2>2, <3>1
  <2>4. CASE Node(p) = n /\ present[n]
    <3>1. ~Swapping(n)
      BY <2>1, <2>4 DEF DamageFound, Swapping, PathsExclude, SwapExcludesReaders, Reading
    <3>2. manifest[n] => family[n] = "damaged"
      BY <1>i, <2>1, <2>4 DEF DamageFound, ShardsExist, Finished
    <3>3. manifest' = manifest /\ family' = family /\ aside' = aside
      BY <2>1 DEF DamageFound
    <3> QED
      BY <1>i, <2>2, <3>1, <3>2, <3>3
  <2> QED
    BY <2>1, <2>3, <2>4 DEF DamageFound
<1>7. ASSUME NEW q \in Tasks, Mend(q) PROVE Goal
  <2>1. Mends(q, Node(q)) /\ Node(q) \in Nodes
    BY <1>7, FamilyWrites, ProcFacts
  <2>2. Swapping(n)' => Swapping(n)
    BY <2>1, SwapWasThere DEF Mends
  <2>3. /\ manifest'[n] => manifest[n]
        /\ family' = family /\ aside' = aside /\ sawManifest' \subseteq sawManifest
    BY <1>0, <2>1 DEF Mends
  <2> QED
    BY <1>i, <2>2, <2>3
<1>8. ASSUME NEW c \in Commands, Crash(c) PROVE Goal
  <2>1. Swapping(n)' => Swapping(n)
    BY <1>8, CrashSteps DEF Swapping
  <2> QED
    BY <1>8, <1>s, <2>1, CrashSteps DEF familyVars
<1>9. ASSUME NEW m \in Nodes, Damage(m) PROVE Goal
  <2>1. /\ UNCHANGED <<manifest, aside, sawManifest, pc>>
        /\ family' = [family EXCEPT ![m] = "damaged"]
    BY <1>9 DEF Damage
  <2>2. (family'[n] = family[n] \/ family'[n] = "damaged") /\ (Swapping(n)' => Swapping(n))
    BY <1>0, <2>1 DEF Swapping
  <2> QED
    BY <1>i, <2>1, <2>2 DEF Finished
<1> QED
  BY <1>1, <1>2, <1>3, <1>4, <1>5, <1>6, <1>7, <1>8, <1>9, FamilySteps

\* While nothing evicts a corpus, a repair of damage takes away no manifest but
\* that of a damaged family, also when a peer published while it waited.
THEOREM MendsSpare == Spec => MendSparesNewFamily
<1>1. CASE Evictors = {}
  <2>1. TypeOK /\ SwapExcludesReaders /\ OneBuilder /\ MendInv /\ [Next]_vars
        /\ (Evictors = {} => OneIncarnation /\ RepairedFirst) => MendInv'
    BY <1>1, MendInvStep DEF PathsExclude
  <2>2. ASSUME TypeOK, MendInv, [Next]_vars, NEW p \in Tasks PROVE SparesNewFamily(p)
    <3>1. SUFFICES ASSUME pc[p] = "mend", pc'[p] = "start",
                          manifest[Node(p)], ~manifest'[Node(p)]
                   PROVE  family[Node(p)] = "damaged"
      BY DEF SparesNewFamily
    <3>2. Mends(p, Node(p))
      BY <2>2, <3>1, SearchBegins, FamilyWrites
    <3>3. p \in sawManifest
      BY <3>1, <3>2 DEF Mends
    <3> QED
      BY <2>2, <3>1, <3>3 DEF MendInv, SawDamage
  <2>3. TypeOK /\ MendInv /\ [Next]_vars
          => [Evictors = {} => \A p \in Tasks : SparesNewFamily(p)]_vars
    BY <2>2
  <2> QED
    BY TypeCorrect, ReadersExcluded, BuildersExcluded, CleanBuilds, MendInvInit, <2>1,
       <2>3, PTL
       DEF Spec, MendSparesNewFamily
<1>2. CASE Evictors # {}
  <2>1. [Next]_vars => [Evictors = {} => \A p \in Tasks : SparesNewFamily(p)]_vars
    BY <1>2
  <2> QED
    BY <2>1, PTL DEF Spec, MendSparesNewFamily
<1> QED
  BY <1>1, <1>2

=============================================================================
