-------------------------- MODULE FolderCorpusProof --------------------------
(***************************************************************************)
(* Theorems about FolderCorpus, for any files, commands, edits and faults: *)
(*   1. TypeCorrect, the types;                                            *)
(*   2. Phases, what each step under the lock knows of the records;        *)
(*   3. Described, the family is what .state says;                         *)
(*   4. Forward, no document is ever replaced by an older one, and Fresh,  *)
(*      what a search without the lock knows of the family.                *)
(***************************************************************************)
EXTENDS FolderCorpus, TLAPS

\* A record that does not exist is no tree.
LEMMA NoStateIsNoTree == NoState \notin Trees /\ NoFiles \in Trees
<1>1. NoFiles \in Trees
  BY ConstantsAssumption DEF NoFiles, Trees
<1>2. ASSUME NoState \in Trees PROVE FALSE
  <2>1. DOMAIN NoState = Files
    BY <1>2 DEF Trees
  <2>2. DOMAIN NoState = {}
    BY DEF NoState
  <2> QED
    BY <2>1, <2>2, ConstantsAssumption
<1> QED
  BY <1>1, <1>2

\* A walk finds a tree, and no version that the folder never had.
LEMMA WalkType ==
    ASSUME TypeOK
    PROVE  Tree \in Trees /\ \A f \in Files : Tree[f] = 0 \/ Tree[f] = version[f]
BY ConstantsAssumption DEF TypeOK, Tree, Trees

\* The first states have the declared types.
LEMMA TypeInit == Init => TypeOK
<1>1. Init => shards \in BOOLEAN /\ intact \in BOOLEAN /\ marker \in BOOLEAN /\ late \in BOOLEAN
  BY DEF Init
<1>2. Init => version \in Trees
  BY ConstantsAssumption DEF Init, Trees
<1>3. Init => TypeOK
  <2> SUFFICES ASSUME Init PROVE TypeOK
    OBVIOUS
  <2> QED
    BY <1>1, <1>2, NoStateIsNoTree, ConstantsAssumption DEF Init, TypeOK
<1> QED
  BY <1>3

\* The documents that a delta keeps are a tree.
LEMMA KeptType ==
    ASSUME TypeOK, NEW t \in Trees
    PROVE  Kept(t) \in Trees /\ Unread(t) \subseteq Files
BY ConstantsAssumption DEF TypeOK, Kept, Unread, Selected, Trees

\* Each step keeps the types.
LEMMA TypeStep == TypeOK /\ [Next]_vars => TypeOK'
<1> SUFFICES ASSUME TypeOK, [Next]_vars PROVE TypeOK'
  OBVIOUS
<1> USE ConstantsAssumption DEF treeVars, diskVars, walkVars, buildVars, histVars, Goto, Locked
<1>e. ASSUME NEW f \in Files, Edit(f) PROVE TypeOK'
  BY <1>e DEF Edit, TypeOK, Trees
<1>m. ASSUME NEW f \in Files, Move(f) PROVE TypeOK'
  BY <1>m DEF Move, TypeOK
<1>c. ASSUME NEW c \in Commands, Step(c) \/ FailBuild(c) \/ Crash(c) PROVE TypeOK'
  <2>0. Tree \in Trees
    BY WalkType
  <2>d. ASSUME Done(c)
        PROVE  /\ pc' \in [Commands -> {"start", "readState", "scan", "decide", "lock"} \cup Locked]
               /\ builder' \in Commands \cup {NoOne}
               /\ walk' \in [Commands -> Trees] /\ built' \in [Commands -> Trees]
               /\ cached' \in [Commands -> Trees \cup {NoState}]
               /\ scan' \in [Commands -> {"complete", "torn", "pending"}]
               /\ ready' \in [Commands -> BOOLEAN] /\ loaded' \in [Commands -> BOOLEAN]
               /\ delta' \in [Commands -> BOOLEAN] /\ keep' \in [Commands -> BOOLEAN]
               /\ todo' \in [Commands -> SUBSET Files]
    BY <2>d, NoStateIsNoTree DEF Done, TypeOK
  <2>1. CASE Begin(c)
    <3>1. /\ walk' \in [Commands -> Trees]
          /\ ready' \in [Commands -> BOOLEAN] /\ loaded' \in [Commands -> BOOLEAN]
      <4>1. CASE TakeWalk(c, TRUE)
        BY <2>0, <4>1 DEF TakeWalk, TypeOK
      <4>2. CASE UNCHANGED walkVars
        BY <4>2 DEF TypeOK
      <4> QED
        BY <2>1, <4>1, <4>2 DEF Begin
    <3> QED
      BY <2>1, <3>1 DEF Begin, TypeOK
  <2>2. CASE ReadState(c)
    BY <2>2 DEF ReadState, TypeOK
  <2>3. CASE Scan(c)
    BY <2>3 DEF Scan, TypeOK
  <2>4. CASE Fingerprint(c)
    BY <2>0, <2>4 DEF Fingerprint, TakeWalk, TypeOK
  <2>5. CASE Warm(c)
    BY <2>5, <2>d DEF Warm, TypeOK
  <2>6. CASE Cold(c)
    BY <2>6 DEF Cold, TypeOK
  <2>7. CASE TakeLock(c)
    BY <2>7, NoStateIsNoTree DEF TakeLock, TypeOK
  <2>8. CASE ServePeer(c)
    BY <2>8, <2>d DEF ServePeer, TypeOK
  <2>9. CASE FoundCurrent(c)
    BY <2>9, <2>d DEF FoundCurrent, TypeOK
  <2>10. CASE KeepWalk(c)
    BY <2>10 DEF KeepWalk, TypeOK
  <2>11. CASE WalkAgain(c)
    <3>1. CASE TakeWalk(c, TRUE) /\ Goto(c, "plan")
               /\ UNCHANGED <<state, builder, cached, scan, buildVars, faults>>
      BY <2>0, <2>11, <3>1 DEF WalkAgain, TakeWalk, TypeOK
    <3>2. CASE Fault("read") /\ state' = NoState /\ Done(c)
      BY <2>d, <2>11, <3>2 DEF WalkAgain, Fault, TypeOK
    <3> QED
      BY <2>11, <3>1, <3>2 DEF WalkAgain
  <2>12. CASE StartBuild(c)
    <3>1. walk[c] \in Trees /\ Kept(walk[c]) \in Trees /\ Unread(walk[c]) \subseteq Files
          /\ Selected(walk[c]) \subseteq Files
      BY KeptType DEF TypeOK, Selected
    <3>2. keep' \in [Commands -> BOOLEAN] /\ delta' \in [Commands -> BOOLEAN]
      BY <2>12 DEF StartBuild, TypeOK, Usable
    <3>3. built' \in [Commands -> Trees] /\ todo' \in [Commands -> SUBSET Files]
      BY <2>12, <3>1, NoStateIsNoTree DEF StartBuild, TypeOK
    <3> QED
      BY <2>12, <3>2, <3>3 DEF StartBuild, TypeOK
  <2>13. CASE \E f \in Files : ReadFile(c, f)
    <3>1. PICK f \in Files : ReadFile(c, f)
      BY <2>13
    <3>2. built' \in [Commands -> Trees]
      BY <2>0, <3>1 DEF ReadFile, TypeOK, Trees
    <3> QED
      BY <3>1, <3>2 DEF ReadFile, TypeOK
  <2>14. CASE FallBack(c)
    BY <2>14, NoStateIsNoTree DEF FallBack, TypeOK, Selected
  <2>15. CASE EndBuild(c)
    BY <2>15 DEF EndBuild, TypeOK
  <2>16. CASE BeginSwap(c)
    <3>1. CASE Done(c) /\ Fault("disk") /\ UNCHANGED <<marker, intact>>
      BY <2>d, <2>16, <3>1 DEF BeginSwap, Fault, TypeOK
    <3>2. CASE ~Done(c) \/ ~Fault("disk") \/ ~UNCHANGED <<marker, intact>>
      BY ZenonT(60), <2>16, <3>2 DEF BeginSwap, TypeOK
    <3> QED
      BY <3>1, <3>2
  <2>17. CASE EndSwap(c)
    <3>1. CASE Done(c) /\ Fault("disk") /\ UNCHANGED <<family, shards, marker, passed>>
      BY <2>d, <2>17, <3>1 DEF EndSwap, Fault, TypeOK
    <3>2. CASE /\ family' = built[c] /\ shards' = (delta[c] \/ built[c] # NoFiles)
               /\ marker' = FALSE /\ passed' = Commands \ {c} /\ Goto(c, "manifest")
               /\ UNCHANGED <<builder, walkVars, cached, scan, buildVars, faults>>
      <4>1. shards' \in BOOLEAN /\ family' \in Trees
        BY <3>2 DEF TypeOK
      <4> QED
        BY <2>17, <3>2, <4>1 DEF EndSwap, TypeOK
    <3> QED
      BY <2>17, <3>1, <3>2 DEF EndSwap
  <2>18. CASE WriteManifest(c)
    <3>1. CASE Done(c) /\ Fault("disk") /\ UNCHANGED intact
      BY <2>d, <2>18, <3>1 DEF WriteManifest, Fault, TypeOK
    <3>2. CASE ~(Done(c) /\ Fault("disk") /\ UNCHANGED intact)
      BY ZenonT(60), <2>18, <3>2 DEF WriteManifest, TypeOK
    <3> QED
      BY <3>1, <3>2
  <2>19. CASE WriteState(c)
    <3>1. CASE Done(c) /\ Fault("disk") /\ late' = TRUE /\ UNCHANGED <<state, passed>>
      BY <2>d, <2>19, <3>1 DEF WriteState, Fault, TypeOK
    <3>2. CASE ~(Done(c) /\ Fault("disk") /\ late' = TRUE /\ UNCHANGED <<state, passed>>)
      BY <2>19, <3>2 DEF WriteState, TypeOK
    <3> QED
      BY <3>1, <3>2
  <2>20. CASE Record(c)
    BY <2>d, <2>20 DEF Record, Fault, TypeOK
  <2>21. CASE FailBuild(c)
    BY <2>d, <2>21 DEF FailBuild, Fault, TypeOK
  <2>22. CASE Crash(c)
    BY <2>d, <2>22 DEF Crash, Fault, TypeOK
  <2> QED
    BY <1>c, <2>1, <2>2, <2>3, <2>4, <2>5, <2>6, <2>7, <2>8, <2>9, <2>10, <2>11, <2>12,
       <2>13, <2>14, <2>15, <2>16, <2>17, <2>18, <2>19, <2>20, <2>21, <2>22 DEF Step
<1>d. CASE Mend
  <2>1. faults' \in 0..MaxFaults
    BY <1>d DEF Mend, Fault, TypeOK
  <2> QED
    BY <1>d, <2>1 DEF Mend, TypeOK
<1>u. CASE UNCHANGED vars
  BY <1>u DEF vars, TypeOK
<1> QED
  BY <1>e, <1>m, <1>c, <1>d, <1>u DEF Next

\* Every reachable state has the declared types.
THEOREM TypeCorrect == Spec => []TypeOK
BY TypeInit, TypeStep, PTL DEF Spec

-----------------------------------------------------------------------------
(* The lock and the records.                                               *)

\* A command holds .build.lock exactly in the steps under it.
LockInv == \A c \in Commands : pc[c] \in Locked <=> builder = c

\* A step of one command leaves the variables of the others alone.
LEMMA OthersStay ==
    ASSUME TypeOK, NEW c \in Commands, Step(c) \/ FailBuild(c) \/ Crash(c),
           NEW d \in Commands, d # c
    PROVE  /\ pc'[d] = pc[d] /\ walk'[d] = walk[d] /\ built'[d] = built[d]
           /\ todo'[d] = todo[d] /\ cached'[d] = cached[d] /\ scan'[d] = scan[d]
<1> USE DEF TypeOK, Goto, Done, TakeWalk, walkVars, buildVars
<1>1. CASE Begin(c)
  BY <1>1 DEF Begin
<1>2. CASE ReadState(c)
  BY <1>2 DEF ReadState
<1>3. CASE Scan(c)
  BY <1>3 DEF Scan
<1>4. CASE Fingerprint(c)
  BY <1>4 DEF Fingerprint
<1>5. CASE Warm(c)
  BY <1>5 DEF Warm
<1>6. CASE Cold(c)
  BY <1>6 DEF Cold
<1>7. CASE TakeLock(c)
  BY <1>7 DEF TakeLock
<1>8. CASE ServePeer(c)
  BY <1>8 DEF ServePeer
<1>9. CASE FoundCurrent(c)
  BY <1>9 DEF FoundCurrent
<1>10. CASE KeepWalk(c)
  BY <1>10 DEF KeepWalk
<1>11. CASE WalkAgain(c)
  BY <1>11 DEF WalkAgain
<1>12. CASE StartBuild(c)
  BY <1>12 DEF StartBuild
<1>13. CASE \E f \in Files : ReadFile(c, f)
  BY <1>13 DEF ReadFile
<1>14. CASE FallBack(c)
  BY <1>14 DEF FallBack
<1>15. CASE EndBuild(c)
  BY <1>15 DEF EndBuild
<1>16. CASE BeginSwap(c)
  BY <1>16 DEF BeginSwap
<1>17. CASE EndSwap(c)
  BY <1>17 DEF EndSwap
<1>18. CASE WriteManifest(c)
  BY <1>18 DEF WriteManifest
<1>19. CASE WriteState(c)
  BY <1>19 DEF WriteState
<1>20. CASE Record(c)
  BY <1>20 DEF Record
<1>21. CASE FailBuild(c)
  BY <1>21 DEF FailBuild
<1>22. CASE Crash(c)
  BY <1>22 DEF Crash
<1> QED
  BY <1>1, <1>2, <1>3, <1>4, <1>5, <1>6, <1>7, <1>8, <1>9, <1>10, <1>11, <1>12, <1>13,
     <1>14, <1>15, <1>16, <1>17, <1>18, <1>19, <1>20, <1>21, <1>22 DEF Step

LEMMA LockInit == Init => LockInv
BY ConstantsAssumption DEF Init, LockInv, Locked

LEMMA LockStep == TypeOK /\ LockInv /\ [Next]_vars => LockInv'
<1> SUFFICES ASSUME TypeOK, LockInv, [Next]_vars, NEW d \in Commands
             PROVE  pc'[d] \in Locked <=> builder' = d
  BY DEF LockInv
<1> USE DEF LockInv, Locked, Goto
<1>c. ASSUME NEW c \in Commands, Step(c) \/ FailBuild(c) \/ Crash(c)
      PROVE  pc'[d] \in Locked <=> builder' = d
  <2>0. d # c => pc'[d] = pc[d]
    BY <1>c, OthersStay
  <2>d. ASSUME Done(c) PROVE pc'[c] \notin Locked /\ builder' = IF builder = c THEN NoOne ELSE builder
    BY <2>d DEF Done, TypeOK
  <2>e. ASSUME Done(c) PROVE pc'[d] \in Locked <=> builder' = d
    BY <2>0, <2>d, <2>e, ConstantsAssumption
  <2>k. ASSUME builder' = builder, (pc[c] \in Locked) <=> (pc'[c] \in Locked)
        PROVE  pc'[d] \in Locked <=> builder' = d
    BY <2>0, <2>k
  <2>1. CASE Begin(c)
    BY <2>1, <2>k DEF Begin, TypeOK
  <2>2. CASE ReadState(c)
    BY <2>2, <2>k DEF ReadState, TypeOK
  <2>3. CASE Scan(c)
    BY <2>3, <2>k DEF Scan, TypeOK
  <2>4. CASE Fingerprint(c)
    BY <2>4, <2>k DEF Fingerprint
  <2>5. CASE Warm(c)
    BY <2>5, <2>e DEF Warm
  <2>6. CASE Cold(c)
    BY <2>6, <2>k DEF Cold, TypeOK
  <2>7. CASE TakeLock(c)
    BY <2>0, <2>7, ConstantsAssumption DEF TakeLock, TypeOK
  <2>8. CASE ServePeer(c)
    BY <2>8, <2>e DEF ServePeer
  <2>9. CASE FoundCurrent(c)
    BY <2>9, <2>e DEF FoundCurrent
  <2>10. CASE KeepWalk(c)
    BY <2>10, <2>k DEF KeepWalk, TypeOK
  <2>11. CASE WalkAgain(c)
    BY <2>11, <2>e, <2>k DEF WalkAgain, TypeOK
  <2>12. CASE StartBuild(c)
    BY <2>12, <2>k DEF StartBuild, TypeOK
  <2>13. CASE \E f \in Files : ReadFile(c, f)
    BY <2>13, <2>k DEF ReadFile
  <2>14. CASE FallBack(c)
    BY <2>14, <2>k DEF FallBack
  <2>15. CASE EndBuild(c)
    BY <2>15, <2>k DEF EndBuild, TypeOK
  <2>16. CASE BeginSwap(c)
    BY <2>16, <2>e, <2>k DEF BeginSwap, TypeOK
  <2>17. CASE EndSwap(c)
    BY <2>17, <2>e, <2>k DEF EndSwap, TypeOK
  <2>18. CASE WriteManifest(c)
    BY <2>18, <2>e, <2>k DEF WriteManifest, TypeOK
  <2>19. CASE WriteState(c)
    BY <2>19, <2>e, <2>k DEF WriteState, TypeOK
  <2>20. CASE Record(c)
    BY <2>20, <2>e DEF Record
  <2>21. CASE FailBuild(c)
    BY <2>21, <2>e DEF FailBuild
  <2>22. CASE Crash(c)
    BY <2>22, <2>e DEF Crash
  <2> QED
    BY <1>c, <2>1, <2>2, <2>3, <2>4, <2>5, <2>6, <2>7, <2>8, <2>9, <2>10, <2>11, <2>12,
       <2>13, <2>14, <2>15, <2>16, <2>17, <2>18, <2>19, <2>20, <2>21, <2>22 DEF Step
<1>o. CASE \/ \E f \in Files : Edit(f) \/ Move(f)
          \/ Mend \/ UNCHANGED vars
  BY <1>o DEF Edit, Move, Mend, vars
<1> QED
  BY <1>c, <1>o DEF Next

\* While a command holds the lock, only its own steps and a mend change the disk.
LEMMA OnlyHolder ==
    ASSUME TypeOK, LockInv, NEW c \in Commands, Step(c) \/ FailBuild(c) \/ Crash(c),
           NEW d \in Commands, d # c, pc[d] \in Locked
    PROVE  UNCHANGED diskVars
<1>0. pc[c] \notin Locked /\ builder # NoOne
  BY ConstantsAssumption DEF LockInv
<1> USE <1>0 DEF Locked, diskVars
<1>1. CASE Begin(c)
  BY <1>1 DEF Begin
<1>2. CASE ReadState(c)
  BY <1>2 DEF ReadState
<1>3. CASE Scan(c)
  BY <1>3 DEF Scan
<1>4. CASE Fingerprint(c)
  BY <1>4 DEF Fingerprint
<1>5. CASE Warm(c)
  BY <1>5 DEF Warm
<1>6. CASE Cold(c)
  BY <1>6 DEF Cold
<1>7. CASE TakeLock(c)
  BY <1>7 DEF TakeLock
<1>8. CASE ServePeer(c)
  BY <1>8 DEF ServePeer
<1>9. CASE FoundCurrent(c)
  BY <1>9 DEF FoundCurrent
<1>10. CASE KeepWalk(c)
  BY <1>10 DEF KeepWalk
<1>11. CASE WalkAgain(c)
  BY <1>11 DEF WalkAgain
<1>12. CASE StartBuild(c)
  BY <1>12 DEF StartBuild
<1>13. CASE \E f \in Files : ReadFile(c, f)
  BY <1>13 DEF ReadFile
<1>14. CASE FallBack(c)
  BY <1>14 DEF FallBack
<1>15. CASE EndBuild(c)
  BY <1>15 DEF EndBuild
<1>16. CASE BeginSwap(c)
  BY <1>16 DEF BeginSwap
<1>17. CASE EndSwap(c)
  BY <1>17 DEF EndSwap
<1>18. CASE WriteManifest(c)
  BY <1>18 DEF WriteManifest
<1>19. CASE WriteState(c)
  BY <1>19 DEF WriteState
<1>20. CASE Record(c)
  BY <1>20 DEF Record
<1>21. CASE FailBuild(c)
  BY <1>21 DEF FailBuild
<1>22. CASE Crash(c)
  BY <1>22 DEF Crash
<1> QED
  BY <1>1, <1>2, <1>3, <1>4, <1>5, <1>6, <1>7, <1>8, <1>9, <1>10, <1>11, <1>12, <1>13,
     <1>14, <1>15, <1>16, <1>17, <1>18, <1>19, <1>20, <1>21, <1>22 DEF Step

\* What each step under the lock knows of the records, and of its own build.
Phases ==
    \A d \in Commands :
        /\ pc[d] \in {"recheck", "plan", "build", "publish", "manifest", "state"} => ~marker
        /\ pc[d] \in {"swap", "manifest"} => ~intact
        /\ pc[d] \in {"manifest", "state"} => family = built[d]
        /\ pc[d] = "build" => todo[d] \subseteq Selected(walk[d])
        /\ pc[d] \in {"publish", "swap", "manifest", "state"} => todo[d] = {}

LEMMA PhasesInit == Init => Phases
BY DEF Init, Phases

LEMMA PhasesStep == TypeOK /\ LockInv /\ Phases /\ [Next]_vars => Phases'
<1> SUFFICES ASSUME TypeOK, LockInv, Phases, [Next]_vars PROVE Phases'
  OBVIOUS
<1>c. ASSUME NEW c \in Commands, Step(c) \/ FailBuild(c) \/ Crash(c) PROVE Phases'
  <2>a. ASSUME NEW d \in Commands, d # c
        PROVE  /\ pc'[d] \in {"recheck", "plan", "build", "publish", "manifest", "state"} => ~marker'
               /\ pc'[d] \in {"swap", "manifest"} => ~intact'
               /\ pc'[d] \in {"manifest", "state"} => family' = built'[d]
               /\ pc'[d] = "build" => todo'[d] \subseteq Selected(walk[d])'
               /\ pc'[d] \in {"publish", "swap", "manifest", "state"} => todo'[d] = {}
    <3>1. /\ pc'[d] = pc[d] /\ built'[d] = built[d] /\ todo'[d] = todo[d]
          /\ walk'[d] = walk[d]
      BY <1>c, <2>a, OthersStay
    <3>2. pc[d] \in Locked => marker' = marker /\ intact' = intact /\ family' = family
      BY <1>c, <2>a, OnlyHolder DEF diskVars
    <3> QED
      BY <3>1, <3>2 DEF Phases, Locked, Selected
  <2>b. /\ pc'[c] \in {"recheck", "plan", "build", "publish", "manifest", "state"} => ~marker'
        /\ pc'[c] \in {"swap", "manifest"} => ~intact'
        /\ pc'[c] \in {"manifest", "state"} => family' = built'[c]
        /\ pc'[c] = "build" => todo'[c] \subseteq Selected(walk[c])'
        /\ pc'[c] \in {"publish", "swap", "manifest", "state"} => todo'[c] = {}
    <3> USE DEF Phases, TypeOK, Goto, Done, TakeWalk, walkVars, buildVars, diskVars, Selected
    <3>1. CASE Begin(c)
      BY <3>1 DEF Begin
    <3>2. CASE ReadState(c)
      BY <3>2 DEF ReadState
    <3>3. CASE Scan(c)
      BY <3>3 DEF Scan
    <3>4. CASE Fingerprint(c)
      BY <3>4 DEF Fingerprint
    <3>5. CASE Warm(c)
      BY <3>5 DEF Warm
    <3>6. CASE Cold(c)
      BY <3>6 DEF Cold
    <3>7. CASE TakeLock(c)
      BY <3>7 DEF TakeLock
    <3>8. CASE ServePeer(c)
      BY <3>8 DEF ServePeer
    <3>9. CASE FoundCurrent(c)
      BY <3>9 DEF FoundCurrent
    <3>10. CASE KeepWalk(c)
      BY <3>10 DEF KeepWalk
    <3>11. CASE WalkAgain(c)
      BY <3>11 DEF WalkAgain
    <3>12. CASE StartBuild(c)
      BY <3>12 DEF StartBuild, Unread
    <3>13. CASE \E f \in Files : ReadFile(c, f)
      BY <3>13 DEF ReadFile
    <3>14. CASE FallBack(c)
      BY <3>14 DEF FallBack
    <3>15. CASE EndBuild(c)
      BY <3>15 DEF EndBuild
    <3>16. CASE BeginSwap(c)
      BY <3>16 DEF BeginSwap
    <3>17. CASE EndSwap(c)
      BY <3>17 DEF EndSwap
    <3>18. CASE WriteManifest(c)
      BY <3>18 DEF WriteManifest
    <3>19. CASE WriteState(c)
      BY <3>19 DEF WriteState
    <3>20. CASE Record(c)
      BY <3>20 DEF Record
    <3>21. CASE FailBuild(c)
      BY <3>21 DEF FailBuild
    <3>22. CASE Crash(c)
      BY <3>22 DEF Crash
    <3> QED
      BY <1>c, <3>1, <3>2, <3>3, <3>4, <3>5, <3>6, <3>7, <3>8, <3>9, <3>10, <3>11,
         <3>12, <3>13, <3>14, <3>15, <3>16, <3>17, <3>18, <3>19, <3>20, <3>21, <3>22 DEF
         Step
  <2> QED
    BY <2>a, <2>b DEF Phases
<1>o. CASE (\E f \in Files : Edit(f) \/ Move(f)) \/ Mend \/ UNCHANGED vars
  BY <1>o DEF Edit, Move, Mend, vars, Phases, Selected, diskVars, walkVars, buildVars
<1> QED
  BY <1>c, <1>o DEF Next

\* What the step of a command can do to what others rely on.
LEMMA Sources ==
    ASSUME TypeOK, NEW c \in Commands, Step(c) \/ FailBuild(c) \/ Crash(c)
    PROVE  /\ version' = version /\ missed \subseteq missed' /\ (late => late')
           /\ state' \in {state, NoState, walk[c]}
           /\ recorded' = recorded \/ (recorded' = walk[c] /\ walk[c] # NoFiles)
<1> USE DEF treeVars, diskVars, histVars
<1>1. CASE Begin(c)
  BY <1>1 DEF Begin
<1>2. CASE ReadState(c)
  BY <1>2 DEF ReadState
<1>3. CASE Scan(c)
  BY <1>3 DEF Scan
<1>4. CASE Fingerprint(c)
  BY <1>4 DEF Fingerprint
<1>5. CASE Warm(c)
  BY <1>5 DEF Warm
<1>6. CASE Cold(c)
  BY <1>6 DEF Cold
<1>7. CASE TakeLock(c)
  BY <1>7 DEF TakeLock
<1>8. CASE ServePeer(c)
  BY <1>8 DEF ServePeer
<1>9. CASE FoundCurrent(c)
  BY <1>9 DEF FoundCurrent
<1>10. CASE KeepWalk(c)
  BY <1>10 DEF KeepWalk
<1>11. CASE WalkAgain(c)
  BY <1>11 DEF WalkAgain
<1>12. CASE StartBuild(c)
  BY <1>12 DEF StartBuild
<1>13. CASE \E f \in Files : ReadFile(c, f)
  BY <1>13 DEF ReadFile
<1>14. CASE FallBack(c)
  BY <1>14 DEF FallBack
<1>15. CASE EndBuild(c)
  BY <1>15 DEF EndBuild
<1>16. CASE BeginSwap(c)
  BY <1>16 DEF BeginSwap
<1>17. CASE EndSwap(c)
  BY <1>17 DEF EndSwap
<1>18. CASE WriteManifest(c)
  BY <1>18 DEF WriteManifest
<1>19. CASE WriteState(c)
  BY <1>19 DEF WriteState
<1>20. CASE Record(c)
  BY <1>20 DEF Record
<1>21. CASE FailBuild(c)
  BY <1>21 DEF FailBuild
<1>22. CASE Crash(c)
  BY <1>22 DEF Crash
<1> QED
  BY <1>1, <1>2, <1>3, <1>4, <1>5, <1>6, <1>7, <1>8, <1>9, <1>10, <1>11, <1>12, <1>13,
     <1>14, <1>15, <1>16, <1>17, <1>18, <1>19, <1>20, <1>21, <1>22 DEF Step

LEMMA WalkSources ==
    ASSUME TypeOK, NEW c \in Commands, Step(c) \/ FailBuild(c) \/ Crash(c),
           NEW d \in Commands
    PROVE  walk'[d] \in {walk[d], NoFiles, Tree} /\ cached'[d] \in {cached[d], NoState, state}
<1>0. d # c => walk'[d] = walk[d] /\ cached'[d] = cached[d]
  BY OthersStay
<1>d. Done(c) => walk'[c] = NoFiles /\ cached'[c] = NoState
  BY DEF Done, TypeOK
<1>t. ASSUME NEW l, TakeWalk(c, l) PROVE walk'[c] = Tree
  BY <1>t DEF TakeWalk, TypeOK
<1> USE <1>0, <1>d, <1>t DEF TypeOK, walkVars
<1>1. CASE Begin(c)
  BY <1>1 DEF Begin
<1>2. CASE ReadState(c)
  BY <1>2 DEF ReadState
<1>3. CASE Scan(c)
  BY <1>3 DEF Scan
<1>4. CASE Fingerprint(c)
  BY <1>4 DEF Fingerprint
<1>5. CASE Warm(c)
  BY <1>5 DEF Warm
<1>6. CASE Cold(c)
  BY <1>6 DEF Cold
<1>7. CASE TakeLock(c)
  BY <1>7 DEF TakeLock
<1>8. CASE ServePeer(c)
  BY <1>8 DEF ServePeer
<1>9. CASE FoundCurrent(c)
  BY <1>9 DEF FoundCurrent
<1>10. CASE KeepWalk(c)
  BY <1>10 DEF KeepWalk
<1>11. CASE WalkAgain(c)
  BY <1>11 DEF WalkAgain
<1>12. CASE StartBuild(c)
  BY <1>12 DEF StartBuild
<1>13. CASE \E f \in Files : ReadFile(c, f)
  BY <1>13 DEF ReadFile
<1>14. CASE FallBack(c)
  BY <1>14 DEF FallBack
<1>15. CASE EndBuild(c)
  BY <1>15 DEF EndBuild
<1>16. CASE BeginSwap(c)
  BY <1>16 DEF BeginSwap
<1>17. CASE EndSwap(c)
  BY <1>17 DEF EndSwap
<1>18. CASE WriteManifest(c)
  BY <1>18 DEF WriteManifest
<1>19. CASE WriteState(c)
  BY <1>19 DEF WriteState
<1>20. CASE Record(c)
  BY <1>20 DEF Record
<1>21. CASE FailBuild(c)
  BY <1>21 DEF FailBuild
<1>22. CASE Crash(c)
  BY <1>22 DEF Crash
<1> QED
  BY <1>1, <1>2, <1>3, <1>4, <1>5, <1>6, <1>7, <1>8, <1>9, <1>10, <1>11, <1>12, <1>13,
     <1>14, <1>15, <1>16, <1>17, <1>18, <1>19, <1>20, <1>21, <1>22 DEF Step

\* The versions of a tree are numbers.
LEMMA TreeValues ==
    ASSUME NEW t \in Trees, NEW f \in Files
    PROVE  t[f] \in Nat
BY ConstantsAssumption DEF Trees

-----------------------------------------------------------------------------
(* The family is what .state says.                                         *)

\* No tree that anything remembers has a version that the folder never had.
Below(t) == t \in Trees => \A f \in Files : t[f] <= version[f]

Bounded ==
    /\ recorded # NoFiles
    /\ Below(state)
    /\ \A d \in Commands : Below(walk[d]) /\ Below(cached[d])

LEMMA BoundedInit == Init => Bounded
BY NoStateIsNoTree, ConstantsAssumption DEF Init, Bounded, Below, NoFiles, Trees

LEMMA BoundedStep == TypeOK /\ Bounded /\ [Next]_vars => Bounded'
<1> SUFFICES ASSUME TypeOK, Bounded, [Next]_vars PROVE Bounded'
  OBVIOUS
<1>c. ASSUME NEW c \in Commands, Step(c) \/ FailBuild(c) \/ Crash(c) PROVE Bounded'
  <2>1. Below(NoState) /\ Below(NoFiles) /\ Below(Tree)
    <3>1. \A f \in Files : version[f] \in Nat /\ (Tree[f] = 0 \/ Tree[f] = version[f])
      BY WalkType, TreeValues DEF TypeOK
    <3> QED
      BY <3>1, NoStateIsNoTree DEF Below, NoFiles
  <2>2. version' = version
    BY <1>c, Sources
  <2>3. state' \in {state, NoState, walk[c]} /\ recorded' # NoFiles
    BY <1>c, Sources DEF Bounded
  <2>4. ASSUME NEW d \in Commands
        PROVE  walk'[d] \in {walk[d], NoFiles, Tree} /\ cached'[d] \in {cached[d], NoState, state}
    BY <1>c, WalkSources
  <2> QED
    BY <2>1, <2>2, <2>3, <2>4 DEF Bounded, Below
<1>e. ASSUME NEW f \in Files, Edit(f) PROVE Bounded'
  <2>1. ASSUME NEW g \in Files
        PROVE  version[g] \in Nat /\ version'[g] \in Nat /\ version'[g] >= version[g]
    BY <1>e, ConstantsAssumption DEF Edit, TypeOK, Trees
  <2>3. UNCHANGED <<state, recorded, walk, cached>>
    BY <1>e DEF Edit, diskVars, walkVars
  <2>4. Below(state)'
    <3> SUFFICES ASSUME state \in Trees, NEW g \in Files PROVE state[g] <= version'[g]
      BY <2>3 DEF Below
    <3>1. state[g] \in Nat /\ state[g] <= version[g]
      BY TreeValues DEF Bounded, Below
    <3> QED
      BY <2>1, <3>1
  <2>5. ASSUME NEW d \in Commands PROVE Below(walk[d])' /\ Below(cached[d])'
    <3>1. ASSUME walk[d] \in Trees, NEW g \in Files PROVE walk[d][g] <= version'[g]
      <4>1. walk[d][g] \in Nat /\ walk[d][g] <= version[g]
        BY <3>1, TreeValues DEF Bounded, Below
      <4> QED
        BY <2>1, <4>1
    <3>2. ASSUME cached[d] \in Trees, NEW g \in Files PROVE cached[d][g] <= version'[g]
      <4>1. cached[d][g] \in Nat /\ cached[d][g] <= version[g]
        BY <3>2, TreeValues DEF Bounded, Below
      <4> QED
        BY <2>1, <4>1
    <3> QED
      BY <2>3, <3>1, <3>2 DEF Below
  <2> QED
    BY <2>3, <2>4, <2>5 DEF Bounded
<1>o. CASE (\E f \in Files : Move(f)) \/ Mend \/ UNCHANGED vars
  BY <1>o DEF Move, Mend, vars, Bounded, Below, diskVars, walkVars, treeVars
<1> QED
  BY <1>c, <1>e, <1>o DEF Next

\* A document d of a file f is what a tree with version v of f allows.
Doc(d, v, f) ==
    /\ d # 0 => v # 0 /\ d >= v
    /\ d = 0 /\ v # 0 => f \in missed

\* A build describes its walk in the files that it has read or kept.
Builds ==
    \A d \in Commands :
        /\ pc[d] \in {"build", "publish", "swap", "manifest", "state"}
        /\ walk[d] # NoFiles /\ ~late
        => \A f \in Files \ todo[d] : Doc(built[d][f], walk[d][f], f)

\* StateDescribesFamily, file by file.
Described ==
    Settled /\ ~late /\ state \notin {NoState, NoFiles}
        => \A f \in Files : Doc(family[f], state[f], f)

DocInv == Builds /\ Described

LEMMA DocInit == Init => DocInv
BY DEF Init, DocInv, Builds, Described

\* A delta starts with documents that describe its walk.
LEMMA KeptDescribes ==
    ASSUME TypeOK, LockInv, Phases, Bounded, DocInv, ~late,
           NEW c \in Commands, pc[c] = "plan", state # NoState, Usable, walk[c] # NoFiles,
           NEW f \in Files \ Unread(walk[c])
    PROVE  Doc(Kept(walk[c])[f], walk[c][f], f)
<1>1. Settled
  BY ConstantsAssumption DEF Settled, Phases, LockInv, Locked
<1>2. CASE ~ManifestFits
  BY <1>2 DEF Unread, Kept, Selected, Doc
<1>3. CASE ManifestFits /\ walk[c][f] = recorded[f]
  <2>1. state \notin {NoState, NoFiles} /\ state[f] = walk[c][f]
    BY <1>3 DEF ManifestFits, Bounded
  <2>2. Doc(family[f], state[f], f)
    BY <1>1, <2>1 DEF DocInv, Described
  <2> QED
    BY <1>3, <2>1, <2>2 DEF Kept
<1>4. CASE ManifestFits /\ walk[c][f] # recorded[f]
  BY <1>4 DEF Unread, Kept, Selected, Doc
<1> QED
  BY <1>2, <1>3, <1>4

\* Each step keeps what the builds say of their walks.
LEMMA BuildsStep ==
    ASSUME TypeOK, LockInv, Phases, Bounded, DocInv, [Next]_vars
    PROVE  Builds'
<1>c. ASSUME NEW c \in Commands, Step(c) \/ FailBuild(c) \/ Crash(c) PROVE Builds'
  <2>0. missed \subseteq missed' /\ (late => late')
    BY <1>c, Sources
  <2>a. ASSUME NEW d \in Commands, d # c,
               pc'[d] \in {"build", "publish", "swap", "manifest", "state"},
               walk'[d] # NoFiles, ~late', NEW f \in Files \ todo'[d]
        PROVE  Doc(built[d][f], walk[d][f], f)'
    <3>1. pc'[d] = pc[d] /\ built'[d] = built[d] /\ todo'[d] = todo[d] /\ walk'[d] = walk[d]
      BY <1>c, <2>a, OthersStay
    <3>2. Doc(built[d][f], walk[d][f], f)
      BY <2>a, <2>0, <3>1 DEF DocInv, Builds
    <3> QED
      BY <2>0, <3>1, <3>2 DEF Doc
  <2>b. ASSUME pc'[c] \in {"build", "publish", "swap", "manifest", "state"},
               walk'[c] # NoFiles, ~late', NEW f \in Files \ todo'[c]
        PROVE  Doc(built[c][f], walk[c][f], f)'
    <3>0. missed \subseteq missed' /\ ~late
      BY <2>0, <2>b
    <3>g. ASSUME Done(c) PROVE FALSE
      BY <2>b, <3>g DEF Done, TypeOK
    <3>k. ASSUME pc[c] \in {"build", "publish", "swap", "manifest"},
                 UNCHANGED <<walk, built, todo>>
          PROVE  Doc(built[c][f], walk[c][f], f)'
      <4>1. Doc(built[c][f], walk[c][f], f)
        BY <2>b, <3>0, <3>k DEF DocInv, Builds
      <4> QED
        BY <3>0, <3>k, <4>1 DEF Doc
    <3> USE <2>b
    <3>1. CASE Begin(c)
      BY <3>1 DEF Begin, TypeOK, Goto
    <3>2. CASE ReadState(c)
      BY <3>2 DEF ReadState, TypeOK, Goto
    <3>3. CASE Scan(c)
      BY <3>3 DEF Scan, TypeOK, Goto
    <3>4. CASE Fingerprint(c)
      BY <3>4 DEF Fingerprint
    <3>5. CASE Warm(c)
      BY <3>5, <3>g DEF Warm
    <3>6. CASE Cold(c)
      BY <3>6 DEF Cold, TypeOK, Goto
    <3>7. CASE TakeLock(c)
      BY <3>7 DEF TakeLock, TypeOK, Goto
    <3>8. CASE ServePeer(c)
      BY <3>8, <3>g DEF ServePeer
    <3>9. CASE FoundCurrent(c)
      BY <3>9, <3>g DEF FoundCurrent
    <3>10. CASE KeepWalk(c)
      BY <3>10 DEF KeepWalk, TypeOK, Goto
    <3>11. CASE WalkAgain(c)
      BY <3>11, <3>g DEF WalkAgain, TypeOK, Goto
    <3>12. CASE StartBuild(c)
      <4>1. walk'[c] = walk[c] /\ walk[c] \in Trees /\ ~late
        BY <3>12 DEF StartBuild, walkVars, histVars, TypeOK
      <4>2. CASE /\ state # NoState /\ Usable
                 /\ built' = [built EXCEPT ![c] = Kept(walk[c])]
                 /\ todo' = [todo EXCEPT ![c] = Unread(walk[c])]
        <5>1. built'[c] = Kept(walk[c]) /\ f \notin Unread(walk[c])
          BY <4>2 DEF TypeOK
        <5>2. pc[c] = "plan"
          BY <3>12 DEF StartBuild
        <5>3. Doc(Kept(walk[c])[f], walk[c][f], f)
          BY <4>1, <4>2, <5>1, <5>2, KeptDescribes
        <5> QED
          BY <3>0, <4>1, <5>1, <5>3 DEF Doc
      <4>3. CASE /\ built' = [built EXCEPT ![c] = NoFiles]
                 /\ todo' = [todo EXCEPT ![c] = Selected(walk[c])]
        <5>1. built'[c][f] = 0 /\ walk[c][f] = 0
          BY <4>3 DEF TypeOK, NoFiles, Selected
        <5> QED
          BY <4>1, <5>1 DEF Doc
      <4> QED
        BY <3>12, <4>2, <4>3 DEF StartBuild
    <3>13. CASE \E h \in Files : ReadFile(c, h)
      <4>1. PICK g \in Files : ReadFile(c, g)
        BY <3>13
      <4>2. /\ walk'[c] = walk[c] /\ pc[c] = "build" /\ ~late /\ g \in todo[c]
            /\ todo'[c] = todo[c] \ {g}
            /\ built'[c] = [built[c] EXCEPT ![g] = Tree[g]]
        BY <4>1 DEF ReadFile, walkVars, TypeOK
      <4>3. CASE f = g
        <5>1. built'[c][f] = Tree[f] /\ walk[c][f] # 0 /\ walk[c][f] \in Nat /\ version[f] \in Nat
          BY <4>2, <4>3, TreeValues DEF TypeOK, Phases, Selected, Trees
        <5>2. walk[c][f] <= version[f]
          BY DEF Bounded, Below, TypeOK
        <5>3. Tree[f] = 0 \/ Tree[f] = version[f]
          BY WalkType
        <5>4. Tree[f] = 0 => f \in missed'
          BY <4>1, <4>3 DEF ReadFile
        <5> QED
          BY <4>2, <5>1, <5>2, <5>3, <5>4 DEF Doc
      <4>4. CASE f # g
        <5>1. built'[c][f] = built[c][f] /\ f \in Files \ todo[c]
          BY <4>2, <4>4 DEF TypeOK, Trees
        <5>2. Doc(built[c][f], walk[c][f], f)
          BY <4>2, <5>1 DEF DocInv, Builds
        <5> QED
          BY <3>0, <4>2, <5>1, <5>2 DEF Doc
      <4> QED
        BY <4>3, <4>4
    <3>14. CASE FallBack(c)
      <4>1. built'[c][f] = 0 /\ walk[c][f] = 0 /\ walk'[c] = walk[c]
        BY <3>14 DEF FallBack, TypeOK, NoFiles, Selected, walkVars
      <4> QED
        BY <4>1 DEF Doc
    <3>15. CASE EndBuild(c)
      BY <3>15, <3>g, <3>k DEF EndBuild, walkVars, buildVars
    <3>16. CASE BeginSwap(c)
      BY <3>16, <3>g, <3>k DEF BeginSwap, walkVars, buildVars
    <3>17. CASE EndSwap(c)
      BY <3>17, <3>g, <3>k DEF EndSwap, walkVars, buildVars
    <3>18. CASE WriteManifest(c)
      BY <3>18, <3>g, <3>k DEF WriteManifest, walkVars, buildVars
    <3>19. CASE WriteState(c)
      BY <3>19, <3>g DEF WriteState, TypeOK, Goto
    <3>20. CASE Record(c)
      BY <3>20, <3>g DEF Record
    <3>21. CASE FailBuild(c)
      BY <3>21, <3>g DEF FailBuild
    <3>22. CASE Crash(c)
      BY <3>22, <3>g DEF Crash
    <3> QED
      BY <1>c, <3>1, <3>2, <3>3, <3>4, <3>5, <3>6, <3>7, <3>8, <3>9, <3>10, <3>11,
         <3>12, <3>13, <3>14, <3>15, <3>16, <3>17, <3>18, <3>19, <3>20, <3>21, <3>22 DEF
         Step
  <2> QED
    BY <2>a, <2>b DEF Builds
<1>o. CASE (\E f \in Files : Edit(f) \/ Move(f)) \/ Mend \/ UNCHANGED vars
  <2>1. UNCHANGED <<pc, walk, built, todo, late, missed>>
    BY <1>o DEF Edit, Move, Mend, vars, walkVars, buildVars, histVars
  <2> QED
    BY <2>1 DEF DocInv, Builds, Doc
<1> QED
  BY <1>c, <1>o DEF Next

\* A step that only drops records leaves the rest described.
LEMMA Calm ==
    ASSUME TypeOK, DocInv, family' = family, state' \in {state, NoState}, Usable' => Usable,
           marker => marker', missed \subseteq missed', late => late',
           \A q \in Commands : pc[q] = "state" => late' \/ pc'[q] = "state"
    PROVE  Described'
<1> SUFFICES ASSUME Settled', ~late', state' \notin {NoState, NoFiles}, NEW f \in Files
             PROVE  Doc(family[f], state[f], f)'
  BY DEF Described
<1>1. Settled /\ ~late /\ state' = state
  BY DEF Settled
<1>2. Doc(family[f], state[f], f)
  BY <1>1 DEF DocInv, Described
<1> QED
  BY <1>1, <1>2 DEF Doc

\* Each step keeps what .state says of the family.
LEMMA DescribedStep ==
    ASSUME TypeOK, LockInv, Phases, DocInv, [Next]_vars
    PROVE  Described'
<1>c. ASSUME NEW c \in Commands, Step(c) \/ FailBuild(c) \/ Crash(c) PROVE Described'
  <2>0. missed \subseteq missed' /\ (late => late')
    BY <1>c, Sources
  <2>o. \A q \in Commands \ {c} : pc'[q] = pc[q]
    BY <1>c, OthersStay
  <2>k. ASSUME family' = family, state' \in {state, NoState}, Usable' => Usable,
               marker => marker', pc[c] = "state" => late' \/ pc'[c] = "state"
        PROVE  Described'
    BY <2>0, <2>o, <2>k, Calm
  <2> USE DEF Usable
  <2>1. CASE Begin(c)
    BY <2>1, <2>k DEF Begin, diskVars
  <2>2. CASE ReadState(c)
    BY <2>2, <2>k DEF ReadState, diskVars
  <2>3. CASE Scan(c)
    BY <2>3, <2>k DEF Scan, diskVars
  <2>4. CASE Fingerprint(c)
    BY <2>4, <2>k DEF Fingerprint, diskVars
  <2>5. CASE Warm(c)
    BY <2>5, <2>k DEF Warm, diskVars
  <2>6. CASE Cold(c)
    BY <2>6, <2>k DEF Cold, diskVars
  <2>7. CASE TakeLock(c)
    <3>1. CASE UNCHANGED diskVars
      BY <2>7, <3>1, <2>k DEF TakeLock, Goto, TypeOK, diskVars, histVars
    <3>2. CASE state' = NoState
      BY <3>2 DEF Described
    <3> QED
      BY <2>7, <3>1, <3>2 DEF TakeLock
  <2>8. CASE ServePeer(c)
    BY <2>8, <2>k DEF ServePeer, diskVars
  <2>9. CASE FoundCurrent(c)
    BY <2>9, <2>k DEF FoundCurrent, diskVars
  <2>10. CASE KeepWalk(c)
    BY <2>10, <2>k DEF KeepWalk, diskVars
  <2>11. CASE WalkAgain(c)
    BY <2>11, <2>k DEF WalkAgain, histVars
  <2>12. CASE StartBuild(c)
    BY <2>12, <2>k DEF StartBuild, diskVars
  <2>13. CASE \E f \in Files : ReadFile(c, f)
    BY <2>13, <2>k DEF ReadFile, diskVars
  <2>14. CASE FallBack(c)
    BY <2>14, <2>k DEF FallBack, diskVars
  <2>15. CASE EndBuild(c)
    BY <2>15, <2>k DEF EndBuild, diskVars
  <2>16. CASE BeginSwap(c)
    BY <2>16, <2>k DEF BeginSwap, histVars
  <2>17. CASE EndSwap(c)
    <3>1. ~intact /\ intact' = intact
      BY <2>17 DEF EndSwap, Phases
    <3> QED
      BY <3>1 DEF Described, Settled, Usable
  <2>18. CASE WriteManifest(c)
    <3>1. CASE Fault("disk") /\ Done(c) /\ UNCHANGED intact
      BY <2>18, <3>1, <2>k DEF WriteManifest, histVars
    <3>2. CASE Goto(c, "state")
      <4>1. pc'[c] = "state"
        BY <3>2 DEF Goto, TypeOK
      <4> QED
        BY <4>1 DEF Described, Settled
    <3> QED
      BY <2>18, <3>1, <3>2 DEF WriteManifest
  <2>19. CASE WriteState(c)
    <3>1. CASE late'
      BY <3>1 DEF Described
    <3>2. CASE ~late'
      <4>1. /\ state' = walk[c] /\ family' = built[c] /\ missed' = missed /\ ~late
            /\ pc[c] = "state" /\ todo[c] = {}
        BY <2>19, <3>2 DEF WriteState, Phases
      <4>2. walk[c] # NoFiles => \A f \in Files : Doc(built[c][f], walk[c][f], f)
        BY <4>1 DEF DocInv, Builds
      <4> QED
        BY <4>1, <4>2 DEF Described, Doc
    <3> QED
      BY <3>1, <3>2
  <2>20. CASE Record(c)
    BY <2>20, <2>k DEF Record, diskVars
  <2>21. CASE FailBuild(c)
    BY <2>21, <2>k DEF FailBuild, histVars
  <2>22. CASE Crash(c)
    BY <2>22, <2>k DEF Crash, diskVars
  <2> QED
    BY <1>c, <2>1, <2>2, <2>3, <2>4, <2>5, <2>6, <2>7, <2>8, <2>9, <2>10, <2>11, <2>12,
       <2>13, <2>14, <2>15, <2>16, <2>17, <2>18, <2>19, <2>20, <2>21, <2>22 DEF Step
<1>m. ASSUME NEW f \in Files, Edit(f) \/ Move(f) PROVE Described'
  BY <1>m, Calm DEF Edit, Move, diskVars, histVars, Usable
<1>d. CASE Mend
  BY <1>d, Calm DEF Mend, histVars, Usable
<1>u. CASE UNCHANGED vars
  BY <1>u, Calm DEF vars, Usable
<1> QED
  BY <1>c, <1>m, <1>d, <1>u DEF Next

\* Through deltas, fall backs, repairs, stopped publishes and lost manifests, the
\* family of a settled folder is what .state says, for any number of searches.
THEOREM StateTold == Spec => []StateDescribesFamily
<1>1. Init => TypeOK /\ LockInv /\ Phases /\ Bounded /\ DocInv
  BY TypeInit, LockInit, PhasesInit, BoundedInit, DocInit
<1>2. TypeOK /\ LockInv /\ Phases /\ Bounded /\ DocInv /\ [Next]_vars
        => (TypeOK /\ LockInv /\ Phases /\ Bounded /\ DocInv)'
  BY TypeStep, LockStep, PhasesStep, BoundedStep, BuildsStep, DescribedStep DEF DocInv
<1>3. DocInv => StateDescribesFamily
  BY DEF DocInv, Described, StateDescribesFamily, Doc, NoOlderThan, Selected
<1> QED
  BY <1>1, <1>2, <1>3, PTL DEF Spec

-----------------------------------------------------------------------------
(* Documents never go back.                                                *)

\* The trees that .state holds or that a command read from it.
Remembered == ({state} \cup {cached[d] : d \in Commands}) \cap Trees

\* No document of t is older than the version that u has of its file.
Ahead(t, u) == \A f \in Files : t[f] = 0 \/ t[f] >= u[f]

Building == {"build", "publish", "swap", "manifest", "state"}

Forward ==
    /\ \A u \in Remembered : Ahead(family, u)
    /\ \A d \in Commands : pc[d] \in Building =>
          /\ \A u \in Remembered : Ahead(built[d], u)
          /\ \A f \in Files \ todo[d] : built[d][f] = 0 \/ built[d][f] >= walk[d][f]

LEMMA ForwardInit == Init => Forward
BY NoStateIsNoTree DEF Init, Forward, Building, Ahead, NoFiles

\* A command's own build stays ahead of every tree remembered, and of its walk.
LEMMA OwnBuildForward ==
    ASSUME TypeOK, Bounded, Forward,
           NEW c \in Commands, Step(c) \/ FailBuild(c) \/ Crash(c), pc'[c] \in Building,
           NEW f \in Files
    PROVE  \/ built'[c][f] = 0
           \/ /\ \A u \in Remembered : built'[c][f] >= u[f]
              /\ f \notin todo'[c] => built'[c][f] >= walk'[c][f]
<1> DEFINE Goal == \/ built'[c][f] = 0
                   \/ /\ \A u \in Remembered : built'[c][f] >= u[f]
                      /\ f \notin todo'[c] => built'[c][f] >= walk'[c][f]
<1>1. Goal
  <2>g. ASSUME Done(c) PROVE FALSE
    BY <2>g DEF Done, Goto, TypeOK, Building
  <2>b. pc[c] \in Building => /\ \A u \in Remembered : built[c][f] = 0 \/ built[c][f] >= u[f]
                              /\ f \notin todo[c] => built[c][f] = 0 \/ built[c][f] >= walk[c][f]
    BY DEF Forward, Ahead
  <2>k. ASSUME pc[c] \in Building, UNCHANGED <<walk, built, todo>> PROVE Goal
    BY <2>b, <2>k
  <2> USE DEF Building
  <2>1. CASE Begin(c)
    BY <2>1 DEF Begin, TypeOK, Goto
  <2>2. CASE ReadState(c)
    BY <2>2 DEF ReadState, TypeOK, Goto
  <2>3. CASE Scan(c)
    BY <2>3 DEF Scan, TypeOK, Goto
  <2>4. CASE Fingerprint(c)
    BY <2>4 DEF Fingerprint
  <2>5. CASE Warm(c)
    BY <2>5, <2>g DEF Warm
  <2>6. CASE Cold(c)
    BY <2>6 DEF Cold, TypeOK, Goto
  <2>7. CASE TakeLock(c)
    BY <2>7 DEF TakeLock, TypeOK, Goto
  <2>8. CASE ServePeer(c)
    BY <2>8, <2>g DEF ServePeer
  <2>9. CASE FoundCurrent(c)
    BY <2>9, <2>g DEF FoundCurrent
  <2>10. CASE KeepWalk(c)
    BY <2>10 DEF KeepWalk, TypeOK, Goto
  <2>11. CASE WalkAgain(c)
    BY <2>11, <2>g DEF WalkAgain, TypeOK, Goto
  <2>12. CASE StartBuild(c)
    <3>1. walk'[c] = walk[c] /\ walk[c] \in Trees /\ pc[c] = "plan"
      BY <2>12 DEF StartBuild, walkVars, TypeOK
    <3>2. CASE /\ state # NoState
               /\ built' = [built EXCEPT ![c] = Kept(walk[c])]
      <4>1. built'[c][f] \in {0, family[f]}
        BY <3>2 DEF TypeOK, Kept
      <4>2. built'[c][f] # 0 => walk[c][f] = 0 \/ walk[c][f] = state[f]
        BY <3>2, NoStateIsNoTree DEF TypeOK, Kept, ManifestFits, NoFiles
      <4>3. state \in Trees /\ state \in Remembered
        BY <3>2 DEF TypeOK, Remembered
      <4>4. family[f] = 0 \/ (family[f] >= state[f] /\ \A u \in Remembered : family[f] >= u[f])
        BY <4>3 DEF Forward, Ahead
      <4>5. family[f] \in Nat
        BY TreeValues DEF TypeOK
      <4> QED
        BY <3>1, <4>1, <4>2, <4>4, <4>5
    <3>3. CASE built' = [built EXCEPT ![c] = NoFiles]
      BY <3>3 DEF TypeOK, NoFiles
    <3> QED
      BY <2>12, <3>2, <3>3 DEF StartBuild
  <2>13. CASE \E h \in Files : ReadFile(c, h)
    <3>1. PICK g \in Files : ReadFile(c, g)
      BY <2>13
    <3>2. /\ walk'[c] = walk[c] /\ pc[c] = "build" /\ todo'[c] = todo[c] \ {g}
          /\ built'[c] = [built[c] EXCEPT ![g] = Tree[g]]
      BY <3>1 DEF ReadFile, walkVars, TypeOK
    <3>3. CASE f = g
      <4>1. built'[c][f] = Tree[f]
        BY <3>2, <3>3 DEF TypeOK, Trees
      <4>2. Tree[f] = 0 \/ Tree[f] = version[f]
        BY WalkType
      <4>3. walk[c][f] <= version[f] /\ \A u \in Remembered : u[f] <= version[f]
        BY <2>b DEF Bounded, Below, TypeOK, Remembered
      <4>4. version[f] \in Nat /\ walk[c][f] \in Nat /\ \A u \in Remembered : u[f] \in Nat
        BY TreeValues DEF TypeOK, Remembered
      <4> QED
        BY <3>2, <4>1, <4>2, <4>3, <4>4
    <3>4. CASE f # g
      <4>1. built'[c][f] = built[c][f] /\ (f \notin todo'[c] => f \notin todo[c])
        BY <3>2, <3>4 DEF TypeOK, Trees
      <4> QED
        BY <3>2, <4>1, <2>b DEF Forward, Ahead
    <3> QED
      BY <3>3, <3>4
  <2>14. CASE FallBack(c)
    BY <2>14 DEF FallBack, TypeOK, NoFiles
  <2>15. CASE EndBuild(c)
    BY <2>15, <2>g, <2>k DEF EndBuild, walkVars, buildVars
  <2>16. CASE BeginSwap(c)
    BY <2>16, <2>g, <2>k DEF BeginSwap, walkVars, buildVars
  <2>17. CASE EndSwap(c)
    BY <2>17, <2>g, <2>k DEF EndSwap, walkVars, buildVars
  <2>18. CASE WriteManifest(c)
    BY <2>18, <2>g, <2>k DEF WriteManifest, walkVars, buildVars
  <2>19. CASE WriteState(c)
    BY <2>19, <2>g DEF WriteState, TypeOK, Goto
  <2>20. CASE Record(c)
    BY <2>20, <2>g DEF Record
  <2>21. CASE FailBuild(c)
    BY <2>21, <2>g DEF FailBuild
  <2>22. CASE Crash(c)
    BY <2>22, <2>g DEF Crash
  <2> QED
    BY <2>1, <2>2, <2>3, <2>4, <2>5, <2>6, <2>7, <2>8, <2>9, <2>10, <2>11, <2>12, <2>13,
       <2>14, <2>15, <2>16, <2>17, <2>18, <2>19, <2>20, <2>21, <2>22 DEF Step
<1> QED
  BY <1>1

\* A step from the write of .state writes it, or ends the search.
LEMMA StateStep ==
    ASSUME TypeOK, NEW c \in Commands, Step(c) \/ FailBuild(c) \/ Crash(c), pc[c] = "state"
    PROVE  /\ state' \in {state, NoState} \/ pc'[c] = "record"
           /\ late' \/ passed' = Commands \ {c}
<1> USE DEF diskVars, Goto, TypeOK
<1>1. CASE Begin(c)
  BY <1>1 DEF Begin
<1>2. CASE ReadState(c)
  BY <1>2 DEF ReadState
<1>3. CASE Scan(c)
  BY <1>3 DEF Scan
<1>4. CASE Fingerprint(c)
  BY <1>4 DEF Fingerprint
<1>5. CASE Warm(c)
  BY <1>5 DEF Warm
<1>6. CASE Cold(c)
  BY <1>6 DEF Cold
<1>7. CASE TakeLock(c)
  BY <1>7 DEF TakeLock
<1>8. CASE ServePeer(c)
  BY <1>8 DEF ServePeer
<1>9. CASE FoundCurrent(c)
  BY <1>9 DEF FoundCurrent
<1>10. CASE KeepWalk(c)
  BY <1>10 DEF KeepWalk
<1>11. CASE WalkAgain(c)
  BY <1>11 DEF WalkAgain
<1>12. CASE StartBuild(c)
  BY <1>12 DEF StartBuild
<1>13. CASE \E f \in Files : ReadFile(c, f)
  BY <1>13 DEF ReadFile
<1>14. CASE FallBack(c)
  BY <1>14 DEF FallBack
<1>15. CASE EndBuild(c)
  BY <1>15 DEF EndBuild
<1>16. CASE BeginSwap(c)
  BY <1>16 DEF BeginSwap
<1>17. CASE EndSwap(c)
  BY <1>17 DEF EndSwap
<1>18. CASE WriteManifest(c)
  BY <1>18 DEF WriteManifest
<1>19. CASE WriteState(c)
  BY <1>19 DEF WriteState
<1>20. CASE Record(c)
  BY <1>20 DEF Record
<1>21. CASE FailBuild(c)
  BY <1>21 DEF FailBuild
<1>22. CASE Crash(c)
  BY <1>22 DEF Crash
<1> QED
  BY <1>1, <1>2, <1>3, <1>4, <1>5, <1>6, <1>7, <1>8, <1>9, <1>10, <1>11, <1>12, <1>13,
     <1>14, <1>15, <1>16, <1>17, <1>18, <1>19, <1>20, <1>21, <1>22 DEF Step

\* What a step does to the family, and to .state when it is published.
LEMMA FamilySources ==
    ASSUME TypeOK, Phases, NEW c \in Commands, Step(c) \/ FailBuild(c) \/ Crash(c)
    PROVE  /\ family' \in {family, NoFiles} \/ (pc[c] = "swap" /\ family' = built[c])
           /\ \/ state' \in {state, NoState}
              \/ /\ pc[c] = "state" /\ state' = walk[c] /\ todo[c] = {}
                 /\ family = built[c] /\ family' = family
<1> USE DEF diskVars
<1>1. CASE Begin(c)
  BY <1>1 DEF Begin
<1>2. CASE ReadState(c)
  BY <1>2 DEF ReadState
<1>3. CASE Scan(c)
  BY <1>3 DEF Scan
<1>4. CASE Fingerprint(c)
  BY <1>4 DEF Fingerprint
<1>5. CASE Warm(c)
  BY <1>5 DEF Warm
<1>6. CASE Cold(c)
  BY <1>6 DEF Cold
<1>7. CASE TakeLock(c)
  BY <1>7 DEF TakeLock
<1>8. CASE ServePeer(c)
  BY <1>8 DEF ServePeer
<1>9. CASE FoundCurrent(c)
  BY <1>9 DEF FoundCurrent
<1>10. CASE KeepWalk(c)
  BY <1>10 DEF KeepWalk
<1>11. CASE WalkAgain(c)
  BY <1>11 DEF WalkAgain
<1>12. CASE StartBuild(c)
  BY <1>12 DEF StartBuild
<1>13. CASE \E f \in Files : ReadFile(c, f)
  BY <1>13 DEF ReadFile
<1>14. CASE FallBack(c)
  BY <1>14 DEF FallBack
<1>15. CASE EndBuild(c)
  BY <1>15 DEF EndBuild
<1>16. CASE BeginSwap(c)
  BY <1>16 DEF BeginSwap
<1>17. CASE EndSwap(c)
  BY <1>17 DEF EndSwap
<1>18. CASE WriteManifest(c)
  BY <1>18 DEF WriteManifest
<1>19. CASE WriteState(c)
  BY <1>19 DEF WriteState, Phases
<1>20. CASE Record(c)
  BY <1>20 DEF Record
<1>21. CASE FailBuild(c)
  BY <1>21 DEF FailBuild
<1>22. CASE Crash(c)
  BY <1>22 DEF Crash
<1> QED
  BY <1>1, <1>2, <1>3, <1>4, <1>5, <1>6, <1>7, <1>8, <1>9, <1>10, <1>11, <1>12, <1>13,
     <1>14, <1>15, <1>16, <1>17, <1>18, <1>19, <1>20, <1>21, <1>22 DEF Step

\* Each step keeps documents from going back.
LEMMA ForwardStep ==
    ASSUME TypeOK, LockInv, Phases, Bounded, Forward, [Next]_vars
    PROVE  Forward'
<1>c. ASSUME NEW c \in Commands, Step(c) \/ FailBuild(c) \/ Crash(c) PROVE Forward'
  <2>1. \A d \in Commands : cached'[d] \in {cached[d], NoState, state}
    BY <1>c, WalkSources
  <2>2. ASSUME NEW u \in Remembered', u \notin Remembered
        PROVE  /\ pc[c] = "state" /\ u = walk[c] /\ todo[c] = {}
               /\ family = built[c] /\ family' = family
    <3>1. u \in Trees /\ (u = state' \/ \E d \in Commands : u = cached'[d])
      BY <2>2 DEF Remembered
    <3>2. u = state' /\ u # state /\ u # NoState
      BY <2>1, <2>2, <3>1, NoStateIsNoTree DEF Remembered
    <3> QED
      BY <1>c, <3>2, FamilySources
  <2>3. ASSUME NEW u \in Remembered' PROVE Ahead(family', u)
    <3>1. CASE u \in Remembered
      <4>1. family' \in {family, NoFiles} \/ (pc[c] = "swap" /\ family' = built[c])
        BY <1>c, FamilySources
      <4> QED
        BY <3>1, <4>1 DEF Forward, Ahead, Building, NoFiles
    <3>2. CASE u \notin Remembered
      BY <2>2, <3>2 DEF Forward, Ahead, Building
    <3> QED
      BY <3>1, <3>2
  <2>4. ASSUME NEW d \in Commands, pc'[d] \in Building
        PROVE  /\ \A u \in Remembered' : Ahead(built'[d], u)
               /\ \A f \in Files \ todo'[d] : built'[d][f] = 0 \/ built'[d][f] >= walk'[d][f]
    <3>1. CASE d # c
      <4>1. /\ pc'[d] = pc[d] /\ built'[d] = built[d] /\ todo'[d] = todo[d]
            /\ walk'[d] = walk[d]
        BY <1>c, <3>1, OthersStay
      <4>2. pc[c] # "state"
        BY <2>4, <3>1, <4>1 DEF LockInv, Locked, Building
      <4> QED
        BY <2>2, <2>4, <4>1, <4>2 DEF Forward
    <3>2. CASE d = c
      <4>1. pc[c] = "state" => Remembered' \subseteq Remembered
        <5>1. pc[c] = "state" => state' \in {state, NoState} \/ pc'[c] = "record"
          BY <1>c, StateStep
        <5>2. pc'[c] # "record"
          BY <2>4, <3>2 DEF Building
        <5> QED
          BY <2>1, <5>1, <5>2, NoStateIsNoTree DEF Remembered
      <4>2. Remembered' \subseteq Remembered
        BY <2>2, <4>1
      <4> QED
        BY <1>c, <2>4, <3>2, <4>2, OwnBuildForward DEF Ahead
    <3> QED
      BY <3>1, <3>2
  <2> QED
    BY <2>3, <2>4 DEF Forward
<1>o. CASE (\E f \in Files : Edit(f) \/ Move(f)) \/ Mend \/ UNCHANGED vars
  <2>1. UNCHANGED <<state, cached, family, pc, walk, built, todo>>
    BY <1>o DEF Edit, Move, Mend, vars, walkVars, buildVars, diskVars
  <2> QED
    BY <2>1 DEF Forward, Remembered, Ahead
<1> QED
  BY <1>c, <1>o DEF Next

-----------------------------------------------------------------------------
(* What a search without the lock knows.                                   *)

Calmed == ~late /\ \A q \in Commands : pc[q] # "state"

\* No document of t is of a file that u does not have.
Within(t, u) == \A f \in Files : t[f] # 0 => u[f] # 0

\* A search has read .state, and no publish passed it since: then a family that it
\* finds, or found, complete has only files of that .state.
Fresh ==
    \A d \in Commands \ passed :
        /\ Calmed /\ cached[d] \notin {NoState, NoFiles}
        /\ \/ pc[d] = "scan" /\ ~marker /\ Usable
           \/ pc[d] = "decide" /\ scan[d] = "complete"
        => Within(family, cached[d])

LEMMA FreshInit == Init => Fresh
BY NoStateIsNoTree DEF Init, Fresh

\* A step that changes the family, or makes it usable, passes the other commands,
\* empties the family, or is about to write .state.
LEMMA Passing ==
    ASSUME TypeOK, NEW c \in Commands, Step(c) \/ FailBuild(c) \/ Crash(c)
    PROVE  \/ passed' = Commands \ {c}
           \/ family' = NoFiles
           \/ pc'[c] = "state"
           \/ /\ family' = family /\ (marker => marker') /\ (Usable' => Usable)
              /\ passed \subseteq passed' \cup {c}
<1> USE DEF Usable
<1>1. CASE Begin(c)
  BY <1>1 DEF Begin, diskVars
<1>2. CASE ReadState(c)
  BY <1>2 DEF ReadState, diskVars, histVars
<1>3. CASE Scan(c)
  BY <1>3 DEF Scan, diskVars, histVars
<1>4. CASE Fingerprint(c)
  BY <1>4 DEF Fingerprint, diskVars, histVars
<1>5. CASE Warm(c)
  BY <1>5 DEF Warm, diskVars, histVars
<1>6. CASE Cold(c)
  BY <1>6 DEF Cold, diskVars, histVars
<1>7. CASE TakeLock(c)
  <2>1. CASE UNCHANGED diskVars
    BY <1>7, <2>1 DEF TakeLock, histVars, diskVars
  <2>2. CASE family' = NoFiles
    BY <2>2
  <2> QED
    BY <1>7, <2>1, <2>2 DEF TakeLock
<1>8. CASE ServePeer(c)
  BY <1>8 DEF ServePeer, diskVars, histVars
<1>9. CASE FoundCurrent(c)
  BY <1>9 DEF FoundCurrent, diskVars, histVars
<1>10. CASE KeepWalk(c)
  BY <1>10 DEF KeepWalk, diskVars, histVars
<1>11. CASE WalkAgain(c)
  BY <1>11 DEF WalkAgain, diskVars, histVars
<1>12. CASE StartBuild(c)
  BY <1>12 DEF StartBuild, diskVars, histVars
<1>13. CASE \E f \in Files : ReadFile(c, f)
  BY <1>13 DEF ReadFile, diskVars, histVars
<1>14. CASE FallBack(c)
  BY <1>14 DEF FallBack, diskVars, histVars
<1>15. CASE EndBuild(c)
  BY <1>15 DEF EndBuild, diskVars, histVars
<1>16. CASE BeginSwap(c)
  BY <1>16 DEF BeginSwap, diskVars, histVars
<1>17. CASE EndSwap(c)
  BY <1>17 DEF EndSwap, diskVars, histVars
<1>18. CASE WriteManifest(c)
  BY <1>18 DEF WriteManifest, Goto, TypeOK, histVars
<1>19. CASE WriteState(c)
  BY <1>19 DEF WriteState, diskVars, histVars
<1>20. CASE Record(c)
  BY <1>20 DEF Record, diskVars, histVars
<1>21. CASE FailBuild(c)
  BY <1>21 DEF FailBuild, diskVars, histVars
<1>22. CASE Crash(c)
  BY <1>22 DEF Crash, diskVars, histVars
<1> QED
  BY <1>1, <1>2, <1>3, <1>4, <1>5, <1>6, <1>7, <1>8, <1>9, <1>10, <1>11, <1>12, <1>13,
     <1>14, <1>15, <1>16, <1>17, <1>18, <1>19, <1>20, <1>21, <1>22 DEF Step

\* Three steps lead to the check of the family, or on from it.
LEMMA Before ==
    ASSUME TypeOK, NEW c \in Commands, Step(c) \/ FailBuild(c) \/ Crash(c), ~Done(c),
           pc'[c] \in {"scan", "decide"}
    PROVE  ReadState(c) \/ Scan(c) \/ Fingerprint(c)
<1> USE DEF TypeOK, Goto
<1>1. CASE Begin(c)
  BY <1>1 DEF Begin
<1>2. CASE ReadState(c)
  BY <1>2 DEF ReadState
<1>3. CASE Scan(c)
  BY <1>3 DEF Scan
<1>4. CASE Fingerprint(c)
  BY <1>4 DEF Fingerprint
<1>5. CASE Warm(c)
  BY <1>5 DEF Warm
<1>6. CASE Cold(c)
  BY <1>6 DEF Cold
<1>7. CASE TakeLock(c)
  BY <1>7 DEF TakeLock
<1>8. CASE ServePeer(c)
  BY <1>8 DEF ServePeer
<1>9. CASE FoundCurrent(c)
  BY <1>9 DEF FoundCurrent
<1>10. CASE KeepWalk(c)
  BY <1>10 DEF KeepWalk
<1>11. CASE WalkAgain(c)
  BY <1>11 DEF WalkAgain
<1>12. CASE StartBuild(c)
  BY <1>12 DEF StartBuild
<1>13. CASE \E f \in Files : ReadFile(c, f)
  BY <1>13 DEF ReadFile
<1>14. CASE FallBack(c)
  BY <1>14 DEF FallBack
<1>15. CASE EndBuild(c)
  BY <1>15 DEF EndBuild
<1>16. CASE BeginSwap(c)
  BY <1>16 DEF BeginSwap
<1>17. CASE EndSwap(c)
  BY <1>17 DEF EndSwap
<1>18. CASE WriteManifest(c)
  BY <1>18 DEF WriteManifest
<1>19. CASE WriteState(c)
  BY <1>19 DEF WriteState
<1>20. CASE Record(c)
  BY <1>20 DEF Record
<1>21. CASE FailBuild(c)
  BY <1>21 DEF FailBuild
<1>22. CASE Crash(c)
  BY <1>22 DEF Crash
<1> QED
  BY <1>1, <1>2, <1>3, <1>4, <1>5, <1>6, <1>7, <1>8, <1>9, <1>10, <1>11, <1>12, <1>13,
     <1>14, <1>15, <1>16, <1>17, <1>18, <1>19, <1>20, <1>21, <1>22 DEF Step

\* Each step keeps what the searches without the lock know.
LEMMA FreshStep ==
    ASSUME TypeOK, DocInv, Fresh, [Next]_vars
    PROVE  Fresh'
<1>c. ASSUME NEW c \in Commands, Step(c) \/ FailBuild(c) \/ Crash(c) PROVE Fresh'
  <2> SUFFICES ASSUME NEW d \in Commands \ passed', Calmed', cached'[d] \notin {NoState, NoFiles},
                      \/ pc'[d] = "scan" /\ ~marker' /\ Usable'
                      \/ pc'[d] = "decide" /\ scan'[d] = "complete"
               PROVE  Within(family', cached'[d])
    BY DEF Fresh, Within
  <2>1. CASE d # c
    <3>1. /\ pc'[d] = pc[d] /\ cached'[d] = cached[d] /\ scan'[d] = scan[d]
          /\ \A q \in Commands \ {c} : pc'[q] = pc[q]
      BY <1>c, <2>1, OthersStay
    <3>2. passed' # Commands \ {c} /\ pc'[c] # "state"
      BY <2>1 DEF Calmed
    <3>3. Calmed
      <4>1. ~late /\ \A q \in Commands \ {c} : pc[q] # "state"
        BY <1>c, <3>1, Sources DEF Calmed
      <4>2. pc[c] # "state"
        BY <1>c, <3>2, StateStep DEF Calmed
      <4> QED
        BY <4>1, <4>2 DEF Calmed
    <3>4. CASE family' = NoFiles
      BY <3>4 DEF Within, NoFiles
    <3>5. CASE /\ family' = family /\ (marker => marker') /\ (Usable' => Usable)
               /\ passed \subseteq passed' \cup {c}
      BY <2>1, <3>1, <3>3, <3>5 DEF Fresh
    <3> QED
      BY <1>c, <3>2, <3>4, <3>5, Passing
  <2>2. CASE d = c
    <3>g. ~Done(c)
      BY <2>2 DEF Done, Goto, TypeOK
    <3>1. ReadState(c) \/ Scan(c) \/ Fingerprint(c)
      BY <1>c, <2>2, <3>g, Before
    <3>2. UNCHANGED <<family, marker, shards, intact, state, late, passed>>
      BY <3>1 DEF ReadState, Scan, Fingerprint, diskVars, histVars
    <3>3. Calmed
      <4>1. \A q \in Commands \ {c} : pc'[q] = pc[q]
        BY <1>c, OthersStay
      <4>2. pc[c] # "state"
        BY <3>1 DEF ReadState, Scan, Fingerprint
      <4> QED
        BY <3>2, <4>1, <4>2 DEF Calmed
    <3>4. CASE ReadState(c)
      <4>1. cached'[c] = state /\ pc'[c] = "scan"
        BY <3>4 DEF ReadState, Goto, TypeOK
      <4>2. Settled
        BY <2>2, <3>2, <3>3, <4>1 DEF Settled, Calmed, Usable
      <4> QED
        BY <2>2, <3>2, <3>3, <4>1, <4>2 DEF DocInv, Described, Doc, Within, Calmed
    <3>5. CASE Scan(c)
      <4>1. /\ cached'[c] = cached[c] /\ pc[c] = "scan" /\ pc'[c] = "decide"
            /\ scan'[c] = IF marker THEN "pending" ELSE IF Usable THEN "complete" ELSE "torn"
        BY <3>5 DEF Scan, Goto, TypeOK
      <4> QED
        BY <2>2, <3>2, <3>3, <4>1 DEF Fresh
    <3>6. CASE Fingerprint(c)
      <4>1. UNCHANGED <<cached, scan, pc>>
        BY <3>6 DEF Fingerprint
      <4> QED
        BY <2>2, <3>2, <3>3, <3>6, <4>1 DEF Fresh, Fingerprint
    <3> QED
      BY <3>1, <3>4, <3>5, <3>6
  <2> QED
    BY <2>1, <2>2
<1>o. CASE (\E f \in Files : Edit(f) \/ Move(f)) \/ UNCHANGED vars
  <2>1. UNCHANGED <<family, marker, shards, intact, late, passed, pc, cached, scan>>
    BY <1>o DEF Edit, Move, vars, diskVars, histVars
  <2> QED
    BY <2>1 DEF Fresh, Calmed, Usable, Within
<1>d. CASE Mend
  <2>1. /\ UNCHANGED <<family, marker, shards, late, passed, pc, cached, scan>>
        /\ Usable
    BY <1>d DEF Mend, histVars
  <2> QED
    BY <2>1 DEF Fresh, Calmed, Usable, Within
<1> QED
  BY <1>c, <1>o, <1>d DEF Next

\* A warm answer, read at three moments without a lock, has no document older than
\* its walk, and none of a removed file, for any number of searches and files.
THEOREM WarmIsFresh == Spec => WarmIsNoOlder
<1> DEFINE Inv == TypeOK /\ LockInv /\ Phases /\ Bounded /\ DocInv /\ Forward /\ Fresh
<1>1. Init => Inv
  BY TypeInit, LockInit, PhasesInit, BoundedInit, DocInit, ForwardInit, FreshInit
<1>2. Inv /\ [Next]_vars => Inv'
  BY TypeStep, LockStep, PhasesStep, BoundedStep, BuildsStep, DescribedStep, ForwardStep,
     FreshStep DEF DocInv
<1>3. ASSUME Inv, NEW c \in Commands, Warm(c), walk[c] # NoFiles
      PROVE  /\ \A f \in Selected(walk[c]) \cap Selected(family) : family[f] >= walk[c][f]
             /\ ~late /\ c \notin passed /\ (\A q \in Commands : pc[q] # "state")
                   => NoOlderThan(walk[c])
  <2>1. /\ pc[c] = "decide" /\ scan[c] = "complete" /\ cached[c] = walk[c]
        /\ walk[c] \in Trees
    BY <1>3 DEF Warm, IsWarm, TypeOK
  <2>2. \A f \in Files : family[f] = 0 \/ family[f] >= walk[c][f]
    BY <1>3, <2>1 DEF Forward, Remembered, Ahead
  <2>3. ~late /\ c \notin passed /\ (\A q \in Commands : pc[q] # "state")
          => Within(family, walk[c])
    BY <1>3, <2>1, NoStateIsNoTree DEF Fresh, Calmed
  <2> QED
    BY <2>2, <2>3 DEF Selected, NoOlderThan, Within
<1>4. Inv => [\A c \in Commands : Warm(c) /\ walk[c] # NoFiles =>
          /\ \A f \in Selected(walk[c]) \cap Selected(family) : family[f] >= walk[c][f]
          /\ ~late /\ c \notin passed /\ (\A q \in Commands : pc[q] # "state")
                => NoOlderThan(walk[c])]_vars
  BY <1>3
<1> QED
  BY <1>1, <1>2, <1>4, PTL DEF Spec, WarmIsNoOlder

=============================================================================
