--------------------------- MODULE ShardSwapProof ---------------------------
(***************************************************************************)
(* Theorems about ShardSwap, for any names, sizes, builds and faults:      *)
(*   1. TypeCorrect, the types;                                            *)
(*   2. Phases, what each step of the builder knows of the marker, the     *)
(*      manifest and its own lists;                                        *)
(*   3. Files, where the live and the new files are in each step;          *)
(*   4. Sound, the family that others see, or would see after a roll back, *)
(*      is whole if it is trusted; with the three properties that follow.  *)
(***************************************************************************)
EXTENDS ShardSwap, TLAPS

\* The manifest records the files of f.
Trusts(f) == manifest # NoManifest /\ manifest = SizesOf(f)

\* What each step knows of the builder's own state, and of the records that a
\* repair left.
Phases ==
    /\ pc \in Quiet => moved = {} /\ renamed = {} /\ restored
    /\ pc = "aside" => renamed = {}
    /\ pc \in {"undoMoved", "undone"} => renamed = {}
    /\ pc = "undone" => moved = {}
    /\ pc \in Forward => restored
    /\ pc \in {"repair", "drop", "unmarkOld"} \cup Forward \cup Undo => marker
    /\ pc = "unmarkOld" /\ ~left => ~Trusts(index)
    /\ pc \in {"ready", "built"} /\ marker /\ ~left => ~Trusts(index)

\* A kept file is in place from the first move, a name is free once its file is
\* aside, and a name that is not renamed in yet is free.
Files ==
    /\ pc \in {"aside", "in"} => \A n \in kept : index[n] = incoming[n]
    /\ pc = "aside" => \A n \in moved : index[n] = NoFile
    /\ pc = "in" => \A n \in Names : /\ n \in renamed => index[n] = incoming[n]
                                     /\ n \notin kept \cup renamed => index[n] = NoFile
    /\ pc \in {"unmark", "manifest", "state"} => index = incoming

Sound ==
    /\ state <= wholeGen
    /\ pc \in Quiet /\ Trusted /\ ~left => index = whole
    /\ Swapping /\ restored /\ Trusts(Before) /\ ~left => Before = whole
    /\ pc \in {"manifest", "state"} => index = whole /\ wholeGen = gen

\* The first states have the declared types.
LEMMA TypeInit == Init => TypeOK
<1>1. NoFiles \in Family
  BY DEF Family, File, NoFiles
<1>2. Init => restored \in BOOLEAN /\ marker \in BOOLEAN
  BY Zenon DEF Init
<1>3. Init => /\ state \in 0..gen /\ wholeGen \in 0..gen /\ gen \in 0..MaxGen
              /\ faults \in 0..MaxFaults
  BY ConstantsAssumption DEF Init
<1> QED
  BY <1>1, <1>2, <1>3 DEF Init, TypeOK, Steps, Quiet

\* Every step keeps the declared types.
LEMMA TypeStep == TypeOK /\ [Next]_vars => TypeOK'
<1> SUFFICES ASSUME TypeOK, [Next]_vars PROVE TypeOK'
  OBVIOUS
<1> USE ConstantsAssumption DEF TypeOK, Steps, Quiet, Forward, Undo, swapVars, histVars
<1> NoFile \in File /\ NoFiles \in Family
  BY DEF File, Family, NoFiles
<1>1. ASSUME LockBuild PROVE TypeOK'
  BY <1>1 DEF LockBuild
<1>2. ASSUME EndRepair PROVE TypeOK'
  BY <1>2 DEF EndRepair, Fault
<1>3. ASSUME DropRecords PROVE TypeOK'
  <2>1. faults' \in 0..MaxFaults
    BY <1>3 DEF DropRecords, Fault
  <2>2. manifest' \in {NoManifest, manifest} /\ state' \in {0, state}
    BY <1>3 DEF DropRecords
  <2>3. left' \in BOOLEAN
    BY <1>3, Zenon DEF DropRecords
  <2> QED
    BY <1>3, <2>1, <2>2, <2>3 DEF DropRecords
<1>4. ASSUME DropMarker PROVE TypeOK'
  <2>1. marker' \in BOOLEAN
    BY <1>4, Zenon DEF DropMarker
  <2>2. faults' \in 0..MaxFaults
    BY <1>4 DEF DropMarker, Fault
  <2> QED
    BY <1>4, <2>1, <2>2 DEF DropMarker
<1>5. ASSUME Build PROVE TypeOK'
  <2>1. PICK new \in [Names -> NewFiles(gen + 1) \cup {NoFile}], seeds \in SUBSET Names :
          incoming' = [n \in Names |-> IF n \in seeds THEN index[n] ELSE new[n]]
    BY <1>5 DEF Build
  <2>2. NewFiles(gen + 1) \subseteq File
    BY DEF NewFiles, File
  <2>3. incoming' \in Family
    BY <2>1, <2>2 DEF Family
  <2> QED
    BY <1>5, <2>3 DEF Build
<1>6. ASSUME Abandon PROVE TypeOK'
  BY <1>6 DEF Abandon, Away
<1>7. ASSUME BeginSwap PROVE TypeOK'
  <2>1. marker' \in BOOLEAN /\ restored' \in BOOLEAN
    BY <1>7, Zenon DEF BeginSwap, Away
  <2>2. faults' \in 0..MaxFaults
    BY <1>7 DEF BeginSwap, Fault
  <2>3. kept' \subseteq Names /\ moved' \subseteq Names /\ renamed' \subseteq Names
        /\ incoming' \in Family /\ aside' \in Family /\ pc' \in Steps
    BY <1>7 DEF BeginSwap, KeptLiveFiles, Away
  <2> QED
    BY <1>7, <2>1, <2>2, <2>3 DEF BeginSwap
<1>8. ASSUME EndAside PROVE TypeOK'
  BY <1>8 DEF EndAside
<1>9. ASSUME EndSwap PROVE TypeOK'
  BY <1>9 DEF EndSwap
<1>10. ASSUME Unmark PROVE TypeOK'
  <2>1. marker' \in BOOLEAN
    BY <1>10, Zenon DEF Unmark
  <2>2. faults' \in 0..MaxFaults
    BY <1>10 DEF Unmark, Fault
  <2>3. left' \in BOOLEAN
    BY <1>10, Zenon DEF Unmark
  <2> QED
    BY <1>10, <2>1, <2>2, <2>3 DEF Unmark
<1>11. ASSUME EndRemoveNew PROVE TypeOK'
  BY <1>11 DEF EndRemoveNew
<1>12. ASSUME EndMoveBack PROVE TypeOK'
  BY <1>12 DEF EndMoveBack
<1>13. ASSUME FailPublish PROVE TypeOK'
  <2>1. marker' \in BOOLEAN /\ restored' \in BOOLEAN
    BY <1>13, Zenon DEF FailPublish, Away
  <2>2. faults' \in 0..MaxFaults
    BY <1>13 DEF FailPublish, Fault
  <2> QED
    BY <1>13, <2>1, <2>2 DEF FailPublish, Away
<1>14. ASSUME WriteManifest PROVE TypeOK'
  <2>1. SizesOf(index) \in [Names -> Sizes \cup {0}]
    BY DEF SizesOf, Family, File, NoFile
  <2>2. restored' \in BOOLEAN
    BY <1>14, Zenon DEF WriteManifest, Away
  <2>3. faults' \in 0..MaxFaults
    BY <1>14 DEF WriteManifest, Fault
  <2> QED
    BY <1>14, <2>1, <2>2, <2>3 DEF WriteManifest, Away
<1>15. ASSUME WriteState PROVE TypeOK'
  BY <1>15 DEF WriteState, Away, Fault
<1>16. ASSUME Crash PROVE TypeOK'
  BY <1>16 DEF Crash, Away, Fault
<1>17. ASSUME NEW n \in Names, RepairFile(n) PROVE TypeOK'
  BY <1>17 DEF RepairFile, Family
<1>18. ASSUME NEW n \in Names, MoveAside(n) PROVE TypeOK'
  BY <1>18 DEF MoveAside, Family, Fault
<1>19. ASSUME NEW n \in Names, RenameIn(n) PROVE TypeOK'
  BY <1>19 DEF RenameIn, Family, Fault
<1>20. ASSUME NEW n \in Names, RemoveNew(n) PROVE TypeOK'
  <2>1. restored' \in BOOLEAN
    BY <1>20, Zenon DEF RemoveNew
  <2>2. faults' \in 0..MaxFaults
    BY <1>20 DEF RemoveNew, Fault
  <2>3. index' \in Family
    BY <1>20 DEF RemoveNew, Family
  <2> QED
    BY <1>20, <2>1, <2>2, <2>3 DEF RemoveNew
<1>21. ASSUME NEW n \in Names, MoveBack(n) PROVE TypeOK'
  <2>1. restored' \in BOOLEAN
    BY <1>21, Zenon DEF MoveBack
  <2>2. faults' \in 0..MaxFaults
    BY <1>21 DEF MoveBack, Fault
  <2>3. index' \in Family
    BY <1>21 DEF MoveBack, Family
  <2> QED
    BY <1>21, <2>1, <2>2, <2>3 DEF MoveBack
<1>22. CASE UNCHANGED vars
  BY <1>22 DEF vars
<1> QED
  BY <1>1, <1>2, <1>3, <1>4, <1>5, <1>6, <1>7, <1>8, <1>9, <1>10, <1>11,
     <1>12, <1>13, <1>14, <1>15, <1>16, <1>17, <1>18, <1>19, <1>20, <1>21, <1>22 DEF Next, Step

\* Every reachable state has the types that the module declares.
THEOREM TypeCorrect == Spec => []TypeOK
BY TypeInit, TypeStep, PTL DEF Spec

-----------------------------------------------------------------------------

\* The first states have the facts of the idle builder.
LEMMA PhasesInit == Init => Phases
BY DEF Init, Phases, Quiet, Forward, Undo

\* Every step keeps the facts of the phases.
LEMMA PhasesStep == TypeOK /\ Phases /\ [Next]_vars => Phases'
<1> SUFFICES ASSUME TypeOK, Phases, [Next]_vars PROVE Phases'
  OBVIOUS
<1> USE DEF Phases, Trusts, Quiet, Forward, Undo, swapVars, histVars
<1>a. \A f \in Family : SizesOf(f)' = SizesOf(f)
  BY DEF SizesOf
<1>1. ASSUME LockBuild PROVE Phases'
  BY <1>1 DEF LockBuild
<1>2. ASSUME EndRepair PROVE Phases'
  BY <1>2 DEF EndRepair
<1>3. ASSUME DropRecords PROVE Phases'
  BY <1>3 DEF DropRecords
<1>4. ASSUME DropMarker PROVE Phases'
  BY <1>4 DEF DropMarker
<1>5. ASSUME Build PROVE Phases'
  BY <1>5 DEF Build
<1>6. ASSUME Abandon PROVE Phases'
  BY <1>6 DEF Abandon, Away
<1>7. ASSUME BeginSwap PROVE Phases'
  BY <1>7 DEF BeginSwap, Away
<1>8. ASSUME EndAside PROVE Phases'
  BY <1>8 DEF EndAside
<1>9. ASSUME EndSwap PROVE Phases'
  BY <1>9 DEF EndSwap
<1>10. ASSUME Unmark PROVE Phases'
  BY <1>10 DEF Unmark
<1>11. ASSUME EndRemoveNew PROVE Phases'
  BY <1>11 DEF EndRemoveNew
<1>12. ASSUME EndMoveBack PROVE Phases'
  BY <1>12 DEF EndMoveBack
<1>13. ASSUME FailPublish PROVE Phases'
  BY <1>13 DEF FailPublish, Away
<1>14. ASSUME WriteManifest PROVE Phases'
  BY <1>14 DEF WriteManifest, Away
<1>15. ASSUME WriteState PROVE Phases'
  BY <1>15 DEF WriteState, Away
<1>16. ASSUME Crash PROVE Phases'
  BY <1>16 DEF Crash, Away
<1>17. ASSUME NEW n \in Names, RepairFile(n) PROVE Phases'
  BY <1>17 DEF RepairFile
<1>18. ASSUME NEW n \in Names, MoveAside(n) PROVE Phases'
  BY <1>18 DEF MoveAside
<1>19. ASSUME NEW n \in Names, RenameIn(n) PROVE Phases'
  BY <1>19 DEF RenameIn
<1>20. ASSUME NEW n \in Names, RemoveNew(n) PROVE Phases'
  BY <1>20 DEF RemoveNew
<1>21. ASSUME NEW n \in Names, MoveBack(n) PROVE Phases'
  BY <1>21 DEF MoveBack
<1>22. CASE UNCHANGED vars
  BY <1>22 DEF vars
<1> QED
  BY <1>1, <1>2, <1>3, <1>4, <1>5, <1>6, <1>7, <1>8, <1>9, <1>10, <1>11,
     <1>12, <1>13, <1>14, <1>15, <1>16, <1>17, <1>18, <1>19, <1>20, <1>21, <1>22 DEF Next, Step

-----------------------------------------------------------------------------

\* No swap runs at first.
LEMMA FilesInit == Init => Files
BY DEF Init, Files

\* Every step keeps the facts of the files.
LEMMA FilesStep == TypeOK /\ Phases /\ Files /\ [Next]_vars => Files'
<1> SUFFICES ASSUME TypeOK, Phases, Files, [Next]_vars PROVE Files'
  OBVIOUS
<1> USE DEF Files, swapVars
<1>1. ASSUME LockBuild PROVE Files'
  BY <1>1 DEF LockBuild
<1>2. ASSUME EndRepair PROVE Files'
  BY <1>2 DEF EndRepair
<1>3. ASSUME DropRecords PROVE Files'
  BY <1>3 DEF DropRecords
<1>4. ASSUME DropMarker PROVE Files'
  BY <1>4 DEF DropMarker
<1>5. ASSUME Build PROVE Files'
  BY <1>5 DEF Build
<1>6. ASSUME Abandon PROVE Files'
  BY <1>6 DEF Abandon, Away
<1>7. ASSUME BeginSwap PROVE Files'
  BY <1>7 DEF BeginSwap, KeptLiveFiles, Away, Phases, Quiet
<1>8. ASSUME EndAside PROVE Files'
  <2>1. renamed = {}
    BY <1>8 DEF EndAside, Phases
  <2> QED
    BY <1>8, <2>1 DEF EndAside, TypeOK
<1>9. ASSUME EndSwap PROVE Files'
  <2>1. \A n \in Names : index[n] = incoming[n]
    BY <1>9 DEF EndSwap
  <2>2. index = incoming
    BY <2>1 DEF TypeOK, Family
  <2> QED
    BY <1>9, <2>2 DEF EndSwap
<1>10. ASSUME Unmark PROVE Files'
  BY <1>10 DEF Unmark
<1>11. ASSUME EndRemoveNew PROVE Files'
  BY <1>11 DEF EndRemoveNew
<1>12. ASSUME EndMoveBack PROVE Files'
  BY <1>12 DEF EndMoveBack
<1>13. ASSUME FailPublish PROVE Files'
  BY <1>13 DEF FailPublish, Away
<1>14. ASSUME WriteManifest PROVE Files'
  BY <1>14 DEF WriteManifest, Away
<1>15. ASSUME WriteState PROVE Files'
  BY <1>15 DEF WriteState, Away
<1>16. ASSUME Crash PROVE Files'
  BY <1>16 DEF Crash, Away
<1>17. ASSUME NEW n \in Names, RepairFile(n) PROVE Files'
  BY <1>17 DEF RepairFile
<1>18. ASSUME NEW n \in Names, MoveAside(n) PROVE Files'
  <2>1. renamed = {} /\ pc = "aside" /\ pc' \in {"aside", "undoNew"}
    BY <1>18 DEF MoveAside, Phases
  <2> QED
    BY <1>18, <2>1 DEF MoveAside, TypeOK, Family
<1>19. ASSUME NEW n \in Names, RenameIn(n) PROVE Files'
  BY <1>19 DEF RenameIn, TypeOK, Family
<1>20. ASSUME NEW n \in Names, RemoveNew(n) PROVE Files'
  BY <1>20 DEF RemoveNew
<1>21. ASSUME NEW n \in Names, MoveBack(n) PROVE Files'
  BY <1>21 DEF MoveBack
<1>22. CASE UNCHANGED vars
  BY <1>22 DEF vars
<1> QED
  BY <1>1, <1>2, <1>3, <1>4, <1>5, <1>6, <1>7, <1>8, <1>9, <1>10, <1>11,
     <1>12, <1>13, <1>14, <1>15, <1>16, <1>17, <1>18, <1>19, <1>20, <1>21, <1>22 DEF Next, Step

-----------------------------------------------------------------------------

\* No move of a swap or of its roll back changes the family that a complete roll
\* back would leave.
LEMMA BeforeStays ==
    ASSUME TypeOK, Phases, Files,
           \/ EndAside \/ EndSwap \/ EndRemoveNew \/ EndMoveBack
           \/ \E n \in Names : MoveAside(n) \/ RenameIn(n) \/ RemoveNew(n) \/ MoveBack(n),
           restored'
    PROVE  Before' = Before
<1>1. CASE EndAside \/ EndSwap \/ EndRemoveNew \/ EndMoveBack
  BY <1>1 DEF EndAside, EndSwap, EndRemoveNew, EndMoveBack, Before, swapVars
<1>2. ASSUME NEW n \in Names, MoveAside(n) PROVE Before' = Before
  <2>1. renamed = {} /\ renamed' = {}
    BY <1>2 DEF MoveAside, Phases
  <2>2. CASE UNCHANGED <<index, aside, moved>>
    BY <1>2, <2>1, <2>2 DEF MoveAside, Before
  <2>3. CASE /\ index' = [index EXCEPT ![n] = NoFile]
             /\ aside' = [aside EXCEPT ![n] = index[n]]
             /\ moved' = moved \cup {n}
    <3>1. n \notin moved
      BY <1>2 DEF MoveAside, Files
    <3>2. \A m \in Names : (IF m \in moved' THEN aside'[m] ELSE index'[m])
                            = (IF m \in moved THEN aside[m] ELSE index[m])
      BY <2>3, <3>1, <1>2 DEF MoveAside, TypeOK, Family
    <3> QED
      BY <3>2, <2>1 DEF Before
  <2> QED
    BY <1>2, <2>2, <2>3 DEF MoveAside
<1>3. ASSUME NEW n \in Names, RenameIn(n) PROVE Before' = Before
  BY <1>3 DEF RenameIn, Files, Before, TypeOK, Family
<1>4. ASSUME NEW n \in Names, RemoveNew(n) PROVE Before' = Before
  BY <1>4 DEF RemoveNew, Before, TypeOK, Family
<1>5. ASSUME NEW n \in Names, MoveBack(n) PROVE Before' = Before
  <2>1. renamed = {} /\ renamed' = {}
    BY <1>5 DEF MoveBack, Phases
  <2> QED
    BY <1>5, <2>1 DEF MoveBack, Before, TypeOK, Family
<1> QED
  BY <1>1, <1>2, <1>3, <1>4, <1>5

\* With nothing moved, the family before the swap is the one in the index.
LEMMA BeforeIsIndex ==
    ASSUME TypeOK, moved = {}, renamed = {}
    PROVE  Before = index
BY DEF Before, TypeOK, Family

\* No family is trusted at first.
LEMMA SoundInit == Init => Sound
BY DEF Init, Sound, Trusted, MatchesManifest, Swapping, Forward, Undo

\* Every step keeps a trusted family whole.
LEMMA SoundStep == TypeOK /\ TypeOK' /\ Phases /\ Phases' /\ Files /\ Sound /\ [Next]_vars => Sound'
<1> SUFFICES ASSUME TypeOK, TypeOK', Phases, Phases', Files, Sound, [Next]_vars
             PROVE  Sound'
  OBVIOUS
<1> USE DEF Sound, Trusted, MatchesManifest, Trusts, Swapping, Quiet, Forward, Undo,
            swapVars, histVars
<1>a. \A f \in Family : SizesOf(f)' = SizesOf(f)
  BY DEF SizesOf
<1>1. ASSUME LockBuild PROVE Sound'
  BY <1>1 DEF LockBuild, SizesOf
<1>2. ASSUME EndRepair PROVE Sound'
  BY <1>2 DEF EndRepair, Phases
<1>3. ASSUME DropRecords PROVE Sound'
  <2>1. state' <= wholeGen'
    BY <1>3 DEF DropRecords, TypeOK
  <2>2. marker' /\ pc' = "unmarkOld"
    BY <1>3 DEF DropRecords, Phases
  <2> QED
    BY <2>1, <2>2
<1>4. ASSUME DropMarker PROVE Sound'
  BY <1>4 DEF DropMarker, Phases
<1>5. ASSUME Build PROVE Sound'
  BY <1>5 DEF Build, SizesOf
<1>6. ASSUME Abandon PROVE Sound'
  BY <1>6 DEF Abandon, Away, SizesOf
<1>7. ASSUME BeginSwap PROVE Sound'
  <2>1. CASE pc' = "aside"
    <3>1. moved' = {} /\ renamed' = {} /\ UNCHANGED <<index, manifest, state, whole, wholeGen, left>>
      BY <1>7, <2>1 DEF BeginSwap, Phases, Away
    <3>2. Before' = index
      BY <3>1 DEF Before, TypeOK, Family
    <3>3. Trusts(index) /\ ~left => ~marker
      BY <1>7 DEF BeginSwap, Phases
    <3> QED
      BY <1>7, <2>1, <3>1, <3>2, <3>3 DEF BeginSwap, SizesOf
  <2>2. CASE pc' = "idle"
    BY <1>7, <2>2 DEF BeginSwap, Away, SizesOf
  <2> QED
    BY <1>7, <2>1, <2>2 DEF BeginSwap, Away
<1>8. ASSUME EndAside PROVE Sound'
  <2>1. pc' \in Forward \cup Undo /\ pc \in Forward \cup Undo
        /\ (restored' => restored) /\ UNCHANGED <<manifest, state, whole, wholeGen, left>>
    BY <1>8 DEF EndAside
  <2>2. restored' => Before' = Before
    BY <1>8, BeforeStays
  <2>3. restored' /\ Trusts(Before') => Trusts(Before)
    BY <2>2
  <2> QED
    BY <2>1, <2>2, <2>3 DEF SizesOf
<1>9. ASSUME EndSwap PROVE Sound'
  <2>1. pc' \in Forward \cup Undo /\ pc \in Forward \cup Undo
        /\ (restored' => restored) /\ UNCHANGED <<manifest, state, whole, wholeGen, left>>
    BY <1>9 DEF EndSwap
  <2>2. restored' => Before' = Before
    BY <1>9, BeforeStays
  <2>3. restored' /\ Trusts(Before') => Trusts(Before)
    BY <2>2
  <2> QED
    BY <2>1, <2>2, <2>3 DEF SizesOf
<1>10. ASSUME Unmark PROVE Sound'
  BY <1>10 DEF Unmark, TypeOK
<1>11. ASSUME EndRemoveNew PROVE Sound'
  <2>1. pc' \in Forward \cup Undo /\ pc \in Forward \cup Undo
        /\ (restored' => restored) /\ UNCHANGED <<manifest, state, whole, wholeGen, left>>
    BY <1>11 DEF EndRemoveNew
  <2>2. restored' => Before' = Before
    BY <1>11, BeforeStays
  <2>3. restored' /\ Trusts(Before') => Trusts(Before)
    BY <2>2
  <2> QED
    BY <2>1, <2>2, <2>3 DEF SizesOf
<1>12. ASSUME EndMoveBack PROVE Sound'
  <2>1. pc' \in Forward \cup Undo /\ pc \in Forward \cup Undo
        /\ (restored' => restored) /\ UNCHANGED <<manifest, state, whole, wholeGen, left>>
    BY <1>12 DEF EndMoveBack
  <2>2. restored' => Before' = Before
    BY <1>12, BeforeStays
  <2>3. restored' /\ Trusts(Before') => Trusts(Before)
    BY <2>2
  <2> QED
    BY <2>1, <2>2, <2>3 DEF SizesOf
<1>13. ASSUME FailPublish PROVE Sound'
  <2>1. moved = {} /\ renamed = {}
    BY <1>13 DEF FailPublish, Phases
  <2>2. Before = index
    BY <2>1, BeforeIsIndex
  <2>3. marker
    BY <1>13 DEF FailPublish, Phases
  <2>4. ~marker' => restored
    BY <1>13, <2>3, Zenon DEF FailPublish
  <2> QED
    BY <1>13, <2>2, <2>4 DEF FailPublish, Away, SizesOf
<1>14. ASSUME WriteManifest PROVE Sound'
  BY <1>14 DEF WriteManifest, Away, TypeOK
<1>15. ASSUME WriteState PROVE Sound'
  BY <1>15 DEF WriteState, Away, TypeOK
<1>16. ASSUME Crash PROVE Sound'
  <2>1. CASE pc \in {"manifest", "state"}
    BY <1>16, <2>1 DEF Crash, Away, TypeOK
  <2>2. CASE pc \in Forward \cup Undo
    BY <1>16, <2>2 DEF Crash, Away, Phases
  <2>3. CASE pc \in Quiet
    BY <1>16, <2>3 DEF Crash, Away, SizesOf
  <2> QED
    BY <2>1, <2>2, <2>3 DEF TypeOK, Steps
<1>17. ASSUME NEW n \in Names, RepairFile(n) PROVE Sound'
  BY <1>17 DEF RepairFile, Phases
<1>18. ASSUME NEW n \in Names, MoveAside(n) PROVE Sound'
  <2>1. pc' \in Forward \cup Undo /\ pc \in Forward \cup Undo
        /\ (restored' => restored) /\ UNCHANGED <<manifest, state, whole, wholeGen, left>>
    BY <1>18 DEF MoveAside
  <2>2. restored' => Before' = Before
    BY <1>18, BeforeStays
  <2>3. restored' /\ Trusts(Before') => Trusts(Before)
    BY <2>2
  <2> QED
    BY <2>1, <2>2, <2>3 DEF SizesOf
<1>19. ASSUME NEW n \in Names, RenameIn(n) PROVE Sound'
  <2>1. pc' \in Forward \cup Undo /\ pc \in Forward \cup Undo
        /\ (restored' => restored) /\ UNCHANGED <<manifest, state, whole, wholeGen, left>>
    BY <1>19 DEF RenameIn
  <2>2. restored' => Before' = Before
    BY <1>19, BeforeStays
  <2>3. restored' /\ Trusts(Before') => Trusts(Before)
    BY <2>2
  <2> QED
    BY <2>1, <2>2, <2>3 DEF SizesOf
<1>20. ASSUME NEW n \in Names, RemoveNew(n) PROVE Sound'
  <2>1. pc' \in Forward \cup Undo /\ pc \in Forward \cup Undo
        /\ (restored' => restored) /\ UNCHANGED <<manifest, state, whole, wholeGen, left>>
    BY <1>20 DEF RemoveNew
  <2>2. restored' => Before' = Before
    BY <1>20, BeforeStays
  <2>3. restored' /\ Trusts(Before') => Trusts(Before)
    BY <2>2
  <2> QED
    BY <2>1, <2>2, <2>3 DEF SizesOf
<1>21. ASSUME NEW n \in Names, MoveBack(n) PROVE Sound'
  <2>1. pc' \in Forward \cup Undo /\ pc \in Forward \cup Undo
        /\ (restored' => restored) /\ UNCHANGED <<manifest, state, whole, wholeGen, left>>
    BY <1>21 DEF MoveBack
  <2>2. restored' => Before' = Before
    BY <1>21, BeforeStays
  <2>3. restored' /\ Trusts(Before') => Trusts(Before)
    BY <2>2
  <2> QED
    BY <2>1, <2>2, <2>3 DEF SizesOf
<1>22. CASE UNCHANGED vars
  BY <1>22 DEF vars, SizesOf, Before
<1> QED
  BY <1>1, <1>2, <1>3, <1>4, <1>5, <1>6, <1>7, <1>8, <1>9, <1>10, <1>11,
     <1>12, <1>13, <1>14, <1>15, <1>16, <1>17, <1>18, <1>19, <1>20, <1>21, <1>22 DEF Next, Step

IInv == TypeOK /\ Phases /\ Files /\ Sound

\* The inductive invariant holds.
LEMMA InvHolds == Spec => []IInv
<1>1. Init => IInv
  BY TypeInit, PhasesInit, FilesInit, SoundInit DEF IInv
<1>2. IInv /\ [Next]_vars => IInv'
  BY TypeStep, PhasesStep, FilesStep, SoundStep DEF IInv
<1> QED
  BY <1>1, <1>2, PTL DEF Spec

\* For any number of files, builds, crashes and disk errors, also of each remove of
\* a repair: between two swaps, a family with no .swapping that agrees with its
\* manifest is the family of the last complete swap, unless a repair could remove
\* neither its files nor the manifest that they agree with.
THEOREM NoTornFamilyIsTrusted == Spec => []TrustedIsWhole
<1>1. IInv => TrustedIsWhole
  BY DEF IInv, Sound, TrustedIsWhole
<1> QED
  BY <1>1, InvHolds, PTL

\* .state never names a build newer than a trusted family.
THEOREM StateIsNotAhead == Spec => []StateNeverAhead
<1>1. IInv => StateNeverAhead
  BY DEF IInv, Sound, StateNeverAhead
<1> QED
  BY <1>1, InvHolds, PTL

-----------------------------------------------------------------------------

\* The first states of the swap are first states of the atomic family.
LEMMA AtomicInit == Init => Atomic!Init
BY DEF Init, Atomic!Init, Atomic!NoFile, NoFiles, NoFile, Seen, SeenTrusted, Swapping,
       Forward, Undo

\* Every step of the swap is a step of the atomic family, or none.
LEMMA AtomicStep == IInv /\ IInv' /\ [Next]_vars => [Atomic!Next]_(Atomic!vars)
<1> SUFFICES ASSUME IInv, IInv', [Next]_vars PROVE [Atomic!Next]_(Atomic!vars)
  OBVIOUS
<1> USE DEF IInv, SeenTrusted, Swapping, Quiet, Forward, Undo, swapVars, histVars
<1>a. Seen \in Family /\ Seen' \in Family
  BY DEF Seen, Before, TypeOK, Family, File
<1>b. /\ Atomic!Family = Family
      /\ incoming \in Family /\ incoming' \in Family
  BY DEF TypeOK, Atomic!Family, Family, Atomic!File, File, Atomic!NoFile, NoFile
<1>c. ASSUME ~SeenTrusted' PROVE [Atomic!Next]_(Atomic!vars)
  BY <1>a, <1>b, <1>c DEF Atomic!Next, Atomic!Lose
<1>d. ASSUME UNCHANGED <<Seen, SeenTrusted>> PROVE [Atomic!Next]_(Atomic!vars)
  BY <1>b, <1>d DEF Atomic!Next, Atomic!Stage
<1>e. ASSUME Seen' = incoming, UNCHANGED incoming PROVE [Atomic!Next]_(Atomic!vars)
  BY <1>e DEF Atomic!Next, Atomic!Publish
<1>1. ASSUME LockBuild PROVE [Atomic!Next]_(Atomic!vars)
  BY <1>1, <1>d DEF LockBuild, Seen, SizesOf
<1>2. ASSUME EndRepair PROVE [Atomic!Next]_(Atomic!vars)
  BY <1>2, <1>d DEF EndRepair, Seen, SizesOf
<1>3. ASSUME DropRecords PROVE [Atomic!Next]_(Atomic!vars)
  BY <1>3, <1>c DEF DropRecords, Phases
<1>4. ASSUME DropMarker PROVE [Atomic!Next]_(Atomic!vars)
  <2>1. ~SeenTrusted'
    BY <1>4 DEF DropMarker, Phases, Trusts, Seen, SizesOf
  <2> QED
    BY <2>1, <1>c
<1>5. ASSUME Build PROVE [Atomic!Next]_(Atomic!vars)
  BY <1>5, <1>d DEF Build, Seen, SizesOf
<1>6. ASSUME Abandon PROVE [Atomic!Next]_(Atomic!vars)
  BY <1>6, <1>d DEF Abandon, Away, Seen, SizesOf
<1>7. ASSUME BeginSwap PROVE [Atomic!Next]_(Atomic!vars)
  <2>1. CASE pc' = "idle"
    BY <1>7, <2>1, <1>d DEF BeginSwap, Away, Seen, SizesOf
  <2>2. CASE pc' = "aside"
    <3>1. moved' = {} /\ renamed' = {} /\ restored' /\ UNCHANGED <<index, manifest, left>>
      BY <1>7, <2>2 DEF BeginSwap, Phases, Away
    <3>2. Before' = index
      BY <3>1 DEF Before, TypeOK, Family
    <3>3. Trusts(index) /\ ~left => ~marker
      BY <1>7 DEF BeginSwap, Phases
    <3> QED
      BY <1>7, <2>2, <3>1, <3>2, <3>3, <1>d DEF BeginSwap, Seen, SizesOf, Trusts
  <2> QED
    BY <1>7, <2>1, <2>2 DEF BeginSwap, Away
<1>8. ASSUME EndAside PROVE [Atomic!Next]_(Atomic!vars)
  <2>1. pc \in Forward \cup Undo /\ pc' \in Forward \cup Undo /\ UNCHANGED <<manifest, left>>
        /\ (restored' => restored)
    BY <1>8 DEF EndAside, Phases
  <2>2. CASE ~restored'
    BY <2>1, <2>2, <1>c
  <2>3. CASE restored'
    <3>1. Before' = Before
      BY <1>8, <2>3, BeforeStays
    <3> QED
      BY <2>1, <2>3, <3>1, <1>d DEF Seen, SizesOf
  <2> QED
    BY <2>2, <2>3
<1>9. ASSUME EndSwap PROVE [Atomic!Next]_(Atomic!vars)
  <2>1. pc \in Forward \cup Undo /\ pc' \in Forward \cup Undo /\ UNCHANGED <<manifest, left>>
        /\ (restored' => restored)
    BY <1>9 DEF EndSwap, Phases
  <2>2. CASE ~restored'
    BY <2>1, <2>2, <1>c
  <2>3. CASE restored'
    <3>1. Before' = Before
      BY <1>9, <2>3, BeforeStays
    <3> QED
      BY <2>1, <2>3, <3>1, <1>d DEF Seen, SizesOf
  <2> QED
    BY <2>2, <2>3
<1>10. ASSUME Unmark PROVE [Atomic!Next]_(Atomic!vars)
  BY <1>10, <1>e DEF Unmark, Files, Seen
<1>11. ASSUME EndRemoveNew PROVE [Atomic!Next]_(Atomic!vars)
  <2>1. pc \in Forward \cup Undo /\ pc' \in Forward \cup Undo /\ UNCHANGED <<manifest, left>>
        /\ (restored' => restored)
    BY <1>11 DEF EndRemoveNew, Phases
  <2>2. CASE ~restored'
    BY <2>1, <2>2, <1>c
  <2>3. CASE restored'
    <3>1. Before' = Before
      BY <1>11, <2>3, BeforeStays
    <3> QED
      BY <2>1, <2>3, <3>1, <1>d DEF Seen, SizesOf
  <2> QED
    BY <2>2, <2>3
<1>12. ASSUME EndMoveBack PROVE [Atomic!Next]_(Atomic!vars)
  <2>1. pc \in Forward \cup Undo /\ pc' \in Forward \cup Undo /\ UNCHANGED <<manifest, left>>
        /\ (restored' => restored)
    BY <1>12 DEF EndMoveBack, Phases
  <2>2. CASE ~restored'
    BY <2>1, <2>2, <1>c
  <2>3. CASE restored'
    <3>1. Before' = Before
      BY <1>12, <2>3, BeforeStays
    <3> QED
      BY <2>1, <2>3, <3>1, <1>d DEF Seen, SizesOf
  <2> QED
    BY <2>2, <2>3
<1>13. ASSUME FailPublish PROVE [Atomic!Next]_(Atomic!vars)
  <2>1. CASE marker'
    BY <1>13, <2>1, <1>c DEF FailPublish, Away
  <2>2. CASE ~marker'
    <3>1. marker /\ moved = {} /\ renamed = {}
      BY <1>13 DEF FailPublish, Phases
    <3>3. restored
      BY <1>13, <2>2, <3>1, Zenon DEF FailPublish
    <3>2. Before = index
      BY <3>1, BeforeIsIndex
    <3> QED
      BY <1>13, <2>2, <3>2, <3>3, <1>d DEF FailPublish, Away, Seen, SizesOf
  <2> QED
    BY <2>1, <2>2
<1>14. ASSUME WriteManifest PROVE [Atomic!Next]_(Atomic!vars)
  <2>1. CASE pc' = "state"
    BY <1>14, <2>1, <1>e DEF WriteManifest, Files, Seen
  <2>2. CASE pc' = "idle"
    BY <1>14, <2>2, <1>d DEF WriteManifest, Away, Seen, SizesOf
  <2> QED
    BY <1>14, <2>1, <2>2 DEF WriteManifest, Away
<1>15. ASSUME WriteState PROVE [Atomic!Next]_(Atomic!vars)
  BY <1>15, <1>d DEF WriteState, Away, Seen, SizesOf
<1>16. ASSUME Crash PROVE [Atomic!Next]_(Atomic!vars)
  <2>1. CASE pc \in Forward \cup Undo
    BY <1>16, <2>1, <1>c DEF Crash, Away, Phases
  <2>2. CASE pc \notin Forward \cup Undo
    BY <1>16, <2>2, <1>d DEF Crash, Away, Seen, SizesOf
  <2> QED
    BY <2>1, <2>2
<1>17. ASSUME NEW n \in Names, RepairFile(n) PROVE [Atomic!Next]_(Atomic!vars)
  BY <1>17, <1>c DEF RepairFile, Phases
<1>18. ASSUME NEW n \in Names, MoveAside(n) PROVE [Atomic!Next]_(Atomic!vars)
  <2>1. pc \in Forward \cup Undo /\ pc' \in Forward \cup Undo /\ UNCHANGED <<manifest, left>>
        /\ (restored' => restored)
    BY <1>18 DEF MoveAside, Phases
  <2>2. CASE ~restored'
    BY <2>1, <2>2, <1>c
  <2>3. CASE restored'
    <3>1. Before' = Before
      BY <1>18, <2>3, BeforeStays
    <3> QED
      BY <2>1, <2>3, <3>1, <1>d DEF Seen, SizesOf
  <2> QED
    BY <2>2, <2>3
<1>19. ASSUME NEW n \in Names, RenameIn(n) PROVE [Atomic!Next]_(Atomic!vars)
  <2>1. pc \in Forward \cup Undo /\ pc' \in Forward \cup Undo /\ UNCHANGED <<manifest, left>>
        /\ (restored' => restored)
    BY <1>19 DEF RenameIn, Phases
  <2>2. CASE ~restored'
    BY <2>1, <2>2, <1>c
  <2>3. CASE restored'
    <3>1. Before' = Before
      BY <1>19, <2>3, BeforeStays
    <3> QED
      BY <2>1, <2>3, <3>1, <1>d DEF Seen, SizesOf
  <2> QED
    BY <2>2, <2>3
<1>20. ASSUME NEW n \in Names, RemoveNew(n) PROVE [Atomic!Next]_(Atomic!vars)
  <2>1. pc \in Forward \cup Undo /\ pc' \in Forward \cup Undo /\ UNCHANGED <<manifest, left>>
        /\ (restored' => restored)
    BY <1>20 DEF RemoveNew, Phases
  <2>2. CASE ~restored'
    BY <2>1, <2>2, <1>c
  <2>3. CASE restored'
    <3>1. Before' = Before
      BY <1>20, <2>3, BeforeStays
    <3> QED
      BY <2>1, <2>3, <3>1, <1>d DEF Seen, SizesOf
  <2> QED
    BY <2>2, <2>3
<1>21. ASSUME NEW n \in Names, MoveBack(n) PROVE [Atomic!Next]_(Atomic!vars)
  <2>1. pc \in Forward \cup Undo /\ pc' \in Forward \cup Undo /\ UNCHANGED <<manifest, left>>
        /\ (restored' => restored)
    BY <1>21 DEF MoveBack, Phases
  <2>2. CASE ~restored'
    BY <2>1, <2>2, <1>c
  <2>3. CASE restored'
    <3>1. Before' = Before
      BY <1>21, <2>3, BeforeStays
    <3> QED
      BY <2>1, <2>3, <3>1, <1>d DEF Seen, SizesOf
  <2> QED
    BY <2>2, <2>3
<1>22. CASE UNCHANGED vars
  BY <1>22, <1>d DEF vars, Seen, Before, SizesOf
<1> QED
  BY <1>1, <1>2, <1>3, <1>4, <1>5, <1>6, <1>7, <1>8, <1>9, <1>10, <1>11,
     <1>12, <1>13, <1>14, <1>15, <1>16, <1>17, <1>18, <1>19, <1>20, <1>21, <1>22 DEF Next, Step

\* The swap of a family file by file, with its roll back and its repair, implements
\* one atomic change of the family that others trust, but for a family that a
\* failed repair left with its manifest.
THEOREM SwapIsAtomic == Spec => AtomicSpec
<1>1. Spec => []IInv
  BY InvHolds
<1>2. Init => Atomic!Init
  BY AtomicInit
<1>3. IInv /\ IInv' /\ [Next]_vars => [Atomic!Next]_(Atomic!vars)
  BY AtomicStep
<1> QED
  BY <1>1, <1>2, <1>3, PTL DEF Spec, AtomicSpec, Atomic!Spec

=============================================================================
