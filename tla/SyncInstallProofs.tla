-------------------------- MODULE SyncInstallProofs --------------------------
(***************************************************************************)
(* Theorems about SyncInstall, for any sets of IDs and contents and any    *)
(* number of runs that die or leave files behind.                          *)
(***************************************************************************)
EXTENDS SyncInstall, SequenceTheorems, TLAPS

\* One of the directories left behind is tree.
Littered(tree) == \E i \in DOMAIN abandoned : abandoned[i] = tree

\* The last validated snapshot is tree, or is left behind, or there is none yet.
Safe(tree) == committed = Missing \/ committed = tree \/ Littered(committed)

\* Where the previous snapshot is at each step of a run.
Swap ==
    /\ step = "idle" => Safe(output)
    /\ step \in {"importing", "staging"} => backup = Missing /\ output = before /\ Safe(before)
    /\ step \in {"installing", "validating", "rolling back"} =>
         backup = before /\ hadPrevious = (before # Missing) /\ Safe(before)
    /\ step = "installing" => output = Missing
    /\ step = "pruning" => output = committed
    /\ step = "cleaning" => result \in {"failed", "not rolled back", "ok", "not pruned"}
    /\ step = "cleaning" /\ result = "not rolled back" => Safe(Missing)
    /\ step = "cleaning" /\ result = "failed" => Safe(before) /\ backup = Missing

IInv == TypeOK /\ Swap /\ WholeSnapshotInPlace

-----------------------------------------------------------------------------

\* The directory without a source is one.
LEMMA MissingIsTree == Missing \in Trees
<1>1. Missing \in [{} -> Revisions]
  BY DEF Missing
<1> QED
  BY <1>1 DEF Trees

\* Deleting a file leaves a directory.
LEMMA PruneIsTree ==
  ASSUME NEW tree \in Trees, NEW id
  PROVE  Prune(tree, id) \in Trees
<1>1. PICK ids \in SUBSET Ids : tree \in [ids -> Revisions]
  BY DEF Trees
<1>2. Prune(tree, id) \in [ids \ {id} -> Revisions]
  BY <1>1 DEF Prune
<1>3. ids \ {id} \in SUBSET Ids
  BY <1>1
<1> QED
  BY <1>2, <1>3 DEF Trees

\* One directory that is left, if it holds anything, makes a sequence of them.
LEMMA LeftIsTrees ==
  ASSUME NEW tree \in Trees
  PROVE  Left(tree) \in Seq(Trees)
<1>1. <<>> \in Seq(Trees)
  OBVIOUS
<1>2. <<tree>> \in Seq(Trees)
  OBVIOUS
<1>3. Left(tree) = <<>> \/ Left(tree) = <<tree>>
  BY DEF Left
<1> QED
  BY <1>1, <1>2, <1>3

\* What a run leaves behind is directories: its own and those of runs before it.
LEMMA AbandonedIsTrees ==
  ASSUME TypeOK
  PROVE  Abandoned \in Seq(Trees)
<1>1. Left(generated) \in Seq(Trees) /\ Left(backup) \in Seq(Trees)
  BY LeftIsTrees DEF TypeOK
<1>2. abandoned \in Seq(Trees)
  BY DEF TypeOK
<1> QED
  BY <1>1, <1>2 DEF Abandoned

\* Leaving loses no directory that was left behind, and not the backup.
LEMMA LeaveKeeps ==
  ASSUME TypeOK, Leave
  PROVE  /\ \A tree : Littered(tree) => Littered(tree)'
         /\ \A tree : tree = backup /\ tree # Missing => Littered(tree)'
<1> DEFINE A == Left(generated)
           B == Left(backup)
<1>1. A \in Seq(Trees) /\ B \in Seq(Trees) /\ abandoned \in Seq(Trees)
  BY LeftIsTrees DEF TypeOK
<1>2. abandoned' = A \o B \o abandoned
  BY DEF Leave, Abandoned
<1> HIDE DEF A, B
<1>3. A \o B \in Seq(Trees) /\ Len(A \o B) = Len(A) + Len(B)
  BY <1>1
<1>4. ASSUME NEW i \in DOMAIN abandoned
      PROVE  /\ Len(A \o B) + i \in DOMAIN abandoned'
             /\ abandoned'[Len(A \o B) + i] = abandoned[i]
  BY <1>1, <1>2, <1>3
<1>5. \A tree : Littered(tree) => Littered(tree)'
  BY <1>4 DEF Littered
<1>6. ASSUME NEW tree, tree = backup, tree # Missing
      PROVE  Littered(tree)'
  <2>1. B = <<backup>>
    BY <1>6 DEF B, Left
  <2>2. (A \o B)[Len(A) + 1] = backup /\ Len(A \o B) = Len(A) + 1
    BY <2>1, <1>1
  <2>3. Len(A) + 1 \in DOMAIN abandoned' /\ abandoned'[Len(A) + 1] = (A \o B)[Len(A) + 1]
    BY <1>1, <1>2, <1>3, <2>2
  <2> QED
    BY <1>6, <2>2, <2>3 DEF Littered
<1> QED
  BY <1>5, <1>6
-----------------------------------------------------------------------------

\* Init starts between two runs, with the snapshot in its place.
LEMMA InitInv == Init => IInv
<1> SUFFICES ASSUME Init
             PROVE  IInv
  OBVIOUS
<1>1. TypeOK
  <2>1. others \in SUBSET Ids /\ othersValid \in BOOLEAN /\ output \in Trees
    BY DEF Init
  <2>2. generated = Missing /\ backup = Missing /\ before = output /\ committed = output
    BY DEF Init
  <2>3. abandoned \in Seq(Trees) /\ debris \in 0..MaxDebris
    BY SyncAssumption DEF Init
  <2>4. step = "idle" /\ hadPrevious \in BOOLEAN /\ result = "none"
    BY DEF Init
  <2> QED
    BY <2>1, <2>2, <2>3, <2>4, MissingIsTree DEF TypeOK, Steps
<1>2. Swap /\ WholeSnapshotInPlace
  BY DEF Init, Swap, Safe, WholeSnapshotInPlace
<1> QED
  BY <1>1, <1>2 DEF IInv

\* No more runs go wrong in these ways than the bound allows.
LEMMA DebrisIsBounded ==
  ASSUME TypeOK, Exit \/ Crash \/ NotPutBack \/ PutBack
  PROVE  debris' \in 0..MaxDebris
<1>1. debris \in 0..MaxDebris
  BY DEF TypeOK
<1>2. debris \in Nat /\ MaxDebris \in Nat
  BY <1>1, SyncAssumption
<1>3. CASE Exit
  <2>1. (debris' = debris \/ debris' = debris + 1) /\ debris' <= MaxDebris
    BY <1>3 DEF Exit
  <2> QED
    BY <1>2, <2>1
<1>4. CASE Crash
  <2>1. debris' = debris + 1 /\ debris < MaxDebris
    BY <1>4 DEF Crash
  <2> QED
    BY <1>2, <2>1
<1>5. CASE NotPutBack
  <2>1. debris' = debris + 1 /\ debris < MaxDebris
    BY <1>5 DEF NotPutBack
  <2> QED
    BY <1>2, <2>1
<1>6. CASE PutBack
  BY <1>1, <1>6 DEF PutBack
<1> QED
  BY <1>3, <1>4, <1>5, <1>6

\* Every step keeps the types.
LEMMA NextType == IInv /\ [Next]_vars => TypeOK'
<1> SUFFICES ASSUME IInv, [Next]_vars
             PROVE  TypeOK'
  OBVIOUS
<1> USE MissingIsTree, SyncAssumption
<1> USE DEF IInv, TypeOK, Steps, repository, files, history
<1>1. CASE EditOthers
  BY <1>1 DEF EditOthers
<1>2. CASE Refuse
  BY <1>2 DEF Refuse
<1>3. CASE Begin
  BY <1>3 DEF Begin
<1>4. ASSUME NEW id \in Ids, WriteSource(id)
      PROVE  TypeOK'
  <2>1. PICK ids \in SUBSET Ids : generated \in [ids -> Revisions]
    BY DEF Trees
  <2>2. ids \cup {id} \in SUBSET Ids
    BY <2>1
  <2>3. generated' \in [ids \cup {id} -> Revisions]
    BY <1>4, <2>1 DEF WriteSource
  <2>4. generated' \in Trees
    BY <2>2, <2>3 DEF Trees
  <2> QED
    BY <1>4, <2>4 DEF WriteSource
<1>5. CASE EndImport
  BY <1>5 DEF EndImport
<1>6. CASE Stage
  BY <1>6 DEF Stage
<1>7. CASE StageFails
  BY <1>7 DEF StageFails, Fail
<1>8. CASE Install
  BY <1>8 DEF Install
<1>9. CASE InstallFails
  <2>1. debris' \in 0..MaxDebris
    BY <1>9, DebrisIsBounded DEF InstallFails
  <2> QED
    BY <1>9, <2>1 DEF InstallFails, PutBack, NotPutBack, Fail
<1>10. CASE Accept
  BY <1>10 DEF Accept
<1>11. CASE Reject
  BY <1>11 DEF Reject
<1>12. CASE RemoveInstalled
  BY <1>12, PruneIsTree DEF RemoveInstalled
<1>13. CASE RestorePrevious
  <2>1. debris' \in 0..MaxDebris
    BY <1>13, DebrisIsBounded DEF RestorePrevious
  <2> QED
    BY <1>13, <2>1 DEF RestorePrevious, PutBack, NotPutBack, Fail
<1>14. CASE RemovePrevious
  BY <1>14, PruneIsTree DEF RemovePrevious
<1>15. CASE EndPruning
  BY <1>15 DEF EndPruning
<1>16. CASE Clean
  BY <1>16, PruneIsTree DEF Clean
<1>17. CASE Exit
  <2>1. abandoned' \in Seq(Trees)
    BY <1>17, AbandonedIsTrees DEF Exit, Leave
  <2>2. debris' \in 0..MaxDebris
    BY <1>17, DebrisIsBounded
  <2> QED
    BY <1>17, <2>1, <2>2 DEF Exit, Leave
<1>18. CASE Crash
  <2>1. abandoned' \in Seq(Trees)
    BY <1>18, AbandonedIsTrees DEF Crash, Leave
  <2>2. debris' \in 0..MaxDebris
    BY <1>18, DebrisIsBounded
  <2> QED
    BY <1>18, <2>1, <2>2 DEF Crash, Leave
<1>19. CASE UNCHANGED vars
  BY <1>19 DEF vars
<1> QED
  BY <1>1, <1>2, <1>3, <1>4, <1>5, <1>6, <1>7, <1>8, <1>9, <1>10, <1>11, <1>12, <1>13,
     <1>14, <1>15, <1>16, <1>17, <1>18, <1>19 DEF Next

\* Every step keeps the previous snapshot where Swap says it is.
LEMMA NextSwap == IInv /\ [Next]_vars => Swap' /\ WholeSnapshotInPlace'
<1> SUFFICES ASSUME IInv, [Next]_vars
             PROVE  Swap' /\ WholeSnapshotInPlace'
  OBVIOUS
<1> USE DEF IInv, Swap, WholeSnapshotInPlace, repository, files, history
<1>1. CASE EditOthers \/ Refuse \/ Begin
  BY <1>1 DEF EditOthers, Refuse, Begin, Safe, Littered, TypeOK
<1>2. CASE EndImport
  BY <1>2 DEF EndImport, Safe, Littered
<1>12. CASE \E id \in Ids : WriteSource(id)
  BY <1>12 DEF WriteSource, Safe, Littered
<1>3. CASE Stage
  BY <1>3 DEF Stage, Safe, Littered
<1>13. CASE StageFails
  BY <1>13 DEF StageFails, Fail, Safe, Littered
<1>4. CASE Install \/ InstallFails
  BY <1>4 DEF Install, InstallFails, PutBack, NotPutBack, Fail, Safe, Littered
<1>5. CASE Accept \/ Reject
  BY <1>5 DEF Accept, Reject, Safe, Littered
<1>6. CASE RemoveInstalled
  BY <1>6 DEF RemoveInstalled, Safe, Littered
<1>7. CASE RestorePrevious
  BY <1>7 DEF RestorePrevious, PutBack, NotPutBack, Fail, Safe, Littered
<1>8. CASE RemovePrevious \/ EndPruning
  BY <1>8 DEF RemovePrevious, EndPruning, Safe, Littered
<1>9. CASE Clean
  BY <1>9, MissingIsTree DEF Clean, Safe, Littered, Missing
<1>10. CASE Exit \/ Crash
  <2>1. Leave /\ step' = "idle" /\ UNCHANGED <<output, before, committed>>
    BY <1>10 DEF Exit, Crash
  <2>2. Safe(output)'
    <3>1. Littered(committed) => Littered(committed)'
      BY <2>1, LeaveKeeps
    <3>2. committed = backup /\ committed # Missing => Littered(committed)'
      BY <2>1, LeaveKeeps
    <3> QED
      BY <1>10, <2>1, <3>1, <3>2 DEF Safe, Exit, Crash, TypeOK, Steps
  <2> QED
    BY <1>10, <2>1, <2>2 DEF Exit, Crash
<1>11. CASE UNCHANGED vars
  BY <1>11 DEF vars, Safe, Littered
<1> QED
  BY <1>1, <1>2, <1>3, <1>4, <1>5, <1>6, <1>7, <1>8, <1>9, <1>10, <1>11, <1>12, <1>13 DEF Next

\* The invariant holds throughout.
LEMMA Invariance == Spec => []IInv
<1>1. IInv /\ [Next]_vars => IInv'
  BY NextType, NextSwap DEF IInv
<1> QED
  BY InitInv, <1>1, PTL DEF Spec

-----------------------------------------------------------------------------

\* Every variable keeps its type, and nothing of a run's temporary directory is
\* there for the next one but as litter.
THEOREM TypeCorrect == Spec => []TypeOK
<1>1. IInv => TypeOK
  BY DEF IInv
<1> QED
  BY <1>1, Invariance, PTL

\* A run that succeeded leaves the whole new snapshot in place, and one that was
\* rolled back the whole previous one.
THEOREM NoMixture == Spec => []WholeSnapshotInPlace
<1>1. IInv => WholeSnapshotInPlace
  BY DEF IInv
<1> QED
  BY <1>1, Invariance, PTL

\* Wherever a run dies, the last validated snapshot is whole somewhere on disk,
\* unless the rollback of a run was refused.
THEOREM NothingLost == Spec => []SnapshotSurvives
<1>1. IInv => SnapshotSurvives
  <2> SUFFICES ASSUME IInv, committed # Missing
               PROVE  \E i \in DOMAIN Under : Under[i] = committed
    BY DEF SnapshotSurvives
  <2>1. abandoned \in Seq(Trees) /\ output \in Trees /\ backup \in Trees
    BY DEF IInv, TypeOK
  <2>2. committed = output \/ committed = backup \/ Littered(committed)
    BY DEF IInv, TypeOK, Steps, Swap, Safe, WholeSnapshotInPlace
  <2>3. Under = <<output, backup>> \o abandoned
    BY DEF Under
  <2>4. 1 \in DOMAIN Under /\ Under[1] = output /\ 2 \in DOMAIN Under /\ Under[2] = backup
    BY <2>1, <2>3
  <2>5. \A i \in DOMAIN abandoned : 2 + i \in DOMAIN Under /\ Under[2 + i] = abandoned[i]
    BY <2>1, <2>3
  <2> QED
    BY <2>2, <2>4, <2>5 DEF Littered
<1> QED
  BY <1>1, Invariance, PTL
-----------------------------------------------------------------------------

\* From the validation on nothing is left of the import, and what was accepted
\* still loads, while the previous snapshot goes file by file.
Accepted ==
    /\ step \in {"validating", "rolling back", "pruning"} => generated = Missing
    /\ step = "pruning" => othersValid /\ Loads(others, Under)
    /\ step \in {"cleaning", "idle"} /\ result = "ok" =>
         generated = Missing /\ backup = Missing /\ othersValid /\ Loads(others, Under)

\* Deleting a file of the previous snapshot takes IDs from one place of Under and
\* leaves the other places alone.
LEMMA PruningShrinks ==
  ASSUME TypeOK, TypeOK', RemovePrevious
  PROVE  /\ DOMAIN Under' = DOMAIN Under
         /\ \A i \in DOMAIN Under : DOMAIN Under'[i] \subseteq DOMAIN Under[i]
<1>1. abandoned \in Seq(Trees) /\ output \in Trees /\ backup \in Trees /\ backup' \in Trees
  BY DEF TypeOK
<1>2. Under = <<output, backup>> \o abandoned /\ Under' = <<output, backup'>> \o abandoned
  BY DEF Under, RemovePrevious
<1>3. DOMAIN backup' \subseteq DOMAIN backup
  BY DEF RemovePrevious, Prune
<1>4. DOMAIN Under = 1..(2 + Len(abandoned)) /\ DOMAIN Under' = 1..(2 + Len(abandoned))
  BY <1>1, <1>2
<1>5. Under[1] = output /\ Under'[1] = output /\ Under[2] = backup /\ Under'[2] = backup'
  BY <1>1, <1>2
<1>6. \A i \in 3..(2 + Len(abandoned)) : Under[i] = abandoned[i - 2] /\ Under'[i] = abandoned[i - 2]
  BY <1>1, <1>2
<1>7. \A i \in DOMAIN Under : i = 1 \/ i = 2 \/ i \in 3..(2 + Len(abandoned))
  BY <1>1, <1>4
<1> QED
  BY <1>3, <1>4, <1>5, <1>6, <1>7

\* A run that leaves nothing leaves what was there.
LEMMA NothingLeft ==
  ASSUME NEW trees \in Seq(Trees)
  PROVE  <<>> \o <<>> \o trees = trees
<1>1. <<>> \in Seq(Trees)
  OBVIOUS
<1>2. <<>> \o <<>> = <<>>
  BY <1>1, ConcatEmptySeq
<1> QED
  BY <1>2, ConcatEmptySeq

\* Every step keeps it.
LEMMA NextAccepted == IInv /\ IInv' /\ Accepted /\ [Next]_vars => Accepted'
<1> SUFFICES ASSUME IInv, IInv', Accepted, [Next]_vars
             PROVE  Accepted'
  OBVIOUS
<1>0. TypeOK /\ TypeOK' /\ Swap
  BY DEF IInv
<1> USE DEF Accepted, repository, files, history
<1>1. CASE EditOthers \/ Refuse \/ Begin
  BY <1>1 DEF EditOthers, Refuse, Begin
<1>2. CASE \E id \in Ids : WriteSource(id)
  BY <1>2 DEF WriteSource
<1>3. CASE EndImport \/ StageFails \/ InstallFails
  BY <1>3 DEF EndImport, StageFails, InstallFails, PutBack, NotPutBack, Fail
<1>4. CASE Stage \/ Install
  BY <1>4 DEF Stage, Install
<1>5. CASE Accept
  <2>1. Loads(others, Under)' /\ othersValid' /\ generated' = Missing
    BY <1>5 DEF Accept, Valid, Loads, Under
  <2>2. hadPrevious \/ backup = Missing
    BY <1>0, <1>5 DEF Swap, Accept
  <2> QED
    BY <1>5, <2>1, <2>2 DEF Accept
<1>6. CASE Reject \/ RemoveInstalled \/ RestorePrevious
  BY <1>6 DEF Reject, RemoveInstalled, RestorePrevious, PutBack, NotPutBack, Fail
<1>7. CASE RemovePrevious
  <2>1. step = "pruning" /\ UNCHANGED <<others, othersValid, generated, step>>
    BY <1>7 DEF RemovePrevious
  <2>2. Loads(others, Under)'
    BY <1>0, <1>7, <2>1, PruningShrinks DEF Loads
  <2> QED
    BY <2>1, <2>2
<1>8. CASE EndPruning
  BY <1>8 DEF EndPruning, Loads, Under
<1>9. CASE Clean
  BY <1>9 DEF Clean, Loads, Under, Missing
<1>10. CASE Exit
  <2>1. CASE result = "ok"
    <3>1. step = "cleaning" /\ UNCHANGED <<others, othersValid, output, result>> /\ step' = "idle"
      BY <1>10 DEF Exit
    <3>2. generated = Missing /\ backup = Missing /\ generated' = Missing /\ backup' = Missing
      BY <1>10, <2>1, <3>1 DEF Exit, Leave
    <3>3. abandoned' = <<>> \o <<>> \o abandoned
      BY <1>10, <3>2 DEF Exit, Leave, Abandoned, Left
    <3>4. abandoned \in Seq(Trees)
      BY <1>0 DEF TypeOK
    <3>5. abandoned' = abandoned
      BY <3>3, <3>4, NothingLeft
    <3> QED
      BY <2>1, <3>1, <3>2, <3>5 DEF Loads, Under
  <2>2. CASE result # "ok"
    BY <1>10, <2>2 DEF Exit
  <2> QED
    BY <2>1, <2>2
<1>11. CASE Crash
  BY <1>11 DEF Crash
<1>12. CASE UNCHANGED vars
  BY <1>12 DEF vars, Loads, Under
<1> QED
  BY <1>1, <1>2, <1>3, <1>4, <1>5, <1>6, <1>7, <1>8, <1>9, <1>10, <1>11, <1>12 DEF Next

\* After a successful run the repository loads, whatever dead runs left under it.
THEOREM LoadsAgain == Spec => []SuccessLoads
<1>1. Init => Accepted
  BY DEF Init, Accepted
<1>2. IInv /\ IInv' /\ Accepted /\ [Next]_vars => Accepted'
  BY NextAccepted
<1>3. Accepted => SuccessLoads
  BY DEF Accepted, SuccessLoads
<1> QED
  BY Invariance, <1>1, <1>2, <1>3, PTL DEF Spec
=============================================================================
