----------------------------- MODULE SyncInstall -----------------------------
(***************************************************************************)
(* nagare-source sync-approved: the rules of an approved upstream are      *)
(* imported into a temporary directory beside their own directory, swapped *)
(* in, and then validated with everything under sources/.                  *)
(*                                                                         *)
(* A directory of rules is a function from the IDs of its sources to their *)
(* contents; one without a source and a missing one are the same.  The     *)
(* process may die between any two file operations.  Renames and removals  *)
(* may fail, those of the rollback too, whose errors the code ignores.     *)
(***************************************************************************)
EXTENDS Naturals, Sequences, FiniteSets

CONSTANTS
    Ids,         \* source IDs
    Revisions,   \* the contents a source's rule has at the upstream over time
    MaxDebris    \* bound: runs that died, could not roll back or not remove their directory

ASSUME SyncAssumption == IsFiniteSet(Ids) /\ MaxDebris \in Nat

VARIABLES
    others,        \* the IDs of the sources outside the upstream's directory
    othersValid,   \* they pass the schema and the lint
    output,        \* the upstream's own directory
    generated,     \* the import, in the temporary directory
    backup,        \* the directory "previous" in the temporary directory
    abandoned,     \* directories left behind in old temporary directories
    step,          \* where the process is; idle between two runs
    hadPrevious,   \* the local of installApprovedSources
    result,        \* how the last run ended
    debris,        \* how often that happened
    before,        \* [history] output when the run began
    committed      \* [history] the last snapshot that was validated; Missing once a
                   \* rollback was refused, which gives it up

repository == <<others, othersValid>>
files == <<output, generated, backup, abandoned>>
history == <<before, committed>>
vars == <<repository, files, step, hadPrevious, result, debris, history>>

Trees == UNION {[ids -> Revisions] : ids \in SUBSET Ids}
Missing == [id \in {} |-> id]

Steps == {"idle", "importing", "staging", "installing", "validating", "rolling back", "pruning", "cleaning"}

TypeOK ==
    /\ others \in SUBSET Ids /\ othersValid \in BOOLEAN
    /\ output \in Trees /\ generated \in Trees /\ backup \in Trees
    /\ abandoned \in Seq(Trees)
    /\ step \in Steps
    /\ hadPrevious \in BOOLEAN
    /\ result \in {"none", "ok", "failed", "not rolled back", "not pruned", "crashed"}
    /\ debris \in 0..MaxDebris
    /\ before \in Trees /\ committed \in Trees
    /\ step = "idle" => generated = Missing /\ backup = Missing

\* No source is known twice.
Loads(ids, trees) ==
    /\ \A i \in DOMAIN trees : DOMAIN trees[i] \cap ids = {}
    /\ \A i, j \in DOMAIN trees : i # j => DOMAIN trees[i] \cap DOMAIN trees[j] = {}

Init ==
    /\ others \in SUBSET Ids
    /\ othersValid \in BOOLEAN
    /\ output \in {tree \in Trees : Loads(others, <<tree>>)}
    /\ generated = Missing
    /\ backup = Missing
    /\ abandoned = <<>>
    /\ step = "idle"
    /\ hadPrevious = FALSE
    /\ result = "none"
    /\ debris = 0
    /\ before = output
    /\ committed = output

\* tree after the file of id was deleted.
Prune(tree, id) == [i \in DOMAIN tree \ {id} |-> tree[i]]

-----------------------------------------------------------------------------
(* Before the temporary directory, and the import into it                  *)

\* The maintainers change the other sources between two runs.
EditOthers ==
    /\ step = "idle"
    /\ others' \in SUBSET (Ids \ DOMAIN output)
    /\ othersValid' \in BOOLEAN
    /\ result' = "none"
    /\ UNCHANGED <<files, step, hadPrevious, debris, history>>

\* The approval or the checkout is refused, or the directory cannot be made.
Refuse ==
    /\ step = "idle"
    /\ result' = "failed"
    /\ before' = output
    /\ UNCHANGED <<repository, files, step, hadPrevious, debris, committed>>

Begin ==
    /\ step = "idle"
    /\ step' = "importing"
    /\ result' = "none"
    /\ before' = output
    /\ UNCHANGED <<repository, files, hadPrevious, debris, committed>>

\* One turn of the loop of WriteSources; every document was validated before.
WriteSource(id) ==
    /\ step = "importing"
    /\ id \notin DOMAIN generated
    /\ \E revision \in Revisions :
         generated' = [i \in DOMAIN generated \cup {id} |->
                         IF i = id THEN revision ELSE generated[i]]
    /\ UNCHANGED <<repository, output, backup, abandoned, step, hadPrevious, result, debris, history>>

\* importSources returns, after its last document or with an error.
EndImport ==
    /\ step = "importing"
    /\ \/ step' = "staging" /\ UNCHANGED result
       \/ step' = "cleaning" /\ result' = "failed"
    /\ UNCHANGED <<repository, files, hadPrevious, debris, history>>

-----------------------------------------------------------------------------
(* installApprovedSources                                                  *)

Fail == step' = "cleaning" /\ result' = "failed"

\* The previous snapshot is moved away, if there is one.
Stage ==
    /\ step = "staging"
    /\ hadPrevious' = (output # Missing)
    /\ output' = Missing
    /\ backup' = output
    /\ step' = "installing"
    /\ UNCHANGED <<repository, generated, abandoned, result, debris, history>>

StageFails ==
    /\ step = "staging"
    /\ output # Missing
    /\ hadPrevious' = FALSE
    /\ Fail
    /\ UNCHANGED <<repository, files, debris, history>>

\* An import without a source left no directory to rename.
Install ==
    /\ step = "installing"
    /\ generated # Missing
    /\ output' = generated
    /\ generated' = Missing
    /\ step' = "validating"
    /\ UNCHANGED <<repository, backup, abandoned, hadPrevious, result, debris, history>>

\* The rename of the rollback, and its failure: then what was staged is still in the
\* temporary directory, whose removal follows.
PutBack ==
    /\ Fail
    /\ output' = IF hadPrevious THEN backup ELSE output
    /\ backup' = IF hadPrevious THEN Missing ELSE backup
    /\ UNCHANGED <<debris, committed>>

NotPutBack ==
    /\ debris < MaxDebris
    /\ debris' = debris + 1
    /\ step' = "cleaning" /\ result' = "not rolled back"
    /\ committed' = IF hadPrevious THEN Missing ELSE committed
    /\ UNCHANGED <<output, backup>>

\* Mutant of InstallFails: the previous snapshot is not moved back.
InstallFails_KeepsBackup ==
    /\ step = "installing"
    /\ Fail
    /\ UNCHANGED <<repository, files, hadPrevious, debris, history>>

InstallFails ==
    /\ step = "installing"
    /\ PutBack \/ (hadPrevious /\ NotPutBack)
    /\ UNCHANGED <<repository, generated, abandoned, hadPrevious, before>>

\* The directories under sources/ that LoadSources walks, hidden ones included.
Under == <<output, backup>> \o abandoned

\* Mutant of Valid: directories of dead runs are passed over.
Valid_OutputOnly == othersValid /\ Loads(others, <<output>>)

\* LoadSources over the whole repository.
Valid == othersValid /\ Loads(others, Under)

Accept ==
    /\ step = "validating"
    /\ Valid
    /\ committed' = output
    /\ IF hadPrevious
       THEN step' = "pruning" /\ UNCHANGED result
       ELSE step' = "cleaning" /\ result' = "ok"
    /\ UNCHANGED <<repository, files, hadPrevious, debris, before>>

\* Mutant of Reject: the temporary directory goes before the rollback.
Reject_CleansFirst ==
    /\ step = "validating"
    /\ ~Valid
    /\ step' = "rolling back"
    /\ backup' = Missing
    /\ UNCHANGED <<repository, output, generated, abandoned, hadPrevious, result, debris, history>>

Reject ==
    /\ step = "validating"
    /\ ~Valid
    /\ step' = "rolling back"
    /\ UNCHANGED <<repository, files, hadPrevious, result, debris, history>>

\* RemoveAll(outputPath), a file at a time; it may fail before any of them.
RemoveInstalled ==
    /\ step = "rolling back"
    /\ \E id \in DOMAIN output : output' = Prune(output, id)
    /\ UNCHANGED <<repository, generated, backup, abandoned, step, hadPrevious, result, debris, history>>

RestorePrevious ==
    /\ step = "rolling back"
    /\ \/ output = Missing /\ PutBack
       \/ (hadPrevious \/ output # Missing) /\ NotPutBack
    /\ UNCHANGED <<repository, generated, abandoned, hadPrevious, before>>

\* RemoveAll(backup), a file at a time; it may fail after any of them.
RemovePrevious ==
    /\ step = "pruning"
    /\ \E id \in DOMAIN backup : backup' = Prune(backup, id)
    /\ UNCHANGED <<repository, output, generated, abandoned, step, hadPrevious, result, debris, history>>

EndPruning ==
    /\ step = "pruning"
    /\ step' = "cleaning"
    /\ result' = IF backup = Missing THEN "ok" ELSE "not pruned"
    /\ UNCHANGED <<repository, files, hadPrevious, debris, history>>

-----------------------------------------------------------------------------
(* The deferred RemoveAll(temporary), and the death of the process         *)

Clean ==
    /\ step = "cleaning"
    /\ \/ \E id \in DOMAIN generated : generated' = Prune(generated, id) /\ UNCHANGED backup
       \/ \E id \in DOMAIN backup : backup' = Prune(backup, id) /\ UNCHANGED generated
    /\ UNCHANGED <<repository, output, abandoned, step, hadPrevious, result, debris, history>>

Left(tree) == IF tree = Missing THEN <<>> ELSE <<tree>>

Abandoned == Left(generated) \o Left(backup) \o abandoned

\* Nothing of this process's temporary directory is ever looked for again.
Leave == abandoned' = Abandoned /\ generated' = Missing /\ backup' = Missing

\* A removal that stopped half way is ignored.
Exit ==
    /\ step = "cleaning"
    /\ debris' = IF generated = Missing /\ backup = Missing THEN debris ELSE debris + 1
    /\ debris' <= MaxDebris
    /\ step' = "idle"
    /\ Leave
    /\ UNCHANGED <<repository, output, hadPrevious, result, history>>

Crash ==
    /\ step # "idle"
    /\ debris < MaxDebris
    /\ debris' = debris + 1
    /\ step' = "idle"
    /\ result' = "crashed"
    /\ Leave
    /\ UNCHANGED <<repository, output, hadPrevious, history>>

-----------------------------------------------------------------------------

Next ==
    \/ EditOthers \/ Refuse \/ Begin
    \/ \E id \in Ids : WriteSource(id)
    \/ EndImport
    \/ Stage \/ StageFails
    \/ Install \/ InstallFails
    \/ Accept \/ Reject
    \/ RemoveInstalled \/ RestorePrevious
    \/ RemovePrevious \/ EndPruning
    \/ Clean \/ Exit
    \/ Crash

Spec == Init /\ [][Next]_vars

-----------------------------------------------------------------------------

\* Wherever a run stops or dies, the last validated snapshot is still whole on
\* disk: in its place, in "previous", or in what a dead run left behind.  Only a
\* rollback that is itself refused gives it up, and installApprovedSources ignores
\* that.
SnapshotSurvives == committed = Missing \/ \E i \in DOMAIN Under : Under[i] = committed

\* A run that returned leaves the whole previous snapshot or the whole new one in
\* place, never none of them and never a mixture, and the new one only once it was
\* validated with the rest of the repository; but for a run that neither succeeded
\* nor could be rolled back.
WholeSnapshotInPlace ==
    step \in {"idle", "cleaning"} =>
        /\ result = "failed" => output = before
        /\ result \in {"ok", "not pruned"} => output = committed

\* After a successful run the repository loads again, although old runs may have
\* died and left their directories under sources/.
SuccessLoads ==
    step = "idle" /\ result = "ok" => othersValid /\ Loads(others, Under)

\* A snapshot that has no ID in common with the repository's other sources passes
\* its validation when nothing is left over from a dead run.
FreeOfConflictsInstalls ==
    [][step = "validating" /\ othersValid /\ DOMAIN output \cap others = {} /\ abandoned = <<>>
         => step' # "rolling back"]_vars
=============================================================================
