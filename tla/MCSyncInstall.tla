--------------------------- MODULE MCSyncInstall ---------------------------
(* Instances of SyncInstall for TLC. *)
EXTENDS SyncInstall, TLC

Symmetry == Permutations(Ids) \cup Permutations(Revisions)
=============================================================================
