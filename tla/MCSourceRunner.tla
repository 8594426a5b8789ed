--------------------------- MODULE MCSourceRunner ---------------------------
(* Instances of SourceRunner for TLC. *)
EXTENDS SourceRunner, TLC
=============================================================================
