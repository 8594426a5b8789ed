-------------------------- MODULE MCReleaseStream --------------------------
(* Instances of ReleaseStream for TLC. *)
EXTENDS ReleaseStream, TLC
=============================================================================
