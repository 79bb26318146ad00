------------------------------ MODULE MCSnapshot ------------------------------
(***************************************************************************)
(* Small instances of a snapshot: two or three names, one of which may be  *)
(* no source file, and a user who does two or three things meanwhile.      *)
(***************************************************************************)
EXTENDS Snapshot
=============================================================================
