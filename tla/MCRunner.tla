------------------------------- MODULE MCRunner -------------------------------
(***************************************************************************)
(* A small instance of the runner: streams, pipes and the cap are of one   *)
(* or two units, so that each fills up and each overflows.                 *)
(***************************************************************************)
EXTENDS Runner
=============================================================================
