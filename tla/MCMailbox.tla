------------------------------ MODULE MCMailbox ------------------------------
(***************************************************************************)
(* Small instances of the mailbox: two exchanges, one of which    *)
(* carries a revoke.                                                       *)
(***************************************************************************)
EXTENDS Mailbox

MCTwo == {"p1", "p2"}
=============================================================================
