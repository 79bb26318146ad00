--------------------------- MODULE MCCheckWorkflow ---------------------------
(***************************************************************************)
(* Small instances of the debugging workflow: two checks; a check and a    *)
(* checkpoint; one next task and two callers that acknowledge it.          *)
(***************************************************************************)
EXTENDS CheckWorkflow, TLC

MCProcesses == {Starter} \cup Checks \cup Handoffs \cup Receivers \cup Checkpointers
MCScenarios ==
  {{Starter} \cup Checks, {Starter} \cup Handoffs \cup Receivers}
    \cup {{Starter, c} \cup Checkpointers : c \in Checks}
MCSymmetry == Permutations(Checks)
MCHandoffOf == [r \in Receivers |-> CHOOSE h \in Handoffs : TRUE]
MCReceived == [r \in Receivers |-> "larger"]
MCPrinted == [v \in 0..MaxEdits |-> IF v = 0 THEN "one" ELSE "two"]
=============================================================================
