------------------------------- MODULE MCLaunch -------------------------------
(***************************************************************************)
(* Small instances of a launch: one or two owners, the watcher, the outer  *)
(* launcher and a few hooks of session s1; "other" tries to start session  *)
(* s2 in the same run.                                                     *)
(***************************************************************************)
EXTENDS Launch

MCHooks == {"start", "request", "end", "other"}
MCFewHooks == {"start", "end"}
MCOneHook == {"start"}
MCProcesses == Owners \cup {"watcher", "starter"} \cup Hooks
MCEventOf ==
  [h \in Hooks |-> CASE h = "request" -> "PermissionRequest" [] h = "end" -> "SessionEnd"
                     [] OTHER -> "SessionStart"]
MCSessionOf == [h \in Hooks |-> IF h = "other" THEN "s2" ELSE "s1"]
=============================================================================
