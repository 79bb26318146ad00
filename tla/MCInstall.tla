------------------------------- MODULE MCInstall ------------------------------
(***************************************************************************)
(* Small instances of the installers.  The hook files begin empty or with  *)
(* no Scope, each of the two configurations that install generates behind  *)
(* or among hooks of the user, an older one that lacks an event, one that  *)
(* was edited, a duplicate, Scope in an event it does not use, or a file   *)
(* that cannot be decoded.                                                 *)
(***************************************************************************)
EXTENDS Install

MCContents ==
  {[Stop |-> <<"mine">>],
   [PermissionRequest |-> <<"mine", "hook">>, Stop |-> <<"stop">>, SessionEnd |-> <<"end">>],
   [PermissionRequest |-> <<"passive", "mine">>, Stop |-> <<"mine", "stop">>],
   [PermissionRequest |-> <<"edited">>],
   [Stop |-> <<"stop", "stop">>],
   [PreToolUse |-> <<"hook">>],
   Unreadable}
MCSkills == {PackagedSkill, [skill |-> <<"edited">>]}

MCTargetOf ==
  [i \in Installers |-> IF i \in {"skill", "again"} THEN "SKILL.md" ELSE "home"]
MCModeOf == [i \in Installers |-> IF i = "passive" THEN "abstain" ELSE "normal"]
=============================================================================
