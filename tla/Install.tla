------------------------------- MODULE Install --------------------------------
(***************************************************************************)
(* scope.install: installers that merge Scope's hooks into a hook file of  *)
(* the user or of a project, or write the companion skill, while the user  *)
(* edits the same files.                                                   *)
(*                                                                         *)
(* A content of a file is a function from events to sequences of groups.   *)
(* Of a group only its kind counts: one that install generates, another    *)
(* that mentions Scope ("edited"), or one of the user.  The skill is a     *)
(* content with the one event "skill".  TOML layers, paths, quoting and    *)
(* what makes a directory or a file unacceptable are left out.             *)
(***************************************************************************)
EXTENDS Sequences, Naturals, FiniteSets

CONSTANTS
  Installers,
  Layers,       (* The hook files: each is visible to every installer.     *)
  Skill,        (* The file of the skill.                                  *)
  TargetOf,     (* The file of each installer ...                          *)
  ModeOf,       (* ... and "normal" or "abstain" (not used for the skill). *)
  DryRuns,      (* Installers with --dry-run.                              *)
  Scenarios,    (* Bound: the sets of installers that run at once.         *)
  Contents,     (* What the hook files may hold at first,                  *)
  Skills,       (* and what the skill may be.                              *)
  None,         (* No installer.                                           *)
  MaxEdits,     (* Bound: how often the user saves a file.                 *)
  MayDie,       (* Bound: the installers that may be killed.               *)
  MayFail       (* Bound: whether writing may fail.                        *)

Files == Layers \cup {Skill}
Missing == [missing |-> <<>>]   (* What a file holds that is not there. *)

IsSequence(s) == s \in Seq({s[k] : k \in DOMAIN s})
IsContent(c) == \A e \in DOMAIN c : IsSequence(c[e])

ASSUME InstallAssumption ==
  /\ Skill \notin Layers
  /\ TargetOf \in [Installers -> Files]
  /\ ModeOf \in [Installers -> {"normal", "abstain"}]
  /\ DryRuns \subseteq Installers /\ Scenarios \subseteq SUBSET Installers
  /\ MayDie \subseteq Installers
  /\ MaxEdits \in Nat /\ MayFail \in BOOLEAN
  /\ None \notin Installers /\ Missing \notin Contents \cup Skills
  /\ \A c \in Contents \cup Skills : IsContent(c)

VARIABLES
  file,         (* What each file holds.                                   *)
  lock,         (* Who created the lock file beside it.                    *)
  backups,      (* The contents of its .bak- files.                        *)
  pc,           (* Where each installer stands,                            *)
  toCheck,      (* the other layers it has still to read,                  *)
  previous,     (* what it read,                                           *)
  payload,      (* and what it is going to write.                          *)
  edits,        (* How often the user has saved a file.                    *)
  raced         (* History: files saved between comparison and replacement. *)

fileVars == <<file, lock, backups>>
userVars == <<edits, raced>>
vars == <<fileVars, pc, toCheck, previous, payload, userVars>>

-----------------------------------------------------------------------------
(* Contents, and what install makes of them.                               *)

Events == {"PermissionRequest", "Stop", "SessionEnd"}
ScopeGroups == {"hook", "passive", "stop", "end", "edited"}
Unreadable == [unreadable |-> <<>>]
PackagedSkill == [skill |-> <<"packaged">>]

(* hook_config: --abstain changes one of the three groups.                 *)
Desired(mode) ==
  [PermissionRequest |-> IF mode = "abstain" THEN "passive" ELSE "hook",
   Stop |-> "stop", SessionEnd |-> "end"]

Generated(e) == {Desired(mode)[e] : mode \in {"normal", "abstain"}}

Found(groups) == {k \in DOMAIN groups : groups[k] \in ScopeGroups}
ContainsScope(c) == \E e \in DOMAIN c : Found(c[e]) # {}

(* _decode: a missing file is an empty object.                             *)
Decoded(c) == IF c = Missing THEN <<>> ELSE c
GroupsOf(c, e) == IF e \in DOMAIN c THEN c[e] ELSE <<>>

(* _merge, which refuses groups of Scope that it did not generate, ...     *)
NeedsMigration(c) ==
  \E e \in DOMAIN c :
    /\ Found(c[e]) # {}
    /\ \/ e \notin Events
       \/ Cardinality(Found(c[e])) # 1
       \/ \E k \in Found(c[e]) : c[e][k] \notin Generated(e)

(* A mutant of MergedGroups: the group is always added.                    *)
MutMergedGroupsAppends(groups, group) == Append(groups, group)

(* ... replaces its own group where it stands and adds the missing ones.   *)
MergedGroups(groups, group) ==
  IF Found(groups) = {} THEN Append(groups, group)
  ELSE [k \in DOMAIN groups |-> IF k \in Found(groups) THEN group ELSE groups[k]]

Merge(c, mode) ==
  [e \in DOMAIN c \cup Events |->
     IF e \in Events THEN MergedGroups(GroupsOf(c, e), Desired(mode)[e]) ELSE c[e]]

ForSkill(i) == TargetOf[i] = Skill

(* prepare, of install_skill and of install_hooks.                         *)
Refuses(i, c) ==
  IF ForSkill(i) THEN c \notin {Missing, PackagedSkill}
  ELSE c = Unreadable \/ NeedsMigration(Decoded(c))

Payload(i, c) == IF ForSkill(i) THEN PackagedSkill ELSE Merge(Decoded(c), ModeOf[i])

(* _config_layers: all hook files but the target.                          *)
OtherLayers(i) == IF ForSkill(i) THEN {} ELSE Layers \ {TargetOf[i]}

-----------------------------------------------------------------------------
Init ==
  /\ file \in [Files -> Contents \cup Skills \cup {Missing}]
  /\ \A f \in Layers : file[f] \in Contents \cup {Missing}
  /\ file[Skill] \in Skills \cup {Missing}
  /\ lock = [f \in Files |-> None]
  /\ backups = [f \in Files |-> {}]
  /\ \E S \in Scenarios : pc = [i \in Installers |-> IF i \in S THEN "idle" ELSE "done"]
  /\ toCheck = [i \in Installers |-> {}]
  /\ previous = [i \in Installers |-> Missing]
  /\ payload = [i \in Installers |-> Missing]
  /\ edits = 0 /\ raced = {}

At(i, stage) == pc[i] = stage
Goes(i, stage) == pc' = [pc EXCEPT ![i] = stage]

(* install_hooks or install_skill: the first prepare, without the lock.    *)
Start(i) ==
  /\ At(i, "idle")
  /\ Goes(i, "check")
  /\ toCheck' = [toCheck EXCEPT ![i] = OtherLayers(i)]
  /\ UNCHANGED <<fileVars, previous, payload, userVars>>

(* prepare raises: outside the lock, or inside.                            *)
Abort(i) == Goes(i, IF At(i, "check") THEN "refused" ELSE "raise")

(* _check_other_layers, one file after the other.                          *)
CheckLayer(i) ==
  /\ pc[i] \in {"check", "recheck"}
  /\ \E f \in toCheck[i] :
       LET bad == file[f] # Missing /\ (file[f] = Unreadable \/ ContainsScope(file[f]))
       IN  \/ bad /\ Abort(i) /\ toCheck' = [toCheck EXCEPT ![i] = {}]
           \/ ~bad /\ UNCHANGED pc /\ toCheck' = [toCheck EXCEPT ![i] = @ \ {f}]
  /\ UNCHANGED <<fileVars, previous, payload, userVars>>

(* The target is read and merged; the second time under the lock.          *)
ReadTarget(i) ==
  /\ pc[i] \in {"check", "recheck"} /\ toCheck[i] = {}
  /\ LET c == file[TargetOf[i]]
         same == c # Missing /\ Payload(i, c) = c
     IN  IF Refuses(i, c) THEN Abort(i) /\ UNCHANGED <<previous, payload>>
         ELSE /\ previous' = [previous EXCEPT ![i] = c]
              /\ payload' = [payload EXCEPT ![i] = Payload(i, c)]
              /\ IF At(i, "check") THEN Goes(i, IF same \/ i \in DryRuns THEN "done" ELSE "lock")
                 ELSE Goes(i, IF same THEN "unlock" ELSE "compare")
  /\ UNCHANGED <<fileVars, toCheck, userVars>>

(* A mutant of TakeLock: O_CREAT without O_EXCL.                           *)
MutTakeLockShared(i) ==
  /\ At(i, "lock")
  /\ lock' = [lock EXCEPT ![TargetOf[i]] = i]
  /\ toCheck' = [toCheck EXCEPT ![i] = OtherLayers(i)]
  /\ Goes(i, "recheck")
  /\ UNCHANGED <<file, backups, previous, payload, userVars>>

(* _write_lock: O_CREAT with O_EXCL; a file left by a dead installer       *)
(* refuses all others.                                                     *)
TakeLock(i) ==
  /\ At(i, "lock")
  /\ \/ /\ lock[TargetOf[i]] = None
        /\ lock' = [lock EXCEPT ![TargetOf[i]] = i]
        /\ toCheck' = [toCheck EXCEPT ![i] = OtherLayers(i)]
        /\ Goes(i, "recheck")
     \/ /\ lock[TargetOf[i]] # None
        /\ Goes(i, "refused")
        /\ UNCHANGED <<lock, toCheck>>
  /\ UNCHANGED <<file, backups, previous, payload, userVars>>

-----------------------------------------------------------------------------
(* _replace, under the lock.                                               *)

(* install_skill expects no file, whatever it read.                        *)
Expected(i) == IF ForSkill(i) THEN Missing ELSE previous[i]

Compare(i) ==
  /\ At(i, "compare")
  /\ Goes(i, IF file[TargetOf[i]] # Expected(i) THEN "raise"
             ELSE IF Expected(i) = Missing THEN "replace" ELSE "backup")
  /\ UNCHANGED <<fileVars, toCheck, previous, payload, userVars>>

BackUp(i) ==
  /\ At(i, "backup")
  /\ \/ backups' = [backups EXCEPT ![TargetOf[i]] = @ \cup {previous[i]}] /\ Goes(i, "replace")
     \/ MayFail /\ Goes(i, "raise") /\ UNCHANGED backups
  /\ UNCHANGED <<file, lock, toCheck, previous, payload, userVars>>

Replace(i) ==
  /\ At(i, "replace")
  /\ \/ file' = [file EXCEPT ![TargetOf[i]] = payload[i]] /\ Goes(i, "unlock")
     \/ MayFail /\ Goes(i, "raise") /\ UNCHANGED file
  /\ UNCHANGED <<lock, backups, toCheck, previous, payload, userVars>>

(* A mutant of Unlock: the lock is not removed when a step raised.         *)
MutUnlockOnSuccess(i) ==
  /\ pc[i] \in {"unlock", "raise"}
  /\ lock' = [lock EXCEPT ![TargetOf[i]] = IF At(i, "unlock") THEN None ELSE @]
  /\ Goes(i, IF At(i, "unlock") THEN "done" ELSE "refused")
  /\ UNCHANGED <<file, backups, toCheck, previous, payload, userVars>>

(* The finally of _write_lock.                                             *)
Unlock(i) ==
  /\ pc[i] \in {"unlock", "raise"}
  /\ lock' = [lock EXCEPT ![TargetOf[i]] = None]
  /\ Goes(i, IF At(i, "unlock") THEN "done" ELSE "refused")
  /\ UNCHANGED <<file, backups, toCheck, previous, payload, userVars>>

-----------------------------------------------------------------------------
(* What happens around the installers.                                     *)

Killed(i) ==
  /\ i \in MayDie /\ pc[i] \notin {"idle", "done", "refused", "died"}
  /\ Goes(i, "died")
  /\ UNCHANGED <<fileVars, toCheck, previous, payload, userVars>>

(* "inspect a stale lock before retrying": the user removes the lock of a  *)
(* dead installer, by hand.                                                *)
UserUnlocks ==
  /\ \E f \in Files :
       /\ lock[f] # None /\ pc[lock[f]] = "died"
       /\ lock' = [lock EXCEPT ![f] = None]
  /\ UNCHANGED <<file, backups, pc, toCheck, previous, payload, userVars>>

(* The user adds a hook, or edits the skill, in an editor that replaces    *)
(* the file.                                                               *)
Edited(f, c) ==
  IF f = Skill THEN [skill |-> <<"edited">>]
  ELSE [e \in DOMAIN c \cup {"Stop"} |->
          IF e = "Stop" THEN Append(GroupsOf(c, e), "added") ELSE c[e]]

UserSaves ==
  /\ edits < MaxEdits
  /\ \E f \in Files :
       /\ file[f] # Unreadable
       /\ file' = [file EXCEPT ![f] = Edited(f, Decoded(file[f]))]
       /\ raced' = IF \E i \in Installers : TargetOf[i] = f /\ pc[i] \in {"backup", "replace"}
                   THEN raced \cup {f} ELSE raced
  /\ edits' = edits + 1
  /\ UNCHANGED <<lock, backups, pc, toCheck, previous, payload>>

InstallerStep(i) ==
  \/ Start(i) \/ CheckLayer(i) \/ ReadTarget(i) \/ TakeLock(i)
  \/ Compare(i) \/ BackUp(i) \/ Replace(i) \/ Unlock(i)

Over == (\A i \in Installers : pc[i] \in {"done", "refused", "died"}) /\ UNCHANGED vars

Next ==
  \/ \E i \in Installers : InstallerStep(i) \/ Killed(i)
  \/ UserUnlocks \/ UserSaves \/ Over

Spec == Init /\ [][Next]_vars

-----------------------------------------------------------------------------
Locked == {"recheck", "compare", "backup", "replace", "unlock", "raise"}

(* Types, and the lock: an installer past TakeLock has created the lock    *)
(* file of its target and no other can, and one that has returned, after   *)
(* whichever failure, has removed it; only one that died may have left it. *)
TypeOK ==
  /\ pc \in [Installers -> {"idle", "check", "lock", "done", "refused", "died"} \cup Locked]
  /\ lock \in [Files -> Installers \cup {None}]
  /\ toCheck \in [Installers -> SUBSET Layers]
  /\ \A i \in Installers : pc[i] \in Locked => lock[TargetOf[i]] = i
  /\ \A f \in Files :
       lock[f] # None => TargetOf[lock[f]] = f /\ pc[lock[f]] \in Locked \cup {"died"}

InstallerWrites(f) == file'[f] # file[f] /\ edits' = edits

(* "Preserve exact prior bytes and replace atomically in the same          *)
(* directory": what an installer overwrites is in a backup, unless the     *)
(* user saved the file between its last comparison and its replacement.    *)
PriorBytesKeptUnlessRaced ==
  [][\A f \in Files :
       InstallerWrites(f) /\ f \notin raced /\ file[f] # Missing => file[f] \in backups[f]]_vars

(* The groups that are not Scope's, each at its place.                     *)
Unrelated(c, e) ==
  LET groups == GroupsOf(Decoded(c), e)
  IN  [k \in DOMAIN groups \ Found(groups) |-> groups[k]]

(* "hooks are preserved [...] ambiguous Scope duplicates require explicit  *)
(* migration": whatever a hook file held and whoever else installs, an     *)
(* installer leaves the other groups of each event where they stand, and   *)
(* exactly one group of Scope in each of the three events.                 *)
OtherHooksKept ==
  [][\A f \in Layers : InstallerWrites(f) /\ f \notin raced =>
       /\ \A e \in DOMAIN file'[f] \cup DOMAIN Decoded(file[f]) :
            Unrelated(file'[f], e) = Unrelated(file[f], e)
       /\ \A e \in DOMAIN file'[f] :
            Cardinality(Found(file'[f][e])) = IF e \in Events THEN 1 ELSE 0]_vars

-----------------------------------------------------------------------------
(* Facts the proofs rest on.                                               *)

Ranges ==
  /\ file = [f \in Files |-> file[f]] /\ backups = [f \in Files |-> backups[f]]
  /\ previous = [i \in Installers |-> previous[i]] /\ payload = [i \in Installers |-> payload[i]]
  /\ \A f \in Files : IsContent(file[f])
  /\ \A i \in Installers : IsContent(previous[i]) /\ IsContent(payload[i])
  /\ edits \in Nat

(* What an installer is going to write is what prepare made of what it     *)
(* read last.                                                              *)
PayloadIsPrepared ==
  \A i \in Installers :
    pc[i] \in {"compare", "backup", "replace"} =>
      ~Refuses(i, previous[i]) /\ payload[i] = Payload(i, previous[i])

(* The comparison holds until the replacement, if the user stays away: no  *)
(* other installer has this lock.  Then what it overwrites is backed up.   *)
ComparedUnlessRaced ==
  \A i \in Installers :
    /\ pc[i] = "backup" => Expected(i) # Missing
    /\ pc[i] \in {"backup", "replace"} /\ TargetOf[i] \notin raced =>
         file[TargetOf[i]] = Expected(i)
    /\ pc[i] = "replace" /\ Expected(i) # Missing => Expected(i) \in backups[TargetOf[i]]

InstallInv == TypeOK /\ Ranges /\ PayloadIsPrepared /\ ComparedUnlessRaced
=============================================================================
