------------------------------ MODULE InstallProofs ------------------------------
(***************************************************************************)
(* Proofs about the installers, for any number of them, any hook files and *)
(* whatever the user saves.                                                *)
(*                                                                         *)
(* The lock alone (TypeOK) is inductive.  That bytes and hooks are kept    *)
(* needs what an installer knows under the lock (InstallInv): its payload  *)
(* was prepared from what it read, and that is what the file holds still.  *)
(***************************************************************************)
EXTENDS Install, FiniteSetTheorems, SequenceTheorems, TLAPS

LEMMA Targets ==
  /\ \A i \in Installers : TargetOf[i] \in Files /\ ModeOf[i] \in {"normal", "abstain"}
  /\ \A i \in Installers : OtherLayers(i) \subseteq Layers
  /\ None \notin Installers /\ Layers \subseteq Files /\ Skill \notin Layers
BY InstallAssumption DEF Files, OtherLayers

-----------------------------------------------------------------------------
(* The lock.                                                               *)

Stages == {"idle", "check", "lock", "done", "refused", "died"} \cup Locked

(* An installer that moves on keeps its lock, and takes none.              *)
LEMMA StageKeepsLock ==
  ASSUME TypeOK, NEW i \in Installers, NEW stage \in Stages, Goes(i, stage),
         UNCHANGED lock, toCheck' \in [Installers -> SUBSET Layers],
         pc[i] \in Locked => stage \in Locked \cup {"died"},
         stage \in Locked => pc[i] \in Locked,
         pc[i] # "died"
  PROVE  TypeOK'
<1>1. pc' \in [Installers -> Stages] /\ pc'[i] = stage
      /\ \A j \in Installers \ {i} : pc'[j] = pc[j]
  BY DEF TypeOK, Goes, Stages
<1>2. ASSUME NEW j \in Installers, pc'[j] \in Locked
      PROVE  lock'[TargetOf[j]] = j
  BY <1>1, <1>2 DEF TypeOK
<1>3. ASSUME NEW f \in Files, lock'[f] # None
      PROVE  TargetOf[lock'[f]] = f /\ pc'[lock'[f]] \in Locked \cup {"died"}
  <2>1. lock[f] \in Installers /\ TargetOf[lock[f]] = f /\ pc[lock[f]] \in Locked \cup {"died"}
    BY <1>3 DEF TypeOK
  <2> QED
    BY <2>1, <1>1
<1> QED
  BY <1>1, <1>2, <1>3 DEF TypeOK, Stages

LEMMA LockKept ==
  ASSUME TypeOK, [Next]_vars
  PROVE  TypeOK'
<1> USE Targets
<1>1. ASSUME NEW i \in Installers, Start(i)
      PROVE  TypeOK'
  <2>1. At(i, "idle") /\ Goes(i, "check") /\ UNCHANGED lock
        /\ toCheck' = [toCheck EXCEPT ![i] = OtherLayers(i)]
    BY <1>1 DEF Start, fileVars
  <2> QED
    BY <2>1, StageKeepsLock DEF TypeOK, At, Stages, Locked
<1>2. ASSUME NEW i \in Installers, CheckLayer(i)
      PROVE  TypeOK'
  <2>1. /\ pc[i] \in {"check", "recheck"} /\ UNCHANGED lock
        /\ Abort(i) \/ UNCHANGED pc
        /\ \E f : toCheck' = [toCheck EXCEPT ![i] = {}] \/ toCheck' = [toCheck EXCEPT ![i] = @ \ {f}]
    BY <1>2 DEF CheckLayer, fileVars
  <2>2. toCheck' \in [Installers -> SUBSET Layers]
    BY <2>1 DEF TypeOK
  <2>3. CASE UNCHANGED pc
    BY <2>1, <2>2, <2>3 DEF TypeOK
  <2>4. CASE Abort(i)
    BY <2>1, <2>2, <2>4, StageKeepsLock DEF Abort, At, Stages, Locked
  <2> QED
    BY <2>1, <2>3, <2>4
<1>3. ASSUME NEW i \in Installers, ReadTarget(i)
      PROVE  TypeOK'
  <2>1. pc[i] \in {"check", "recheck"} /\ UNCHANGED <<lock, toCheck>>
    BY <1>3 DEF ReadTarget, fileVars
  <2>2. \/ Abort(i)
        \/ At(i, "check") /\ (Goes(i, "done") \/ Goes(i, "lock"))
        \/ At(i, "recheck") /\ (Goes(i, "unlock") \/ Goes(i, "compare"))
    <3>1. CASE At(i, "check")
      BY <1>3, <3>1 DEF ReadTarget
    <3>2. CASE At(i, "recheck")
      <4>1. ~At(i, "check")
        BY <3>2 DEF At
      <4> QED
        BY <1>3, <3>2, <4>1 DEF ReadTarget
    <3> QED
      BY <2>1, <3>1, <3>2 DEF At
  <2> QED
    BY <2>1, <2>2, StageKeepsLock DEF Abort, At, Stages, Locked, TypeOK
<1>4. ASSUME NEW i \in Installers, TakeLock(i)
      PROVE  TypeOK'
  <2>1. CASE lock[TargetOf[i]] = None
    BY <1>4, <2>1 DEF TakeLock, TypeOK, At, Goes, Locked
  <2>2. CASE lock[TargetOf[i]] # None
    BY <1>4, <2>2, StageKeepsLock DEF TakeLock, TypeOK, At, Stages, Locked
  <2> QED
    BY <2>1, <2>2
<1>5. ASSUME NEW i \in Installers, Compare(i) \/ BackUp(i) \/ Replace(i)
      PROVE  TypeOK'
  <2>1. /\ pc[i] \in Locked /\ UNCHANGED <<lock, toCheck>>
        /\ \E stage \in {"raise", "replace", "backup", "unlock"} : Goes(i, stage)
    BY <1>5 DEF Compare, BackUp, Replace, At, Locked, fileVars
  <2> QED
    BY <2>1, StageKeepsLock DEF TypeOK, Stages, Locked
<1>6. ASSUME NEW i \in Installers, Unlock(i)
      PROVE  TypeOK'
  BY <1>6 DEF Unlock, TypeOK, At, Goes, Locked
<1>7. ASSUME NEW i \in Installers, Killed(i)
      PROVE  TypeOK'
  <2>1. pc[i] # "died" /\ Goes(i, "died") /\ UNCHANGED <<lock, toCheck>>
    BY <1>7 DEF Killed, fileVars
  <2> QED
    BY <2>1, StageKeepsLock DEF TypeOK, Stages, Locked
<1>8. CASE UserUnlocks
  BY <1>8 DEF UserUnlocks, TypeOK, Locked
<1>9. CASE UserSaves \/ UNCHANGED vars
  BY <1>9 DEF UserSaves, vars, fileVars, TypeOK
<1> QED
  BY <1>1, <1>2, <1>3, <1>4, <1>5, <1>6, <1>7, <1>8, <1>9 DEF Next, InstallerStep, Over

(* At any moment one installer at most works on a file, and one that has   *)
(* returned, after whichever failure, left no lock behind (_write_lock).   *)
THEOREM LockIsExclusive == Spec => []TypeOK
<1>1. Init => TypeOK
  BY Targets DEF Init, TypeOK, Locked
<1>2. TypeOK /\ [Next]_vars => TypeOK'
  BY LockKept
<1> QED
  BY <1>1, <1>2, PTL DEF Spec

-----------------------------------------------------------------------------
(* What install makes of a content.                                        *)

LEMMA SequenceHasRange ==
  ASSUME NEW S, NEW s \in Seq(S)
  PROVE  IsSequence(s)
<1> DEFINE R == {s[k] : k \in DOMAIN s}
<1>1. PICK n \in Nat : s \in [1..n -> S]
  BY SeqDef
<1>2. s \in [1..n -> R]
  BY <1>1
<1>3. s \in Seq(R)
  BY <1>2, SeqDef
<1> QED
  BY <1>3 DEF IsSequence

LEMMA Singletons == IsSequence(<<>>) /\ \A x : IsSequence(<<x>>)
<1>1. <<>> \in Seq({})
  OBVIOUS
<1>2. \A x : <<x>> \in Seq({x})
  OBVIOUS
<1> QED
  BY <1>1, <1>2, SequenceHasRange

LEMMA GroupsAreSequences ==
  ASSUME NEW c, IsContent(c), NEW e
  PROVE  IsSequence(GroupsOf(c, e))
BY Singletons DEF GroupsOf, IsContent

LEMMA DecodedIsContent ==
  ASSUME NEW c, IsContent(c)
  PROVE  IsContent(Decoded(c))
<1>1. DOMAIN <<>> = {}
  OBVIOUS
<1> QED
  BY <1>1 DEF Decoded, IsContent

(* Each of the two configurations has a group of Scope for each event.     *)
LEMMA DesiredGroups ==
  ASSUME NEW mode \in {"normal", "abstain"}, NEW e \in Events
  PROVE  Desired(mode)[e] \in ScopeGroups
<1>1. /\ Desired(mode)["PermissionRequest"] \in {"hook", "passive"}
      /\ Desired(mode)["Stop"] = "stop" /\ Desired(mode)["SessionEnd"] = "end"
  BY DEF Desired
<1>2. Desired(mode)[e] \in {"hook", "passive", "stop", "end"}
  BY <1>1 DEF Events
<1> QED
  BY <1>2 DEF ScopeGroups

LEMMA Appended ==
  ASSUME NEW groups, IsSequence(groups), NEW group
  PROVE  LET merged == Append(groups, group)
         IN  /\ IsSequence(merged)
             /\ Len(groups) \in Nat /\ DOMAIN groups = 1..Len(groups)
             /\ DOMAIN merged = DOMAIN groups \cup {Len(groups) + 1}
             /\ Len(groups) + 1 \notin DOMAIN groups
             /\ merged[Len(groups) + 1] = group
             /\ \A k \in DOMAIN groups : merged[k] = groups[k]
<1> DEFINE S == {groups[k] : k \in DOMAIN groups} \cup {group}
<1>1. groups \in Seq(S) /\ group \in S
  BY SeqMonotonic DEF IsSequence
<1> HIDE DEF S
<1>2. /\ Append(groups, group) \in Seq(S)
      /\ Len(Append(groups, group)) = Len(groups) + 1
      /\ \A k \in 1..Len(groups) : Append(groups, group)[k] = groups[k]
      /\ Append(groups, group)[Len(groups) + 1] = group
  BY <1>1, AppendProperties
<1>3. /\ Len(groups) \in Nat /\ DOMAIN groups = 1..Len(groups)
      /\ DOMAIN Append(groups, group) = 1..(Len(groups) + 1)
  BY <1>1, <1>2
<1>4. 1..(Len(groups) + 1) = 1..Len(groups) \cup {Len(groups) + 1}
      /\ Len(groups) + 1 \notin 1..Len(groups)
  BY <1>3
<1> QED
  BY <1>2, <1>3, <1>4, SequenceHasRange

LEMMA Replaced ==
  ASSUME NEW groups, IsSequence(groups), NEW group
  PROVE  IsSequence([k \in DOMAIN groups |-> IF k \in Found(groups) THEN group ELSE groups[k]])
<1> DEFINE S == {groups[k] : k \in DOMAIN groups} \cup {group}
           merged == [k \in DOMAIN groups |-> IF k \in Found(groups) THEN group ELSE groups[k]]
<1>1. PICK n \in Nat : groups \in [1..n -> {groups[k] : k \in DOMAIN groups}]
  BY SeqDef DEF IsSequence
<1>2. merged \in [1..n -> S]
  BY <1>1
<1>3. merged \in Seq(S)
  BY <1>2, SeqDef
<1> QED
  BY <1>3, SequenceHasRange

LEMMA MergedIsSequence ==
  ASSUME NEW groups, IsSequence(groups), NEW group
  PROVE  IsSequence(MergedGroups(groups, group))
BY Appended, Replaced DEF MergedGroups

LEMMA PayloadIsContent ==
  ASSUME NEW i \in Installers, NEW c, IsContent(c)
  PROVE  IsContent(Payload(i, c))
<1>1. CASE ForSkill(i)
  <2>1. DOMAIN PackagedSkill = {"skill"} /\ PackagedSkill["skill"] = <<"packaged">>
    BY DEF PackagedSkill
  <2> QED
    BY <1>1, <2>1, Singletons DEF Payload, IsContent
<1>2. CASE ~ForSkill(i)
  <2> DEFINE d == Decoded(c)
             m == ModeOf[i]
  <2>1. IsContent(d)
    BY DecodedIsContent
  <2> HIDE DEF d, m
  <2>2. ASSUME NEW e \in DOMAIN Merge(d, m)
        PROVE  IsSequence(Merge(d, m)[e])
    <3>1. CASE e \in Events
      <4>1. Merge(d, m)[e] = MergedGroups(GroupsOf(d, e), Desired(m)[e])
        BY <3>1 DEF Merge
      <4> QED
        BY <2>1, <4>1, GroupsAreSequences, MergedIsSequence
    <3>2. CASE e \notin Events
      BY <2>1, <2>2, <3>2 DEF Merge, IsContent
    <3> QED
      BY <3>1, <3>2
  <2> QED
    BY <1>2, <2>2 DEF Payload, IsContent, d, m
<1> QED
  BY <1>1, <1>2

(* What merging makes of the groups of one event, if there is one group of *)
(* Scope among them at most: the others stay, one of Scope is there.       *)
LEMMA MergeKeepsOthers ==
  ASSUME NEW groups, IsSequence(groups), NEW group, group \in ScopeGroups,
         Found(groups) # {} => Cardinality(Found(groups)) = 1
  PROVE  LET merged == MergedGroups(groups, group)
         IN  /\ [k \in DOMAIN merged \ Found(merged) |-> merged[k]]
                  = [k \in DOMAIN groups \ Found(groups) |-> groups[k]]
             /\ Cardinality(Found(merged)) = 1
<1> DEFINE merged == MergedGroups(groups, group)
<1>1. CASE Found(groups) = {}
  <2> DEFINE last == Len(groups) + 1
  <2>1. merged = Append(groups, group)
    BY <1>1 DEF MergedGroups
  <2>2. /\ DOMAIN merged = DOMAIN groups \cup {last} /\ last \notin DOMAIN groups
        /\ merged[last] = group
        /\ \A k \in DOMAIN groups : merged[k] = groups[k]
    BY <2>1, Appended
  <2> HIDE DEF merged, last
  <2>3. Found(merged) = {last}
    BY <1>1, <2>2 DEF Found
  <2>4. DOMAIN merged \ Found(merged) = DOMAIN groups \ Found(groups)
    BY <1>1, <2>2, <2>3
  <2>5. Cardinality(Found(merged)) = 1
    BY <2>3, FS_Singleton
  <2> QED
    BY <1>1, <2>2, <2>4, <2>5 DEF merged
<1>2. CASE Found(groups) # {}
  <2>1. merged = [k \in DOMAIN groups |-> IF k \in Found(groups) THEN group ELSE groups[k]]
    BY <1>2 DEF MergedGroups
  <2> HIDE DEF merged
  <2>2. Found(merged) = Found(groups)
    BY <2>1 DEF Found
  <2>3. \A k \in DOMAIN groups \ Found(groups) : merged[k] = groups[k]
    BY <2>1
  <2>4. DOMAIN merged = DOMAIN groups
    BY <2>1
  <2> QED
    BY <1>2, <2>2, <2>3, <2>4 DEF merged
<1> QED
  BY <1>1, <1>2

-----------------------------------------------------------------------------
(* What an installer knows under the lock.                                 *)

Working == {"compare", "backup", "replace"}

(* Two installers past TakeLock have different files.                      *)
LEMMA OneWorks ==
  ASSUME TypeOK, NEW i \in Installers, NEW j \in Installers, i # j,
         pc[i] \in Locked, pc[j] \in Locked
  PROVE  TargetOf[i] # TargetOf[j]
BY DEF TypeOK

(* How the stage of an installer moves, and of nobody else.                *)
LEMMA StageMoves ==
  ASSUME TypeOK, NEW i \in Installers, NEW stage, Goes(i, stage)
  PROVE  pc'[i] = stage /\ \A j \in Installers \ {i} : pc'[j] = pc[j]
BY DEF TypeOK, Goes

LEMMA UserSavesContent ==
  ASSUME NEW f \in Files, NEW c, IsContent(c)
  PROVE  IsContent(Edited(f, c))
<1>1. CASE f = Skill
  <2> DEFINE s == [skill |-> <<"edited">>]
  <2>1. DOMAIN s = {"skill"} /\ s["skill"] = <<"edited">>
    OBVIOUS
  <2>2. Edited(f, c) = s
    BY <1>1 DEF Edited
  <2> HIDE DEF s
  <2> QED
    BY <2>1, <2>2, Singletons DEF IsContent
<1>2. CASE f # Skill
  <2> DEFINE saved == Edited(f, c)
  <2>1. saved = [e \in DOMAIN c \cup {"Stop"} |->
                   IF e = "Stop" THEN Append(GroupsOf(c, e), "added") ELSE c[e]]
    BY <1>2 DEF Edited
  <2>2. IsSequence(Append(GroupsOf(c, "Stop"), "added"))
    BY GroupsAreSequences, Appended
  <2> HIDE DEF saved
  <2>3. saved["Stop"] = Append(GroupsOf(c, "Stop"), "added")
    BY <2>1
  <2>4. \A e \in DOMAIN saved \ {"Stop"} : e \in DOMAIN c /\ saved[e] = c[e]
    BY <2>1
  <2> QED
    BY <2>2, <2>3, <2>4 DEF IsContent, saved
<1> QED
  BY <1>1, <1>2

LEMMA RangesKept ==
  ASSUME TypeOK, Ranges, [Next]_vars
  PROVE  Ranges'
<1> USE Targets DEF Ranges
<1>1. ASSUME NEW i \in Installers, ReadTarget(i)
      PROVE  Ranges'
  <2> DEFINE c == file[TargetOf[i]]
  <2>1. IsContent(c) /\ IsContent(Payload(i, c))
    BY PayloadIsContent
  <2>2. \/ UNCHANGED <<previous, payload>>
        \/ /\ previous' = [previous EXCEPT ![i] = c]
           /\ payload' = [payload EXCEPT ![i] = Payload(i, c)]
    BY <1>1 DEF ReadTarget
  <2>3. UNCHANGED <<file, backups, edits>>
    BY <1>1 DEF ReadTarget, fileVars, userVars
  <2> HIDE DEF c
  <2> QED
    BY <2>1, <2>2, <2>3
<1>2. ASSUME NEW i \in Installers, Replace(i)
      PROVE  Ranges'
  BY <1>2 DEF Replace, userVars
<1>3. ASSUME NEW i \in Installers, BackUp(i)
      PROVE  Ranges'
  BY <1>3 DEF BackUp, userVars
<1>4. CASE UserSaves
  <2>1. PICK f \in Files : file' = [file EXCEPT ![f] = Edited(f, Decoded(file[f]))]
    BY <1>4 DEF UserSaves
  <2>2. IsContent(Edited(f, Decoded(file[f])))
    BY DecodedIsContent, UserSavesContent
  <2>3. edits' = edits + 1 /\ UNCHANGED <<backups, previous, payload>>
    BY <1>4 DEF UserSaves
  <2> QED
    BY <2>1, <2>2, <2>3
<1>5. CASE UNCHANGED <<file, backups, previous, payload, edits>>
  BY <1>5
<1> QED
  BY <1>1, <1>2, <1>3, <1>4, <1>5
     DEF Next, InstallerStep, Over, vars, fileVars, userVars, Start, CheckLayer, TakeLock,
         Compare, Unlock, Killed, UserUnlocks

LEMMA PreparedKept ==
  ASSUME TypeOK, Ranges, PayloadIsPrepared, [Next]_vars
  PROVE  PayloadIsPrepared'
<1>1. ASSUME UNCHANGED <<previous, payload>>,
             \A j \in Installers : pc'[j] \in Working => pc[j] \in Working
      PROVE  PayloadIsPrepared'
  BY <1>1 DEF PayloadIsPrepared, Working, Refuses, Payload, ForSkill
<1>2. ASSUME NEW i \in Installers, ReadTarget(i)
      PROVE  PayloadIsPrepared'
  <2> DEFINE c == file[TargetOf[i]]
  <2>1. CASE Refuses(i, c)
    <3>1. Abort(i) /\ UNCHANGED <<previous, payload>>
      BY <1>2, <2>1 DEF ReadTarget
    <3> QED
      BY <1>1, <3>1, StageMoves DEF Abort, Working
  <2>2. CASE ~Refuses(i, c)
    <3>1. /\ previous' = [previous EXCEPT ![i] = c]
          /\ payload' = [payload EXCEPT ![i] = Payload(i, c)]
          /\ \E stage : Goes(i, stage)
      BY <1>2, <2>2 DEF ReadTarget
    <3>2. previous'[i] = c /\ payload'[i] = Payload(i, c)
      BY <3>1 DEF Ranges
    <3>3. \A j \in Installers \ {i} :
            previous'[j] = previous[j] /\ payload'[j] = payload[j] /\ pc'[j] = pc[j]
      BY <3>1, StageMoves DEF Ranges
    <3> HIDE DEF c
    <3> QED
      BY <2>2, <3>2, <3>3 DEF PayloadIsPrepared, Refuses, Payload, ForSkill
  <2> QED
    BY <2>1, <2>2
<1>3. ASSUME NEW i \in Installers, Start(i) \/ CheckLayer(i) \/ TakeLock(i) \/ Unlock(i) \/ Killed(i)
      PROVE  PayloadIsPrepared'
  <2>1. UNCHANGED <<previous, payload>>
    BY <1>3 DEF Start, CheckLayer, TakeLock, Unlock, Killed
  <2>2. UNCHANGED pc \/ \E stage \in Stages \ Working : Goes(i, stage)
    BY <1>3 DEF Start, CheckLayer, TakeLock, Unlock, Killed, Abort, Stages, Working, Locked
  <2> QED
    BY <1>1, <2>1, <2>2, StageMoves
<1>4. ASSUME NEW i \in Installers, Compare(i) \/ BackUp(i) \/ Replace(i)
      PROVE  PayloadIsPrepared'
  <2>1. pc[i] \in Working /\ UNCHANGED <<previous, payload>> /\ \E stage : Goes(i, stage)
    BY <1>4 DEF Compare, BackUp, Replace, At, Working
  <2> QED
    BY <1>1, <2>1, StageMoves
<1>5. CASE UNCHANGED <<pc, previous, payload>>
  BY <1>1, <1>5
<1> QED
  BY <1>2, <1>3, <1>4, <1>5 DEF Next, InstallerStep, Over, vars, UserUnlocks, UserSaves

LEMMA ComparedKept ==
  ASSUME TypeOK, Ranges, ComparedUnlessRaced, [Next]_vars
  PROVE  ComparedUnlessRaced'
<1> DEFINE Holds(i) ==
             /\ pc[i] = "backup" => Expected(i) # Missing
             /\ pc[i] \in {"backup", "replace"} /\ TargetOf[i] \notin raced =>
                  file[TargetOf[i]] = Expected(i)
             /\ pc[i] = "replace" /\ Expected(i) # Missing => Expected(i) \in backups[TargetOf[i]]
<1> USE Targets
<1>1. \A i \in Installers : Holds(i)
  BY DEF ComparedUnlessRaced
<1>2. SUFFICES \A i \in Installers : Holds(i)'
  BY DEF ComparedUnlessRaced
<1>3. ASSUME NEW j \in Installers, pc'[j] \in {"backup", "replace"} => pc'[j] = pc[j],
             previous'[j] = previous[j], UNCHANGED <<file, backups, raced>>
      PROVE  Holds(j)'
  BY <1>1, <1>3 DEF Expected, ForSkill
<1>4. ASSUME NEW i \in Installers,
             Start(i) \/ CheckLayer(i) \/ TakeLock(i) \/ Unlock(i) \/ Killed(i)
      PROVE  \A j \in Installers : Holds(j)'
  <2>1. UNCHANGED <<previous, file, backups, raced>>
    BY <1>4 DEF Start, CheckLayer, TakeLock, Unlock, Killed, fileVars, userVars
  <2>2. UNCHANGED pc \/ \E stage \in Stages \ Working : Goes(i, stage)
    BY <1>4 DEF Start, CheckLayer, TakeLock, Unlock, Killed, Abort, Stages, Working, Locked
  <2>3. \A j \in Installers : pc'[j] \in {"backup", "replace"} => pc'[j] = pc[j]
    BY <2>2, StageMoves DEF Working
  <2> QED
    BY <1>3, <2>1, <2>3
<1>5. ASSUME NEW i \in Installers, ReadTarget(i)
      PROVE  \A j \in Installers : Holds(j)'
  <2>1. /\ UNCHANGED <<file, backups, raced>>
        /\ \A j \in Installers \ {i} : previous'[j] = previous[j]
    BY <1>5 DEF ReadTarget, fileVars, userVars, Ranges
  <2>2. \E stage \in {"refused", "raise", "done", "lock", "unlock", "compare"} : Goes(i, stage)
    BY <1>5 DEF ReadTarget, Abort
  <2>3. pc'[i] \notin {"backup", "replace"} /\ \A j \in Installers \ {i} : pc'[j] = pc[j]
    BY <2>2, StageMoves
  <2>4. Holds(i)'
    BY <2>3
  <2> QED
    BY <1>3, <2>1, <2>3, <2>4
<1>6. ASSUME NEW i \in Installers, Compare(i)
      PROVE  \A j \in Installers : Holds(j)'
  <2>1. UNCHANGED <<file, backups, raced, previous>>
    BY <1>6 DEF Compare, fileVars, userVars
  <2>2. \E stage : Goes(i, stage)
    BY <1>6 DEF Compare
  <2>3. \A j \in Installers \ {i} : pc'[j] = pc[j]
    BY <2>2, StageMoves
  <2>4. Holds(i)'
    <3>1. CASE file[TargetOf[i]] # Expected(i)
      BY <1>6, <3>1, StageMoves DEF Compare
    <3>2. CASE file[TargetOf[i]] = Expected(i) /\ Expected(i) = Missing
      BY <1>6, <2>1, <3>2, StageMoves DEF Compare, Expected, ForSkill, Missing
    <3>3. CASE file[TargetOf[i]] = Expected(i) /\ Expected(i) # Missing
      BY <1>6, <2>1, <3>3, StageMoves DEF Compare, Expected, ForSkill, Missing
    <3> QED
      BY <3>1, <3>2, <3>3
  <2> QED
    BY <1>3, <2>1, <2>3, <2>4
<1>7. ASSUME NEW i \in Installers, BackUp(i)
      PROVE  \A j \in Installers : Holds(j)'
  <2>1. UNCHANGED <<file, raced, previous>> /\ pc[i] = "backup"
    BY <1>7 DEF BackUp, userVars, At
  <2>2. \/ backups' = [backups EXCEPT ![TargetOf[i]] = @ \cup {previous[i]}] /\ Goes(i, "replace")
        \/ UNCHANGED backups /\ Goes(i, "raise")
    BY <1>7 DEF BackUp
  <2>3. \A f \in Files : backups[f] \subseteq backups'[f]
    BY <2>2 DEF Ranges
  <2>4. \A j \in Installers \ {i} : pc'[j] = pc[j]
    BY <2>2, StageMoves
  <2>5. ASSUME NEW j \in Installers \ {i}
        PROVE  Holds(j)'
    BY <1>1, <2>1, <2>3, <2>4 DEF Expected, ForSkill
  <2>6. Holds(i)'
    <3>1. CASE UNCHANGED backups /\ Goes(i, "raise")
      BY <3>1, StageMoves
    <3>2. CASE backups' = [backups EXCEPT ![TargetOf[i]] = @ \cup {previous[i]}]
               /\ Goes(i, "replace")
      <4>1. Expected(i) = previous[i] /\ Expected(i)' = Expected(i)
        BY <1>1, <2>1 DEF Expected, ForSkill
      <4>2. pc'[i] = "replace" /\ previous[i] \in backups'[TargetOf[i]]
        BY <3>2, StageMoves DEF Ranges
      <4> QED
        BY <1>1, <2>1, <4>1, <4>2
    <3> QED
      BY <2>2, <3>1, <3>2
  <2> QED
    BY <2>5, <2>6
<1>8. ASSUME NEW i \in Installers, Replace(i)
      PROVE  \A j \in Installers : Holds(j)'
  <2>1. UNCHANGED <<backups, raced, previous>> /\ pc[i] = "replace"
        /\ \A f \in Files \ {TargetOf[i]} : file'[f] = file[f]
    BY <1>8 DEF Replace, userVars, At, Ranges
  <2>2. Goes(i, "unlock") \/ Goes(i, "raise")
    BY <1>8 DEF Replace
  <2>3. pc'[i] \notin {"backup", "replace"} /\ \A j \in Installers \ {i} : pc'[j] = pc[j]
    BY <2>2, StageMoves
  <2>4. ASSUME NEW j \in Installers \ {i}
        PROVE  Holds(j)'
    <3>1. CASE pc[j] \in {"backup", "replace"}
      <4>1. TargetOf[j] # TargetOf[i]
        BY <2>1, <3>1, OneWorks DEF Locked
      <4>2. file'[TargetOf[j]] = file[TargetOf[j]]
        BY <2>1, <4>1
      <4> QED
        BY <1>1, <2>1, <2>3, <4>2 DEF Expected, ForSkill
    <3>2. CASE pc[j] \notin {"backup", "replace"}
      BY <2>3, <3>2
    <3> QED
      BY <3>1, <3>2
  <2> QED
    BY <2>3, <2>4
<1>9. CASE UserSaves
  <2>1. PICK f \in Files :
          /\ file' = [file EXCEPT ![f] = Edited(f, Decoded(file[f]))]
          /\ raced' = IF \E i \in Installers : TargetOf[i] = f /\ pc[i] \in {"backup", "replace"}
                      THEN raced \cup {f} ELSE raced
    BY <1>9 DEF UserSaves
  <2>2. UNCHANGED <<backups, pc, previous>>
    BY <1>9 DEF UserSaves
  <2>3. ASSUME NEW j \in Installers
        PROVE  Holds(j)'
    <3>1. CASE TargetOf[j] = f
      BY <1>1, <2>1, <2>2, <3>1 DEF Expected, ForSkill
    <3>2. CASE TargetOf[j] # f
      <4>1. file'[TargetOf[j]] = file[TargetOf[j]] /\ (TargetOf[j] \notin raced' => TargetOf[j] \notin raced)
        BY <2>1, <3>2 DEF Ranges
      <4> QED
        BY <1>1, <2>2, <4>1 DEF Expected, ForSkill
    <3> QED
      BY <3>1, <3>2
  <2> QED
    BY <2>3
<1>10. CASE UNCHANGED <<file, backups, pc, previous, raced>>
  BY <1>3, <1>10
<1> QED
  BY <1>4, <1>5, <1>6, <1>7, <1>8, <1>9, <1>10
     DEF Next, InstallerStep, Over, vars, fileVars, userVars, UserUnlocks


(* What every installer knows holds in every state (_write_lock, _replace  *)
(* and the second prepare of install_hooks and install_skill).             *)
THEOREM InstallersKnow == Spec => []InstallInv
<1>1. Init => InstallInv
  <2> SUFFICES ASSUME Init
               PROVE  InstallInv
    OBVIOUS
  <2>1. TypeOK
    BY Targets DEF Init, TypeOK, Locked
  <2>2. IsContent(Missing)
    <3>1. DOMAIN Missing = {"missing"} /\ Missing["missing"] = <<>>
      BY DEF Missing
    <3> QED
      BY <3>1, Singletons DEF IsContent
  <2>3. Ranges
    <3>1. \A f \in Files : IsContent(file[f])
      BY <2>2, InstallAssumption DEF Init
    <3> QED
      BY <2>2, <3>1 DEF Init, Ranges
  <2>4. \A i \in Installers : pc[i] \notin Working
    BY DEF Init, Working
  <2> QED
    BY <2>1, <2>3, <2>4 DEF InstallInv, PayloadIsPrepared, ComparedUnlessRaced, Working
<1>2. InstallInv /\ [Next]_vars => InstallInv'
  BY LockKept, RangesKept, PreparedKept, ComparedKept DEF InstallInv
<1> QED
  BY <1>1, <1>2, PTL DEF Spec

-----------------------------------------------------------------------------
(* What an installer writes.                                               *)

(* A file that changes while the user saves nothing is being replaced.     *)
LEMMA WritesReplace ==
  ASSUME InstallInv, [Next]_vars, NEW f \in Files, InstallerWrites(f)
  PROVE  \E i \in Installers :
           pc[i] = "replace" /\ TargetOf[i] = f /\ file'[f] = payload[i]
<1>1. file'[f] # file[f] /\ edits' = edits /\ edits \in Nat
  BY DEF InstallerWrites, InstallInv, Ranges
<1>2. ~UserSaves
  BY <1>1 DEF UserSaves
<1>3. PICK i \in Installers : Replace(i)
  BY <1>1, <1>2 DEF Next, InstallerStep, Over, vars, fileVars, UserUnlocks, Start, CheckLayer,
                    ReadTarget, TakeLock, Compare, BackUp, Unlock, Killed
<1>4. file' = [file EXCEPT ![TargetOf[i]] = payload[i]]
  BY <1>1, <1>3 DEF Replace
<1> QED
  BY <1>1, <1>3, <1>4 DEF InstallInv, Ranges, Replace, At

(* Preserve exact prior bytes: the bytes an installer overwrites are in a  *)
(* backup, unless the user saved the file after the comparison (_replace). *)
THEOREM PriorBytesAreKept == Spec => PriorBytesKeptUnlessRaced
<1>1. ASSUME InstallInv, [Next]_vars, NEW f \in Files,
             InstallerWrites(f), f \notin raced, file[f] # Missing
      PROVE  file[f] \in backups[f]
  <2>1. PICK i \in Installers : pc[i] = "replace" /\ TargetOf[i] = f
    BY <1>1, WritesReplace
  <2> QED
    BY <1>1, <2>1 DEF InstallInv, ComparedUnlessRaced
<1>2. InstallInv /\ [Next]_vars =>
        [\A f \in Files :
           InstallerWrites(f) /\ f \notin raced /\ file[f] # Missing => file[f] \in backups[f]]_vars
  BY <1>1
<1> QED
  BY <1>2, InstallersKnow, PTL DEF Spec, PriorBytesKeptUnlessRaced

(* Merging into a content that needs no migration.                         *)
LEMMA MergedHooks ==
  ASSUME NEW c, IsContent(c), ~NeedsMigration(Decoded(c)), NEW mode \in {"normal", "abstain"},
         NEW merged, merged = Merge(Decoded(c), mode)
  PROVE  /\ \A e \in DOMAIN merged \cup DOMAIN Decoded(c) : Unrelated(merged, e) = Unrelated(c, e)
         /\ \A e \in DOMAIN merged :
              Cardinality(Found(merged[e])) = IF e \in Events THEN 1 ELSE 0
<1> DEFINE d == Decoded(c)
<1>1. IsContent(d) /\ ~NeedsMigration(d)
  BY DecodedIsContent
<1>2. /\ DOMAIN merged = DOMAIN d \cup Events
      /\ \A e \in Events : merged[e] = MergedGroups(GroupsOf(d, e), Desired(mode)[e])
      /\ \A e \in DOMAIN d \ Events : merged[e] = d[e]
  BY DEF Merge
<1>3. Decoded(merged) = merged
  <2>1. "Stop" \in DOMAIN merged
    BY <1>2 DEF Events
  <2>2. "Stop" \notin DOMAIN Missing
    BY DEF Missing
  <2> QED
    BY <2>1, <2>2 DEF Decoded
<1>4. \A e : GroupsOf(Decoded(c), e) = GroupsOf(d, e)
  OBVIOUS
<1> HIDE DEF d
<1>5. \A e \in DOMAIN merged : GroupsOf(Decoded(merged), e) = merged[e]
  BY <1>3 DEF GroupsOf
<1>6. ASSUME NEW e \in Events
      PROVE  Unrelated(merged, e) = Unrelated(c, e) /\ Cardinality(Found(merged[e])) = 1
  <2> DEFINE groups == GroupsOf(d, e)
             group == Desired(mode)[e]
  <2>1. IsSequence(groups) /\ group \in ScopeGroups
    BY <1>1, GroupsAreSequences, DesiredGroups
  <2>2. Found(groups) # {} => Cardinality(Found(groups)) = 1
    <3>1. CASE e \in DOMAIN d
      BY <1>1, <3>1 DEF NeedsMigration, GroupsOf
    <3>2. CASE e \notin DOMAIN d
      BY <3>2 DEF GroupsOf, Found
    <3> QED
      BY <3>1, <3>2
  <2>3. merged[e] = MergedGroups(groups, group) /\ e \in DOMAIN merged
    BY <1>2
  <2> HIDE DEF groups, group
  <2>4. /\ [k \in DOMAIN merged[e] \ Found(merged[e]) |-> merged[e][k]]
             = [k \in DOMAIN groups \ Found(groups) |-> groups[k]]
        /\ Cardinality(Found(merged[e])) = 1
    BY <2>1, <2>2, <2>3, MergeKeepsOthers
  <2>5. GroupsOf(Decoded(merged), e) = merged[e] /\ GroupsOf(Decoded(c), e) = groups
    BY <1>4, <1>5, <2>3 DEF groups
  <2> QED
    BY <2>4, <2>5 DEF Unrelated
<1>7. ASSUME NEW e \in DOMAIN d \ Events
      PROVE  Unrelated(merged, e) = Unrelated(c, e) /\ Cardinality(Found(merged[e])) = 0
  <2>1. Found(d[e]) = {} /\ merged[e] = d[e]
    BY <1>1, <1>2 DEF NeedsMigration
  <2>2. GroupsOf(Decoded(merged), e) = d[e] /\ GroupsOf(Decoded(c), e) = d[e]
    BY <1>2, <1>4, <1>5, <2>1 DEF GroupsOf
  <2>3. Cardinality(Found(merged[e])) = 0
    BY <2>1, FS_EmptySet
  <2> QED
    BY <2>2, <2>3 DEF Unrelated
<1> QED
  BY <1>2, <1>6, <1>7 DEF d

(* Hooks are preserved: an installer leaves every group that is not        *)
(* Scope's at its place, and one group of Scope in each of the three       *)
(* events, whatever the file held and whoever else installs (_merge).      *)
THEOREM OtherHooksAreKept == Spec => OtherHooksKept
<1>1. ASSUME InstallInv, [Next]_vars, NEW f \in Layers, InstallerWrites(f), f \notin raced
      PROVE  /\ \A e \in DOMAIN file'[f] \cup DOMAIN Decoded(file[f]) :
                  Unrelated(file'[f], e) = Unrelated(file[f], e)
             /\ \A e \in DOMAIN file'[f] :
                  Cardinality(Found(file'[f][e])) = IF e \in Events THEN 1 ELSE 0
  <2>1. PICK i \in Installers : pc[i] = "replace" /\ TargetOf[i] = f /\ file'[f] = payload[i]
    BY <1>1, Targets, WritesReplace
  <2>2. ~ForSkill(i)
    BY <1>1, <2>1, Targets DEF ForSkill
  <2>3. /\ ~Refuses(i, previous[i]) /\ payload[i] = Payload(i, previous[i])
        /\ file[f] = Expected(i) /\ IsContent(file[f])
    BY <1>1, <2>1, Targets DEF InstallInv, PayloadIsPrepared, ComparedUnlessRaced, Ranges
  <2>4. /\ file[f] = previous[i] /\ ~NeedsMigration(Decoded(file[f]))
        /\ file'[f] = Merge(Decoded(file[f]), ModeOf[i])
    BY <2>1, <2>2, <2>3 DEF Expected, Refuses, Payload
  <2> QED
    BY <2>3, <2>4, Targets, MergedHooks
<1>2. InstallInv /\ [Next]_vars =>
        [\A f \in Layers : InstallerWrites(f) /\ f \notin raced =>
           /\ \A e \in DOMAIN file'[f] \cup DOMAIN Decoded(file[f]) :
                Unrelated(file'[f], e) = Unrelated(file[f], e)
           /\ \A e \in DOMAIN file'[f] :
                Cardinality(Found(file'[f][e])) = IF e \in Events THEN 1 ELSE 0]_vars
  BY <1>1
<1> QED
  BY <1>2, InstallersKnow, PTL DEF Spec, OtherHooksKept
=============================================================================
