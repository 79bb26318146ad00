----------------------------- MODULE CheckWorkflow -----------------------------
(***************************************************************************)
(* scope.learning, scope.experience and the acknowledgement of             *)
(* scope.learning_cli: the debugging evidence of one task.                 *)
(*                                                                         *)
(* A check asks the human to predict what a probe prints, asks for consent *)
(* separately, runs the probe once and compares.  It saves every phase in  *)
(* the project's state, comparing the saved record with the one it knows,  *)
(* and then appends an event to the session's log: two writes, with the    *)
(* human, the probe and other commands between them and no lock held.      *)
(* A chosen next task is a handoff, which native callers acknowledge.      *)
(*                                                                         *)
(* Every command is a process of its own: start, check, next, next         *)
(* --acknowledge, checkpoint.  Any of them may be killed; a lock, a read   *)
(* of the source, a write, a log or a probe may fail; the session may be   *)
(* closed and the cited source edited at any time.  An edit makes a        *)
(* version that was not there before.                                      *)
(*                                                                         *)
(* Abstractions: a source is its version, a check's specification one of   *)
(* two values, a reason is left out, the checkpoints are the newest one.   *)
(* The session is tested in the step that writes.                          *)
(***************************************************************************)
EXTENDS ProjectState, FiniteSets

CONSTANTS
  Starter,      (* The process that starts the task.                       *)
  Checks,       (* Checks, each a process.                                 *)
  Handoffs,     (* Next tasks, each with the process that offers it.       *)
  Receivers,    (* next --acknowledge processes ...                        *)
  HandoffOf,    (* ... the handoff each acknowledges ...                   *)
  Received,     (* ... and the instruction whose digest it gives.          *)
  Checkpointers,
  Instructions,
  Values,       (* What a probe prints and a human predicts.               *)
  Printed,      (* What the probe prints on each version of the source.    *)
  Scenarios,    (* Bound: the sets of commands that are given together.    *)
  MaxEdits,     (* Bound: edits of the cited source.                       *)
  MayDie,       (* Bound: the processes that may be killed.                *)
  MayFail       (* Bound: whether reads, writes, logs and probes may fail. *)

Versions == 0..MaxEdits

ASSUME WorkflowAssumption ==
  /\ Processes = {Starter} \cup Checks \cup Handoffs \cup Receivers \cup Checkpointers
  /\ Starter \notin Checks \cup Handoffs \cup Receivers \cup Checkpointers
  /\ Checks \cap (Handoffs \cup Receivers \cup Checkpointers) = {}
  /\ Handoffs \cap (Receivers \cup Checkpointers) = {}
  /\ Receivers \cap Checkpointers = {}
  /\ MaxEdits \in Nat /\ Printed \in [Versions -> Values]
  /\ HandoffOf \in [Receivers -> Handoffs] /\ Received \in [Receivers -> Instructions]
  /\ Scenarios \subseteq SUBSET Processes /\ MayDie \subseteq Processes /\ MayFail \in BOOLEAN

VARIABLES
  pc,           (* Where each process stands.                              *)
  mine,         (* The record a check last saved.                          *)
  plan,         (* The fields it is about to save.                         *)
  captured,     (* The snapshot start took.                                *)
  chosen,       (* The instruction the human chose for a handoff.          *)
  offered,      (* The handoff a receiver took for delivery ...            *)
  outcome,      (* ... and what came of it.                                *)
  version,      (* The cited source.                                       *)
  open,         (* The native session is registered and open.              *)
  log,          (* The events of the session's log.                        *)
  consented,    (* History: what the human saw when consenting.            *)
  ranOn,        (* History: the version a probe ran on.                    *)
  deliveries    (* History: the receivers a handoff was offered to.        *)

checkVars == <<mine, plan, consented, ranOn>>
handoffVars == <<chosen, offered, outcome, deliveries>>
worldVars == <<version, open>>
vars == <<stateVars, pc, checkVars, captured, handoffVars, worldVars, log>>

Phases ==
  {"prepared", "predicted", "approved", "running", "completed", "skipped", "interrupted"}

(* A saved check, also the fields of a transition: None is not set.        *)
CheckRecords ==
  [phase : Phases, spec : {"asked", "revised"}, refs : Versions,
   prediction : Values \cup {None}, approval : {"yes", "no", None},
   execution : Values \cup {"failed", None},
   observation : {"matched", "mismatched", "not_verified", None}]

HandoffRecords ==
  [instruction : Instructions, status : {"selected", "dispatching", "dispatched", "failed"}]

States ==
  [checks : [Checks -> CheckRecords \cup {None}],
   handoffs : [Handoffs -> HandoffRecords \cup {None}],
   observed : SUBSET Checks, source : Versions]

(* The value standing for "nothing" is none of the others.                 *)
ASSUME WorkflowNone ==
  /\ None \notin Values /\ None \notin Instructions /\ None \notin Versions
  /\ None \notin {"yes", "no", "failed", "matched", "mismatched", "not_verified", "dispatched"}
  /\ None \notin CheckRecords /\ None \notin HandoffRecords /\ None \notin States

Init ==
  /\ StateInit
  /\ \E commands \in Scenarios :
       pc = [p \in Processes |-> IF p \in commands THEN "idle" ELSE "not given"]
  /\ mine = [c \in Checks |-> None] /\ plan = [c \in Checks |-> None]
  /\ captured = None
  /\ chosen = [h \in Handoffs |-> None]
  /\ offered = [r \in Receivers |-> None] /\ outcome = [r \in Receivers |-> None]
  /\ version = 0 /\ open = TRUE /\ log = {}
  /\ consented = [c \in Checks |-> None] /\ ranOn = [c \in Checks |-> None]
  /\ deliveries = [h \in Handoffs |-> {}]

At(p, stage) == pc[p] = stage
Goes(p, stage) == pc' = [pc EXCEPT ![p] = stage]
Ends == {"not given", "done", "deferred", "raised", "died"}

-----------------------------------------------------------------------------
(* Mutants used by PROJECT.json: plausible bugs in the code below.         *)

MutUnchangedAlways(saved, previous) == saved # None
MutUnstartedAnyTime(handoff) == handoff # None
MutRaisedGoesOn == "log"
MutComparedToAnySource(r, execution, current) ==
  IF execution = "failed" THEN "not_verified"
  ELSE IF r.prediction = execution THEN "matched" ELSE "mismatched"
-----------------------------------------------------------------------------
(* storage.update, around every change.                                    *)

EnterLock(p) ==
  /\ At(p, "enter") /\ Lock(p) /\ Goes(p, "inside")
  /\ UNCHANGED <<checkVars, captured, handoffVars, worldVars, log>>

(* An error of the storage or the log ends the command.                    *)
Raised == "raised"

(* The lock stays busy for five seconds.                                   *)
LockBusy(p) ==
  /\ At(p, "enter") /\ ~ProjectLockFree
  /\ Goes(p, Raised)
  /\ UNCHANGED <<stateVars, checkVars, captured, handoffVars, worldVars, log>>

(* update_task: the task exists and the session is still its own.          *)
TaskOpen(s) == s # None /\ open

Refused(p, may) ==
  /\ At(p, "inside") /\ (MayFail \/ ~may)
  /\ Refuse(p) /\ Goes(p, Raised)
  /\ UNCHANGED <<checkVars, captured, handoffVars, worldVars, log>>

(* The file is replaced, and then the sync of its directory may fail.      *)
Saved(p, s, stage) ==
  /\ Write(p, s)
  /\ Goes(p, stage) \/ (MayFail /\ Goes(p, Raised))

(* log.append, which may fail before or after the line is written.         *)
Append(p, event, stage) ==
  \/ log' = log \cup {event} /\ Goes(p, stage)
  \/ MayFail /\ log' \in {log, log \cup {event}} /\ Goes(p, Raised)

(* The version a snapshot holds; None when the file cannot be included.    *)
Snapshots == {version} \cup (IF MayFail THEN {None} ELSE {})

(* evidence_status of references cited at version `refs`: the cited file   *)
(* is in the snapshot, with its hash and its lines.                        *)
EvidenceCurrent(refs, current) == current = refs

-----------------------------------------------------------------------------
(* learning.start and learning.checkpoint.                                 *)

Start ==
  /\ At(Starter, "idle") /\ open
  /\ captured' = version
  /\ Goes(Starter, "enter")
  /\ UNCHANGED <<stateVars, checkVars, handoffVars, worldVars, log>>

NewTask(source) ==
  [checks |-> [c \in Checks |-> None], handoffs |-> [h \in Handoffs |-> None],
   observed |-> {}, source |-> source]

SaveTask ==
  /\ At(Starter, "inside") /\ open
  /\ Saved(Starter, NewTask(captured), "log")
  /\ UNCHANGED <<checkVars, captured, handoffVars, worldVars, log>>

LogTask ==
  /\ At(Starter, "log")
  /\ Append(Starter, <<Starter, "task_start">>, "done")
  /\ UNCHANGED <<stateVars, checkVars, captured, handoffVars, worldVars>>

StartRefused == Refused(Starter, open)

Checkpoint(k) ==
  /\ At(k, "idle")
  /\ Goes(k, "enter")
  /\ UNCHANGED <<stateVars, checkVars, captured, handoffVars, worldVars, log>>

(* The snapshot is taken inside the lock.                                  *)
SaveCheckpoint(k) ==
  /\ At(k, "inside") /\ TaskOpen(copy[k])
  /\ Saved(k, [copy[k] EXCEPT !.source = version], "log")
  /\ UNCHANGED <<checkVars, captured, handoffVars, worldVars, log>>

LogCheckpoint(k) ==
  /\ At(k, "log")
  /\ Append(k, <<k, "task_checkpoint">>, "done")
  /\ UNCHANGED <<stateVars, checkVars, captured, handoffVars, worldVars>>

CheckpointRefused(k) == Refused(k, TaskOpen(copy[k]))

-----------------------------------------------------------------------------
(* experience.check.                                                       *)

(* A transition that sets nothing but the phase.                           *)
Fields(c, phase) ==
  [phase |-> phase, spec |-> "asked", refs |-> mine[c].refs, prediction |-> None,
   approval |-> None, execution |-> None, observation |-> None]

Plans(c, fields) == plan' = [plan EXCEPT ![c] = fields] /\ Goes(c, "enter")

CheckKeeps == UNCHANGED <<stateVars, mine, captured, handoffVars, worldVars>>

(* The task is read, the citations are resolved on a snapshot.             *)
Prepare(c) ==
  /\ At(c, "idle") /\ Loads /\ TaskOpen(state)
  /\ Plans(c, [phase |-> "prepared", spec |-> "asked", refs |-> version, prediction |-> None,
               approval |-> None, execution |-> None, observation |-> None])
  /\ CheckKeeps /\ UNCHANGED <<consented, ranOn, log>>

(* The prediction, or its skipping: a T3 probe, no adapter, no answer.     *)
Predict(c) ==
  /\ At(c, "predict")
  /\ \/ \E v \in Values : Plans(c, [Fields(c, "predicted") EXCEPT !.prediction = v])
     \/ Plans(c, Fields(c, "skipped"))
  /\ CheckKeeps /\ UNCHANGED <<consented, ranOn, log>>

(* knowledge, the context of the question, cannot be read.                 *)
ContextFails(c) ==
  /\ At(c, "predict") /\ (MayFail \/ ~open)
  /\ Goes(c, Raised)
  /\ CheckKeeps /\ UNCHANGED <<plan, consented, ranOn, log>>

(* What the consent request shows.                                         *)
Shown(r) == [spec |-> r.spec, refs |-> r.refs, prediction |-> r.prediction]

Consent(c) ==
  /\ At(c, "consent")
  /\ \/ /\ Plans(c, [Fields(c, "approved") EXCEPT !.approval = "yes"])
        /\ consented' = [consented EXCEPT ![c] = Shown(mine[c])]
     \/ /\ Plans(c, [Fields(c, "predicted") EXCEPT !.approval = "no"])
        /\ UNCHANGED consented
     \/ /\ Plans(c, Fields(c, "skipped"))     (* It could not be shown.    *)
        /\ UNCHANGED consented
  /\ CheckKeeps /\ UNCHANGED <<ranOn, log>>

Declined(c) ==
  /\ At(c, "declined")
  /\ Plans(c, Fields(c, "skipped"))
  /\ CheckKeeps /\ UNCHANGED <<consented, ranOn, log>>

(* The source once more, after the consent.                                *)
Recheck(c) ==
  /\ At(c, "recheck")
  /\ \E current \in Snapshots :
       Plans(c, Fields(c, IF EvidenceCurrent(mine[c].refs, current) THEN "running" ELSE "skipped"))
  /\ CheckKeeps /\ UNCHANGED <<consented, ranOn, log>>

RecheckFails(c) ==
  /\ MayFail /\ At(c, "recheck")
  /\ Goes(c, Raised)
  /\ CheckKeeps /\ UNCHANGED <<plan, consented, ranOn, log>>

(* runner.run: it prints, fails in some way, or is interrupted.            *)
RunProbe(c) ==
  /\ At(c, "run")
  /\ ranOn' = [ranOn EXCEPT ![c] = version]
  /\ \/ Plans(c, [Fields(c, "running") EXCEPT !.execution = Printed[version]])
     \/ MayFail /\ Plans(c, [Fields(c, "running") EXCEPT !.execution = "failed"])
     \/ MayFail /\ Plans(c, Fields(c, "interrupted"))
  /\ CheckKeeps /\ UNCHANGED <<consented, log>>

(* compare; a source that cannot be read does not support anything.        *)
Compared(r, execution, current) ==
  IF execution = "failed" \/ ~EvidenceCurrent(r.refs, current) THEN "not_verified"
  ELSE IF r.prediction = execution THEN "matched" ELSE "mismatched"

Compare(c) ==
  /\ At(c, "compare")
  /\ \E current \in Snapshots :
       Plans(c, [Fields(c, "completed") EXCEPT
                   !.observation = Compared(mine[c], mine[c].execution, current)])
  /\ CheckKeeps /\ UNCHANGED <<consented, ranOn, log>>

-----------------------------------------------------------------------------
(* _transition.                                                            *)

(* The saved record is the one the check knows.                            *)
Unchanged(saved, previous) == saved # None /\ saved = previous

(* record.update(fields).                                                  *)
Merged(saved, fields) ==
  [saved EXCEPT !.phase = fields.phase,
                !.prediction = IF fields.prediction = None THEN @ ELSE fields.prediction,
                !.approval = IF fields.approval = None THEN @ ELSE fields.approval,
                !.execution = IF fields.execution = None THEN @ ELSE fields.execution,
                !.observation = IF fields.observation = None THEN @ ELSE fields.observation]

MayTransit(c) ==
  TaskOpen(copy[c]) /\ (mine[c] = None \/ Unchanged(copy[c].checks[c], mine[c]))

NewRecord(c) == IF mine[c] = None THEN plan[c] ELSE Merged(copy[c].checks[c], plan[c])

(* What the check does with a record it has saved: most are logged first.  *)
SavedStage(r) == IF r.phase \in {"predicted", "approved", "skipped", "completed"}
                      \/ r.execution # None
                 THEN "log" ELSE CASE r.phase = "prepared" -> "predict"
                                   [] r.phase = "running" -> "run"
                                   [] r.phase = "interrupted" -> "done"

Transition(c) ==
  /\ At(c, "inside") /\ MayTransit(c)
  /\ LET record == NewRecord(c)
     IN  /\ Saved(c, [copy[c] EXCEPT
                        !.checks[c] = record,
                        !.observed = IF plan[c].observation = None THEN @ ELSE @ \cup {c}],
                  SavedStage(record))
         /\ mine' = [mine EXCEPT ![c] = record]
  /\ plan' = [plan EXCEPT ![c] = None]
  /\ UNCHANGED <<consented, ranOn, captured, handoffVars, worldVars, log>>

TransitionRefused(c) == Refused(c, MayTransit(c))

(* The event of a saved record.                                            *)
EventOf(r) ==
  CASE r.phase = "skipped" -> "check_skipped"
    [] r.phase = "completed" -> "observation"
    [] r.phase = "running" -> "execution"
    [] r.phase = "predicted" /\ r.approval = None -> "prediction"
    [] OTHER -> "probe_approval"

LoggedStage(r) ==
  CASE r.phase \in {"skipped", "completed"} -> "done"
    [] r.phase = "running" -> "compare"
    [] r.phase = "approved" -> "recheck"
    [] r.phase = "predicted" /\ r.approval = "no" -> "declined"
    [] OTHER -> "consent"

LogCheck(c) ==
  /\ At(c, "log")
  /\ Append(c, <<c, EventOf(mine[c])>>, LoggedStage(mine[c]))
  /\ CheckKeeps /\ UNCHANGED <<plan, consented, ranOn>>

-----------------------------------------------------------------------------
(* choose_next, dispatch and _acknowledge.                                 *)

(* The human picks an instruction or defers.                               *)
Choose(h) ==
  /\ At(h, "idle") /\ Loads /\ TaskOpen(state)
  /\ \/ \E i \in Instructions : chosen' = [chosen EXCEPT ![h] = i] /\ Goes(h, "enter")
     \/ UNCHANGED chosen /\ Goes(h, "deferred")
  /\ UNCHANGED <<stateVars, checkVars, captured, offered, outcome, deliveries, worldVars, log>>

SaveChoice(h) ==
  /\ At(h, "inside") /\ TaskOpen(copy[h])
  /\ Saved(h, [copy[h] EXCEPT !.handoffs[h] =
                 [instruction |-> chosen[h], status |-> "selected"]], "log")
  /\ UNCHANGED <<checkVars, captured, handoffVars, worldVars, log>>

LogChoice(h) ==
  /\ At(h, "log")
  /\ Append(h, <<h, "next_task">>, "done")
  /\ UNCHANGED <<stateVars, checkVars, captured, handoffVars, worldVars>>

ChoiceRefused(h) == Refused(h, TaskOpen(copy[h]))

(* begin: delivery was never attempted.                                    *)
Unstarted(handoff) == handoff # None /\ handoff.status = "selected"

(* _acknowledge reads the handoff and compares the digest.                 *)
Acknowledge(r) ==
  LET h == HandoffOf[r]
  IN  /\ At(r, "idle") /\ Loads /\ TaskOpen(state)
      /\ Unstarted(state.handoffs[h]) /\ state.handoffs[h].instruction = Received[r]
      /\ Goes(r, "enter")
      /\ UNCHANGED <<stateVars, checkVars, captured, handoffVars, worldVars, log>>

MayBegin(r) == TaskOpen(copy[r]) /\ Unstarted(copy[r].handoffs[HandoffOf[r]])

BeginDispatch(r) ==
  /\ At(r, "inside") /\ offered[r] = None /\ MayBegin(r)
  /\ LET taken == [copy[r].handoffs[HandoffOf[r]] EXCEPT !.status = "dispatching"]
     IN  /\ Saved(r, [copy[r] EXCEPT !.handoffs[HandoffOf[r]] = taken], "deliver")
         /\ offered' = [offered EXCEPT ![r] = taken]
  /\ UNCHANGED <<checkVars, captured, chosen, outcome, deliveries, worldVars, log>>

(* received: an open session, the same handoff, and its claim in the log.  *)
Deliver(r) ==
  LET h == HandoffOf[r]
  IN  /\ At(r, "deliver")
      /\ deliveries' = [deliveries EXCEPT ![h] = @ \cup {r}]
      /\ \/ /\ open /\ offered[r].instruction = Received[r]
            /\ log' = log \cup {<<h, "host_handoff_acknowledged">>}
            /\ outcome' = [outcome EXCEPT ![r] = "dispatched"]
         \/ /\ MayFail \/ ~open \/ offered[r].instruction # Received[r]
            /\ outcome' = [outcome EXCEPT ![r] = "failed"]
            /\ UNCHANGED log
         \/ /\ MayFail /\ open /\ offered[r].instruction = Received[r]
            /\ outcome' = [outcome EXCEPT ![r] = "failed"]
            /\ log' = log \cup {<<h, "host_handoff_acknowledged">>}
      /\ Goes(r, "enter")
      /\ UNCHANGED <<stateVars, checkVars, captured, chosen, offered, worldVars>>

MayFinish(r) == TaskOpen(copy[r]) /\ Unchanged(copy[r].handoffs[HandoffOf[r]], offered[r])

FinishDispatch(r) ==
  /\ At(r, "inside") /\ offered[r] # None /\ MayFinish(r)
  /\ Saved(r, [copy[r] EXCEPT !.handoffs[HandoffOf[r]].status = outcome[r]], "log")
  /\ UNCHANGED <<checkVars, captured, handoffVars, worldVars, log>>

DispatchRefused(r) == Refused(r, IF offered[r] = None THEN MayBegin(r) ELSE MayFinish(r))

LogDispatch(r) ==
  /\ At(r, "log")
  /\ Append(r, <<HandoffOf[r], "dispatch">>, "done")
  /\ UNCHANGED <<stateVars, checkVars, captured, handoffVars, worldVars>>

-----------------------------------------------------------------------------
(* The rest of the world.                                                  *)

Edit ==
  /\ version < MaxEdits /\ version' = version + 1
  /\ UNCHANGED <<stateVars, pc, checkVars, captured, handoffVars, open, log>>

SessionCloses ==
  /\ open /\ open' = FALSE
  /\ UNCHANGED <<stateVars, pc, checkVars, captured, handoffVars, version, log>>

Killed(p) ==
  /\ p \in MayDie /\ pc[p] \notin Ends \cup {"idle"}
  /\ Gone({p}) /\ Goes(p, "died")
  /\ UNCHANGED <<checkVars, captured, handoffVars, worldVars, log>>

(* Another caller of update_task rewrites a check or a handoff that is not *)
(* finished; it cannot know of the question or delivery under way.         *)
Rewrite(s) ==
  /\ ProjectLockFree /\ TaskOpen(state) /\ state' = s
  /\ UNCHANGED <<inside, copy, pc, checkVars, captured, handoffVars, worldVars, log>>

RewriteCheck(c) ==
  /\ state # None /\ state.checks[c] # None
  /\ state.checks[c].phase \in {"prepared", "predicted", "approved"}
  /\ Rewrite([state EXCEPT !.checks[c].spec = "revised"])

RewriteHandoff(h) ==
  /\ state # None /\ state.handoffs[h] # None
  /\ state.handoffs[h].status \in {"selected", "dispatching"}
  /\ \E i \in Instructions : Rewrite([state EXCEPT !.handoffs[h].instruction = i])

-----------------------------------------------------------------------------
StartStep == Start \/ SaveTask \/ LogTask \/ StartRefused

CheckpointStep(k) ==
  Checkpoint(k) \/ SaveCheckpoint(k) \/ LogCheckpoint(k) \/ CheckpointRefused(k)

CheckStep(c) ==
  \/ Prepare(c) \/ Predict(c) \/ ContextFails(c) \/ Consent(c) \/ Declined(c) \/ Recheck(c)
  \/ RecheckFails(c) \/ RunProbe(c) \/ Compare(c) \/ Transition(c) \/ TransitionRefused(c)
  \/ LogCheck(c)

ChoiceStep(h) == Choose(h) \/ SaveChoice(h) \/ LogChoice(h) \/ ChoiceRefused(h)

DispatchStep(r) ==
  \/ Acknowledge(r) \/ BeginDispatch(r) \/ Deliver(r) \/ FinishDispatch(r)
  \/ DispatchRefused(r) \/ LogDispatch(r)

(* No command is under way.                                                *)
Quiet == (\A p \in Processes : pc[p] \in Ends \cup {"idle"}) /\ UNCHANGED vars

Next ==
  \/ StartStep
  \/ \E p \in Processes : EnterLock(p) \/ LockBusy(p) \/ Killed(p)
  \/ \E k \in Checkpointers : CheckpointStep(k)
  \/ \E c \in Checks : CheckStep(c) \/ RewriteCheck(c)
  \/ \E h \in Handoffs : ChoiceStep(h) \/ RewriteHandoff(h)
  \/ \E r \in Receivers : DispatchStep(r)
  \/ Edit \/ SessionCloses \/ Quiet

Spec == Init /\ [][Next]_vars

-----------------------------------------------------------------------------
SavedCheck(c) == IF state = None THEN None ELSE state.checks[c]
SavedHandoff(h) == IF state = None THEN None ELSE state.handoffs[h]

(* Types; what is inside the lock; and the fields a saved check has in     *)
(* each phase, without which every later command would refuse the file.    *)
TypeOK ==
  /\ state \in States \cup {None}
  /\ version \in Versions /\ open \in BOOLEAN
  /\ mine \in [Checks -> CheckRecords \cup {None}]
  /\ plan \in [Checks -> CheckRecords \cup {None}]
  /\ offered \in [Receivers -> HandoffRecords \cup {None}]
  /\ inside = {p \in Processes : pc[p] = "inside"}
  /\ ReadsAreCurrent
  /\ \A c \in Checks :
       LET r == SavedCheck(c)
       IN  r # None =>
             /\ r.phase = "prepared" => r.prediction = None
             /\ r.phase \in {"predicted", "approved", "running", "completed", "interrupted"} =>
                  r.prediction # None
             /\ r.phase \in {"approved", "running", "completed", "interrupted"} =>
                  r.approval = "yes"
             /\ r.phase = "completed" <=> r.observation # None
             /\ r.observation # None <=> c \in state.observed
             /\ r.observation # None => r.execution # None

(* The phases of docs/A2-API.md.                                           *)
Follows(before, after) ==
  \/ before = after
  \/ <<before, after>> \in
       {<<"prepared", "predicted">>, <<"prepared", "skipped">>, <<"predicted", "approved">>,
        <<"predicted", "skipped">>, <<"approved", "running">>, <<"approved", "skipped">>,
        <<"running", "completed">>, <<"running", "interrupted">>}

(* Commands that run at once lose nothing of each other's: no check or     *)
(* handoff disappears or goes back, no answer, output or observation is    *)
(* replaced, and the saved source never gets older.                        *)
HistoryKept ==
  [][state # None =>
       /\ state' # None
       /\ state'.source >= state.source
       /\ state.observed \subseteq state'.observed
       /\ \A c \in Checks :
            LET old == state.checks[c]  new == state'.checks[c]
            IN  old # None =>
                  /\ new # None /\ Follows(old.phase, new.phase) /\ new.refs = old.refs
                  /\ old.prediction \in {None, new.prediction}
                  /\ old.approval \in {None, new.approval}
                  /\ old.execution \in {None, new.execution}
                  /\ old.observation \in {None, new.observation}
       /\ \A h \in Handoffs :
            LET old == state.handoffs[h]  new == state'.handoffs[h]
            IN  old # None =>
                  /\ new # None
                  /\ \/ new.status = old.status
                     \/ old.status = "selected" /\ new.status = "dispatching"
                     \/ old.status = "dispatching" /\ new.status \in {"dispatched", "failed"}
    ]_state

(* A probe runs only for a record on which the human consented to exactly  *)
(* that specification, source and prediction, whatever another command     *)
(* changed meanwhile; and both answers are in the log before it runs.      *)
ConsentCoversProbe ==
  \A c \in Checks :
    LET r == SavedCheck(c)
    IN  /\ r # None /\ r.phase \in {"running", "completed", "interrupted"} =>
             consented[c] = Shown(r)
        /\ ranOn[c] # None =>
             r # None /\ {<<c, "prediction">>, <<c, "probe_approval">>} \subseteq log

(* The log never tells more than the state: a crash or a failure between   *)
(* the two writes may leave an event missing, not an event without its     *)
(* record.                                                                 *)
LogBehindState ==
  /\ log # {} => state # None
  /\ \A c \in Checks :
       LET r == SavedCheck(c)
       IN  /\ <<c, "prediction">> \in log => r # None /\ r.prediction # None
           /\ <<c, "probe_approval">> \in log => r # None /\ r.approval # None
           /\ <<c, "execution">> \in log => r # None /\ r.execution # None
           /\ <<c, "observation">> \in log => r # None /\ r.observation # None
           /\ <<c, "check_skipped">> \in log => r # None /\ r.phase = "skipped"
  /\ \A h \in Handoffs :
       /\ <<h, "next_task">> \in log => SavedHandoff(h) # None
       /\ <<h, "dispatch">> \in log =>
            SavedHandoff(h) # None /\ SavedHandoff(h).status \in {"dispatched", "failed"}

(* A verified observation is about the source it cites: the probe ran on   *)
(* that version, and the verdict is what the probe prints there.           *)
VerifiedForItsSource ==
  \A c \in Checks :
    LET r == SavedCheck(c)
    IN  r # None /\ r.observation \in {"matched", "mismatched"} =>
          /\ ranOn[c] = r.refs
          /\ r.observation = "matched" <=> r.prediction = Printed[r.refs]

(* However many callers acknowledge a handoff, and wherever they die, it   *)
(* is offered to one of them at most ("Attempt delivery once"); and one    *)
(* saved as dispatched was acknowledged, in the log, by a caller who       *)
(* received the very instruction that is saved.                            *)
DeliveredOnce ==
  \A h \in Handoffs :
    /\ Cardinality(deliveries[h]) <= 1
    /\ SavedHandoff(h) # None /\ SavedHandoff(h).status = "dispatched" =>
         /\ <<h, "host_handoff_acknowledged">> \in log
         /\ \E r \in deliveries[h] : Received[r] = SavedHandoff(h).instruction
=============================================================================
