------------------------- MODULE CheckWorkflowProofs -------------------------
(***************************************************************************)
(* Proofs about CheckWorkflow, for any checks, handoffs and callers that   *)
(* acknowledge them, any edits of the source, and whoever dies or fails.   *)
(***************************************************************************)
EXTENDS CheckWorkflow, FiniteSetTheorems, TLAPS

-----------------------------------------------------------------------------
(* Types, and the project lock.                                            *)

Stages ==
  {"not given", "idle", "enter", "inside", "log", "done", "deferred", "raised", "died",
   "predict", "consent", "declined", "recheck", "run", "compare", "deliver"}

(* On the way to a write: the lock is wanted or held.                      *)
Working == {"enter", "inside"}

Views == [spec : {"asked", "revised"}, refs : Versions, prediction : Values \cup {None}]

(* Who is inside the lock is alone there, and read the current state.      *)
LockInv ==
  /\ pc \in [Processes -> Stages]
  /\ state \in States \cup {None} /\ copy \in [Processes -> States \cup {None}]
  /\ inside = {p \in Processes : pc[p] = "inside"}
  /\ ReadsAreCurrent

Types ==
  /\ mine \in [Checks -> CheckRecords \cup {None}] /\ plan \in [Checks -> CheckRecords \cup {None}]
  /\ consented \in [Checks -> Views \cup {None}] /\ ranOn \in [Checks -> Versions \cup {None}]
  /\ captured \in Versions \cup {None} /\ version \in Versions /\ open \in BOOLEAN
  /\ chosen \in [Handoffs -> Instructions \cup {None}]
  /\ offered \in [Receivers -> HandoffRecords \cup {None}]
  /\ outcome \in [Receivers -> {"dispatched", "failed", None}]
  /\ deliveries \in [Handoffs -> SUBSET Receivers]

(* The one start of the task comes before everything else.                 *)
StartInv ==
  /\ pc[Starter] \in {"not given", "idle"} \cup Working => state = None
  /\ pc[Starter] \in Working => captured \in Versions /\ captured <= version
  /\ state # None => state.source <= version
  /\ state = None => \A p \in Processes : pc[p] # "log"

-----------------------------------------------------------------------------
(* Checks.                                                                 *)

(* The fields of a saved record in each phase.                             *)
Shaped(r) ==
  /\ r.phase = "prepared" => r.prediction = None /\ r.approval = None
  /\ r.phase = "predicted" => r.approval \in {"no", None}
  /\ r.phase \in {"predicted", "approved", "running", "completed", "interrupted"} =>
       r.prediction # None
  /\ r.phase \in {"approved", "running", "completed", "interrupted"} => r.approval = "yes"
  /\ r.phase \in {"prepared", "predicted", "approved", "skipped"} => r.execution = None
  /\ r.phase = "completed" => r.execution # None
  /\ r.phase = "completed" <=> r.observation # None

(* The fields a transition sets.                                           *)
Sets(w, fields) ==
  /\ w.prediction # None <=> "prediction" \in fields
  /\ w.approval # None <=> "approval" \in fields
  /\ w.execution # None <=> "execution" \in fields
  /\ w.observation # None <=> "observation" \in fields

(* The transition w a check is about to make from the record m.            *)
Planned(m, w) ==
  /\ w # None /\ w.spec = "asked"
  /\ \/ m = None /\ w.phase = "prepared" /\ Sets(w, {})
     \/ /\ m # None
        /\ \/ m.phase = "prepared" /\ w.phase = "predicted" /\ Sets(w, {"prediction"})
           \/ /\ m.phase = "predicted" /\ m.approval = None
              /\ Sets(w, {"approval"})
              /\ \/ w.phase = "approved" /\ w.approval = "yes"
                 \/ w.phase = "predicted" /\ w.approval = "no"
           \/ /\ m.phase \in {"prepared", "predicted", "approved"}
              /\ w.phase = "skipped" /\ Sets(w, {})
           \/ m.phase = "approved" /\ w.phase = "running" /\ Sets(w, {})
           \/ /\ m.phase = "running" /\ m.execution = None
              /\ \/ w.phase = "running" /\ Sets(w, {"execution"})
                 \/ w.phase = "interrupted" /\ Sets(w, {})
           \/ /\ m.phase = "running" /\ m.execution # None
              /\ w.phase = "completed" /\ Sets(w, {"observation"})

(* Where a check stands with the record m.                                 *)
Stands(stage, m, w) ==
  /\ stage \in {"idle", "not given"} => m = None
  /\ stage = "predict" => m # None /\ m.phase = "prepared"
  /\ stage = "consent" => m # None /\ m.phase = "predicted" /\ m.approval = None
  /\ stage = "declined" => m # None /\ m.phase = "predicted" /\ m.approval = "no"
  /\ stage = "recheck" => m # None /\ m.phase = "approved"
  /\ stage = "run" => m # None /\ m.phase = "running" /\ m.execution = None
  /\ stage = "compare" => m # None /\ m.phase = "running" /\ m.execution # None
  /\ stage = "log" =>
       /\ m # None
       /\ \/ m.phase \in {"predicted", "approved", "skipped", "completed"}
          \/ m.phase = "running" /\ m.execution # None
  /\ stage \in Working => Planned(m, w)

(* What is saved is what the check knows, but for the specification of one *)
(* that has not run.                                                       *)
Known(m, s) ==
  IF m = None THEN s = None
  ELSE /\ s # None
       /\ s \in {m, [m EXCEPT !.spec = "revised"]}
       /\ m.phase \notin {"prepared", "predicted", "approved"} => s = m

Answered == {"approved", "running", "completed", "interrupted"}
Started == {"running", "completed", "interrupted"}

(* Consent is to the record the check knows, and both answers are logged   *)
(* before the next stage.                                                  *)
ConsentInv(c) ==
  LET m == mine[c]
      w == plan[c]
      planned == pc[c] \in Working
  IN  /\ (m # None /\ m.phase \in Answered) \/ (planned /\ w.phase = "approved") =>
           m # None /\ consented[c] = Shown(m)
      /\ (m # None /\ m.approval # None) \/ pc[c] = "consent" \/ (planned /\ w.approval # None) =>
           <<c, "prediction">> \in log
      /\ (m # None /\ m.phase \in Started) \/ pc[c] = "recheck" \/ (planned /\ w.phase = "running") =>
           <<c, "probe_approval">> \in log

(* A probe ran on a version between the cited one and the current one, and *)
(* a verdict was given when these were the same.                           *)
Verified(c, m, execution, observation) ==
  /\ execution \notin {None, "failed"} => ranOn[c] # None /\ execution = Printed[ranOn[c]]
  /\ observation \in {"matched", "mismatched"} =>
       /\ ranOn[c] = m.refs /\ m.execution \notin {None, "failed"}
       /\ observation = "matched" <=> m.prediction = m.execution

RanInv(c) ==
  LET m == mine[c]
      w == plan[c]
  IN  /\ m # None => m.refs <= version /\ Verified(c, m, m.execution, m.observation)
      /\ pc[c] \in Working =>
           w.refs <= version /\ Verified(c, m, w.execution, w.observation)
      /\ ranOn[c] # None =>
           m # None /\ m.phase \in Started /\ m.refs <= ranOn[c] /\ ranOn[c] <= version

CheckInv(c) ==
  /\ mine[c] # None => mine[c].spec = "asked" /\ Shaped(mine[c])
  /\ Stands(pc[c], mine[c], plan[c])
  /\ Known(mine[c], SavedCheck(c))
  /\ state # None =>
       (c \in state.observed <=> mine[c] # None /\ mine[c].observation # None)
  /\ ConsentInv(c)
  /\ RanInv(c)

-----------------------------------------------------------------------------
(* Handoffs.                                                               *)

Acknowledged(h) == <<h, "host_handoff_acknowledged">> \in log

(* A handoff is saved once, taken by one receiver at most, which leaves it *)
(* no longer selected; and only that receiver has it delivered.            *)
HandoffInv(h) ==
  LET s == SavedHandoff(h)
  IN  /\ pc[h] \in {"idle", "enter", "inside"} => s = None
      /\ pc[h] \in Working => chosen[h] # None
      /\ pc[h] = "log" => s # None
      /\ s = None \/ s.status = "selected" =>
           \A r \in Receivers : HandoffOf[r] = h => offered[r] = None
      /\ \A q, r \in Receivers :
           HandoffOf[q] = h /\ HandoffOf[r] = h /\ offered[q] # None /\ offered[r] # None => q = r
      /\ \A r \in deliveries[h] : HandoffOf[r] = h /\ offered[r] # None
      /\ s # None /\ s.status = "dispatched" =>
           Acknowledged(h) /\ \E r \in deliveries[h] : Received[r] = s.instruction

DispatchInv(r) ==
  LET h == HandoffOf[r]
      s == SavedHandoff(h)
  IN  /\ offered[r] # None => offered[r].status = "dispatching"
      /\ pc[r] = "deliver" => offered[r] # None
      /\ pc[r] \in Working /\ offered[r] # None => outcome[r] # None
      /\ outcome[r] = "dispatched" =>
           /\ offered[r] # None /\ offered[r].instruction = Received[r]
           /\ r \in deliveries[h] /\ Acknowledged(h)
      /\ pc[r] = "log" => s # None /\ s.status \in {"dispatched", "failed"}

-----------------------------------------------------------------------------
(* The invariant, but for the log.                                         *)
CoreInv ==
  /\ LockInv /\ Types /\ StartInv
  /\ \A c \in Checks : CheckInv(c)
  /\ \A h \in Handoffs : HandoffInv(h)
  /\ \A r \in Receivers : DispatchInv(r)

-----------------------------------------------------------------------------
(* The project lock: a process moves, enters, or leaves.                   *)

(* A process that moves outside the lock, enters it or leaves it keeps it  *)
(* right.                                                                  *)
LEMMA LockKept ==
  ASSUME LockInv, NEW p \in Processes, NEW stage \in Stages, Goes(p, stage),
         state' \in States \cup {None},
         \/ pc[p] # "inside" /\ stage # "inside" /\ UNCHANGED stateVars
         \/ stage # "inside" /\ Release({p}) /\ (pc[p] = "inside" \/ UNCHANGED state)
         \/ stage = "inside" /\ Lock(p)
  PROVE  LockInv'
<1> USE DEF LockInv, Goes
<1>1. pc' \in [Processes -> Stages]
  OBVIOUS
<1>2. CASE pc[p] # "inside" /\ stage # "inside" /\ UNCHANGED stateVars
  <2>1. inside' = {q \in Processes : pc'[q] = "inside"}
    BY <1>2 DEF stateVars
  <2> QED
    BY <1>1, <1>2, <2>1 DEF stateVars, ReadsAreCurrent
<1>3. CASE stage # "inside" /\ Release({p}) /\ (pc[p] = "inside" \/ UNCHANGED state)
  <2>1. inside' = {q \in Processes : pc'[q] = "inside"}
    BY <1>3 DEF Release
  <2>2. copy' \in [Processes -> States \cup {None}]
    BY <1>3 DEF Release
  <2>3. ReadsAreCurrent'
    BY <1>3 DEF Release, ReadsAreCurrent
  <2> QED
    BY <1>1, <2>1, <2>2, <2>3
<1>4. CASE stage = "inside" /\ Lock(p)
  <2>1. inside' = {q \in Processes : pc'[q] = "inside"}
    BY <1>4 DEF Lock
  <2>2. copy' \in [Processes -> States \cup {None}]
    BY <1>4 DEF Lock
  <2>3. ReadsAreCurrent'
    BY <1>4 DEF Lock, ReadsAreCurrent, ProjectLockFree
  <2> QED
    BY <1>1, <2>1, <2>2, <2>3
<1> QED
  BY <1>2, <1>3, <1>4

(* What a process inside the lock replaces is what it has read.            *)
LEMMA InsideIsCurrent ==
  ASSUME LockInv, NEW p \in Processes, pc[p] = "inside"
  PROVE  copy[p] = state
BY DEF LockInv, ReadsAreCurrent

-----------------------------------------------------------------------------
(* Records.                                                                *)

(* What record.update makes of a saved record.                             *)
LEMMA MergedRecord ==
  ASSUME NEW r \in CheckRecords, NEW w \in CheckRecords
  PROVE  LET m == Merged(r, w)
         IN  /\ m \in CheckRecords
             /\ m.phase = w.phase /\ m.spec = r.spec /\ m.refs = r.refs
             /\ m.prediction = IF w.prediction = None THEN r.prediction ELSE w.prediction
             /\ m.approval = IF w.approval = None THEN r.approval ELSE w.approval
             /\ m.execution = IF w.execution = None THEN r.execution ELSE w.execution
             /\ m.observation = IF w.observation = None THEN r.observation ELSE w.observation
BY DEF Merged, CheckRecords

(* A transition that sets nothing but the phase.                           *)
LEMMA FieldsRecord ==
  ASSUME NEW c \in Checks, mine[c] \in CheckRecords, NEW phase \in Phases
  PROVE  LET w == Fields(c, phase)
         IN  /\ w \in CheckRecords /\ w.phase = phase /\ w.spec = "asked" /\ w.refs = mine[c].refs
             /\ Sets(w, {})
BY DEF Fields, CheckRecords, Sets

(* A revised specification leaves the other fields alone.                  *)
LEMMA Revised ==
  ASSUME NEW r \in CheckRecords
  PROVE  LET m == [r EXCEPT !.spec = "revised"]
         IN  /\ m \in CheckRecords /\ m.spec = "revised" /\ m.phase = r.phase /\ m.refs = r.refs
             /\ m.prediction = r.prediction /\ m.approval = r.approval
             /\ m.execution = r.execution /\ m.observation = r.observation
BY DEF CheckRecords

(* The fields of a state.                                                  *)
LEMMA StateFields ==
  ASSUME NEW s \in States
  PROVE  /\ s.checks \in [Checks -> CheckRecords \cup {None}]
         /\ s.handoffs \in [Handoffs -> HandoffRecords \cup {None}]
         /\ s.observed \in SUBSET Checks /\ s.source \in Versions /\ s # None
BY WorkflowNone DEF States

(* A write changes one check, one handoff or the source.                   *)
(* A write of one check, which may also note that it was observed.        *)
WithCheck(s, c, r, o) == [s EXCEPT !.checks[c] = r, !.observed = o]

LEMMA CheckWritten ==
  ASSUME NEW s \in States, NEW c \in Checks, NEW r \in CheckRecords, NEW o \in SUBSET Checks
  PROVE  LET t == WithCheck(s, c, r, o)
         IN  /\ t \in States /\ t # None /\ t.checks[c] = r
             /\ \A d \in Checks \ {c} : t.checks[d] = s.checks[d]
             /\ t.handoffs = s.handoffs /\ t.observed = o /\ t.source = s.source
<1> DEFINE u == [s EXCEPT !.checks[c] = r]
           t == WithCheck(s, c, r, o)
<1>1. /\ u \in States /\ u.checks[c] = r /\ \A d \in Checks \ {c} : u.checks[d] = s.checks[d]
      /\ u.handoffs = s.handoffs /\ u.source = s.source
  BY DEF States
<1>2. t = [u EXCEPT !.observed = o]
  BY DEF States, WithCheck
<1> HIDE DEF u
<1>3. t \in States /\ t.checks = u.checks /\ t.handoffs = u.handoffs /\ t.observed = o /\ t.source = u.source
  BY <1>1, <1>2 DEF States
<1> HIDE DEF t
<1>4. t # None
  BY <1>3, WorkflowNone
<1> QED
  BY <1>1, <1>3, <1>4 DEF t

(* A write of one handoff.                                                 *)
LEMMA HandoffWritten ==
  ASSUME NEW s \in States, NEW h \in Handoffs, NEW r \in HandoffRecords
  PROVE  LET t == [s EXCEPT !.handoffs[h] = r]
         IN  /\ t \in States /\ t # None /\ t.handoffs[h] = r
             /\ \A g \in Handoffs \ {h} : t.handoffs[g] = s.handoffs[g]
             /\ t.checks = s.checks /\ t.observed = s.observed /\ t.source = s.source
BY WorkflowNone DEF States

(* A checkpoint writes the source only.                                    *)
LEMMA SourceWritten ==
  ASSUME NEW s \in States, NEW v \in Versions
  PROVE  LET t == [s EXCEPT !.source = v]
         IN  /\ t \in States /\ t # None /\ t.source = v
             /\ t.checks = s.checks /\ t.handoffs = s.handoffs /\ t.observed = s.observed
BY WorkflowNone DEF States

(* A new task has no checks and no handoffs.                               *)
LEMMA NewTaskWritten ==
  ASSUME NEW v \in Versions
  PROVE  LET t == NewTask(v)
         IN  /\ t \in States /\ t # None /\ t.source = v /\ t.observed = {}
             /\ \A c \in Checks : t.checks[c] = None
             /\ \A h \in Handoffs : t.handoffs[h] = None
BY WorkflowNone DEF States, NewTask

-----------------------------------------------------------------------------
(* What a step leaves alone.                                               *)

(* p does not move, or enters the lock, or ends without finishing.         *)
Idles(p) == pc'[p] \in {pc[p], "raised", "died"} \/ (pc[p] = "enter" /\ pc'[p] = "inside")

CheckFrame(c) ==
  /\ mine'[c] = mine[c] /\ plan'[c] = plan[c] /\ consented'[c] = consented[c] /\ ranOn'[c] = ranOn[c]
  /\ SavedCheck(c)' = SavedCheck(c)
  /\ state' # None => (c \in state'.observed <=> state # None /\ c \in state.observed)
  /\ version \in Nat /\ version' \in Nat /\ version <= version' /\ log \subseteq log'
  /\ Idles(c)

HandoffFrame(h) ==
  /\ SavedHandoff(h)' = SavedHandoff(h) /\ log \subseteq log'
  /\ \A r \in Receivers : HandoffOf[r] = h => offered'[r] = offered[r]
  /\ chosen'[h] = chosen[h] /\ deliveries'[h] = deliveries[h]
  /\ Idles(h)

(* A handoff that is finished stays as it is.                              *)
DispatchFrame(r) ==
  LET h == HandoffOf[r]
  IN  /\ offered'[r] = offered[r] /\ outcome'[r] = outcome[r]
      /\ deliveries[h] \subseteq deliveries'[h] /\ log \subseteq log'
      /\ SavedHandoff(h) # None /\ SavedHandoff(h).status \in {"dispatched", "failed"} =>
           SavedHandoff(h)' = SavedHandoff(h)
      /\ Idles(r)

(* The invariant of a check survives what is not about it.                 *)
LEMMA CheckKept ==
  ASSUME Types, NEW c \in Checks, CheckInv(c), CheckFrame(c)
  PROVE  CheckInv(c)'
<1> USE DEF CheckInv, CheckFrame
<1>1. mine'[c] # None => mine'[c].spec = "asked" /\ Shaped(mine'[c])
  OBVIOUS
<1>2. Stands(pc'[c], mine'[c], plan'[c])
  BY DEF Stands, Idles, Working
<1>3. Known(mine'[c], SavedCheck(c)')
  OBVIOUS
<1>4. state' # None => (c \in state'.observed <=> mine'[c] # None /\ mine'[c].observation # None)
  BY DEF SavedCheck, Known
<1>5. ConsentInv(c)'
  BY DEF ConsentInv, Idles, Working
<1>6. RanInv(c)'
  <2>1. mine[c] # None => mine[c].refs \in Nat
    BY WorkflowAssumption DEF Types, CheckRecords, Versions
  <2>2. plan[c] # None => plan[c].refs \in Nat
    BY WorkflowAssumption DEF Types, CheckRecords, Versions
  <2>3. pc[c] \in Working => plan[c] # None
    BY DEF Stands, Planned
  <2>4. ranOn[c] # None => ranOn[c] \in Nat
    BY WorkflowAssumption DEF Types, Versions
  <2>5. pc'[c] \in Working => pc[c] \in Working
    BY DEF Idles, Working
  <2>6. \A m, e, o : Verified(c, m, e, o)' <=> Verified(c, m, e, o)
    BY DEF Verified
  <2> QED
    BY <2>1, <2>2, <2>3, <2>4, <2>5, <2>6 DEF RanInv
<1> QED
  BY <1>1, <1>2, <1>3, <1>4, <1>5, <1>6

(* So does that of a handoff, ...                                          *)
LEMMA HandoffKept ==
  ASSUME Types, NEW h \in Handoffs, HandoffInv(h), HandoffFrame(h)
  PROVE  HandoffInv(h)'
<1> USE DEF HandoffFrame
<1>1. \A r \in deliveries[h] : r \in Receivers
  BY DEF Types
<1>2. Acknowledged(h) => Acknowledged(h)'
  BY DEF Acknowledged
<1>3. /\ pc'[h] \in {"idle", "enter", "inside"} => pc[h] \in {"idle", "enter", "inside"}
      /\ pc'[h] \in Working => pc[h] \in Working
      /\ pc'[h] = "log" => pc[h] = "log"
  BY DEF Idles, Working
<1> QED
  BY <1>1, <1>2, <1>3 DEF HandoffInv

(* ... and that of a receiver.                                             *)
LEMMA DispatchKept ==
  ASSUME NEW r \in Receivers, DispatchInv(r), DispatchFrame(r)
  PROVE  DispatchInv(r)'
<1> DEFINE h == HandoffOf[r]
<1> USE DEF DispatchInv, DispatchFrame
<1>1. outcome'[r] = "dispatched" =>
        /\ offered'[r] # None /\ offered'[r].instruction = Received[r]
        /\ r \in deliveries'[h] /\ Acknowledged(h)'
  BY DEF Acknowledged
<1>2. pc'[r] = "log" => SavedHandoff(h)' # None /\ SavedHandoff(h)'.status \in {"dispatched", "failed"}
  BY DEF Idles
<1>3. pc'[r] \in Working => pc[r] \in Working
  BY DEF Idles, Working
<1>4. pc'[r] = "deliver" => pc[r] = "deliver"
  BY DEF Idles
<1> QED
  BY <1>1, <1>2, <1>3, <1>4

StartFrame ==
  /\ Idles(Starter) /\ captured' = captured
  /\ version \in Nat /\ version' \in Nat /\ version <= version'
  /\ \/ state' = state
     \/ state # None /\ state' # None /\ state'.source <= version'
  /\ state = None => \A p \in Processes : pc'[p] # "log"

(* Once there is a task, the start is over.                                *)
LEMMA StartKept ==
  ASSUME LockInv, Types, StartInv, StartFrame
  PROVE  StartInv'
<1>1. captured \in Versions => captured \in Nat
  BY WorkflowAssumption DEF Versions
<1>2. state # None => state.source \in Nat
  BY StateFields, WorkflowAssumption DEF LockInv, Versions
<1>3. pc'[Starter] \in {"not given", "idle"} \cup Working =>
        pc[Starter] \in {"not given", "idle"} \cup Working
  BY DEF StartFrame, Idles, Working
<1>4. pc'[Starter] \in Working => pc[Starter] \in Working
  BY DEF StartFrame, Idles, Working
<1>5. pc[Starter] \in Working => captured \in Versions /\ captured <= version
  BY DEF StartInv
<1>6. pc'[Starter] \in Working => captured' \in Versions /\ captured' <= version'
  BY <1>1, <1>4, <1>5 DEF StartFrame
<1>7. pc[Starter] \in {"not given", "idle"} \cup Working => state' = None
  BY DEF StartInv, StartFrame
<1>8. state' # None => state'.source <= version'
  <2>1. CASE state' = state
    <3>1. state # None => state.source <= version
      BY DEF StartInv
    <3>2. version \in Nat /\ version' \in Nat /\ version <= version'
      BY DEF StartFrame
    <3>3. state # None => state.source <= version'
      BY <1>2, <3>1, <3>2
    <3> QED
      BY <2>1, <3>3
  <2> QED
    BY <2>1 DEF StartFrame
<1>9. state' = None => \A p \in Processes : pc'[p] # "log"
  BY DEF StartFrame
<1> QED
  BY <1>3, <1>6, <1>7, <1>8, <1>9 DEF StartInv

(* Every kind of command is a process.                                     *)
LEMMA Kinds ==
  /\ Starter \in Processes /\ Checks \subseteq Processes /\ Handoffs \subseteq Processes
  /\ Receivers \subseteq Processes /\ Checkpointers \subseteq Processes
BY WorkflowAssumption

(* The source has a version.                                               *)
LEMMA VersionIsNat == ASSUME Types PROVE version \in Nat
BY WorkflowAssumption DEF Types, Versions

(* When p moves nobody else does.                                          *)
LEMMA Bystander ==
  ASSUME LockInv, NEW p \in Processes, NEW stage, Goes(p, stage), NEW q \in Processes, q # p
  PROVE  Idles(q)
BY DEF LockInv, Goes, Idles

(* Nothing of the workflow moves but its processes.                        *)
LEMMA WorkflowRests ==
  ASSUME CoreInv, LockInv', UNCHANGED <<state, checkVars, captured, handoffVars, worldVars, log>>,
         \A p \in Processes : Idles(p)
  PROVE  CoreInv'
<1> USE DEF CoreInv, checkVars, handoffVars, worldVars
<1>1. Types'
  BY DEF Types
<1>2. StartInv'
  <2>1. StartFrame
    <3>1. state = None => \A p \in Processes : pc'[p] # "log"
      BY DEF StartInv, Idles
    <3>2. version \in Nat /\ version' = version
      BY VersionIsNat
    <3> QED
      BY <3>1, <3>2, Kinds DEF StartFrame
  <2> QED
    BY <2>1, StartKept
<1>3. ASSUME NEW c \in Checks PROVE CheckInv(c)'
  <2>1. CheckFrame(c)
    BY VersionIsNat, Kinds DEF CheckFrame, SavedCheck
  <2> QED
    BY <2>1, CheckKept
<1>4. ASSUME NEW h \in Handoffs PROVE HandoffInv(h)'
  <2>1. HandoffFrame(h)
    BY Kinds DEF HandoffFrame, SavedHandoff
  <2> QED
    BY <2>1, HandoffKept
<1>5. ASSUME NEW r \in Receivers PROVE DispatchInv(r)'
  <2>1. DispatchFrame(r)
    BY Kinds DEF DispatchFrame, SavedHandoff
  <2> QED
    BY <2>1, DispatchKept
<1> QED
  BY <1>1, <1>2, <1>3, <1>4, <1>5

(* The lock is taken or busy, or a process is killed.                      *)
LEMMA LockSteps ==
  ASSUME CoreInv, NEW p \in Processes, EnterLock(p) \/ LockBusy(p) \/ Killed(p)
  PROVE  CoreInv'
<1>1. CASE EnterLock(p)
  <2>1. LockInv'
    BY <1>1, LockKept DEF CoreInv, EnterLock, Stages, Lock, LockInv
  <2>2. \A q \in Processes : Idles(q)
    BY <1>1 DEF EnterLock, At, Goes, Idles, CoreInv, LockInv
  <2> QED
    BY <1>1, <2>1, <2>2, WorkflowRests DEF EnterLock, Lock
<1>2. CASE LockBusy(p)
  <2>1. LockInv'
    <3>1. Goes(p, "raised") /\ pc[p] # "inside" /\ UNCHANGED stateVars
      BY <1>2 DEF LockBusy, At, Raised
    <3> QED
      BY <3>1, LockKept DEF CoreInv, Stages, stateVars, LockInv
  <2>2. \A q \in Processes : Idles(q)
    BY <1>2 DEF LockBusy, At, Goes, Idles, Raised, CoreInv, LockInv
  <2> QED
    BY <1>2, <2>1, <2>2, WorkflowRests DEF LockBusy, stateVars
<1>3. CASE Killed(p)
  <2>1. LockInv'
    <3>1. Goes(p, "died") /\ Release({p}) /\ UNCHANGED state
      BY <1>3 DEF Killed, Gone
    <3> QED
      BY <3>1, LockKept DEF CoreInv, Stages, LockInv
  <2>2. \A q \in Processes : Idles(q)
    BY <1>3 DEF Killed, Goes, Idles, CoreInv, LockInv
  <2> QED
    BY <1>3, <2>1, <2>2, WorkflowRests DEF Killed, Gone
<1> QED
  BY <1>1, <1>2, <1>3

(* A process that gives up inside the lock.                                *)
LEMMA RefusedStep ==
  ASSUME CoreInv, NEW p \in Processes, NEW may, Refused(p, may)
  PROVE  CoreInv'
<1>1. LockInv'
  <2>1. Goes(p, "raised") /\ Release({p}) /\ UNCHANGED state
    BY DEF Refused, Refuse, Raised
  <2> QED
    BY <2>1, LockKept DEF CoreInv, Stages, LockInv
<1>2. \A q \in Processes : Idles(q)
  BY DEF Refused, Goes, Idles, Raised, CoreInv, LockInv
<1> QED
  BY <1>1, <1>2, WorkflowRests DEF Refused, Refuse

-----------------------------------------------------------------------------
(* How a process goes on.                                                  *)

(* A process moves outside the lock, ...                                   *)
LEMMA GoesOn ==
  ASSUME LockInv, NEW p \in Processes, pc[p] # "inside", NEW stage \in Stages \ {"inside"},
         Goes(p, stage), UNCHANGED stateVars
  PROVE  LockInv' /\ pc'[p] = stage /\ \A q \in Processes \ {p} : Idles(q)
<1>1. LockInv'
  BY LockKept DEF LockInv, stateVars
<1>2. pc'[p] = stage /\ \A q \in Processes \ {p} : Idles(q)
  BY DEF LockInv, Goes, Idles
<1> QED
  BY <1>1, <1>2

(* ... appends to the log, which may fail, ...                             *)
LEMMA Appends ==
  ASSUME LockInv, NEW p \in Processes, pc[p] # "inside", NEW stage \in Stages \ {"inside"},
         NEW event, Append(p, event, stage), UNCHANGED stateVars
  PROVE  /\ LockInv' /\ pc'[p] \in {stage, "raised"} /\ \A q \in Processes \ {p} : Idles(q)
         /\ log \subseteq log' /\ log' \subseteq log \cup {event}
         /\ pc'[p] # "raised" => event \in log'
<1>1. log \subseteq log' /\ log' \subseteq log \cup {event}
  BY DEF Append
<1>2. CASE Goes(p, stage) /\ log' = log \cup {event}
  BY <1>1, <1>2, GoesOn
<1>3. CASE Goes(p, "raised")
  BY <1>1, <1>3, GoesOn DEF Stages
<1> QED
  BY <1>2, <1>3 DEF Append, Raised

(* ... or replaces the state and leaves the lock.                          *)
LEMMA Saves ==
  ASSUME LockInv, NEW p \in Processes, pc[p] = "inside", NEW s \in States,
         NEW stage \in Stages \ {"inside"}, Saved(p, s, stage)
  PROVE  /\ LockInv' /\ state' = s
         /\ pc'[p] \in {stage, "raised"} /\ \A q \in Processes \ {p} : Idles(q)
<1>1. state' = s /\ Release({p})
  BY DEF Saved, Write
<1>2. ASSUME NEW t \in Stages \ {"inside"}, Goes(p, t)
      PROVE  LockInv' /\ pc'[p] = t /\ \A q \in Processes \ {p} : Idles(q)
  <2>1. LockInv'
    BY <1>1, <1>2, LockKept
  <2> QED
    BY <1>2, <2>1 DEF LockInv, Goes, Idles
<1>3. CASE Goes(p, stage)
  BY <1>1, <1>2, <1>3
<1>4. CASE Goes(p, "raised")
  BY <1>1, <1>2, <1>4 DEF Stages
<1> QED
  BY <1>3, <1>4 DEF Saved, Raised

(* Nothing but p, which did not work on a check or a handoff.              *)
LEMMA Elsewhere ==
  ASSUME CoreInv, LockInv', NEW p \in Processes, \A q \in Processes \ {p} : Idles(q),
         UNCHANGED <<state, checkVars, captured, handoffVars, worldVars>>, log \subseteq log',
         pc'[p] = "log" => state # None, p = Starter => pc'[p] \in {"done", "raised"} /\ state # None
  PROVE  /\ Types' /\ StartInv'
         /\ \A c \in Checks \ {p} : CheckInv(c)'
         /\ \A h \in Handoffs \ {p} : HandoffInv(h)'
         /\ \A r \in Receivers \ {p} : DispatchInv(r)'
<1> USE DEF CoreInv, checkVars, handoffVars, worldVars
<1>1. Types'
  BY DEF Types
<1>2. StartInv'
  <2>1. state = None => \A q \in Processes : pc'[q] # "log"
    BY DEF StartInv, Idles
  <2>2. version \in Nat
    BY VersionIsNat
  <2>3. CASE p = Starter
    BY <2>1, <2>3 DEF StartInv, Working
  <2>4. CASE p # Starter
    <3>1. StartFrame
      BY <2>1, <2>2, <2>4, Kinds DEF StartFrame
    <3> QED
      BY <3>1, StartKept
  <2> QED
    BY <2>3, <2>4
<1>3. ASSUME NEW c \in Checks \ {p} PROVE CheckInv(c)'
  <2>1. CheckFrame(c)
    BY VersionIsNat, Kinds DEF CheckFrame, SavedCheck
  <2> QED
    BY <2>1, CheckKept
<1>4. ASSUME NEW h \in Handoffs \ {p} PROVE HandoffInv(h)'
  <2>1. HandoffFrame(h)
    BY Kinds DEF HandoffFrame, SavedHandoff
  <2> QED
    BY <2>1, HandoffKept
<1>5. ASSUME NEW r \in Receivers \ {p} PROVE DispatchInv(r)'
  <2>1. DispatchFrame(r)
    BY Kinds DEF DispatchFrame, SavedHandoff
  <2> QED
    BY <2>1, DispatchKept
<1> QED
  BY <1>1, <1>2, <1>3, <1>4, <1>5

(* Steps that are not about a check, ...                                   *)
LEMMA ChecksRest ==
  ASSUME CoreInv, version' \in Nat, version <= version', log \subseteq log',
         UNCHANGED checkVars, \A c \in Checks : Idles(c) /\ SavedCheck(c)' = SavedCheck(c),
         state' # None => state'.observed = IF state = None THEN {} ELSE state.observed
  PROVE  \A c \in Checks : CheckInv(c)'
<1> TAKE c \in Checks
<1>1. CheckFrame(c)
  BY VersionIsNat DEF CheckFrame, checkVars, CoreInv
<1> QED
  BY <1>1, CheckKept DEF CoreInv

(* ... a handoff ...                                                       *)
LEMMA HandoffsRest ==
  ASSUME CoreInv, log \subseteq log', UNCHANGED handoffVars,
         \A h \in Handoffs : Idles(h) /\ SavedHandoff(h)' = SavedHandoff(h)
  PROVE  \A h \in Handoffs : HandoffInv(h)'
<1> TAKE h \in Handoffs
<1>1. HandoffFrame(h)
  BY DEF HandoffFrame, handoffVars, CoreInv
<1> QED
  BY <1>1, HandoffKept DEF CoreInv

(* ... or a receiver.                                                      *)
LEMMA ReceiversRest ==
  ASSUME CoreInv, log \subseteq log', UNCHANGED handoffVars,
         \A r \in Receivers : Idles(r),
         \A h \in Handoffs : SavedHandoff(h)' = SavedHandoff(h)
  PROVE  \A r \in Receivers : DispatchInv(r)'
<1> TAKE r \in Receivers
<1>1. DispatchFrame(r)
  BY WorkflowAssumption DEF DispatchFrame, handoffVars, CoreInv
<1> QED
  BY <1>1, DispatchKept DEF CoreInv

-----------------------------------------------------------------------------
(* start and checkpoint.                                                   *)

(* learning.start.                                                         *)
LEMMA StartSteps ==
  ASSUME CoreInv, StartStep
  PROVE  CoreInv'
<1>1. CASE Start
  <2>1. LockInv' /\ pc'[Starter] = "enter" /\ \A q \in Processes \ {Starter} : Idles(q)
    BY <1>1, GoesOn, Kinds DEF Start, At, CoreInv, Stages
  <2>2. Types'
    BY <1>1 DEF Start, Types, CoreInv, checkVars, handoffVars, worldVars
  <2>3. StartInv'
    <3>1. state' = None
      BY <1>1 DEF Start, At, CoreInv, StartInv, stateVars
    <3>2. captured' = version /\ version' = version /\ version \in Versions /\ version \in Nat
      BY <1>1, VersionIsNat DEF Start, worldVars, CoreInv, Types
    <3>3. \A p \in Processes : pc'[p] # "log"
      BY <1>1, <2>1, <3>1 DEF Start, CoreInv, StartInv, stateVars, Idles
    <3> QED
      BY <3>1, <3>2, <3>3 DEF StartInv
  <2>4. \A c \in Checks : CheckInv(c)'
    <3>1. \A c \in Checks : Idles(c) /\ SavedCheck(c)' = SavedCheck(c)
      BY <1>1, <2>1, WorkflowAssumption DEF Start, SavedCheck, stateVars
    <3>2. state' # None => state'.observed = IF state = None THEN {} ELSE state.observed
      BY <1>1 DEF Start, stateVars
    <3> QED
      BY <1>1, <3>1, <3>2, ChecksRest, VersionIsNat DEF Start, worldVars, CoreInv
  <2>5. \A h \in Handoffs : Idles(h) /\ SavedHandoff(h)' = SavedHandoff(h)
    BY <1>1, <2>1, WorkflowAssumption DEF Start, SavedHandoff, stateVars
  <2>6. \A r \in Receivers : Idles(r)
    BY <2>1, WorkflowAssumption
  <2> QED
    BY <1>1, <2>1, <2>2, <2>3, <2>4, <2>5, <2>6, HandoffsRest, ReceiversRest DEF CoreInv, Start
<1>2. CASE SaveTask
  <2>1. captured \in Versions /\ captured <= version /\ state = None /\ pc[Starter] = "inside"
    BY <1>2 DEF SaveTask, At, CoreInv, StartInv, Working
  <2>2. NewTask(captured) \in States
    BY <2>1, NewTaskWritten
  <2>3. /\ LockInv' /\ state' = NewTask(captured) /\ pc'[Starter] \in {"log", "raised"}
        /\ \A q \in Processes \ {Starter} : Idles(q)
    BY <1>2, <2>1, <2>2, Saves, Kinds DEF SaveTask, CoreInv, Stages
  <2>4. Types'
    BY <1>2 DEF SaveTask, Types, CoreInv, checkVars, handoffVars, worldVars
  <2>5. StartInv'
    BY <1>2, <2>1, <2>3, NewTaskWritten DEF SaveTask, worldVars, StartInv, Working
  <2>6. \A c \in Checks : Idles(c) /\ SavedCheck(c)' = SavedCheck(c)
    BY <2>1, <2>3, NewTaskWritten, WorkflowAssumption DEF SavedCheck
  <2>7. \A h \in Handoffs : Idles(h) /\ SavedHandoff(h)' = SavedHandoff(h)
    BY <2>1, <2>3, NewTaskWritten, WorkflowAssumption DEF SavedHandoff
  <2>8. \A r \in Receivers : Idles(r)
    BY <2>3, WorkflowAssumption
  <2>9. \A c \in Checks : CheckInv(c)'
    BY <1>2, <2>1, <2>3, <2>6, NewTaskWritten, ChecksRest, VersionIsNat DEF SaveTask, worldVars, CoreInv
  <2> QED
    BY <1>2, <2>3, <2>4, <2>5, <2>7, <2>8, <2>9, HandoffsRest, ReceiversRest DEF CoreInv, SaveTask
<1>3. CASE LogTask
  <2>1. /\ LockInv' /\ pc'[Starter] \in {"done", "raised"} /\ log \subseteq log'
        /\ \A q \in Processes \ {Starter} : Idles(q)
    BY <1>3, Appends, Kinds DEF LogTask, At, CoreInv, Stages
  <2>2. state # None
    BY <1>3, Kinds DEF LogTask, At, CoreInv, StartInv
  <2> QED
    BY <1>3, <2>1, <2>2, Elsewhere, WorkflowAssumption DEF CoreInv, LogTask, stateVars
<1>4. CASE StartRefused
  BY <1>4, RefusedStep, Kinds DEF StartRefused
<1> QED
  BY <1>1, <1>2, <1>3, <1>4 DEF StartStep

(* learning.checkpoint.                                                    *)
LEMMA CheckpointSteps ==
  ASSUME CoreInv, NEW k \in Checkpointers, CheckpointStep(k)
  PROVE  CoreInv'
<1> k \in Processes /\ k # Starter /\ k \notin Checks /\ k \notin Handoffs /\ k \notin Receivers
  BY WorkflowAssumption
<1>1. CASE Checkpoint(k)
  <2>1. LockInv' /\ pc'[k] = "enter" /\ \A q \in Processes \ {k} : Idles(q)
    BY <1>1, GoesOn DEF Checkpoint, At, CoreInv, Stages
  <2> QED
    BY <1>1, <2>1, Elsewhere DEF CoreInv, Checkpoint, stateVars
<1>2. CASE SaveCheckpoint(k)
  <2>1. copy[k] = state /\ pc[k] = "inside" /\ state \in States /\ version \in Versions
    BY <1>2, InsideIsCurrent DEF SaveCheckpoint, At, TaskOpen, CoreInv, LockInv, Types
  <2> DEFINE t == [state EXCEPT !.source = version]
  <2>2. /\ t \in States /\ t # None /\ t.source = version
        /\ t.checks = state.checks /\ t.handoffs = state.handoffs /\ t.observed = state.observed
    BY <2>1, SourceWritten
  <2>3. Saved(k, t, "log")
    BY <1>2, <2>1 DEF SaveCheckpoint
  <2> HIDE DEF t
  <2>4. /\ LockInv' /\ state' = t /\ pc'[k] \in {"log", "raised"}
        /\ \A q \in Processes \ {k} : Idles(q)
    BY <2>1, <2>2, <2>3, Saves DEF CoreInv, Stages
  <2>5. Types' /\ version \in Nat /\ version' = version
    BY <1>2, VersionIsNat DEF SaveCheckpoint, Types, CoreInv, checkVars, handoffVars, worldVars
  <2>6. StartInv'
    <3>1. StartFrame
      BY <1>2, <2>1, <2>2, <2>4, <2>5, Kinds, WorkflowNone DEF StartFrame, SaveCheckpoint
    <3> QED
      BY <3>1, StartKept DEF CoreInv
  <2>7. \A c \in Checks : Idles(c) /\ SavedCheck(c)' = SavedCheck(c)
    BY <2>1, <2>2, <2>4, Kinds, WorkflowNone DEF SavedCheck
  <2>8. \A h \in Handoffs : Idles(h) /\ SavedHandoff(h)' = SavedHandoff(h)
    BY <2>1, <2>2, <2>4, Kinds, WorkflowNone DEF SavedHandoff
  <2>9. \A r \in Receivers : Idles(r)
    BY <2>4, Kinds
  <2>10. \A c \in Checks : CheckInv(c)'
    <3>1. state' # None => state'.observed = IF state = None THEN {} ELSE state.observed
      BY <2>1, <2>2, <2>4, WorkflowNone
    <3> QED
      BY <1>2, <2>5, <2>7, <3>1, ChecksRest DEF SaveCheckpoint
  <2> QED
    BY <1>2, <2>4, <2>5, <2>6, <2>8, <2>9, <2>10, HandoffsRest, ReceiversRest DEF CoreInv, SaveCheckpoint
<1>3. CASE LogCheckpoint(k)
  <2>1. /\ LockInv' /\ pc'[k] \in {"done", "raised"} /\ log \subseteq log'
        /\ \A q \in Processes \ {k} : Idles(q)
    BY <1>3, Appends DEF LogCheckpoint, At, CoreInv, Stages
  <2> QED
    BY <1>3, <2>1, Elsewhere DEF CoreInv, LogCheckpoint, stateVars
<1>4. CASE CheckpointRefused(k)
  BY <1>4, RefusedStep DEF CheckpointRefused
<1> QED
  BY <1>1, <1>2, <1>3, <1>4 DEF CheckpointStep

(* The source is edited, the session closes.                               *)
LEMMA WorldSteps ==
  ASSUME CoreInv, Edit \/ SessionCloses \/ UNCHANGED vars
  PROVE  CoreInv'
<1>1. UNCHANGED <<stateVars, pc, checkVars, captured, handoffVars, log>>
  BY DEF Edit, SessionCloses, vars
<1>2. version' \in Versions /\ open' \in BOOLEAN
  <2>1. version \in Versions /\ open \in BOOLEAN /\ version \in Nat
    BY VersionIsNat DEF CoreInv, Types
  <2>2. CASE Edit
    BY <2>1, <2>2, WorkflowAssumption DEF Edit, Versions
  <2>3. CASE SessionCloses
    BY <2>1, <2>3 DEF SessionCloses
  <2>4. CASE UNCHANGED vars
    BY <2>1, <2>4 DEF vars, worldVars
  <2> QED
    BY <2>2, <2>3, <2>4
<1>3. version \in Nat /\ version' \in Nat /\ version <= version'
  BY <1>2, VersionIsNat, WorkflowAssumption DEF Edit, SessionCloses, vars, worldVars, Versions, CoreInv
<1>4. \A p \in Processes : Idles(p)
  BY <1>1 DEF Idles
<1>5. LockInv'
  BY <1>1 DEF CoreInv, LockInv, stateVars, ReadsAreCurrent
<1>6. Types'
  BY <1>1, <1>2 DEF CoreInv, Types, checkVars, handoffVars
<1>7. StartInv'
  <2>1. StartFrame
    BY <1>1, <1>3, <1>4, Kinds DEF StartFrame, stateVars, CoreInv, StartInv
  <2> QED
    BY <2>1, StartKept DEF CoreInv
<1>8. /\ \A c \in Checks : Idles(c) /\ SavedCheck(c)' = SavedCheck(c)
      /\ \A h \in Handoffs : Idles(h) /\ SavedHandoff(h)' = SavedHandoff(h)
      /\ \A r \in Receivers : Idles(r)
  BY <1>1, <1>4, Kinds DEF SavedCheck, SavedHandoff, stateVars
<1>9. \A c \in Checks : CheckInv(c)'
  <2>1. state' # None => state'.observed = IF state = None THEN {} ELSE state.observed
    BY <1>1 DEF stateVars
  <2> QED
    BY <1>1, <1>3, <1>8, <2>1, ChecksRest
<1> QED
  BY <1>1, <1>5, <1>6, <1>7, <1>8, <1>9, HandoffsRest, ReceiversRest DEF CoreInv

-----------------------------------------------------------------------------
(* choose_next, dispatch and _acknowledge.                                 *)

(* What writing the handoff h leaves alone.                                *)
LEMMA HandoffWrite ==
  ASSUME CoreInv, state \in States, NEW h \in Handoffs, NEW rec \in HandoffRecords,
         state' = [state EXCEPT !.handoffs[h] = rec],
         UNCHANGED <<checkVars, captured, worldVars, log>>, Idles(Starter), \A c \in Checks : Idles(c)
  PROVE  /\ StartInv' /\ \A c \in Checks : CheckInv(c)'
         /\ state # None /\ state' # None /\ SavedHandoff(h)' = rec /\ rec # None
         /\ \A g \in Handoffs \ {h} : SavedHandoff(g)' = SavedHandoff(g)
<1> DEFINE t == [state EXCEPT !.handoffs[h] = rec]
<1>1. /\ t \in States /\ t # None /\ t.handoffs[h] = rec
      /\ \A g \in Handoffs \ {h} : t.handoffs[g] = state.handoffs[g]
      /\ t.checks = state.checks /\ t.observed = state.observed /\ t.source = state.source
  BY HandoffWritten
<1>2. state' = t
  OBVIOUS
<1> HIDE DEF t
<1>3. state # None /\ state' # None /\ rec # None
  BY <1>1, <1>2, WorkflowNone
<1>4. version \in Nat /\ version' = version
  BY VersionIsNat DEF CoreInv, worldVars
<1>5. StartInv'
  <2>1. state'.source <= version'
    BY <1>1, <1>2, <1>3, <1>4 DEF CoreInv, StartInv
  <2>2. StartFrame
    BY <1>3, <1>4, <2>1 DEF StartFrame
  <2> QED
    BY <2>2, StartKept DEF CoreInv
<1>6. \A c \in Checks : CheckInv(c)'
  <2>1. \A c \in Checks : SavedCheck(c)' = SavedCheck(c)
    BY <1>1, <1>2, <1>3 DEF SavedCheck
  <2>2. state' # None => state'.observed = IF state = None THEN {} ELSE state.observed
    BY <1>1, <1>2, <1>3
  <2> QED
    BY <1>4, <2>1, <2>2, ChecksRest
<1> QED
  BY <1>1, <1>2, <1>3, <1>5, <1>6 DEF SavedHandoff

(* choose_next.                                                            *)
LEMMA ChoiceSteps ==
  ASSUME CoreInv, NEW h \in Handoffs, ChoiceStep(h)
  PROVE  CoreInv'
<1> h \in Processes /\ h # Starter /\ h \notin Checks /\ h \notin Receivers
  BY WorkflowAssumption
<1>1. CASE Choose(h)
  <2>1. /\ pc[h] = "idle"
        /\ UNCHANGED <<stateVars, checkVars, captured, offered, outcome, deliveries, worldVars, log>>
        /\ \/ \E i \in Instructions : chosen' = [chosen EXCEPT ![h] = i] /\ Goes(h, "enter")
           \/ UNCHANGED chosen /\ Goes(h, "deferred")
    BY <1>1 DEF Choose, At
  <2>2. LockInv' /\ pc'[h] \in {"enter", "deferred"} /\ \A q \in Processes \ {h} : Idles(q)
    BY <2>1, GoesOn DEF CoreInv, Stages
  <2>3. chosen' \in [Handoffs -> Instructions \cup {None}]
        /\ (pc'[h] = "enter" => chosen'[h] # None) /\ \A g \in Handoffs \ {h} : chosen'[g] = chosen[g]
    <3>1. chosen \in [Handoffs -> Instructions \cup {None}]
      BY DEF CoreInv, Types
    <3>2. CASE UNCHANGED chosen /\ Goes(h, "deferred")
      BY <3>1, <3>2 DEF Goes, CoreInv, LockInv
    <3>3. CASE \E i \in Instructions : chosen' = [chosen EXCEPT ![h] = i]
      BY <3>1, <3>3, WorkflowNone
    <3> QED
      BY <2>1, <3>2, <3>3
  <2>4. Types'
    BY <2>1, <2>3 DEF CoreInv, Types, checkVars, worldVars
  <2>5. StartInv'
    <3>1. StartFrame
      <4>1. state = None => \A p \in Processes : pc'[p] # "log"
        BY <2>1, <2>2 DEF CoreInv, StartInv, Idles
      <4>2. version \in Nat /\ version' = version /\ UNCHANGED <<state, captured>>
        BY <2>1, <1>1, VersionIsNat DEF CoreInv, stateVars, worldVars, Choose
      <4> QED
        BY <2>2, <4>1, <4>2, Kinds DEF StartFrame
    <3> QED
      BY <3>1, StartKept DEF CoreInv
  <2>6. \A c \in Checks : CheckInv(c)'
    <3> TAKE c \in Checks
    <3>1. CheckFrame(c)
      BY <2>1, <2>2, VersionIsNat, Kinds DEF CheckFrame, SavedCheck, stateVars, checkVars, worldVars, CoreInv
    <3> QED
      BY <3>1, CheckKept DEF CoreInv
  <2>7. \A g \in Handoffs \ {h} : HandoffInv(g)'
    <3> TAKE g \in Handoffs \ {h}
    <3>1. HandoffFrame(g)
      BY <2>1, <2>2, <2>3, Kinds DEF HandoffFrame, SavedHandoff, stateVars
    <3> QED
      BY <3>1, HandoffKept DEF CoreInv
  <2>8. HandoffInv(h)'
    <3>1. HandoffInv(h) /\ SavedHandoff(h)' = SavedHandoff(h) /\ Acknowledged(h)' = Acknowledged(h)
      BY <2>1 DEF CoreInv, SavedHandoff, Acknowledged, stateVars
    <3> QED
      BY <2>1, <2>2, <2>3, <3>1 DEF HandoffInv, Working
  <2>9. \A r \in Receivers : DispatchInv(r)'
    <3> TAKE r \in Receivers
    <3>1. DispatchFrame(r)
      BY <2>1, <2>2, Kinds DEF DispatchFrame, SavedHandoff, stateVars
    <3> QED
      BY <3>1, DispatchKept DEF CoreInv
  <2> QED
    BY <2>2, <2>4, <2>5, <2>6, <2>7, <2>8, <2>9 DEF CoreInv
<1>2. CASE SaveChoice(h)
  <2>1. copy[h] = state /\ pc[h] = "inside" /\ state \in States
    BY <1>2, InsideIsCurrent DEF SaveChoice, At, TaskOpen, CoreInv, LockInv
  <2> DEFINE rec == [instruction |-> chosen[h], status |-> "selected"]
             t == [state EXCEPT !.handoffs[h] = rec]
  <2>2. HandoffInv(h) /\ SavedHandoff(h) = None /\ chosen[h] \in Instructions
    BY <2>1 DEF CoreInv, Types, HandoffInv, Working
  <2>3. rec \in HandoffRecords /\ rec.status = "selected"
    BY <2>2 DEF HandoffRecords
  <2>4. t \in States
    BY <2>1, <2>3, HandoffWritten
  <2>5. Saved(h, t, "log") /\ UNCHANGED <<checkVars, captured, handoffVars, worldVars, log>>
    BY <1>2, <2>1 DEF SaveChoice
  <2>6. /\ LockInv' /\ state' = t /\ pc'[h] \in {"log", "raised"}
        /\ \A q \in Processes \ {h} : Idles(q)
    BY <2>1, <2>4, <2>5, Saves DEF CoreInv, Stages
  <2> HIDE DEF rec
  <2>7. /\ StartInv' /\ \A c \in Checks : CheckInv(c)'
        /\ state # None /\ state' # None /\ SavedHandoff(h)' = rec /\ rec # None
        /\ \A g \in Handoffs \ {h} : SavedHandoff(g)' = SavedHandoff(g)
    BY <2>1, <2>3, <2>5, <2>6, HandoffWrite, Kinds
  <2> HIDE DEF t
  <2>8. Types'
    BY <2>5 DEF CoreInv, Types, checkVars, handoffVars, worldVars
  <2>9. \A g \in Handoffs \ {h} : HandoffInv(g)'
    <3> TAKE g \in Handoffs \ {h}
    <3>1. HandoffFrame(g)
      BY <2>5, <2>6, <2>7, Kinds DEF HandoffFrame, handoffVars
    <3> QED
      BY <3>1, HandoffKept DEF CoreInv
  <2>10. HandoffInv(h)'
    BY <2>2, <2>3, <2>5, <2>6, <2>7 DEF HandoffInv, Working, handoffVars
  <2>11. \A r \in Receivers : DispatchInv(r)'
    <3> TAKE r \in Receivers
    <3>1. HandoffOf[r] = h => SavedHandoff(HandoffOf[r]) = None
      BY <2>2
    <3>2. HandoffOf[r] # h => SavedHandoff(HandoffOf[r])' = SavedHandoff(HandoffOf[r])
      BY <2>7, WorkflowAssumption
    <3>3. DispatchFrame(r)
      BY <2>5, <2>6, <3>1, <3>2, Kinds DEF DispatchFrame, handoffVars
    <3> QED
      BY <3>3, DispatchKept DEF CoreInv
  <2> QED
    BY <2>6, <2>7, <2>8, <2>9, <2>10, <2>11 DEF CoreInv
<1>3. CASE LogChoice(h)
  <2>1. /\ LockInv' /\ pc'[h] \in {"done", "raised"} /\ log \subseteq log'
        /\ \A q \in Processes \ {h} : Idles(q)
    BY <1>3, Appends DEF LogChoice, At, CoreInv, Stages
  <2>2. Types' /\ StartInv' /\ (\A c \in Checks \ {h} : CheckInv(c)')
        /\ (\A g \in Handoffs \ {h} : HandoffInv(g)') /\ \A r \in Receivers \ {h} : DispatchInv(r)'
    BY <1>3, <2>1, Elsewhere DEF LogChoice, stateVars
  <2>3. HandoffInv(h)'
    <3>1. HandoffInv(h) /\ SavedHandoff(h)' = SavedHandoff(h) /\ UNCHANGED handoffVars
      BY <1>3 DEF CoreInv, SavedHandoff, LogChoice, stateVars
    <3>2. Acknowledged(h) => Acknowledged(h)'
      BY <2>1 DEF Acknowledged
    <3> QED
      BY <2>1, <3>1, <3>2 DEF HandoffInv, Working, handoffVars
  <2> QED
    BY <2>1, <2>2, <2>3 DEF CoreInv
<1>4. CASE ChoiceRefused(h)
  BY <1>4, RefusedStep DEF ChoiceRefused
<1> QED
  BY <1>1, <1>2, <1>3, <1>4 DEF ChoiceStep

(* dispatch and _acknowledge.                                              *)
LEMMA DispatchSteps ==
  ASSUME CoreInv, NEW r \in Receivers, DispatchStep(r)
  PROVE  CoreInv'
<1> DEFINE h == HandoffOf[r]
<1>0. r \in Processes /\ r # Starter /\ r \notin Checks /\ r \notin Handoffs /\ h \in Handoffs
  BY WorkflowAssumption
<1> HIDE DEF h
<1> USE <1>0
<1>d. DispatchInv(r) /\ HandoffInv(h) /\ HandoffOf[r] = h
  BY DEF CoreInv, h
<1>1. CASE Acknowledge(r)
  <2>1. /\ pc[r] = "idle" /\ Goes(r, "enter")
        /\ UNCHANGED <<stateVars, checkVars, captured, handoffVars, worldVars, log>>
    BY <1>1 DEF Acknowledge, At
  <2>2. LockInv' /\ pc'[r] = "enter" /\ \A q \in Processes \ {r} : Idles(q)
    BY <2>1, GoesOn DEF CoreInv, Stages
  <2>3. offered[r] = None
    BY <1>1, <1>d DEF Acknowledge, Unstarted, TaskOpen, HandoffInv, SavedHandoff
  <2>4. Types' /\ StartInv' /\ (\A c \in Checks \ {r} : CheckInv(c)')
        /\ (\A g \in Handoffs \ {r} : HandoffInv(g)') /\ \A q \in Receivers \ {r} : DispatchInv(q)'
    BY <2>1, <2>2, Elsewhere DEF stateVars
  <2>5. DispatchInv(r)'
    <3>1. SavedHandoff(h)' = SavedHandoff(h) /\ UNCHANGED <<handoffVars, log>>
      BY <2>1 DEF SavedHandoff, stateVars
    <3> QED
      BY <2>2, <2>3, <3>1, <1>d DEF DispatchInv, handoffVars
  <2> QED
    BY <2>2, <2>4, <2>5 DEF CoreInv
<1>2. CASE BeginDispatch(r)
  <2>1. copy[r] = state /\ pc[r] = "inside" /\ state \in States /\ offered[r] = None
    BY <1>2, InsideIsCurrent DEF BeginDispatch, MayBegin, At, TaskOpen, CoreInv, LockInv
  <2> DEFINE rec == [state.handoffs[h] EXCEPT !.status = "dispatching"]
             t == [state EXCEPT !.handoffs[h] = rec]
  <2>2. SavedHandoff(h) \in HandoffRecords /\ SavedHandoff(h).status = "selected"
        /\ state.handoffs[h] = SavedHandoff(h)
    <3>1. state # None /\ state.handoffs[h] # None /\ state.handoffs[h].status = "selected"
      BY <1>2, <2>1, <1>d DEF BeginDispatch, MayBegin, Unstarted, TaskOpen
    <3>2. state.handoffs[h] \in HandoffRecords \cup {None}
      BY <2>1, StateFields
    <3> QED
      BY <3>1, <3>2 DEF SavedHandoff
  <2>3. rec \in HandoffRecords /\ rec.status = "dispatching"
    BY <2>2 DEF HandoffRecords
  <2>4. t \in States
    BY <2>1, <2>3, HandoffWritten
  <2>5. /\ Saved(r, t, "deliver") /\ offered' = [offered EXCEPT ![r] = rec]
        /\ UNCHANGED <<checkVars, captured, chosen, outcome, deliveries, worldVars, log>>
    BY <1>2, <2>1, <1>d DEF BeginDispatch
  <2>6. /\ LockInv' /\ state' = t /\ pc'[r] \in {"deliver", "raised"}
        /\ \A q \in Processes \ {r} : Idles(q)
    BY <2>1, <2>4, <2>5, Saves DEF CoreInv, Stages
  <2> HIDE DEF rec
  <2>7. /\ StartInv' /\ \A c \in Checks : CheckInv(c)'
        /\ state # None /\ state' # None /\ SavedHandoff(h)' = rec /\ rec # None
        /\ \A g \in Handoffs \ {h} : SavedHandoff(g)' = SavedHandoff(g)
    BY <2>1, <2>3, <2>5, <2>6, HandoffWrite, Kinds
  <2> HIDE DEF t
  <2>8. /\ offered' \in [Receivers -> HandoffRecords \cup {None}]
        /\ offered'[r] = rec /\ \A q \in Receivers \ {r} : offered'[q] = offered[q]
    BY <2>3, <2>5 DEF CoreInv, Types
  <2>9. Types'
    BY <2>5, <2>8 DEF CoreInv, Types, checkVars, worldVars
  <2>10. \A g \in Handoffs \ {h} : HandoffInv(g)'
    <3> TAKE g \in Handoffs \ {h}
    <3>1. HandoffFrame(g)
      BY <2>5, <2>6, <2>7, <2>8, <1>d, Kinds DEF HandoffFrame
    <3> QED
      BY <3>1, HandoffKept DEF CoreInv
  <2>11. HandoffInv(h)'
    <3>1. \A q \in Receivers : HandoffOf[q] = h => offered[q] = None
      BY <2>2, <1>d DEF HandoffInv
    <3>2. \A q \in deliveries[h] : q \in Receivers
      BY DEF CoreInv, Types
    <3>3. deliveries'[h] = {}
      BY <2>5, <3>1, <3>2, <1>d DEF HandoffInv
    <3>4. Idles(h)
      BY <2>6, Kinds
    <3>5. pc'[h] \notin {"idle", "enter", "inside"}
      BY <2>2, <3>4, <1>d, WorkflowNone DEF HandoffInv, Idles
    <3> QED
      BY <2>3, <2>7, <2>8, <3>1, <3>3, <3>5, <1>d DEF HandoffInv, Working
  <2>12. \A q \in Receivers \ {r} : DispatchInv(q)'
    <3> TAKE q \in Receivers \ {r}
    <3>1. HandoffOf[q] # h => SavedHandoff(HandoffOf[q])' = SavedHandoff(HandoffOf[q])
      BY <2>7, WorkflowAssumption
    <3>2. DispatchFrame(q)
      BY <2>2, <2>5, <2>6, <2>8, <3>1, Kinds DEF DispatchFrame
    <3> QED
      BY <3>2, DispatchKept DEF CoreInv
  <2>13. DispatchInv(r)'
    <3>1. outcome'[r] # "dispatched"
      BY <2>1, <2>5, <1>d DEF DispatchInv
    <3> QED
      BY <2>3, <2>6, <2>7, <2>8, <3>1 DEF DispatchInv, Working
  <2> QED
    BY <2>6, <2>7, <2>9, <2>10, <2>11, <2>12, <2>13 DEF CoreInv
<1>3. CASE Deliver(r)
  <2>1. /\ pc[r] = "deliver" /\ Goes(r, "enter")
        /\ UNCHANGED <<stateVars, checkVars, captured, chosen, offered, worldVars>>
        /\ deliveries' = [deliveries EXCEPT ![h] = @ \cup {r}]
        /\ log \subseteq log'
        /\ \/ /\ offered[r].instruction = Received[r] /\ Acknowledged(h)'
              /\ outcome' = [outcome EXCEPT ![r] = "dispatched"]
           \/ outcome' = [outcome EXCEPT ![r] = "failed"]
    BY <1>3, <1>d DEF Deliver, At, Acknowledged
  <2>2. LockInv' /\ pc'[r] = "enter" /\ \A q \in Processes \ {r} : Idles(q)
    BY <2>1, GoesOn DEF CoreInv, Stages
  <2>3. /\ deliveries' \in [Handoffs -> SUBSET Receivers] /\ deliveries'[h] = deliveries[h] \cup {r}
        /\ \A g \in Handoffs \ {h} : deliveries'[g] = deliveries[g]
    BY <2>1 DEF CoreInv, Types
  <2>4. /\ outcome' \in [Receivers -> {"dispatched", "failed", None}]
        /\ \A q \in Receivers \ {r} : outcome'[q] = outcome[q]
        /\ outcome'[r] \in {"dispatched", "failed"}
        /\ outcome'[r] = "dispatched" => offered[r].instruction = Received[r] /\ Acknowledged(h)'
    BY <2>1 DEF CoreInv, Types
  <2>5. offered[r] # None
    BY <2>1, <1>d DEF DispatchInv
  <2>6. Types'
    BY <2>1, <2>3, <2>4 DEF CoreInv, Types, checkVars, worldVars
  <2>7. StartInv'
    <3>1. state = None => \A p \in Processes : pc'[p] # "log"
      BY <2>1, <2>2 DEF CoreInv, StartInv, Idles
    <3>2. version \in Nat /\ version' = version /\ UNCHANGED <<state, captured>>
      BY <2>1, VersionIsNat DEF CoreInv, stateVars, worldVars
    <3>3. StartFrame
      BY <2>2, <3>1, <3>2, Kinds DEF StartFrame
    <3> QED
      BY <3>3, StartKept DEF CoreInv
  <2>8. /\ \A c \in Checks : SavedCheck(c)' = SavedCheck(c)
        /\ \A g \in Handoffs : SavedHandoff(g)' = SavedHandoff(g)
    BY <2>1 DEF SavedCheck, SavedHandoff, stateVars
  <2>9. \A c \in Checks : CheckInv(c)'
    <3> TAKE c \in Checks
    <3>1. CheckFrame(c)
      BY <2>1, <2>2, <2>8, VersionIsNat, Kinds DEF CheckFrame, stateVars, checkVars, worldVars, CoreInv
    <3> QED
      BY <3>1, CheckKept DEF CoreInv
  <2>10. \A g \in Handoffs \ {h} : HandoffInv(g)'
    <3> TAKE g \in Handoffs \ {h}
    <3>1. HandoffFrame(g)
      BY <2>1, <2>2, <2>3, <2>8, Kinds DEF HandoffFrame
    <3> QED
      BY <3>1, HandoffKept DEF CoreInv
  <2>11. HandoffInv(h)'
    <3>1. Acknowledged(h) => Acknowledged(h)'
      BY <2>1 DEF Acknowledged
    <3>2. Idles(h)
      BY <2>2, Kinds
    <3>3. /\ pc'[h] \in {"idle", "enter", "inside"} => pc[h] \in {"idle", "enter", "inside"}
          /\ pc'[h] \in Working => pc[h] \in Working
          /\ pc'[h] = "log" => pc[h] = "log"
      BY <3>2 DEF Idles, Working
    <3> QED
      BY <2>1, <2>3, <2>5, <2>8, <3>1, <3>3, <1>d DEF HandoffInv
  <2>12. \A q \in Receivers \ {r} : DispatchInv(q)'
    <3> TAKE q \in Receivers \ {r}
    <3>1. deliveries[HandoffOf[q]] \subseteq deliveries'[HandoffOf[q]]
      BY <2>3, WorkflowAssumption
    <3>2. SavedHandoff(HandoffOf[q])' = SavedHandoff(HandoffOf[q])
      BY <2>8, WorkflowAssumption
    <3>3. offered'[q] = offered[q] /\ outcome'[q] = outcome[q] /\ log \subseteq log' /\ Idles(q)
      BY <2>1, <2>2, <2>4, Kinds
    <3>4. DispatchFrame(q)
      BY <3>1, <3>2, <3>3 DEF DispatchFrame
    <3> QED
      BY <3>4, DispatchKept DEF CoreInv
  <2>13. DispatchInv(r)'
    BY <2>1, <2>2, <2>3, <2>4, <2>5, <1>d, WorkflowNone DEF DispatchInv
  <2> QED
    BY <2>2, <2>6, <2>7, <2>9, <2>10, <2>11, <2>12, <2>13 DEF CoreInv
<1>4. CASE FinishDispatch(r)
  <2>1. copy[r] = state /\ pc[r] = "inside" /\ state \in States /\ offered[r] # None
    BY <1>4, InsideIsCurrent DEF FinishDispatch, MayFinish, At, TaskOpen, CoreInv, LockInv
  <2> DEFINE rec == [state.handoffs[h] EXCEPT !.status = outcome[r]]
             t == [state EXCEPT !.handoffs[h] = rec]
  <2>2. /\ SavedHandoff(h) \in HandoffRecords /\ SavedHandoff(h) = offered[r]
        /\ state.handoffs[h] = SavedHandoff(h) /\ SavedHandoff(h).status = "dispatching"
    <3>1. state # None /\ state.handoffs[h] # None /\ state.handoffs[h] = offered[r]
      BY <1>4, <2>1, <1>d DEF FinishDispatch, MayFinish, Unchanged, TaskOpen
    <3>2. state.handoffs[h] \in HandoffRecords \cup {None}
      BY <2>1, StateFields
    <3> QED
      BY <3>1, <3>2, <1>d DEF SavedHandoff, DispatchInv
  <2>3. outcome[r] \in {"dispatched", "failed"}
    BY <2>1, <1>d DEF DispatchInv, Working, CoreInv, Types
  <2>4. /\ rec \in HandoffRecords /\ rec.status = outcome[r]
        /\ rec.instruction = offered[r].instruction
    BY <2>2, <2>3 DEF HandoffRecords
  <2>5. t \in States
    BY <2>1, <2>4, HandoffWritten
  <2>6. Saved(r, t, "log") /\ UNCHANGED <<checkVars, captured, handoffVars, worldVars, log>>
    BY <1>4, <2>1, <1>d DEF FinishDispatch
  <2>7. /\ LockInv' /\ state' = t /\ pc'[r] \in {"log", "raised"}
        /\ \A q \in Processes \ {r} : Idles(q)
    BY <2>1, <2>5, <2>6, Saves DEF CoreInv, Stages
  <2> HIDE DEF rec
  <2>8. /\ StartInv' /\ \A c \in Checks : CheckInv(c)'
        /\ state # None /\ state' # None /\ SavedHandoff(h)' = rec /\ rec # None
        /\ \A g \in Handoffs \ {h} : SavedHandoff(g)' = SavedHandoff(g)
    BY <2>1, <2>4, <2>6, <2>7, HandoffWrite, Kinds
  <2> HIDE DEF t
  <2>9. Types'
    BY <2>6 DEF CoreInv, Types, checkVars, handoffVars, worldVars
  <2>10. \A g \in Handoffs \ {h} : HandoffInv(g)'
    <3> TAKE g \in Handoffs \ {h}
    <3>1. HandoffFrame(g)
      BY <2>6, <2>7, <2>8, Kinds DEF HandoffFrame, handoffVars
    <3> QED
      BY <3>1, HandoffKept DEF CoreInv
  <2>11. HandoffInv(h)'
    <3>1. Idles(h)
      BY <2>7, Kinds
    <3>2. pc'[h] \notin {"idle", "enter", "inside"}
      BY <2>1, <2>2, <3>1, <1>d DEF HandoffInv, Idles
    <3>3. outcome[r] = "dispatched" =>
            Acknowledged(h)' /\ \E q \in deliveries'[h] : Received[q] = rec.instruction
      BY <2>4, <2>6, <1>d DEF DispatchInv, Acknowledged, handoffVars
    <3> QED
      BY <2>3, <2>4, <2>6, <2>8, <3>2, <3>3, <1>d DEF HandoffInv, Working, handoffVars
  <2>12. \A q \in Receivers \ {r} : DispatchInv(q)'
    <3> TAKE q \in Receivers \ {r}
    <3>1. HandoffOf[q] # h => SavedHandoff(HandoffOf[q])' = SavedHandoff(HandoffOf[q])
      BY <2>8, WorkflowAssumption
    <3>2. DispatchFrame(q)
      BY <2>2, <2>6, <2>7, <3>1, Kinds DEF DispatchFrame, handoffVars
    <3> QED
      BY <3>2, DispatchKept DEF CoreInv
  <2>13. DispatchInv(r)'
    BY <2>3, <2>4, <2>6, <2>7, <2>8, <1>d DEF DispatchInv, Working, Acknowledged, handoffVars
  <2> QED
    BY <2>7, <2>8, <2>9, <2>10, <2>11, <2>12, <2>13 DEF CoreInv
<1>5. CASE DispatchRefused(r)
  BY <1>5, RefusedStep DEF DispatchRefused
<1>6. CASE LogDispatch(r)
  <2>1. /\ LockInv' /\ pc'[r] \in {"done", "raised"} /\ log \subseteq log'
        /\ \A q \in Processes \ {r} : Idles(q)
    BY <1>6, Appends DEF LogDispatch, At, CoreInv, Stages
  <2>2. Types' /\ StartInv' /\ (\A c \in Checks \ {r} : CheckInv(c)')
        /\ (\A g \in Handoffs \ {r} : HandoffInv(g)') /\ \A q \in Receivers \ {r} : DispatchInv(q)'
    BY <1>6, <2>1, Elsewhere DEF LogDispatch, stateVars
  <2>3. DispatchInv(r)'
    <3>1. SavedHandoff(h)' = SavedHandoff(h) /\ UNCHANGED handoffVars
      BY <1>6 DEF SavedHandoff, LogDispatch, stateVars
    <3>2. Acknowledged(h) => Acknowledged(h)'
      BY <2>1 DEF Acknowledged
    <3> QED
      BY <2>1, <3>1, <3>2, <1>d DEF DispatchInv, Working, handoffVars
  <2> QED
    BY <2>1, <2>2, <2>3 DEF CoreInv
<1> QED
  BY <1>1, <1>2, <1>3, <1>4, <1>5, <1>6 DEF DispatchStep

(* Another caller rewrites what is not finished.                           *)
LEMMA RewriteLock ==
  ASSUME LockInv, NEW s \in States, Rewrite(s)
  PROVE  /\ LockInv' /\ state' = s /\ state \in States /\ \A p \in Processes : Idles(p)
         /\ UNCHANGED <<pc, checkVars, captured, handoffVars, worldVars, log>>
BY DEF Rewrite, LockInv, ReadsAreCurrent, ProjectLockFree, TaskOpen, Idles

(* A handoff is rewritten only while it is not finished.                   *)
LEMMA HandoffRewrites ==
  ASSUME CoreInv, NEW h \in Handoffs, RewriteHandoff(h)
  PROVE  CoreInv'
<1>1. PICK i \in Instructions : Rewrite([state EXCEPT !.handoffs[h].instruction = i])
  BY DEF RewriteHandoff
<1> DEFINE s == SavedHandoff(h)
           rec == [state.handoffs[h] EXCEPT !.instruction = i]
           t == [state EXCEPT !.handoffs[h] = rec]
<1>2. state \in States /\ s \in HandoffRecords /\ s.status \in {"selected", "dispatching"}
      /\ state.handoffs[h] = s
  BY StateFields DEF RewriteHandoff, SavedHandoff, CoreInv, LockInv
<1>3. rec \in HandoffRecords /\ rec.status = s.status
  BY <1>2 DEF HandoffRecords
<1>4. t \in States
  BY <1>2, <1>3, HandoffWritten
<1>5. Rewrite(t)
  BY <1>1, <1>2
<1>6. /\ LockInv' /\ state' = t /\ \A p \in Processes : Idles(p)
      /\ UNCHANGED <<pc, checkVars, captured, handoffVars, worldVars, log>>
  BY <1>4, <1>5, RewriteLock DEF CoreInv
<1> HIDE DEF rec
<1>7. /\ StartInv' /\ \A c \in Checks : CheckInv(c)'
      /\ state # None /\ state' # None /\ SavedHandoff(h)' = rec /\ rec # None
      /\ \A g \in Handoffs \ {h} : SavedHandoff(g)' = SavedHandoff(g)
  BY <1>2, <1>3, <1>6, HandoffWrite, Kinds
<1> HIDE DEF t
<1>8. Types'
  BY <1>6 DEF CoreInv, Types, checkVars, handoffVars, worldVars
<1>9. \A g \in Handoffs \ {h} : HandoffInv(g)'
  <2> TAKE g \in Handoffs \ {h}
  <2>1. HandoffFrame(g)
    BY <1>6, <1>7, Kinds DEF HandoffFrame, handoffVars
  <2> QED
    BY <2>1, HandoffKept DEF CoreInv
<1>10. HandoffInv(h)'
  <2>1. HandoffInv(h) /\ s # None
    BY <1>2, WorkflowNone DEF CoreInv
  <2>2. pc' = pc /\ UNCHANGED handoffVars
    BY <1>6
  <2> QED
    BY <1>2, <1>3, <1>7, <2>1, <2>2 DEF HandoffInv, handoffVars
<1>11. \A r \in Receivers : DispatchInv(r)'
  <2> TAKE r \in Receivers
  <2>1. HandoffOf[r] # h => SavedHandoff(HandoffOf[r])' = SavedHandoff(HandoffOf[r])
    BY <1>7, WorkflowAssumption
  <2>2. DispatchFrame(r)
    BY <1>2, <1>6, <2>1, Kinds DEF DispatchFrame, handoffVars
  <2> QED
    BY <2>2, DispatchKept DEF CoreInv
<1> QED
  BY <1>6, <1>7, <1>8, <1>9, <1>10, <1>11 DEF CoreInv

-----------------------------------------------------------------------------
(* experience.check.                                                       *)

(* A check plans its next transition.                                      *)
LEMMA PlanStep ==
  ASSUME CoreInv, NEW c \in Checks, pc[c] # "inside", NEW w \in CheckRecords, Plans(c, w),
         CheckKeeps, UNCHANGED log, Planned(mine[c], w),
         NEW v \in Views \cup {None}, consented' = [consented EXCEPT ![c] = v],
         NEW n \in Versions \cup {None}, ranOn' = [ranOn EXCEPT ![c] = n],
         ConsentInv(c)', RanInv(c)'
  PROVE  CoreInv'
<1> c \in Processes /\ c # Starter /\ c \notin Handoffs /\ c \notin Receivers
  BY WorkflowAssumption
<1>1. /\ plan' = [plan EXCEPT ![c] = w] /\ Goes(c, "enter")
      /\ UNCHANGED <<stateVars, mine, captured, handoffVars, worldVars, log>>
  BY DEF Plans, CheckKeeps
<1>2. LockInv' /\ pc'[c] = "enter" /\ \A q \in Processes \ {c} : Idles(q)
  BY <1>1, GoesOn DEF CoreInv, Stages
<1>3. /\ Types' /\ plan'[c] = w
      /\ \A d \in Checks \ {c} : plan'[d] = plan[d] /\ consented'[d] = consented[d] /\ ranOn'[d] = ranOn[d]
  BY <1>1 DEF CoreInv, Types, handoffVars, worldVars
<1>4. version \in Nat /\ version' = version /\ UNCHANGED <<state, captured>>
  BY <1>1, VersionIsNat DEF CoreInv, stateVars, worldVars
<1>5. StartInv'
  <2>1. state = None => \A p \in Processes : pc'[p] # "log"
    BY <1>2 DEF CoreInv, StartInv, Idles
  <2>2. StartFrame
    BY <1>2, <1>4, <2>1, Kinds DEF StartFrame
  <2> QED
    BY <2>2, StartKept DEF CoreInv
<1>6. /\ \A d \in Checks : SavedCheck(d)' = SavedCheck(d)
      /\ \A h \in Handoffs : SavedHandoff(h)' = SavedHandoff(h)
  BY <1>4 DEF SavedCheck, SavedHandoff
<1>7. \A d \in Checks \ {c} : CheckInv(d)'
  <2> TAKE d \in Checks \ {c}
  <2>1. CheckFrame(d)
    BY <1>1, <1>2, <1>3, <1>4, <1>6, Kinds DEF CheckFrame
  <2> QED
    BY <2>1, CheckKept DEF CoreInv
<1>8. CheckInv(c)'
  <2>1. CheckInv(c) /\ mine' = mine
    BY <1>1 DEF CoreInv
  <2>2. Stands(pc'[c], mine'[c], plan'[c])
    BY <1>2, <1>3, <2>1 DEF Stands, Working
  <2> QED
    BY <1>4, <1>6, <2>1, <2>2 DEF CheckInv
<1>9. \A h \in Handoffs : HandoffInv(h)'
  BY <1>1, <1>2, <1>6, HandoffsRest, Kinds
<1>10. \A r \in Receivers : DispatchInv(r)'
  BY <1>1, <1>2, <1>6, ReceiversRest, Kinds
<1> QED
  BY <1>2, <1>3, <1>5, <1>7, <1>8, <1>9, <1>10 DEF CoreInv

(* The record of a check that has one, and what it may plan.               *)
LEMMA CheckAt ==
  ASSUME CoreInv, NEW c \in Checks
  PROVE  /\ CheckInv(c)
         /\ mine[c] # None => mine[c] \in CheckRecords /\ Shaped(mine[c]) /\ mine[c].spec = "asked"
         /\ consented = [consented EXCEPT ![c] = consented[c]] /\ consented[c] \in Views \cup {None}
         /\ ranOn = [ranOn EXCEPT ![c] = ranOn[c]] /\ ranOn[c] \in Versions \cup {None}
BY DEF CoreInv, Types, CheckInv

(* A plan that neither consents nor runs nor compares.                     *)
LEMMA QuietPlan ==
  ASSUME CoreInv, NEW c \in Checks, mine[c] # None, NEW w \in CheckRecords, w.refs = mine[c].refs,
         Plans(c, w), CheckKeeps, UNCHANGED <<consented, ranOn, log>>, pc[c] # "inside",
         Planned(mine[c], w), w.phase # "approved", w.execution = None, w.observation = None,
         w.approval # None => <<c, "prediction">> \in log,
         w.phase = "running" => <<c, "probe_approval">> \in log
  PROVE  CoreInv'
<1>1. CheckInv(c) /\ mine[c] \in CheckRecords
  BY CheckAt
<1>2. /\ plan'[c] = w /\ pc'[c] = "enter" /\ UNCHANGED <<mine, version>>
  BY Kinds DEF Plans, Goes, CheckKeeps, worldVars, CoreInv, Types, LockInv
<1>3. ConsentInv(c)'
  BY <1>1, <1>2 DEF ConsentInv, CheckInv, Working
<1>4. RanInv(c)'
  <2>1. \A m, e, o : Verified(c, m, e, o)' <=> Verified(c, m, e, o)
    BY DEF Verified
  <2>2. Verified(c, mine[c], w.execution, w.observation)
    BY WorkflowNone DEF Verified
  <2> QED
    BY <1>1, <1>2, <2>1, <2>2 DEF RanInv, CheckInv
<1> QED
  BY <1>3, <1>4, CheckAt, PlanStep

(* The first plan of a check.                                              *)
LEMMA PrepareStep ==
  ASSUME CoreInv, NEW c \in Checks, Prepare(c)
  PROVE  CoreInv'
<1> DEFINE w == [phase |-> "prepared", spec |-> "asked", refs |-> version, prediction |-> None,
                 approval |-> None, execution |-> None, observation |-> None]
<1>1. /\ pc[c] = "idle" /\ Plans(c, w) /\ CheckKeeps /\ UNCHANGED <<consented, ranOn, log>>
  BY DEF Prepare, At
<1>2. version \in Versions /\ version \in Nat
  BY VersionIsNat DEF CoreInv, Types
<1>3. w \in CheckRecords
  BY <1>2 DEF CheckRecords, Phases
<1>4. CheckInv(c) /\ mine[c] = None
  BY <1>1, CheckAt DEF CheckInv, Stands
<1>5. Planned(mine[c], w)
  BY <1>3, <1>4, WorkflowNone DEF Planned, Sets
<1>6. /\ plan'[c] = w /\ pc'[c] = "enter" /\ UNCHANGED <<mine, version>>
  BY <1>1, Kinds DEF Plans, Goes, CheckKeeps, worldVars, CoreInv, Types, LockInv
<1>7. ConsentInv(c)'
  BY <1>1, <1>4, <1>6 DEF ConsentInv, CheckInv
<1>8. RanInv(c)'
  BY <1>1, <1>2, <1>4, <1>6, WorkflowNone DEF RanInv, CheckInv, Verified
<1> HIDE DEF w
<1> QED
  BY <1>1, <1>3, <1>5, <1>7, <1>8, CheckAt, PlanStep

(* The prediction, or its skipping.                                        *)
LEMMA PredictStep ==
  ASSUME CoreInv, NEW c \in Checks, Predict(c)
  PROVE  CoreInv'
<1>1. /\ pc[c] = "predict" /\ CheckKeeps /\ UNCHANGED <<consented, ranOn, log>>
  BY DEF Predict, At
<1>2. CheckInv(c) /\ mine[c] # None /\ mine[c] \in CheckRecords /\ mine[c].phase = "prepared"
  BY <1>1, CheckAt DEF CheckInv, Stands
<1>3. ASSUME NEW x \in Values, Plans(c, [Fields(c, "predicted") EXCEPT !.prediction = x])
      PROVE  CoreInv'
  <2> DEFINE w == [Fields(c, "predicted") EXCEPT !.prediction = x]
  <2>1. /\ w \in CheckRecords /\ w.phase = "predicted" /\ w.spec = "asked" /\ w.refs = mine[c].refs
        /\ w.prediction = x /\ w.approval = None /\ w.execution = None /\ w.observation = None
    BY <1>2 DEF Fields, CheckRecords, Phases
  <2> HIDE DEF w
  <2>2. Planned(mine[c], w)
    BY <1>2, <2>1, WorkflowNone DEF Planned, Sets
  <2>3. Plans(c, w)
    BY <1>3 DEF w
  <2> QED
    BY <1>1, <1>2, <2>1, <2>2, <2>3, QuietPlan
<1>4. ASSUME Plans(c, Fields(c, "skipped"))
      PROVE  CoreInv'
  <2>1. /\ Fields(c, "skipped") \in CheckRecords /\ Fields(c, "skipped").phase = "skipped"
        /\ Fields(c, "skipped").spec = "asked" /\ Fields(c, "skipped").refs = mine[c].refs
        /\ Sets(Fields(c, "skipped"), {})
    BY <1>2, FieldsRecord DEF Phases
  <2>2. Planned(mine[c], Fields(c, "skipped"))
    BY <1>2, <2>1, WorkflowNone DEF Planned
  <2> QED
    BY <1>1, <1>2, <1>4, <2>1, <2>2, QuietPlan DEF Sets
<1> QED
  BY <1>3, <1>4 DEF Predict

(* Skipping, for whatever reason, before the probe runs.                   *)
LEMMA SkipStep ==
  ASSUME CoreInv, NEW c \in Checks, pc[c] \in {"consent", "declined", "recheck"},
         Plans(c, Fields(c, "skipped")), CheckKeeps, UNCHANGED <<consented, ranOn, log>>
  PROVE  CoreInv'
<1>1. CheckInv(c) /\ mine[c] # None /\ mine[c] \in CheckRecords /\ mine[c].phase \in {"predicted", "approved"}
  BY CheckAt DEF CheckInv, Stands
<1>2. /\ Fields(c, "skipped") \in CheckRecords /\ Fields(c, "skipped").phase = "skipped"
      /\ Fields(c, "skipped").spec = "asked" /\ Fields(c, "skipped").refs = mine[c].refs
      /\ Sets(Fields(c, "skipped"), {})
  BY <1>1, FieldsRecord DEF Phases
<1>3. Planned(mine[c], Fields(c, "skipped"))
  BY <1>1, <1>2, WorkflowNone DEF Planned
<1> QED
  BY <1>1, <1>2, <1>3, QuietPlan DEF Sets

(* Consent is to the record the check knows; the prediction is logged by   *)
(* then.                                                                   *)
LEMMA ConsentStep ==
  ASSUME CoreInv, NEW c \in Checks, Consent(c)
  PROVE  CoreInv'
<1>1. /\ pc[c] = "consent" /\ CheckKeeps /\ UNCHANGED <<ranOn, log>>
  BY DEF Consent, At
<1>2. /\ CheckInv(c) /\ mine[c] # None /\ mine[c] \in CheckRecords
      /\ mine[c].phase = "predicted" /\ mine[c].approval = None
  BY <1>1, CheckAt DEF CheckInv, Stands
<1>3. <<c, "prediction">> \in log
  BY <1>1, <1>2 DEF CheckInv, ConsentInv
<1>4. ASSUME Plans(c, [Fields(c, "approved") EXCEPT !.approval = "yes"]),
             consented' = [consented EXCEPT ![c] = Shown(mine[c])]
      PROVE  CoreInv'
  <2> DEFINE w == [Fields(c, "approved") EXCEPT !.approval = "yes"]
  <2>1. /\ w \in CheckRecords /\ w.phase = "approved" /\ w.spec = "asked" /\ w.refs = mine[c].refs
        /\ w.prediction = None /\ w.approval = "yes" /\ w.execution = None /\ w.observation = None
    BY <1>2 DEF Fields, CheckRecords, Phases
  <2>2. Plans(c, w)
    BY <1>4
  <2> HIDE DEF w
  <2>3. Planned(mine[c], w)
    BY <1>2, <2>1, WorkflowNone DEF Planned, Sets
  <2>4. /\ plan'[c] = w /\ pc'[c] = "enter" /\ UNCHANGED <<mine, version>>
        /\ Shown(mine[c]) \in Views /\ consented'[c] = Shown(mine[c])
    BY <1>1, <1>2, <1>4, <2>2, Kinds
       DEF Plans, Goes, CheckKeeps, worldVars, CoreInv, Types, LockInv, Shown, Views, CheckRecords
  <2>5. ConsentInv(c)'
    BY <1>1, <1>2, <1>3, <2>1, <2>4 DEF ConsentInv, CheckInv, Answered, Started
  <2>6. RanInv(c)'
    <3>1. \A m, e, o : Verified(c, m, e, o)' <=> Verified(c, m, e, o)
      BY <1>1 DEF Verified
    <3>2. Verified(c, mine[c], w.execution, w.observation)
      BY <2>1, WorkflowNone DEF Verified
    <3> QED
      BY <1>1, <1>2, <2>1, <2>4, <3>1, <3>2 DEF RanInv, CheckInv
  <2> QED
    BY <1>1, <1>4, <2>1, <2>2, <2>3, <2>4, <2>5, <2>6, CheckAt, PlanStep
<1>5. ASSUME Plans(c, [Fields(c, "predicted") EXCEPT !.approval = "no"]), UNCHANGED consented
      PROVE  CoreInv'
  <2> DEFINE w == [Fields(c, "predicted") EXCEPT !.approval = "no"]
  <2>1. /\ w \in CheckRecords /\ w.phase = "predicted" /\ w.spec = "asked" /\ w.refs = mine[c].refs
        /\ w.prediction = None /\ w.approval = "no" /\ w.execution = None /\ w.observation = None
    BY <1>2 DEF Fields, CheckRecords, Phases
  <2>2. Plans(c, w)
    BY <1>5
  <2> HIDE DEF w
  <2>3. Planned(mine[c], w)
    BY <1>2, <2>1, WorkflowNone DEF Planned, Sets
  <2> QED
    BY <1>1, <1>2, <1>3, <1>5, <2>1, <2>2, <2>3, QuietPlan
<1>6. ASSUME Plans(c, Fields(c, "skipped")), UNCHANGED consented
      PROVE  CoreInv'
  BY <1>1, <1>6, SkipStep
<1> QED
  BY <1>4, <1>5, <1>6 DEF Consent

(* After the consent the source is looked at once more.                    *)
LEMMA RecheckStep ==
  ASSUME CoreInv, NEW c \in Checks, Recheck(c)
  PROVE  CoreInv'
<1>1. /\ pc[c] = "recheck" /\ CheckKeeps /\ UNCHANGED <<consented, ranOn, log>>
      /\ Plans(c, Fields(c, "running")) \/ Plans(c, Fields(c, "skipped"))
  BY DEF Recheck, At
<1>2. /\ CheckInv(c) /\ mine[c] # None /\ mine[c] \in CheckRecords /\ mine[c].phase = "approved"
  BY <1>1, CheckAt DEF CheckInv, Stands
<1>3. <<c, "probe_approval">> \in log
  BY <1>1, <1>2 DEF CheckInv, ConsentInv
<1>4. CASE Plans(c, Fields(c, "running"))
  <2>1. /\ Fields(c, "running") \in CheckRecords /\ Fields(c, "running").phase = "running"
        /\ Fields(c, "running").spec = "asked" /\ Fields(c, "running").refs = mine[c].refs
        /\ Sets(Fields(c, "running"), {})
    BY <1>2, FieldsRecord DEF Phases
  <2>2. Planned(mine[c], Fields(c, "running"))
    BY <1>2, <2>1, WorkflowNone DEF Planned
  <2> QED
    BY <1>1, <1>2, <1>3, <1>4, <2>1, <2>2, QuietPlan DEF Sets
<1> QED
  BY <1>1, <1>4, SkipStep

(* The probe runs on the current version, which is not older than the      *)
(* cited one.                                                              *)
LEMMA RunStep ==
  ASSUME CoreInv, NEW c \in Checks, RunProbe(c)
  PROVE  CoreInv'
<1>1. /\ pc[c] = "run" /\ CheckKeeps /\ UNCHANGED <<consented, log>>
      /\ ranOn' = [ranOn EXCEPT ![c] = version]
  BY DEF RunProbe, At
<1>2. /\ CheckInv(c) /\ mine[c] # None /\ mine[c] \in CheckRecords /\ Shaped(mine[c])
      /\ mine[c].phase = "running" /\ mine[c].execution = None
  BY <1>1, CheckAt DEF CheckInv, Stands
<1>3. version \in Versions /\ version \in Nat /\ Printed[version] \in Values
  BY VersionIsNat, WorkflowAssumption DEF CoreInv, Types
<1>4. ASSUME NEW w \in CheckRecords, Plans(c, w), w.spec = "asked", w.refs = mine[c].refs,
             w.prediction = None, w.approval = None, w.observation = None,
             \/ w.phase = "running" /\ w.execution \in {Printed[version], "failed"}
             \/ w.phase = "interrupted" /\ w.execution = None
      PROVE  CoreInv'
  <2>1. Planned(mine[c], w)
    BY <1>2, <1>3, <1>4, WorkflowNone DEF Planned, Sets
  <2>2. /\ plan'[c] = w /\ pc'[c] = "enter" /\ UNCHANGED <<mine, version>>
        /\ ranOn'[c] = version
    BY <1>1, <1>4, Kinds DEF Plans, Goes, CheckKeeps, worldVars, CoreInv, Types, LockInv
  <2>3. ConsentInv(c)'
    BY <1>1, <1>2, <1>4, <2>2 DEF ConsentInv, CheckInv, Answered, Started
  <2>4. RanInv(c)'
    <3>1. mine[c].observation = None /\ mine[c].refs <= version
      BY <1>2 DEF Shaped, CheckInv, RanInv
    <3>2. Verified(c, mine[c], mine[c].execution, mine[c].observation)'
      BY <1>2, <2>2, <3>1, WorkflowNone DEF Verified
    <3>3. Verified(c, mine[c], plan[c].execution, plan[c].observation)'
      BY <1>3, <1>4, <2>2, <3>1, WorkflowNone DEF Verified
    <3> QED
      BY <1>2, <1>3, <1>4, <2>2, <3>1, <3>2, <3>3 DEF RanInv, Started
  <2> QED
    BY <1>1, <1>3, <1>4, <2>1, <2>3, <2>4, CheckAt, PlanStep
<1>5. ASSUME NEW e \in Values \cup {"failed"}, Plans(c, [Fields(c, "running") EXCEPT !.execution = e]),
             e \in {Printed[version], "failed"}
      PROVE  CoreInv'
  <2> DEFINE w == [Fields(c, "running") EXCEPT !.execution = e]
  <2>1. /\ w \in CheckRecords /\ w.phase = "running" /\ w.spec = "asked" /\ w.refs = mine[c].refs
        /\ w.prediction = None /\ w.approval = None /\ w.execution = e /\ w.observation = None
    BY <1>2 DEF Fields, CheckRecords, Phases
  <2>2. Plans(c, w)
    BY <1>5
  <2> HIDE DEF w
  <2> QED
    BY <1>4, <1>5, <2>1, <2>2
<1>6. ASSUME Plans(c, Fields(c, "interrupted"))
      PROVE  CoreInv'
  <2>1. /\ Fields(c, "interrupted") \in CheckRecords /\ Fields(c, "interrupted").phase = "interrupted"
        /\ Fields(c, "interrupted").spec = "asked" /\ Fields(c, "interrupted").refs = mine[c].refs
        /\ Sets(Fields(c, "interrupted"), {})
    BY <1>2, FieldsRecord DEF Phases
  <2> QED
    BY <1>4, <1>6, <2>1 DEF Sets
<1> QED
  BY <1>3, <1>5, <1>6 DEF RunProbe

(* A verdict needs the current source to be the cited one, and the probe   *)
(* ran between them.                                                       *)
LEMMA CompareStep ==
  ASSUME CoreInv, NEW c \in Checks, Compare(c)
  PROVE  CoreInv'
<1>1. /\ pc[c] = "compare" /\ CheckKeeps /\ UNCHANGED <<consented, ranOn, log>>
  BY DEF Compare, At
<1>2. /\ CheckInv(c) /\ mine[c] # None /\ mine[c] \in CheckRecords /\ Shaped(mine[c])
      /\ mine[c].phase = "running" /\ mine[c].execution # None
  BY <1>1, CheckAt DEF CheckInv, Stands
<1>3. PICK current \in Snapshots :
        Plans(c, [Fields(c, "completed") EXCEPT !.observation = Compared(mine[c], mine[c].execution, current)])
  BY DEF Compare
<1> DEFINE verdict == Compared(mine[c], mine[c].execution, current)
           w == [Fields(c, "completed") EXCEPT !.observation = verdict]
<1>4. verdict \in {"matched", "mismatched", "not_verified"}
  BY DEF Compared
<1>5. /\ w \in CheckRecords /\ w.phase = "completed" /\ w.spec = "asked" /\ w.refs = mine[c].refs
      /\ w.prediction = None /\ w.approval = None /\ w.execution = None /\ w.observation = verdict
  BY <1>2, <1>4 DEF Fields, CheckRecords, Phases
<1>6. Plans(c, w)
  BY <1>3
<1>7. verdict \in {"matched", "mismatched"} =>
        /\ ranOn[c] = mine[c].refs /\ mine[c].execution \notin {None, "failed"}
        /\ verdict = "matched" <=> mine[c].prediction = mine[c].execution
  <2>1. SUFFICES ASSUME verdict \in {"matched", "mismatched"}
                 PROVE  /\ ranOn[c] = mine[c].refs /\ mine[c].execution \notin {None, "failed"}
                        /\ verdict = "matched" <=> mine[c].prediction = mine[c].execution
    OBVIOUS
  <2>2. mine[c].execution \notin {None, "failed"} /\ current = mine[c].refs
    BY <1>2, <2>1 DEF Compared, EvidenceCurrent
  <2>3. mine[c].refs \in Nat /\ mine[c].refs # None /\ version \in Nat
    BY <1>2, VersionIsNat, WorkflowAssumption, WorkflowNone DEF CheckRecords, Versions, CoreInv
  <2>4. mine[c].refs = version
    BY <2>2, <2>3 DEF Snapshots
  <2>5. ranOn[c] # None /\ ranOn[c] \in Nat /\ mine[c].refs <= ranOn[c] /\ ranOn[c] <= version
    BY <1>2, <2>2, CheckAt, WorkflowAssumption DEF CheckInv, RanInv, Verified, Versions
  <2>6. ranOn[c] = mine[c].refs
    BY <2>3, <2>4, <2>5
  <2> QED
    BY <2>1, <2>2, <2>6 DEF Compared
<1> HIDE DEF verdict, w
<1>8. Planned(mine[c], w)
  BY <1>2, <1>4, <1>5, WorkflowNone DEF Planned, Sets
<1>9. /\ plan'[c] = w /\ pc'[c] = "enter" /\ UNCHANGED <<mine, version>>
  BY <1>1, <1>6, Kinds DEF Plans, Goes, CheckKeeps, worldVars, CoreInv, Types, LockInv
<1>10. ConsentInv(c)'
  BY <1>1, <1>2, <1>5, <1>9 DEF ConsentInv, CheckInv, Answered, Started
<1>11. RanInv(c)'
  <2>1. \A m, e, o : Verified(c, m, e, o)' <=> Verified(c, m, e, o)
    BY <1>1 DEF Verified
  <2>2. Verified(c, mine[c], w.execution, w.observation)
    BY <1>5, <1>7 DEF Verified
  <2> QED
    BY <1>1, <1>2, <1>5, <1>9, <2>1, <2>2 DEF RanInv, CheckInv
<1> QED
  BY <1>1, <1>5, <1>6, <1>8, <1>10, <1>11, CheckAt, PlanStep

(* What writing the check c leaves alone.                                  *)
LEMMA CheckWrite ==
  ASSUME CoreInv, LockInv', state # None, state' # None, NEW c \in Checks,
         \A d \in Checks \ {c} : /\ state'.checks[d] = state.checks[d]
                                 /\ d \in state'.observed <=> d \in state.observed
                                 /\ mine'[d] = mine[d] /\ plan'[d] = plan[d],
         state'.handoffs = state.handoffs, state'.source = state.source,
         UNCHANGED <<consented, ranOn, captured, handoffVars, worldVars, log>>,
         \A q \in Processes \ {c} : Idles(q)
  PROVE  /\ StartInv' /\ (\A d \in Checks \ {c} : CheckInv(d)')
         /\ (\A h \in Handoffs : HandoffInv(h)') /\ \A r \in Receivers : DispatchInv(r)'
<1> c \in Processes /\ c # Starter /\ c \notin Handoffs /\ c \notin Receivers
  BY WorkflowAssumption
<1>1. version \in Nat /\ version' = version
  BY VersionIsNat DEF CoreInv, worldVars
<1>2. StartInv'
  <2>1. state'.source <= version'
    BY <1>1 DEF CoreInv, StartInv
  <2>2. StartFrame
    BY <1>1, <2>1, Kinds DEF StartFrame
  <2> QED
    BY <2>2, StartKept DEF CoreInv
<1>3. \A d \in Checks \ {c} : CheckInv(d)'
  <2> TAKE d \in Checks \ {c}
  <2>1. CheckFrame(d)
    BY <1>1, Kinds DEF CheckFrame, SavedCheck
  <2> QED
    BY <2>1, CheckKept DEF CoreInv
<1>4. \A h \in Handoffs : Idles(h) /\ SavedHandoff(h)' = SavedHandoff(h)
  BY Kinds DEF SavedHandoff
<1>5. \A r \in Receivers : Idles(r)
  BY Kinds
<1> QED
  BY <1>2, <1>3, <1>4, <1>5, HandoffsRest, ReceiversRest

(* What _transition writes.                                                *)
LEMMA TransitionWrites ==
  ASSUME CoreInv, NEW c \in Checks, Transition(c)
  PROVE  LET m == mine[c]
             w == plan[c]
             n == NewRecord(c)
             o == IF w.observation = None THEN state.observed ELSE state.observed \cup {c}
             t == WithCheck(state, c, n, o)
         IN  /\ pc[c] = "inside" /\ state \in States /\ state # None
             /\ m # None => m \in CheckRecords /\ Shaped(m) /\ m.spec = "asked" /\ state.checks[c] = m
             /\ w \in CheckRecords /\ Planned(m, w)
             /\ m = None => n = w /\ state.checks[c] = None
             /\ m # None =>
                  /\ n.phase = w.phase /\ n.spec = "asked" /\ n.refs = m.refs
                  /\ n.prediction = IF w.prediction = None THEN m.prediction ELSE w.prediction
                  /\ n.approval = IF w.approval = None THEN m.approval ELSE w.approval
                  /\ n.execution = IF w.execution = None THEN m.execution ELSE w.execution
                  /\ n.observation = IF w.observation = None THEN m.observation ELSE w.observation
             /\ n \in CheckRecords /\ n # None
             /\ t \in States /\ t # None /\ t.checks[c] = n
             /\ \A d \in Checks \ {c} : t.checks[d] = state.checks[d]
             /\ t.handoffs = state.handoffs /\ t.observed = o /\ t.source = state.source
             /\ Saved(c, t, SavedStage(n))
             /\ mine' = [mine EXCEPT ![c] = n] /\ plan' = [plan EXCEPT ![c] = None]
             /\ UNCHANGED <<consented, ranOn, captured, handoffVars, worldVars, log>>
<1> DEFINE m == mine[c]
           w == plan[c]
           n == NewRecord(c)
           o == IF w.observation = None THEN state.observed ELSE state.observed \cup {c}
           t == WithCheck(state, c, n, o)
<1> c \in Processes
  BY Kinds
<1>1. /\ pc[c] = "inside" /\ copy[c] = state /\ state \in States /\ state # None
      /\ m # None => state.checks[c] # None /\ state.checks[c] = m
  BY InsideIsCurrent, WorkflowNone
     DEF Transition, MayTransit, Unchanged, At, TaskOpen, CoreInv, LockInv
<1>2. /\ CheckInv(c) /\ (m # None => m \in CheckRecords /\ Shaped(m) /\ m.spec = "asked")
      /\ w \in CheckRecords /\ Planned(m, w)
  BY <1>1, CheckAt DEF CheckInv, Stands, Working, Planned, CoreInv, Types
<1>none. m = None => state.checks[c] = None
  BY <1>1, <1>2 DEF CheckInv, Known, SavedCheck
<1>3. m = None => n = w
  BY DEF NewRecord
<1>4. m # None =>
        /\ n.phase = w.phase /\ n.spec = "asked" /\ n.refs = m.refs
        /\ n.prediction = IF w.prediction = None THEN m.prediction ELSE w.prediction
        /\ n.approval = IF w.approval = None THEN m.approval ELSE w.approval
        /\ n.execution = IF w.execution = None THEN m.execution ELSE w.execution
        /\ n.observation = IF w.observation = None THEN m.observation ELSE w.observation
  BY <1>1, <1>2, MergedRecord DEF NewRecord
<1>5. n \in CheckRecords /\ n # None
  BY <1>1, <1>2, MergedRecord, WorkflowNone DEF NewRecord
<1>6. o \in SUBSET Checks
  BY <1>1, StateFields
<1> HIDE DEF n, o
<1>7. /\ t \in States /\ t # None /\ t.checks[c] = n
      /\ \A d \in Checks \ {c} : t.checks[d] = state.checks[d]
      /\ t.handoffs = state.handoffs /\ t.observed = o /\ t.source = state.source
  <2>1. o \in SUBSET Checks /\ n \in CheckRecords /\ state \in States
    BY <1>1, <1>5, <1>6
  <2> QED
    BY <2>1, CheckWritten
<1>8. /\ Saved(c, t, SavedStage(n)) /\ mine' = [mine EXCEPT ![c] = n] /\ plan' = [plan EXCEPT ![c] = None]
      /\ UNCHANGED <<consented, ranOn, captured, handoffVars, worldVars, log>>
  <2>1. t = [copy[c] EXCEPT !.checks[c] = n,
                            !.observed = IF plan[c].observation = None THEN @ ELSE @ \cup {c}]
    BY <1>1 DEF o, WithCheck
  <2> QED
    BY <2>1 DEF Transition, n
<1> QED
  BY <1>1, <1>2, <1>3, <1>4, <1>5, <1>7, <1>8, <1>none DEF n, o

(* _transition keeps the invariant of its check.                           *)
LEMMA TransitionStep ==
  ASSUME CoreInv, NEW c \in Checks, Transition(c)
  PROVE  CoreInv'
<1> DEFINE m == mine[c]
           w == plan[c]
           n == NewRecord(c)
           o == IF w.observation = None THEN state.observed ELSE state.observed \cup {c}
           t == WithCheck(state, c, n, o)
<1> c \in Processes
  BY Kinds
<1>0. CheckInv(c)
  BY CheckAt
<1> HIDE DEF n, o, t
<1>1. pc[c] = "inside" /\ state \in States /\ state # None
  BY TransitionWrites
<1>2. /\ CheckInv(c) /\ (m # None => m \in CheckRecords /\ Shaped(m) /\ m.spec = "asked")
      /\ w \in CheckRecords /\ Planned(m, w)
  BY <1>0, TransitionWrites
<1>3. m = None => n = w
  BY TransitionWrites DEF n
<1>4. m # None =>
        /\ n.phase = w.phase /\ n.spec = "asked" /\ n.refs = m.refs
        /\ n.prediction = IF w.prediction = None THEN m.prediction ELSE w.prediction
        /\ n.approval = IF w.approval = None THEN m.approval ELSE w.approval
        /\ n.execution = IF w.execution = None THEN m.execution ELSE w.execution
        /\ n.observation = IF w.observation = None THEN m.observation ELSE w.observation
  BY TransitionWrites DEF n
<1>5. n \in CheckRecords /\ n # None
  BY TransitionWrites DEF n
<1>7. /\ t \in States /\ t # None /\ t.checks[c] = n
      /\ \A d \in Checks \ {c} : t.checks[d] = state.checks[d]
      /\ t.handoffs = state.handoffs /\ t.observed = o /\ t.source = state.source
  BY TransitionWrites DEF n, o, t
<1>8. /\ Saved(c, t, SavedStage(n)) /\ mine' = [mine EXCEPT ![c] = n] /\ plan' = [plan EXCEPT ![c] = None]
      /\ UNCHANGED <<consented, ranOn, captured, handoffVars, worldVars, log>>
  BY TransitionWrites DEF n, o, t
<1>9. /\ Shaped(n) /\ n.spec = "asked"
      /\ SavedStage(n) \in {"predict", "run", "log", "done"} /\ Stands(SavedStage(n), n, None)
  <2>1. CASE m = None
    <3>1. n.phase = "prepared" /\ n.spec = "asked" /\ Sets(n, {})
      BY <1>2, <1>3, <2>1 DEF Planned
    <3> QED
      BY <1>5, <3>1 DEF Sets, Shaped, SavedStage, Stands, Working
  <2>2. CASE m # None
    <3>1. Shaped(n)
      BY <1>2, <1>4, <2>2 DEF Planned, Sets, Shaped
    <3>2. SavedStage(n) \in {"predict", "run", "log", "done"} /\ Stands(SavedStage(n), n, None)
      <4>1. \/ n.phase \in {"predicted", "approved", "skipped", "completed"}
            \/ n.phase = "running" /\ n.execution # None
            \/ n.phase = "running" /\ n.execution = None
            \/ n.phase = "interrupted" /\ n.execution = None
        BY <1>2, <1>4, <2>2 DEF Planned, Sets, Shaped
      <4>2. CASE n.phase \in {"predicted", "approved", "skipped", "completed"}
        BY <1>5, <4>2 DEF SavedStage, Stands, Working
      <4>3. CASE n.phase = "running" /\ n.execution # None
        BY <1>5, <4>3 DEF SavedStage, Stands, Working
      <4>4. CASE n.phase = "running" /\ n.execution = None
        BY <1>5, <4>4 DEF SavedStage, Stands, Working
      <4>5. CASE n.phase = "interrupted" /\ n.execution = None
        BY <1>5, <4>5 DEF SavedStage, Stands, Working
      <4> QED
        BY <4>1, <4>2, <4>3, <4>4, <4>5
    <3> QED
      BY <1>4, <2>2, <3>1, <3>2
  <2> QED
    BY <2>1, <2>2
<1>10. /\ LockInv' /\ state' = t /\ pc'[c] \in {SavedStage(n), "raised"}
       /\ \A q \in Processes \ {c} : Idles(q)
  BY <1>1, <1>7, <1>8, <1>9, Saves DEF CoreInv, Stages
<1>11. /\ mine' \in [Checks -> CheckRecords \cup {None}] /\ plan' \in [Checks -> CheckRecords \cup {None}]
       /\ mine'[c] = n /\ \A d \in Checks \ {c} : mine'[d] = mine[d] /\ plan'[d] = plan[d]
  BY <1>5, <1>8 DEF CoreInv, Types
<1>12. Types'
  BY <1>8, <1>11 DEF CoreInv, Types, handoffVars, worldVars
<1>13. /\ StartInv' /\ (\A d \in Checks \ {c} : CheckInv(d)')
       /\ (\A h \in Handoffs : HandoffInv(h)') /\ \A r \in Receivers : DispatchInv(r)'
  <2>1. \A d \in Checks \ {c} : d \in o <=> d \in state.observed
    BY DEF o
  <2> QED
    BY <1>1, <1>7, <1>8, <1>10, <1>11, <2>1, CheckWrite
<1>14. CheckInv(c)'
  <2>1. SavedCheck(c)' = n
    BY <1>7, <1>10 DEF SavedCheck
  <2>2. Stands(pc'[c], mine'[c], plan'[c])
    BY <1>5, <1>9, <1>10, <1>11 DEF Stands, Working
  <2>3. c \in state'.observed <=> n.observation # None
    <3>1. c \in state.observed <=> m # None /\ m.observation # None
      BY <1>1, <1>2 DEF CheckInv
    <3>2. c \in state'.observed <=> c \in state.observed \/ w.observation # None
      BY <1>7, <1>10 DEF o
    <3>3. CASE m = None
      BY <1>3, <3>1, <3>2, <3>3
    <3>4. CASE m # None
      BY <1>4, <3>1, <3>2, <3>4
    <3> QED
      BY <3>3, <3>4
  <2>4. pc'[c] \notin Working /\ pc'[c] \notin {"consent", "recheck"}
    BY <1>9, <1>10 DEF Working
  <2>5. ConsentInv(c)'
    <3>1. n.phase \in Answered => consented[c] = Shown(n)
      <4>1. CASE m = None
        BY <1>2, <1>3, <4>1 DEF Planned, Answered
      <4>2. CASE m # None
        <5>1. n.phase \in Answered => m.phase \in Answered \/ w.phase = "approved"
          BY <1>2, <1>4, <4>2 DEF Planned, Answered
        <5>2. n.phase \in Answered => consented[c] = Shown(m)
          BY <1>1, <1>2, <4>2, <5>1 DEF CheckInv, ConsentInv, Working
        <5>3. n.phase \in Answered => n.prediction = m.prediction
          BY <1>2, <1>4, <4>2 DEF Planned, Sets, Answered
        <5> QED
          BY <1>2, <1>4, <4>2, <5>2, <5>3 DEF Shown
      <4> QED
        BY <4>1, <4>2
    <3>2. n.approval # None => <<c, "prediction">> \in log
      <4>1. CASE m = None
        BY <1>2, <1>3, <4>1 DEF Planned, Sets
      <4>2. CASE m # None
        BY <1>1, <1>2, <1>4, <4>2 DEF CheckInv, ConsentInv, Working
      <4> QED
        BY <4>1, <4>2
    <3>3. n.phase \in Started => <<c, "probe_approval">> \in log
      <4>1. CASE m = None
        BY <1>2, <1>3, <4>1 DEF Planned, Started
      <4>2. CASE m # None
        <5>1. n.phase \in Started => m.phase \in Started \/ w.phase = "running"
          BY <1>2, <1>4, <4>2 DEF Planned, Started
        <5> QED
          BY <1>1, <1>2, <4>2, <5>1 DEF CheckInv, ConsentInv, Working
      <4> QED
        BY <4>1, <4>2
    <3>4. consented' = consented /\ log' = log
      BY <1>8
    <3> QED
      BY <1>11, <2>4, <3>1, <3>2, <3>3, <3>4 DEF ConsentInv
  <2>6. RanInv(c)'
    <3>1. ranOn' = ranOn /\ version' = version
      BY <1>8 DEF worldVars
    <3>2. \A r, e, v : Verified(c, r, e, v)' <=> Verified(c, r, e, v)
      BY <3>1 DEF Verified
    <3>3. n.refs <= version /\ Verified(c, n, n.execution, n.observation)
      <4>1. CASE m = None
        BY <1>1, <1>2, <1>3, <4>1, WorkflowNone DEF CheckInv, RanInv, Working, Verified, Planned, Sets
      <4>2. CASE m # None
        <5>1. /\ m.refs <= version /\ Verified(c, m, m.execution, m.observation)
              /\ Verified(c, m, w.execution, w.observation)
          BY <1>1, <1>2, <4>2 DEF CheckInv, RanInv, Working
        <5>2. n.observation # None => n.execution = m.execution /\ n.prediction = m.prediction
          BY <1>2, <1>4, <4>2 DEF Planned, Sets, Shaped
        <5> QED
          BY <1>4, <4>2, <5>1, <5>2, WorkflowNone DEF Verified
      <4> QED
        BY <4>1, <4>2
    <3>4. ranOn[c] # None => n.phase \in Started /\ n.refs <= ranOn[c] /\ ranOn[c] <= version
      <4>1. ranOn[c] # None => m # None /\ m.phase \in Started /\ m.refs <= ranOn[c] /\ ranOn[c] <= version
        BY <1>2 DEF CheckInv, RanInv
      <4>2. m # None /\ m.phase \in Started => n.phase \in Started
        BY <1>2, <1>4 DEF Planned, Started
      <4> QED
        BY <1>4, <4>1, <4>2
    <3> QED
      BY <1>5, <1>11, <2>4, <3>1, <3>2, <3>3, <3>4 DEF RanInv
  <2>7. Known(mine'[c], SavedCheck(c)')
    BY <1>5, <1>11, <2>1 DEF Known
  <2> QED
    BY <1>5, <1>9, <1>11, <2>1, <2>2, <2>3, <2>5, <2>6, <2>7 DEF CheckInv
<1> QED
  BY <1>10, <1>12, <1>13, <1>14 DEF CoreInv

(* A saved record is logged before the next stage.                         *)
LEMMA LogCheckStep ==
  ASSUME CoreInv, NEW c \in Checks, LogCheck(c)
  PROVE  CoreInv'
<1> DEFINE m == mine[c]
<1> c \in Processes /\ c # Starter /\ c \notin Handoffs /\ c \notin Receivers
  BY WorkflowAssumption
<1>1. /\ pc[c] = "log" /\ Append(c, <<c, EventOf(m)>>, LoggedStage(m))
      /\ CheckKeeps /\ UNCHANGED <<plan, consented, ranOn>>
  BY DEF LogCheck, At
<1>2. /\ CheckInv(c) /\ m # None /\ m \in CheckRecords /\ Shaped(m)
      /\ \/ m.phase \in {"predicted", "approved", "skipped", "completed"}
         \/ m.phase = "running" /\ m.execution # None
  BY <1>1, CheckAt DEF CheckInv, Stands
<1>3. LoggedStage(m) \in {"done", "compare", "recheck", "declined", "consent"}
  BY DEF LoggedStage
<1>4. /\ LockInv' /\ pc'[c] \in {LoggedStage(m), "raised"} /\ \A q \in Processes \ {c} : Idles(q)
      /\ log \subseteq log' /\ (pc'[c] # "raised" => <<c, EventOf(m)>> \in log')
  <2>1. UNCHANGED stateVars
    BY <1>1 DEF CheckKeeps
  <2> HIDE DEF m
  <2> QED
    BY <1>1, <1>3, <2>1, Appends DEF CoreInv, Stages
<1>5. /\ Types' /\ StartInv' /\ (\A d \in Checks \ {c} : CheckInv(d)')
      /\ (\A h \in Handoffs \ {c} : HandoffInv(h)') /\ \A r \in Receivers \ {c} : DispatchInv(r)'
  BY <1>1, <1>3, <1>4, Elsewhere DEF CheckKeeps, checkVars, stateVars
<1>6. CheckInv(c)'
  <2>1. /\ mine' = mine /\ plan' = plan /\ state' = state /\ SavedCheck(c)' = SavedCheck(c)
        /\ consented' = consented /\ ranOn' = ranOn /\ version' = version
    BY <1>1 DEF CheckKeeps, stateVars, worldVars, SavedCheck
  <2>2. Stands(pc'[c], m, plan[c])
    BY <1>2, <1>3, <1>4 DEF LoggedStage, Stands, Shaped, Working
  <2>3. ConsentInv(c)'
    <3>1. ConsentInv(c) /\ pc'[c] \notin Working
      BY <1>2, <1>3, <1>4 DEF CheckInv, Working
    <3>2. pc'[c] = "consent" => m.phase = "predicted" /\ m.approval = None
      BY <1>2, <1>4 DEF LoggedStage, Shaped
    <3>3. pc'[c] = "recheck" => m.phase = "approved"
      BY <1>2, <1>4 DEF LoggedStage
    <3>4. pc'[c] = "consent" => <<c, "prediction">> \in log'
      BY <1>2, <1>4, <3>2 DEF EventOf
    <3>5. pc'[c] = "recheck" => <<c, "probe_approval">> \in log'
      BY <1>2, <1>4, <3>3 DEF EventOf, Shaped, CheckRecords
    <3> QED
      BY <1>2, <1>4, <2>1, <3>1, <3>4, <3>5 DEF ConsentInv
  <2>4. RanInv(c)'
    <3>1. \A r, e, o : Verified(c, r, e, o)' <=> Verified(c, r, e, o)
      BY <2>1 DEF Verified
    <3>2. pc'[c] \notin Working
      BY <1>3, <1>4 DEF Working
    <3> QED
      BY <1>2, <2>1, <3>1, <3>2 DEF CheckInv, RanInv
  <2> QED
    BY <1>2, <2>1, <2>2, <2>3, <2>4 DEF CheckInv
<1> QED
  BY <1>4, <1>5, <1>6 DEF CoreInv

(* The context or the source cannot be read.                               *)
LEMMA CheckFails ==
  ASSUME CoreInv, NEW c \in Checks, ContextFails(c) \/ RecheckFails(c)
  PROVE  CoreInv'
<1>1. /\ pc[c] # "inside" /\ Goes(c, "raised") /\ CheckKeeps /\ UNCHANGED <<plan, consented, ranOn, log>>
  BY DEF ContextFails, RecheckFails, At, Raised
<1>2. LockInv' /\ pc'[c] = "raised" /\ \A q \in Processes \ {c} : Idles(q)
  BY <1>1, GoesOn, Kinds DEF CheckKeeps, CoreInv, Stages
<1>3. \A p \in Processes : Idles(p)
  BY <1>2 DEF Idles
<1> QED
  BY <1>1, <1>2, <1>3, WorkflowRests DEF CheckKeeps, checkVars, stateVars

(* All steps of a check.                                                   *)
LEMMA CheckSteps ==
  ASSUME CoreInv, NEW c \in Checks, CheckStep(c)
  PROVE  CoreInv'
<1>1. CASE TransitionRefused(c)
  BY <1>1, RefusedStep, Kinds DEF TransitionRefused
<1> QED
  BY <1>1, PrepareStep, PredictStep, ConsentStep, RecheckStep, RunStep, CompareStep, TransitionStep,
     LogCheckStep, CheckFails, SkipStep DEF CheckStep, Declined, At

(* The check c that another caller rewrites.                               *)
LEMMA CheckRewritten ==
  ASSUME CoreInv, NEW c \in Checks, RewriteCheck(c)
  PROVE  LET rec == [state.checks[c] EXCEPT !.spec = "revised"]
         IN  /\ LockInv' /\ state \in States /\ state # None /\ state' # None
             /\ state.checks[c] \in CheckRecords /\ state.checks[c] # None
             /\ state.checks[c].phase \in {"prepared", "predicted", "approved"}
             /\ state'.checks[c] = rec /\ \A d \in Checks \ {c} : state'.checks[d] = state.checks[d]
             /\ state'.handoffs = state.handoffs /\ state'.source = state.source
             /\ state'.observed = state.observed /\ \A p \in Processes : Idles(p)
             /\ UNCHANGED <<pc, checkVars, captured, handoffVars, worldVars, log>>
<1> DEFINE rec == [state.checks[c] EXCEPT !.spec = "revised"]
           t == [state EXCEPT !.checks[c] = rec]
<1>1. /\ state \in States /\ state # None
      /\ state.checks[c] \in CheckRecords /\ state.checks[c] # None
      /\ state.checks[c].phase \in {"prepared", "predicted", "approved"}
  BY StateFields DEF RewriteCheck, CoreInv, LockInv
<1>2. rec \in CheckRecords
  BY <1>1, Revised
<1>3. Rewrite(t)
  BY <1>1 DEF RewriteCheck
<1> HIDE DEF rec
<1>4. /\ t \in States /\ t # None /\ t.checks[c] = rec
      /\ \A d \in Checks \ {c} : t.checks[d] = state.checks[d]
      /\ t.handoffs = state.handoffs /\ t.observed = state.observed /\ t.source = state.source
  BY <1>1, <1>2, WorkflowNone DEF States
<1> HIDE DEF t
<1>5. /\ LockInv' /\ state' = t /\ \A p \in Processes : Idles(p)
      /\ UNCHANGED <<pc, checkVars, captured, handoffVars, worldVars, log>>
  BY <1>3, <1>4, RewriteLock DEF CoreInv
<1> QED
  BY <1>1, <1>4, <1>5 DEF rec

(* Only the specification is rewritten, of a check that has not run.       *)
LEMMA CheckRewrites ==
  ASSUME CoreInv, NEW c \in Checks, RewriteCheck(c)
  PROVE  CoreInv'
<1> DEFINE m == mine[c]
           s == state.checks[c]
           rec == [s EXCEPT !.spec = "revised"]
<1>1. /\ LockInv' /\ state \in States /\ state # None /\ state' # None
      /\ s \in CheckRecords /\ s # None /\ s.phase \in {"prepared", "predicted", "approved"}
      /\ state'.checks[c] = rec /\ \A d \in Checks \ {c} : state'.checks[d] = state.checks[d]
      /\ state'.handoffs = state.handoffs /\ state'.source = state.source
      /\ state'.observed = state.observed /\ \A p \in Processes : Idles(p)
      /\ UNCHANGED <<pc, checkVars, captured, handoffVars, worldVars, log>>
  BY CheckRewritten
<1>2. /\ StartInv' /\ (\A d \in Checks \ {c} : CheckInv(d)')
      /\ (\A h \in Handoffs : HandoffInv(h)') /\ \A r \in Receivers : DispatchInv(r)'
  BY <1>1, CheckWrite DEF checkVars
<1>3. Types'
  BY <1>1 DEF CoreInv, Types, checkVars, handoffVars, worldVars
<1>4. CheckInv(c)'
  <2>1. CheckInv(c) /\ SavedCheck(c) = s /\ SavedCheck(c)' = rec
    BY <1>1 DEF CoreInv, SavedCheck
  <2>2. m # None /\ m \in CheckRecords /\ s \in {m, [m EXCEPT !.spec = "revised"]}
    BY <1>1, <2>1, CheckAt DEF CheckInv, Known
  <2>3. rec = [m EXCEPT !.spec = "revised"] /\ s.phase = m.phase
    BY <2>2 DEF CheckRecords
  <2>4. rec # None
    BY <2>2, <2>3, Revised, WorkflowNone
  <2>5. Known(m, rec)
    BY <1>1, <2>2, <2>3, <2>4 DEF Known
  <2>6. ConsentInv(c)' /\ RanInv(c)' /\ Stands(pc'[c], mine'[c], plan'[c])
    BY <1>1, <2>1 DEF CheckInv, ConsentInv, RanInv, Verified, checkVars, worldVars
  <2>7. mine' = mine
    BY <1>1 DEF checkVars
  <2> QED
    BY <1>1, <2>1, <2>5, <2>6, <2>7 DEF CheckInv
<1> QED
  BY <1>1, <1>2, <1>3, <1>4 DEF CoreInv

-----------------------------------------------------------------------------
(* The invariant holds at first, ...                                       *)
LEMMA CoreStarts == Init => CoreInv
<1> SUFFICES ASSUME Init PROVE CoreInv
  OBVIOUS
<1> USE DEF Init, StateInit
<1>1. LockInv
  BY DEF LockInv, ReadsAreCurrent, Stages
<1>2. Types
  <2>1. 0 \in Versions
    <3>1. MaxEdits \in Nat
      BY WorkflowAssumption
    <3> QED
      BY ONLY <3>1 DEF Versions
  <2> QED
    BY <2>1 DEF Types
<1>3. StartInv
  <2>1. \A p \in Processes : pc[p] \in {"idle", "not given"}
    OBVIOUS
  <2>2. state = None
    OBVIOUS
  <2> QED
    BY <2>1, <2>2, Kinds DEF StartInv, Working
<1>4. \A c \in Checks : CheckInv(c)
  BY Kinds DEF CheckInv, Stands, Working, Known, SavedCheck, ConsentInv, RanInv
<1>5. \A h \in Handoffs : HandoffInv(h)
  BY Kinds DEF HandoffInv, SavedHandoff, Working
<1>6. \A r \in Receivers : DispatchInv(r)
  BY Kinds, WorkflowNone DEF DispatchInv, SavedHandoff, Working
<1> QED
  BY <1>1, <1>2, <1>3, <1>4, <1>5, <1>6 DEF CoreInv

(* ... and every step keeps it.                                            *)
LEMMA CoreKept == CoreInv /\ [Next]_vars => CoreInv'
<1> SUFFICES ASSUME CoreInv, [Next]_vars PROVE CoreInv'
  OBVIOUS
<1> QED
  BY StartSteps, LockSteps, CheckpointSteps, CheckSteps, CheckRewrites, ChoiceSteps, HandoffRewrites,
     DispatchSteps, WorldSteps DEF Next, Quiet

(* The invariant holds in every behaviour: from it follow the properties   *)
(* of the commands of scope.experience and scope.learning.                 *)
THEOREM WorkflowInvariant == Spec => []CoreInv
<1> QED
  BY CoreStarts, CoreKept, PTL DEF Spec

-----------------------------------------------------------------------------
(* What a step may do to the saved state.                                  *)

CheckGrown(old, new) ==
  old # None =>
    /\ new # None /\ Follows(old.phase, new.phase) /\ new.refs = old.refs
    /\ old.prediction \in {None, new.prediction}
    /\ old.approval \in {None, new.approval}
    /\ old.execution \in {None, new.execution}
    /\ old.observation \in {None, new.observation}

HandoffGrown(old, new) ==
  old # None =>
    /\ new # None
    /\ \/ new.status = old.status
       \/ old.status = "selected" /\ new.status = "dispatching"
       \/ old.status = "dispatching" /\ new.status \in {"dispatched", "failed"}

Grown ==
  state # None =>
    /\ state' # None
    /\ state'.source >= state.source
    /\ state.observed \subseteq state'.observed
    /\ \A c \in Checks : CheckGrown(state.checks[c], state'.checks[c])
    /\ \A h \in Handoffs : HandoffGrown(state.handoffs[h], state'.handoffs[h])

(* What is not written has not changed.                                    *)
LEMMA NothingGrows ==
  /\ \A old : CheckGrown(old, old)
  /\ \A old : HandoffGrown(old, old)
BY DEF CheckGrown, HandoffGrown, Follows

(* A step that does not write.                                             *)
LEMMA Unwritten ==
  ASSUME CoreInv, UNCHANGED state
  PROVE  Grown
<1>1. state # None => state.source \in Nat
  BY StateFields, WorkflowAssumption DEF CoreInv, LockInv, Versions
<1> QED
  BY <1>1, NothingGrows DEF Grown

(* Writing a handoff leaves the rest alone.                                *)
LEMMA HandoffWriteGrows ==
  ASSUME CoreInv, state \in States, NEW h \in Handoffs, NEW rec \in HandoffRecords,
         state' = [state EXCEPT !.handoffs[h] = rec], HandoffGrown(state.handoffs[h], rec)
  PROVE  Grown
<1> DEFINE t == [state EXCEPT !.handoffs[h] = rec]
<1>1. /\ t \in States /\ t # None /\ t.handoffs[h] = rec
      /\ \A g \in Handoffs \ {h} : t.handoffs[g] = state.handoffs[g]
      /\ t.checks = state.checks /\ t.observed = state.observed /\ t.source = state.source
  BY HandoffWritten
<1>2. state' = t
  OBVIOUS
<1>3. state.source \in Nat
  BY StateFields, WorkflowAssumption DEF Versions
<1> HIDE DEF t
<1>4. \A g \in Handoffs : HandoffGrown(state.handoffs[g], state'.handoffs[g])
  BY <1>1, <1>2, NothingGrows
<1>5. \A c \in Checks : CheckGrown(state.checks[c], state'.checks[c])
  BY <1>1, <1>2, NothingGrows
<1> QED
  BY <1>1, <1>2, <1>3, <1>4, <1>5 DEF Grown

(* Every step.                                                             *)
LEMMA StateGrows ==
  ASSUME CoreInv, [Next]_vars
  PROVE  Grown
<1>1. ASSUME NEW k \in Checkpointers, SaveCheckpoint(k)
      PROVE  Grown
  <2>1. copy[k] = state /\ state \in States /\ version \in Versions
    BY <1>1, Kinds, InsideIsCurrent DEF SaveCheckpoint, At, TaskOpen, CoreInv, LockInv, Types
  <2> DEFINE t == [state EXCEPT !.source = version]
  <2>2. /\ t \in States /\ t # None /\ t.source = version
        /\ t.checks = state.checks /\ t.handoffs = state.handoffs /\ t.observed = state.observed
    BY <2>1, SourceWritten
  <2>3. state' = t
    BY <1>1, <2>1 DEF SaveCheckpoint, Saved, Write
  <2> HIDE DEF t
  <2>4. state.source \in Nat /\ version \in Nat
    BY <2>1, StateFields, VersionIsNat, WorkflowAssumption DEF Versions, CoreInv
  <2>5. state # None => state.source <= version
    BY DEF CoreInv, StartInv
  <2> QED
    BY <2>2, <2>3, <2>4, <2>5, NothingGrows DEF Grown
<1>2. ASSUME NEW c \in Checks, Transition(c)
      PROVE  Grown
  <2> DEFINE m == mine[c]
             w == plan[c]
             n == NewRecord(c)
             o == IF w.observation = None THEN state.observed ELSE state.observed \cup {c}
             t == WithCheck(state, c, n, o)
  <2>1. /\ state \in States /\ state # None /\ Planned(m, w)
        /\ m # None => Shaped(m) /\ state.checks[c] = m
        /\ m = None => state.checks[c] = None
        /\ m # None =>
             /\ n.phase = w.phase /\ n.refs = m.refs
             /\ n.prediction = IF w.prediction = None THEN m.prediction ELSE w.prediction
             /\ n.approval = IF w.approval = None THEN m.approval ELSE w.approval
             /\ n.execution = IF w.execution = None THEN m.execution ELSE w.execution
             /\ n.observation = IF w.observation = None THEN m.observation ELSE w.observation
        /\ n # None
    BY <1>2, TransitionWrites
  <2>2. /\ t # None /\ t.checks[c] = n
        /\ \A d \in Checks \ {c} : t.checks[d] = state.checks[d]
        /\ t.handoffs = state.handoffs /\ t.observed = o /\ t.source = state.source
        /\ Saved(c, t, SavedStage(n))
    BY <1>2, TransitionWrites
  <2>3. state.observed \subseteq o
    OBVIOUS
  <2> HIDE DEF n, o, t
  <2>4. state' = t
    BY <2>2 DEF Saved, Write
  <2>5. CheckGrown(state.checks[c], n)
    <3>1. CASE m = None
      BY <2>1, <3>1 DEF CheckGrown
    <3>2. CASE m # None
      <4>1. Follows(m.phase, n.phase)
        BY <2>1, <3>2 DEF Planned, Follows
      <4>2. /\ m.prediction \in {None, n.prediction} /\ m.approval \in {None, n.approval}
            /\ m.execution \in {None, n.execution} /\ m.observation \in {None, n.observation}
        BY <2>1, <3>2 DEF Planned, Sets, Shaped
      <4> QED
        BY <2>1, <3>2, <4>1, <4>2 DEF CheckGrown
    <3> QED
      BY <3>1, <3>2
  <2>6. state.source \in Nat
    BY <2>1, StateFields, WorkflowAssumption DEF Versions
  <2>7. \A d \in Checks : CheckGrown(state.checks[d], state'.checks[d])
    BY <2>2, <2>4, <2>5, NothingGrows
  <2>8. \A h \in Handoffs : HandoffGrown(state.handoffs[h], state'.handoffs[h])
    BY <2>2, <2>4, NothingGrows
  <2> QED
    BY <2>2, <2>3, <2>4, <2>6, <2>7, <2>8 DEF Grown
<1>3. ASSUME NEW c \in Checks, RewriteCheck(c)
      PROVE  Grown
  <2> DEFINE s == state.checks[c]
             rec == [s EXCEPT !.spec = "revised"]
  <2>1. /\ state \in States /\ state' # None /\ s \in CheckRecords
        /\ state'.checks[c] = rec /\ \A d \in Checks \ {c} : state'.checks[d] = state.checks[d]
        /\ state'.handoffs = state.handoffs /\ state'.source = state.source
        /\ state'.observed = state.observed
    BY <1>3, CheckRewritten
  <2>2. CheckGrown(s, rec)
    BY <2>1, Revised, WorkflowNone DEF CheckGrown, Follows
  <2>3. state.source \in Nat
    BY <2>1, StateFields, WorkflowAssumption DEF Versions
  <2> HIDE DEF rec
  <2>4. \A d \in Checks : CheckGrown(state.checks[d], state'.checks[d])
    BY <2>1, <2>2, NothingGrows
  <2> QED
    BY <2>1, <2>3, <2>4, NothingGrows DEF Grown
<1>4. ASSUME NEW h \in Handoffs, SaveChoice(h)
      PROVE  Grown
  <2> DEFINE rec == [instruction |-> chosen[h], status |-> "selected"]
  <2>1. h \in Processes /\ pc[h] = "inside" /\ copy[h] = state /\ state \in States
    BY <1>4, Kinds, InsideIsCurrent DEF SaveChoice, At, TaskOpen, CoreInv, LockInv
  <2>2. chosen[h] \in Instructions /\ state.handoffs[h] = None
    BY <2>1, WorkflowNone DEF CoreInv, Types, HandoffInv, SavedHandoff, Working
  <2>3. rec \in HandoffRecords
    BY <2>2 DEF HandoffRecords
  <2>4. state' = [state EXCEPT !.handoffs[h] = rec]
    BY <1>4, <2>1 DEF SaveChoice, Saved, Write
  <2> HIDE DEF rec
  <2> QED
    BY <2>1, <2>2, <2>3, <2>4, HandoffWriteGrows DEF HandoffGrown
<1>5. ASSUME NEW r \in Receivers, BeginDispatch(r)
      PROVE  Grown
  <2> DEFINE h == HandoffOf[r]
             rec == [state.handoffs[h] EXCEPT !.status = "dispatching"]
  <2>1. h \in Handoffs /\ r \in Processes /\ copy[r] = state /\ state \in States
    BY <1>5, WorkflowAssumption, InsideIsCurrent DEF BeginDispatch, MayBegin, At, TaskOpen, CoreInv, LockInv
  <2>2. state.handoffs[h] \in HandoffRecords /\ state.handoffs[h].status = "selected"
    BY <1>5, <2>1, StateFields DEF BeginDispatch, MayBegin, Unstarted
  <2>3. rec \in HandoffRecords /\ rec.status = "dispatching" /\ rec # None
    BY <2>2, WorkflowNone DEF HandoffRecords
  <2>4. state' = [state EXCEPT !.handoffs[h] = rec]
    BY <1>5, <2>1 DEF BeginDispatch, Saved, Write
  <2> HIDE DEF rec, h
  <2> QED
    BY <2>1, <2>2, <2>3, <2>4, HandoffWriteGrows DEF HandoffGrown
<1>6. ASSUME NEW r \in Receivers, FinishDispatch(r)
      PROVE  Grown
  <2> DEFINE h == HandoffOf[r]
             rec == [state.handoffs[h] EXCEPT !.status = outcome[r]]
  <2>1. h \in Handoffs /\ r \in Processes /\ pc[r] = "inside" /\ copy[r] = state /\ state \in States
        /\ offered[r] # None
    BY <1>6, WorkflowAssumption, InsideIsCurrent DEF FinishDispatch, MayFinish, At, TaskOpen, CoreInv, LockInv
  <2>2. state.handoffs[h] \in HandoffRecords /\ state.handoffs[h] = offered[r]
    BY <1>6, <2>1, StateFields DEF FinishDispatch, MayFinish, Unchanged
  <2>3. offered[r].status = "dispatching" /\ outcome[r] \in {"dispatched", "failed"}
    BY <2>1 DEF CoreInv, DispatchInv, Types, Working
  <2>4. rec \in HandoffRecords /\ rec.status = outcome[r] /\ rec # None
    BY <2>2, <2>3, WorkflowNone DEF HandoffRecords
  <2>5. state' = [state EXCEPT !.handoffs[h] = rec]
    BY <1>6, <2>1 DEF FinishDispatch, Saved, Write
  <2> HIDE DEF rec, h
  <2> QED
    BY <2>1, <2>2, <2>3, <2>4, <2>5, HandoffWriteGrows DEF HandoffGrown
<1>7. ASSUME NEW h \in Handoffs, RewriteHandoff(h)
      PROVE  Grown
  <2>1. PICK i \in Instructions : Rewrite([state EXCEPT !.handoffs[h].instruction = i])
    BY <1>7 DEF RewriteHandoff
  <2> DEFINE rec == [state.handoffs[h] EXCEPT !.instruction = i]
  <2>2. state \in States /\ state.handoffs[h] \in HandoffRecords
    BY <1>7, StateFields DEF RewriteHandoff, CoreInv, LockInv
  <2>3. rec \in HandoffRecords /\ rec.status = state.handoffs[h].status /\ rec # None
    BY <2>2, WorkflowNone DEF HandoffRecords
  <2>4. state' = [state EXCEPT !.handoffs[h] = rec]
    BY <2>1, <2>2 DEF Rewrite
  <2> HIDE DEF rec
  <2> QED
    BY <2>2, <2>3, <2>4, HandoffWriteGrows DEF HandoffGrown
<1>8. CASE SaveTask
  BY <1>8 DEF SaveTask, At, CoreInv, StartInv, Working, Grown
<1>9. CASE UNCHANGED state
  BY <1>9, Unwritten
<1>10. ASSUME NEW c \in Checks, CheckStep(c), ~Transition(c)
       PROVE  UNCHANGED state
  BY <1>10 DEF CheckStep, Prepare, Predict, ContextFails, Consent, Declined, Recheck, RecheckFails, RunProbe,
               Compare, TransitionRefused, Refused, Refuse, LogCheck, CheckKeeps, stateVars
<1>11. ASSUME NEW r \in Receivers, DispatchStep(r), ~BeginDispatch(r), ~FinishDispatch(r)
       PROVE  UNCHANGED state
  BY <1>11 DEF DispatchStep, Acknowledge, Deliver, DispatchRefused, Refused, Refuse, LogDispatch, stateVars
<1>12. ASSUME NEW h \in Handoffs, ChoiceStep(h), ~SaveChoice(h)
       PROVE  UNCHANGED state
  BY <1>12 DEF ChoiceStep, Choose, LogChoice, ChoiceRefused, Refused, Refuse, stateVars
<1>13. ASSUME NEW k \in Checkpointers, CheckpointStep(k), ~SaveCheckpoint(k)
       PROVE  UNCHANGED state
  BY <1>13 DEF CheckpointStep, Checkpoint, LogCheckpoint, CheckpointRefused, Refused, Refuse, stateVars
<1>14. ASSUME StartStep, ~SaveTask
       PROVE  UNCHANGED state
  BY <1>14 DEF StartStep, Start, LogTask, StartRefused, Refused, Refuse, stateVars
<1>15. ASSUME NEW p \in Processes, EnterLock(p) \/ LockBusy(p) \/ Killed(p)
       PROVE  UNCHANGED state
  BY <1>15 DEF EnterLock, Lock, LockBusy, Killed, Gone, stateVars
<1>16. ASSUME Edit \/ SessionCloses \/ UNCHANGED vars
       PROVE  UNCHANGED state
  BY <1>16 DEF Edit, SessionCloses, vars, stateVars
<1> QED
  BY <1>1, <1>2, <1>3, <1>4, <1>5, <1>6, <1>7, <1>8, <1>9, <1>10, <1>11, <1>12, <1>13, <1>14, <1>15, <1>16
     DEF Next, Quiet

-----------------------------------------------------------------------------
(* The log.                                                                *)

(* What is saved when the event e is in the log.                           *)
Told(e) ==
  /\ state # None
  /\ \A c \in Checks :
       LET r == SavedCheck(c)
       IN  /\ e = <<c, "prediction">> => r # None /\ r.prediction # None
           /\ e = <<c, "probe_approval">> => r # None /\ r.approval # None
           /\ e = <<c, "execution">> => r # None /\ r.execution # None
           /\ e = <<c, "observation">> => r # None /\ r.observation # None
           /\ e = <<c, "check_skipped">> => r # None /\ r.phase = "skipped"
  /\ \A h \in Handoffs :
       LET s == SavedHandoff(h)
       IN  /\ e = <<h, "next_task">> => s # None
           /\ e = <<h, "dispatch">> => s # None /\ s.status \in {"dispatched", "failed"}

(* LogBehindState, event by event.                                         *)
LEMMA LogIsTold == LogBehindState <=> \A e \in log : Told(e)
BY DEF LogBehindState, Told

(* What was told stays true.                                               *)
LEMMA ToldStays ==
  ASSUME Grown, NEW e, Told(e)
  PROVE  Told(e)'
<1>1. state # None /\ state' # None
  BY DEF Told, Grown
<1>2. ASSUME NEW c \in Checks
      PROVE  /\ SavedCheck(c) = state.checks[c] /\ SavedCheck(c)' = state'.checks[c]
             /\ CheckGrown(state.checks[c], state'.checks[c])
  BY <1>1 DEF SavedCheck, Grown
<1>3. ASSUME NEW h \in Handoffs
      PROVE  /\ SavedHandoff(h) = state.handoffs[h] /\ SavedHandoff(h)' = state'.handoffs[h]
             /\ HandoffGrown(state.handoffs[h], state'.handoffs[h])
  BY <1>1 DEF SavedHandoff, Grown
<1>4. ASSUME NEW c \in Checks
      PROVE  LET r == SavedCheck(c)'
             IN  /\ e = <<c, "prediction">> => r # None /\ r.prediction # None
                 /\ e = <<c, "probe_approval">> => r # None /\ r.approval # None
                 /\ e = <<c, "execution">> => r # None /\ r.execution # None
                 /\ e = <<c, "observation">> => r # None /\ r.observation # None
                 /\ e = <<c, "check_skipped">> => r # None /\ r.phase = "skipped"
  BY <1>2 DEF Told, CheckGrown, Follows
<1>5. ASSUME NEW h \in Handoffs
      PROVE  LET s == SavedHandoff(h)'
             IN  /\ e = <<h, "next_task">> => s # None
                 /\ e = <<h, "dispatch">> => s # None /\ s.status \in {"dispatched", "failed"}
  BY <1>3 DEF Told, HandoffGrown
<1> QED
  BY <1>1, <1>4, <1>5 DEF Told

(* Every event tells what is saved when it is logged.                      *)
LEMMA NewEventsAreTold ==
  ASSUME CoreInv, [Next]_vars, NEW e \in log' \ log
  PROVE  Told(e) /\ UNCHANGED state
<1>1. CASE LogTask
  <2>1. /\ e = <<Starter, "task_start">> /\ UNCHANGED state
    BY <1>1 DEF LogTask, Append, stateVars
  <2>2. state # None
    BY <1>1, Kinds DEF LogTask, At, CoreInv, StartInv
  <2> QED
    BY <2>1, <2>2 DEF Told
<1>2. ASSUME NEW k \in Checkpointers, LogCheckpoint(k)
      PROVE  Told(e) /\ UNCHANGED state
  <2>1. /\ e = <<k, "task_checkpoint">> /\ UNCHANGED state
    BY <1>2 DEF LogCheckpoint, Append, stateVars
  <2>2. state # None
    BY <1>2, Kinds DEF LogCheckpoint, At, CoreInv, StartInv
  <2> QED
    BY <2>1, <2>2 DEF Told
<1>3. ASSUME NEW c \in Checks, LogCheck(c)
      PROVE  Told(e) /\ UNCHANGED state
  <2> DEFINE m == mine[c]
             s == SavedCheck(c)
  <2>1. e = <<c, EventOf(m)>> /\ UNCHANGED state
    BY <1>3 DEF LogCheck, CheckKeeps, Append, stateVars
  <2>2. state # None
    BY <1>3, Kinds DEF LogCheck, At, CoreInv, StartInv
  <2>3. /\ CheckInv(c) /\ m # None /\ m \in CheckRecords /\ Shaped(m)
        /\ \/ m.phase \in {"predicted", "approved", "skipped", "completed"}
           \/ m.phase = "running" /\ m.execution # None
    BY <1>3, CheckAt DEF LogCheck, At, CheckInv, Stands
  <2>4. /\ s # None /\ s.phase = m.phase /\ s.prediction = m.prediction /\ s.approval = m.approval
        /\ s.execution = m.execution /\ s.observation = m.observation
    BY <2>3, Revised DEF CheckInv, Known
  <2>5. /\ EventOf(m) = "prediction" => m.prediction # None
        /\ EventOf(m) = "probe_approval" => m.approval # None
        /\ EventOf(m) = "execution" => m.execution # None
        /\ EventOf(m) = "observation" => m.observation # None
        /\ EventOf(m) = "check_skipped" => m.phase = "skipped"
        /\ EventOf(m) \notin {"next_task", "dispatch"}
    <3>1. CASE m.phase = "predicted" /\ m.approval = None
      BY <2>3, <3>1 DEF EventOf, Shaped
    <3>2. CASE m.phase = "predicted" /\ m.approval = "no"
      BY <2>3, <3>2, WorkflowNone DEF EventOf, Shaped
    <3>3. CASE m.phase = "approved"
      BY <2>3, <3>3, WorkflowNone DEF EventOf, Shaped
    <3>4. CASE m.phase = "skipped"
      BY <2>3, <3>4 DEF EventOf, Shaped
    <3>5. CASE m.phase = "completed"
      BY <2>3, <3>5 DEF EventOf, Shaped
    <3>6. CASE m.phase = "running" /\ m.execution # None
      BY <2>3, <3>6 DEF EventOf, Shaped
    <3> QED
      BY <2>3, <3>1, <3>2, <3>3, <3>4, <3>5, <3>6 DEF Shaped
  <2> HIDE DEF m, s
  <2> QED
    BY <2>1, <2>2, <2>4, <2>5 DEF Told, s
<1>4. ASSUME NEW h \in Handoffs, LogChoice(h)
      PROVE  Told(e) /\ UNCHANGED state
  <2>1. e = <<h, "next_task">> /\ UNCHANGED state
    BY <1>4 DEF LogChoice, Append, stateVars
  <2>2. SavedHandoff(h) # None
    BY <1>4 DEF LogChoice, At, CoreInv, HandoffInv
  <2> QED
    BY <2>1, <2>2 DEF Told, SavedHandoff
<1>5. ASSUME NEW r \in Receivers, LogDispatch(r)
      PROVE  Told(e) /\ UNCHANGED state
  <2>1. e = <<HandoffOf[r], "dispatch">> /\ UNCHANGED state
    BY <1>5 DEF LogDispatch, Append, stateVars
  <2>2. SavedHandoff(HandoffOf[r]) # None /\ SavedHandoff(HandoffOf[r]).status \in {"dispatched", "failed"}
    BY <1>5 DEF LogDispatch, At, CoreInv, DispatchInv
  <2> QED
    BY <2>1, <2>2 DEF Told, SavedHandoff
<1>6. ASSUME NEW r \in Receivers, Deliver(r)
      PROVE  Told(e) /\ UNCHANGED state
  <2>1. e = <<HandoffOf[r], "host_handoff_acknowledged">> /\ UNCHANGED state
    BY <1>6 DEF Deliver, stateVars
  <2>2. state # None
    <3>1. HandoffOf[r] \in Handoffs
      BY WorkflowAssumption
    <3>2. offered[r] # None
      BY <1>6 DEF Deliver, At, CoreInv, DispatchInv
    <3> QED
      BY <3>1, <3>2 DEF CoreInv, HandoffInv, SavedHandoff
  <2> QED
    BY <2>1, <2>2 DEF Told
<1>7. CASE UNCHANGED log
  BY <1>7
<1>8. ASSUME StartStep, ~LogTask
      PROVE  UNCHANGED log
  BY <1>8 DEF StartStep, Start, SaveTask, StartRefused, Refused
<1>9. ASSUME NEW k \in Checkpointers, CheckpointStep(k), ~LogCheckpoint(k)
      PROVE  UNCHANGED log
  BY <1>9 DEF CheckpointStep, Checkpoint, SaveCheckpoint, CheckpointRefused, Refused
<1>10. ASSUME NEW c \in Checks, CheckStep(c), ~LogCheck(c)
       PROVE  UNCHANGED log
  BY <1>10 DEF CheckStep, Prepare, Predict, ContextFails, Consent, Declined, Recheck, RecheckFails, RunProbe,
               Compare, Transition, TransitionRefused, Refused
<1>11. ASSUME NEW h \in Handoffs, ChoiceStep(h), ~LogChoice(h)
       PROVE  UNCHANGED log
  BY <1>11 DEF ChoiceStep, Choose, SaveChoice, ChoiceRefused, Refused
<1>12. ASSUME NEW r \in Receivers, DispatchStep(r), ~LogDispatch(r), ~Deliver(r)
       PROVE  UNCHANGED log
  BY <1>12 DEF DispatchStep, Acknowledge, BeginDispatch, FinishDispatch, DispatchRefused, Refused
<1>13. ASSUME NEW p \in Processes, EnterLock(p) \/ LockBusy(p) \/ Killed(p)
       PROVE  UNCHANGED log
  BY <1>13 DEF EnterLock, LockBusy, Killed
<1>14. ASSUME (\E c \in Checks : RewriteCheck(c)) \/ (\E h \in Handoffs : RewriteHandoff(h))
       PROVE  UNCHANGED log
  BY <1>14 DEF RewriteCheck, RewriteHandoff, Rewrite
<1>15. ASSUME Edit \/ SessionCloses \/ UNCHANGED vars
       PROVE  UNCHANGED log
  BY <1>15 DEF Edit, SessionCloses, vars
<1> QED
  BY <1>1, <1>2, <1>3, <1>4, <1>5, <1>6, <1>7, <1>8, <1>9, <1>10, <1>11, <1>12, <1>13, <1>14, <1>15
     DEF Next, Quiet

(* The log stays behind the state.                                         *)
LEMMA LogKept ==
  ASSUME CoreInv, LogBehindState, [Next]_vars
  PROVE  LogBehindState'
<1>1. Grown
  BY StateGrows
<1>2. ASSUME NEW e \in log' PROVE Told(e)'
  <2>1. Told(e)
    BY LogIsTold, NewEventsAreTold
  <2> QED
    BY <1>1, <2>1, ToldStays
<1>3. (\A e \in log : Told(e))' => LogBehindState'
  BY DEF LogBehindState, Told, SavedCheck, SavedHandoff
<1> QED
  BY <1>2, <1>3

-----------------------------------------------------------------------------
(* What the invariant says of the properties.                              *)
LEMMA TypesFollow == CoreInv => TypeOK
<1> SUFFICES ASSUME CoreInv PROVE TypeOK
  OBVIOUS
<1>1. ASSUME NEW c \in Checks, SavedCheck(c) # None
      PROVE  LET r == SavedCheck(c)
             IN  /\ r.phase = "prepared" => r.prediction = None
                 /\ r.phase \in {"predicted", "approved", "running", "completed", "interrupted"} =>
                      r.prediction # None
                 /\ r.phase \in {"approved", "running", "completed", "interrupted"} =>
                      r.approval = "yes"
                 /\ r.phase = "completed" <=> r.observation # None
                 /\ r.observation # None <=> c \in state.observed
                 /\ r.observation # None => r.execution # None
  <2> DEFINE m == mine[c]
             r == SavedCheck(c)
  <2>1. CheckInv(c) /\ m # None /\ m \in CheckRecords /\ Shaped(m) /\ state # None
    BY <1>1, CheckAt DEF CheckInv, Known, SavedCheck
  <2>2. /\ r.phase = m.phase /\ r.prediction = m.prediction /\ r.approval = m.approval
        /\ r.execution = m.execution /\ r.observation = m.observation
    BY <2>1, Revised DEF CheckInv, Known
  <2>3. c \in state.observed <=> m.observation # None
    BY <2>1 DEF CheckInv
  <2> HIDE DEF m, r
  <2>4. /\ r.phase = "prepared" => r.prediction = None
        /\ r.phase \in {"predicted", "approved", "running", "completed", "interrupted"} =>
             r.prediction # None
        /\ r.phase \in {"approved", "running", "completed", "interrupted"} => r.approval = "yes"
        /\ r.phase = "completed" <=> r.observation # None
        /\ r.observation # None <=> c \in state.observed
        /\ r.observation # None => r.execution # None
    BY <2>1, <2>2, <2>3 DEF Shaped
  <2> QED
    BY <2>4 DEF r
<1> QED
  BY <1>1 DEF CoreInv, LockInv, Types, TypeOK

(* Consent, ...                                                            *)
LEMMA ConsentFollows == CoreInv => ConsentCoversProbe
<1> SUFFICES ASSUME CoreInv, NEW c \in Checks
             PROVE  LET r == SavedCheck(c)
                    IN  /\ r # None /\ r.phase \in {"running", "completed", "interrupted"} =>
                             consented[c] = Shown(r)
                        /\ ranOn[c] # None =>
                             r # None /\ {<<c, "prediction">>, <<c, "probe_approval">>} \subseteq log
  BY DEF ConsentCoversProbe
<1> DEFINE m == mine[c]
           r == SavedCheck(c)
<1>1. CheckInv(c) /\ (m # None => m \in CheckRecords /\ Shaped(m))
  BY CheckAt
<1>2. m = None => r = None
  BY <1>1 DEF CheckInv, Known
<1>3. m # None => r # None /\ r.phase = m.phase
  BY <1>1, Revised DEF CheckInv, Known
<1>4. m # None /\ m.phase \in Started => r = m
  BY <1>1 DEF CheckInv, Known, Started
<1>5. m # None /\ m.phase \in Started =>
        consented[c] = Shown(m) /\ {<<c, "prediction">>, <<c, "probe_approval">>} \subseteq log
  BY <1>1, WorkflowNone DEF CheckInv, ConsentInv, Shaped, Started, Answered
<1>6. ranOn[c] # None => m # None /\ m.phase \in Started
  BY <1>1 DEF CheckInv, RanInv
<1> HIDE DEF m, r
<1>7. /\ r # None /\ r.phase \in {"running", "completed", "interrupted"} => consented[c] = Shown(r)
      /\ ranOn[c] # None => r # None /\ {<<c, "prediction">>, <<c, "probe_approval">>} \subseteq log
  BY <1>2, <1>3, <1>4, <1>5, <1>6 DEF Started
<1> QED
  BY <1>7 DEF r

(* ... verdicts, ...                                                       *)
LEMMA VerifiedFollows == CoreInv => VerifiedForItsSource
<1> SUFFICES ASSUME CoreInv, NEW c \in Checks, SavedCheck(c) # None,
                    SavedCheck(c).observation \in {"matched", "mismatched"}
             PROVE  LET r == SavedCheck(c)
                    IN  /\ ranOn[c] = r.refs
                        /\ r.observation = "matched" <=> r.prediction = Printed[r.refs]
  BY DEF VerifiedForItsSource
<1> DEFINE m == mine[c]
           r == SavedCheck(c)
<1>1. CheckInv(c) /\ m # None /\ m \in CheckRecords
  BY CheckAt DEF CheckInv, Known
<1>2. r.refs = m.refs /\ r.prediction = m.prediction /\ r.observation = m.observation
  BY <1>1, Revised DEF CheckInv, Known
<1>3. Verified(c, m, m.execution, m.observation)
  BY <1>1 DEF CheckInv, RanInv
<1> HIDE DEF m, r
<1>4. ranOn[c] = r.refs /\ (r.observation = "matched" <=> r.prediction = Printed[r.refs])
  BY <1>2, <1>3 DEF Verified, r
<1> QED
  BY <1>4 DEF r

(* ... and deliveries.                                                     *)
LEMMA DeliveryFollows == CoreInv => DeliveredOnce
<1> SUFFICES ASSUME CoreInv, NEW h \in Handoffs
             PROVE  /\ Cardinality(deliveries[h]) <= 1
                    /\ SavedHandoff(h) # None /\ SavedHandoff(h).status = "dispatched" =>
                         /\ <<h, "host_handoff_acknowledged">> \in log
                         /\ \E r \in deliveries[h] : Received[r] = SavedHandoff(h).instruction
  BY DEF DeliveredOnce
<1>1. HandoffInv(h) /\ deliveries[h] \subseteq Receivers
  BY DEF CoreInv, Types
<1>2. \A q, r \in deliveries[h] : q = r
  BY <1>1 DEF HandoffInv
<1>3. Cardinality(deliveries[h]) <= 1
  <2>1. CASE deliveries[h] = {}
    BY <2>1, FS_EmptySet
  <2>2. ASSUME NEW r \in deliveries[h]
        PROVE  Cardinality(deliveries[h]) <= 1
    <3>1. deliveries[h] = {r}
      BY <1>2, <2>2
    <3>2. Cardinality({r}) = 1
      BY FS_Singleton
    <3> QED
      BY <3>1, <3>2
  <2> QED
    BY <2>1, <2>2
<1> QED
  BY <1>1, <1>3 DEF HandoffInv, Acknowledged

(* Every record the commands save is one that they read back: its fields   *)
(* are those of its phase, and one command at a time is inside the lock,   *)
(* with the current state.                                                 *)
THEOREM WorkflowTypes == Spec => []TypeOK
<1> QED
  BY WorkflowInvariant, TypesFollow, PTL

(* A probe runs only for what the human consented to, with both answers in *)
(* the log, whatever other commands changed between consent and run.       *)
THEOREM ProbesHaveConsent == Spec => []ConsentCoversProbe
<1> QED
  BY WorkflowInvariant, ConsentFollows, PTL

(* A verified observation is about the source it cites, however often the  *)
(* source was edited meanwhile.                                            *)
THEOREM VerdictsAreAboutTheirSource == Spec => []VerifiedForItsSource
<1> QED
  BY WorkflowInvariant, VerifiedFollows, PTL

(* A handoff is offered to one receiver at most, and one that is saved as  *)
(* dispatched was acknowledged by a receiver of that very instruction.     *)
THEOREM HandoffsAreDeliveredOnce == Spec => []DeliveredOnce
<1> QED
  BY WorkflowInvariant, DeliveryFollows, PTL

(* Two writes, the state first: the log never tells more than the state.   *)
THEOREM LogTellsNoMore == Spec => []LogBehindState
<1>1. Init => LogBehindState
  BY DEF Init, LogBehindState
<1>2. CoreInv /\ LogBehindState /\ [Next]_vars => LogBehindState'
  BY LogKept
<1> QED
  BY <1>1, <1>2, WorkflowInvariant, PTL DEF Spec

(* Commands that run at once lose nothing of each other's.                 *)
THEOREM NoCommandUndoesAnother == Spec => HistoryKept
<1>1. CoreInv /\ [Next]_vars =>
        [state # None =>
           /\ state' # None
           /\ state'.source >= state.source
           /\ state.observed \subseteq state'.observed
           /\ \A c \in Checks :
                LET old == state.checks[c]  new == state'.checks[c]
                IN  old # None =>
                      /\ new # None /\ Follows(old.phase, new.phase) /\ new.refs = old.refs
                      /\ old.prediction \in {None, new.prediction}
                      /\ old.approval \in {None, new.approval}
                      /\ old.execution \in {None, new.execution}
                      /\ old.observation \in {None, new.observation}
           /\ \A h \in Handoffs :
                LET old == state.handoffs[h]  new == state'.handoffs[h]
                IN  old # None =>
                      /\ new # None
                      /\ \/ new.status = old.status
                         \/ old.status = "selected" /\ new.status = "dispatching"
                         \/ old.status = "dispatching" /\ new.status \in {"dispatched", "failed"}
        ]_state
  <2> SUFFICES ASSUME CoreInv, [Next]_vars PROVE Grown
    BY DEF Grown, CheckGrown, HandoffGrown
  <2> QED
    BY StateGrows
<1> QED
  BY <1>1, WorkflowInvariant, PTL DEF Spec, HistoryKept
=============================================================================
