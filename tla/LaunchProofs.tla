----------------------------- MODULE LaunchProofs -----------------------------
(***************************************************************************)
(* Proofs about a launch, for any owners, hooks, sessions and faults.      *)
(*                                                                         *)
(* First about the session record (module HostSession), where everything   *)
(* rests on CopiesAreCurrent: whoever is inside the file lock is alone     *)
(* there, so what it read is still the record when it replaces it.  Then   *)
(* every step of the launch is a step of HostSession or leaves the record  *)
(* alone: what was shown of the record holds in a launch, and answers are  *)
(* counted.  Last, that owners take turns (TurnsInv of module Launch).     *)
(***************************************************************************)
EXTENDS Launch, FiniteSetTheorems, TLAPS

-----------------------------------------------------------------------------
(* The session record.                                                     *)


SessionInv == SessionTypeOK /\ CopiesAreCurrent /\ RecordIsReadable

(* One more request, or one more evidence, changes nothing else.           *)
LEMMA Counted ==
  ASSUME NEW r \in Records
  PROVE  LET c == [r EXCEPT !.requests = @ + 1]
         IN  /\ c \in Records
             /\ c.session = r.session /\ c.status = r.status
             /\ c.nativeEnd = r.nativeEnd /\ c.inferredEnd = r.inferredEnd
             /\ c.requests = r.requests + 1
BY DEF Records

LEMMA EndedFields ==
  ASSUME NEW r \in Records, NEW inferred \in BOOLEAN
  PROVE  LET e == Ended(r, inferred)
         IN  /\ e \in Records
             /\ e.session = r.session /\ e.status = "closed" /\ e.requests = r.requests
             /\ e.nativeEnd = (r.nativeEnd \/ ~inferred)
             /\ e.inferredEnd = (r.inferredEnd \/ inferred)
<1>1. /\ r.session \in Sessions \cup {None} /\ r.requests \in Nat
      /\ r.nativeEnd \in BOOLEAN /\ r.inferredEnd \in BOOLEAN
  BY DEF Records
<1> QED
  BY <1>1 DEF Records, Ended

(* Every step keeps the types.                                             *)
LEMMA SessionTypes ==
  ASSUME SessionTypeOK, SessionNext
  PROVE  SessionTypeOK'
<1> USE DEF SessionTypeOK
<1>1. ASSUME NEW p \in Processes, Enter(p)
      PROVE  SessionTypeOK'
  BY <1>1 DEF Enter
<1>2. ASSUME NEW P \in SUBSET Processes, Leave(P), native' \in Records \cup {None}
      PROVE  SessionTypeOK'
  BY <1>2 DEF Leave
<1>3. ASSUME NEW p \in Processes, NEW s \in Sessions, Register(p, s)
      PROVE  SessionTypeOK'
  <2>1. native' = Registered(s) /\ Leave({p})
    BY <1>3 DEF Register, Replace
  <2>2. Registered(s) \in Records
    BY DEF Records, Registered
  <2> QED
    BY <2>1, <2>2, <1>2
<1>4. ASSUME NEW p \in Processes, NEW s \in Sessions, Observe(p, s)
      PROVE  SessionTypeOK'
  <2>1. native' = [copy[p] EXCEPT !.requests = @ + 1] /\ Leave({p})
    BY <1>4 DEF Observe, Replace
  <2>2. copy[p] \in Records
    BY <1>4 DEF Observe, MayObserve, OpenFor
  <2>3. [copy[p] EXCEPT !.requests = @ + 1] \in Records
    BY <2>2, Counted
  <2> QED
    BY <2>1, <2>3, <1>2
<1>5. ASSUME NEW p \in Processes, NEW s \in Sessions \cup {None}, NEW inferred \in BOOLEAN,
             Close(p, s, inferred)
      PROVE  SessionTypeOK'
  <2> DEFINE r == IF copy[p] = None THEN Unregistered ELSE copy[p]
  <2>1. native' = Ended(r, inferred) /\ Leave({p})
    BY <1>5 DEF Close, Replace
  <2>2. r \in Records
    BY DEF Records, Unregistered
  <2>3. Ended(r, inferred) \in Records
    BY <2>2, EndedFields
  <2> QED
    BY <2>1, <2>3, <1>2
<1>6. ASSUME NEW P \in SUBSET Processes, Left(P)
      PROVE  SessionTypeOK'
  BY <1>6, <1>2 DEF Left
<1> QED
  BY <1>1, <1>3, <1>4, <1>5, <1>6 DEF SessionNext

(* The lock: an Enter finds it free, and only whoever is inside replaces   *)
(* the record, leaving the lock in the same step.                          *)
LEMMA CopiesStayCurrent ==
  ASSUME SessionTypeOK, CopiesAreCurrent, SessionNext
  PROVE  CopiesAreCurrent'
<1> USE DEF SessionTypeOK, CopiesAreCurrent
<1>1. ASSUME NEW p \in Processes, Enter(p)
      PROVE  CopiesAreCurrent'
  BY <1>1 DEF Enter, SessionLockFree
<1>2. ASSUME NEW p \in Processes, p \in inside, Leave({p})
      PROVE  CopiesAreCurrent'
  <2>1. inside' = {}
    BY <1>2 DEF Leave
  <2> QED
    BY <2>1
<1>3. ASSUME NEW P \in SUBSET Processes, Left(P)
      PROVE  CopiesAreCurrent'
  BY <1>3 DEF Left, Leave
<1> QED
  BY <1>1, <1>2, <1>3 DEF SessionNext, Register, Observe, Close, Replace

(* Whoever replaces the record read the current one.                       *)
LEMMA ReadsCurrent ==
  ASSUME CopiesAreCurrent, NEW p \in inside
  PROVE  copy[p] = native
BY DEF CopiesAreCurrent

(* Every record written passes the checks of _native.                      *)
LEMMA StaysReadable ==
  ASSUME SessionInv, SessionNext
  PROVE  RecordIsReadable'
<1> USE DEF SessionInv, SessionTypeOK
<1>1. ASSUME UNCHANGED native
      PROVE  RecordIsReadable'
  BY <1>1 DEF RecordIsReadable
<1>2. ASSUME NEW p \in Processes, NEW s \in Sessions, Register(p, s)
      PROVE  RecordIsReadable'
  <2>1. native' = Registered(s) /\ s \notin Parents
    BY <1>2 DEF Register, MayRegister, Replace
  <2> QED
    BY <2>1, SessionAssumption DEF RecordIsReadable, Registered
<1>3. ASSUME NEW p \in Processes, NEW s \in Sessions, Observe(p, s)
      PROVE  RecordIsReadable'
  <2>1. /\ copy[p] = native /\ native \in Records /\ native.session = s
        /\ native' = [copy[p] EXCEPT !.requests = @ + 1]
    BY <1>3, ReadsCurrent DEF Observe, MayObserve, OpenFor, Replace
  <2>2. /\ native'.session = native.session /\ native'.status = native.status
        /\ native'.nativeEnd = native.nativeEnd /\ native'.inferredEnd = native.inferredEnd
    BY <2>1, Counted
  <2>3. native # None /\ native.session # None
    BY <1>3, <2>1, SessionAssumption DEF Observe, MayObserve, OpenFor
  <2> QED
    BY <2>2, <2>3 DEF RecordIsReadable
<1>4. ASSUME NEW p \in Processes, NEW s \in Sessions \cup {None}, NEW inferred \in BOOLEAN,
             Close(p, s, inferred)
      PROVE  RecordIsReadable'
  <2>1. copy[p] = native /\ MayEnd(native, s, inferred)
    BY <1>4, ReadsCurrent DEF Close, MayClose, Replace
  <2>2. CASE native = None
    <3>1. native' = Ended(Unregistered, TRUE)
      BY <1>4, <2>1, <2>2 DEF Close, Replace, MayEnd
    <3> QED
      BY <3>1, SessionAssumption DEF Ended, Unregistered, RecordIsReadable
  <2>3. CASE native # None
    <3>1. native' = Ended(native, inferred) /\ native \in Records
      BY <1>4, <2>1, <2>3 DEF Close, Replace
    <3>2. ~inferred => native.session # None
      BY <2>1, <2>3 DEF MayEnd
    <3> QED
      BY <3>1, <3>2, <2>3 DEF Ended, Records, RecordIsReadable
  <2> QED
    BY <2>2, <2>3
<1> QED
  BY <1>1, <1>2, <1>3, <1>4 DEF SessionNext, Enter, Left

LEMMA SessionStarts == SessionInit => SessionInv
BY DEF SessionInit, SessionInv, SessionTypeOK, CopiesAreCurrent, RecordIsReadable

LEMMA SessionStays ==
  ASSUME SessionInv, [SessionNext]_sessionVars
  PROVE  SessionInv'
<1>1. CASE SessionNext
  BY <1>1, SessionTypes, CopiesStayCurrent, StaysReadable DEF SessionInv
<1>2. CASE UNCHANGED sessionVars
  BY <1>2 DEF sessionVars, SessionInv, SessionTypeOK, CopiesAreCurrent, RecordIsReadable
<1> QED
  BY <1>1, <1>2

(* The record only grows, step by step: a replacement is made of the       *)
(* current record, and each operation keeps what that one says.            *)
LEMMA StepGrows ==
  ASSUME SessionInv, SessionNext, native # None
  PROVE  /\ native' # None
         /\ native'.session = native.session
         /\ native.status = "closed" => native'.status = "closed"
         /\ native.nativeEnd => native'.nativeEnd
         /\ native.inferredEnd => native'.inferredEnd
         /\ native'.requests >= native.requests
<1> DEFINE Grows == /\ native' # None
                    /\ native'.session = native.session
                    /\ native.status = "closed" => native'.status = "closed"
                    /\ native.nativeEnd => native'.nativeEnd
                    /\ native.inferredEnd => native'.inferredEnd
                    /\ native'.requests >= native.requests
<1>0. native \in Records
  BY DEF SessionInv, SessionTypeOK
<1>1. CASE UNCHANGED native
  BY <1>0, <1>1 DEF Records
<1>2. ASSUME NEW p \in Processes, NEW s \in Sessions, Register(p, s)
      PROVE  Grows
  BY <1>2, ReadsCurrent DEF SessionInv, Register, MayRegister, Replace
<1>3. ASSUME NEW p \in Processes, NEW s \in Sessions, Observe(p, s)
      PROVE  Grows
  <2>1. native' = [native EXCEPT !.requests = @ + 1]
    BY <1>3, ReadsCurrent DEF SessionInv, Observe, Replace
  <2>2. /\ native'.session = native.session /\ native'.status = native.status
        /\ native'.nativeEnd = native.nativeEnd /\ native'.inferredEnd = native.inferredEnd
        /\ native'.requests = native.requests + 1
    BY <1>0, <2>1, Counted
  <2>3. native.requests \in Nat
    BY <1>0 DEF Records
  <2>4. native' # None
    BY <1>0, <2>1, Counted, NoRecord
  <2> QED
    BY <2>2, <2>3, <2>4
<1>4. ASSUME NEW p \in Processes, NEW s \in Sessions \cup {None}, NEW inferred \in BOOLEAN,
             Close(p, s, inferred)
      PROVE  Grows
  <2>1. native' = Ended(native, inferred)
    BY <1>4, ReadsCurrent DEF SessionInv, Close, Replace
  <2>2. /\ native'.session = native.session /\ native'.status = "closed"
        /\ native'.requests = native.requests
        /\ native'.nativeEnd = (native.nativeEnd \/ ~inferred)
        /\ native'.inferredEnd = (native.inferredEnd \/ inferred)
    BY <1>0, <2>1, EndedFields
  <2>3. native.requests \in Nat
    BY <1>0 DEF Records
  <2>4. native' # None
    BY <1>0, <2>1, EndedFields, NoRecord
  <2>5. native'.requests >= native.requests
    BY <2>2, <2>3
  <2> QED
    BY <2>2, <2>4, <2>5, Zenon
<1> QED
  BY <1>1, <1>2, <1>3, <1>4 DEF SessionNext, Enter, Left

(* Whatever processes do to the record and wherever they die, it is always *)
(* one that _native accepts, and whoever changes it read the current one.  *)
THEOREM SessionIsReadable == SessionSpec => []SessionInv
<1>1. SessionInit => SessionInv
  BY SessionStarts
<1>2. SessionInv /\ [SessionNext]_sessionVars => SessionInv'
  BY SessionStays
<1> QED
  BY <1>1, <1>2, PTL DEF SessionSpec

(* No order of registrations, requests, closures and deaths replaces the   *)
(* identity, reopens the session or forgets a request or an evidence.      *)
THEOREM SessionOnlyGrows == SessionSpec => RecordOnlyGrows
<1>1. SessionInv /\ [SessionNext]_sessionVars =>
        [native # None =>
           /\ native' # None
           /\ native'.session = native.session
           /\ native.status = "closed" => native'.status = "closed"
           /\ native.nativeEnd => native'.nativeEnd
           /\ native.inferredEnd => native'.inferredEnd
           /\ native'.requests >= native.requests]_native
  BY StepGrows DEF sessionVars
<1> QED
  BY <1>1, SessionIsReadable, PTL DEF SessionSpec, RecordOnlyGrows

-----------------------------------------------------------------------------
(* A launch uses the record.                                               *)


SawTypeOK == saw \in [Owners -> Sessions \cup {None}]

LEMMA Members ==
  /\ Owners \subseteq Processes /\ Hooks \subseteq Processes
  /\ Watcher \in Processes /\ Starter \in Processes /\ Agent \in Owners
  /\ \A h \in Hooks : SessionOf[h] \in Sessions
BY LaunchAssumption DEF LaunchAssumption

(* The operations as Launch uses them are operations of HostSession.       *)
LEMMA AloneIsSession ==
  ASSUME NEW p \in Processes, LeaveAlone(p)
  PROVE  SessionNext
BY DEF LeaveAlone, Left, SessionNext

LEMMA ClosingIsSession ==
  ASSUME NEW p \in Processes, NEW s \in Sessions \cup {None}, CloseInferred(p, s)
  PROVE  SessionNext
<1>1. CASE Close(p, s, TRUE)
  BY <1>1 DEF SessionNext
<1>2. CASE LeaveAlone(p)
  BY <1>2, AloneIsSession
<1> QED
  BY <1>1, <1>2 DEF CloseInferred

LEMMA DyingIsSession ==
  ASSUME NEW P \in SUBSET Processes, Left(P)
  PROVE  SessionNext
BY DEF SessionNext

LEMMA EnteringIsSession ==
  ASSUME NEW p \in Processes, Enter(p)
  PROVE  SessionNext
BY DEF SessionNext

SessionStep == SessionNext \/ UNCHANGED sessionVars

LEMMA OwnerUsesSession ==
  ASSUME SawTypeOK, NEW o \in Owners,
         OwnerStep(o) \/ HostExits(o) \/ Interrupt(o) \/ OwnerKilled(o)
  PROVE  SessionStep
<1> o \in Processes /\ saw[o] \in Sessions \cup {None}
  BY Members DEF SawTypeOK
<1>1. CASE EnterClose(o)
  BY <1>1, EnteringIsSession DEF EnterClose, SessionStep
<1>2. CASE OwnerCloses(o)
  BY <1>2, ClosingIsSession DEF OwnerCloses, SessionStep
<1>3. CASE CloseWindow(o)
  <2>1. {Watcher} \in SUBSET Processes /\ {Agent, Watcher} \in SUBSET Processes
    BY Members
  <2> QED
    BY <1>3, <2>1, DyingIsSession DEF CloseWindow, SessionStep
<1>4. CASE OwnerKilled(o)
  BY <1>4, DyingIsSession DEF OwnerKilled, SessionStep
<1>5. CASE LoadLaunch(o) \/ CheckStarted(o) \/ OpenLockFile(o) \/ TryOwnerLock(o)
           \/ MarkStarted(o) \/ WaitReview(o) \/ WaitPanes(o) \/ HandOver(o) \/ StartHost(o)
           \/ WaitHost(o)
  BY <1>5 DEF SessionStep, LoadLaunch, CheckStarted, OpenLockFile, TryOwnerLock, MarkStarted,
     WaitReview, WaitPanes, HandOver, StartHost, WaitHost
<1>6. CASE Shutdown(o) \/ Drain(o) \/ ReadStatus(o) \/ WriteExit(o) \/ CleanUp(o) \/ Unlock(o)
           \/ HostExits(o) \/ Interrupt(o)
  BY <1>6 DEF SessionStep, Shutdown, Drain, ReadStatus, WriteExit, CleanUp, Unlock, HostExits,
     Interrupt
<1> QED
  BY <1>1, <1>2, <1>3, <1>4, <1>5, <1>6 DEF OwnerStep

LEMMA WatcherUsesSession ==
  ASSUME WatchStep \/ CloseServer \/ TimePasses \/ WatcherQuits \/ WatcherKilled
  PROVE  SessionStep
<1>1. CASE TickEnter
  BY <1>1, EnteringIsSession, Members DEF TickEnter, SessionStep
<1>2. CASE TickCloses
  BY <1>2, ClosingIsSession, Members DEF TickCloses, SessionStep
<1>3. CASE WatcherKilled
  <2>1. {Watcher} \in SUBSET Processes
    BY Members
  <2> QED
    BY <1>3, <2>1, DyingIsSession DEF WatcherKilled, SessionStep
<1>4. CASE LoadWatch \/ StartWatch \/ TickProbe \/ TickRelease \/ TickDecide \/ TickClose
           \/ TickUnlink \/ LoopEnds \/ LeaveWatch
  BY <1>4 DEF SessionStep, WatchKeeps, LoadWatch, StartWatch, TickProbe, TickRelease, TickDecide,
     TickClose, TickUnlink, LoopEnds, LeaveWatch
<1>5. CASE CloseServer \/ TimePasses \/ WatcherQuits
  BY <1>5 DEF SessionStep, WatchKeeps, CloseServer, TimePasses, WatcherQuits
<1> QED
  BY <1>1, <1>2, <1>3, <1>4, <1>5 DEF WatchStep

LEMMA StarterUsesSession ==
  ASSUME StarterStep \/ PanesFail \/ StarterGivesUp
  PROVE  SessionStep
<1>1. ASSUME KillWindow
      PROVE  SessionStep
  <2>1. {Agent, Watcher} \in SUBSET Processes
    BY Members
  <2> QED
    BY <1>1, <2>1, DyingIsSession DEF KillWindow, SessionStep
<1>2. CASE StarterEnters
  BY <1>2, EnteringIsSession, Members DEF StarterEnters, SessionStep
<1>3. CASE StarterCloses
  BY <1>3, ClosingIsSession, Members DEF StarterCloses, SessionStep
<1>4. CASE PanesFail \/ StarterGivesUp
  BY <1>1, <1>4 DEF PanesFail, StarterGivesUp, SessionStep
<1>5. CASE OpenPanes \/ StarterUnlinks \/ PollExit
  BY <1>5 DEF SessionStep, OpenPanes, StarterUnlinks, PollExit
<1> QED
  BY <1>2, <1>3, <1>4, <1>5 DEF StarterStep

LEMMA HookUsesSession ==
  ASSUME NEW h \in Hooks, HookStarts(h) \/ HookStep(h) \/ HookKilled(h)
  PROVE  SessionStep
<1> h \in Processes /\ SessionOf[h] \in Sessions
  BY Members
<1>1. CASE HookEnters(h)
  BY <1>1, EnteringIsSession DEF HookEnters, SessionStep
<1>2. CASE HookRegisters(h)
  <2>1. CASE Register(h, SessionOf[h])
    BY <2>1 DEF SessionNext, SessionStep
  <2>2. CASE LeaveAlone(h)
    BY <2>2, AloneIsSession DEF SessionStep
  <2> QED
    BY <1>2, <2>1, <2>2 DEF HookRegisters
<1>3. CASE HookObserves(h)
  <2>1. CASE Observe(h, SessionOf[h])
    BY <2>1 DEF SessionNext, SessionStep
  <2>2. CASE LeaveAlone(h)
    BY <2>2, AloneIsSession DEF SessionStep
  <2> QED
    BY <1>3, <2>1, <2>2 DEF HookObserves
<1>4. CASE HookCloses(h)
  <2>1. CASE Close(h, SessionOf[h], FALSE)
    BY <2>1 DEF SessionNext, SessionStep
  <2>2. CASE LeaveAlone(h)
    BY <2>2, AloneIsSession DEF SessionStep
  <2> QED
    BY <1>4, <2>1, <2>2 DEF HookCloses
<1>5. CASE HookKilled(h)
  BY <1>5, DyingIsSession DEF HookKilled, SessionStep
<1>6. CASE HookStarts(h) \/ HookAnswers(h) \/ HookShutsDown(h)
  BY <1>6 DEF SessionStep, HookStarts, HookAnswers, HookShutsDown
<1> QED
  BY <1>1, <1>2, <1>3, <1>4, <1>5, <1>6 DEF HookStep

LEMMA StepUsesSession ==
  ASSUME SawTypeOK, [Next]_vars
  PROVE  SessionStep
<1>1. CASE UNCHANGED vars
  BY <1>1 DEF vars, SessionStep
<1>2. CASE Over
  BY <1>2 DEF Over, vars, SessionStep
<1> QED
  BY <1>1, <1>2, OwnerUsesSession, WatcherUsesSession, StarterUsesSession, HookUsesSession
     DEF Next

-----------------------------------------------------------------------------
(* What an owner saw is a session of the record, or None.                  *)
LEMMA SawStays ==
  ASSUME SessionTypeOK, SawTypeOK, [Next]_vars
  PROVE  SawTypeOK'
<1>1. ASSUME NEW o \in Owners, ReadStatus(o)
      PROVE  SawTypeOK'
  <2>1. (IF native = None THEN None ELSE native.session) \in Sessions \cup {None}
    BY DEF SessionTypeOK, Records
  <2> QED
    BY <1>1, <2>1 DEF ReadStatus, SawTypeOK
<1>2. CASE UNCHANGED saw
  BY <1>2 DEF SawTypeOK
<1>3. ASSUME NEW o \in Owners,
             OwnerStep(o) \/ HostExits(o) \/ Interrupt(o) \/ OwnerKilled(o), ~ReadStatus(o)
      PROVE  UNCHANGED saw
  BY <1>3 DEF OwnerStep, LoadLaunch, CheckStarted, OpenLockFile, TryOwnerLock, MarkStarted,
     WaitReview, WaitPanes, HandOver, StartHost, WaitHost, Shutdown, Drain, EnterClose,
     OwnerCloses, WriteExit, CleanUp, CloseWindow, Unlock, HostExits, Interrupt, OwnerKilled
<1>4. ASSUME WatchStep \/ CloseServer \/ TimePasses \/ WatcherQuits \/ WatcherKilled
      PROVE  UNCHANGED saw
  BY <1>4 DEF WatchStep, WatchKeeps, ownerVars, LoadWatch, StartWatch, TickProbe, TickRelease,
     TickDecide, TickClose, TickUnlink, TickEnter, TickCloses, LoopEnds, LeaveWatch, CloseServer,
     TimePasses, WatcherQuits, WatcherKilled
<1>5. ASSUME StarterStep \/ PanesFail \/ StarterGivesUp
      PROVE  UNCHANGED saw
  BY <1>5 DEF StarterStep, ownerVars, OpenPanes, StarterUnlinks, StarterEnters, StarterCloses,
     PollExit, PanesFail, StarterGivesUp
<1>6. ASSUME NEW h \in Hooks, HookStarts(h) \/ HookStep(h) \/ HookKilled(h)
      PROVE  UNCHANGED saw
  BY <1>6 DEF HookStep, HookKeeps, ownerVars, HookStarts, HookEnters, HookRegisters, HookObserves,
     HookAnswers, HookShutsDown, HookCloses, HookKilled
<1>7. ASSUME UNCHANGED vars
      PROVE  UNCHANGED saw
  BY <1>7 DEF vars, ownerVars
<1> QED
  BY <1>1, <1>2, <1>3, <1>4, <1>5, <1>6, <1>7 DEF Next, Over

LaunchInv == SessionInv /\ SawTypeOK

LEMMA LaunchStarts == Init => LaunchInv /\ SessionInit
BY SessionStarts DEF Init, LaunchInv, SawTypeOK

LEMMA LaunchStays ==
  ASSUME LaunchInv, [Next]_vars
  PROVE  LaunchInv' /\ [SessionNext]_sessionVars
<1>1. [SessionNext]_sessionVars
  BY StepUsesSession DEF LaunchInv, SessionStep
<1>2. SessionInv'
  BY <1>1, SessionStays DEF LaunchInv
<1>3. SawTypeOK'
  BY SawStays DEF LaunchInv, SessionInv
<1> QED
  BY <1>1, <1>2, <1>3 DEF LaunchInv

(* The record of a launch is always one that _native accepts.              *)
THEOREM LaunchRecordIsReadable == Spec => []LaunchInv
<1>1. Init => LaunchInv
  BY LaunchStarts
<1>2. LaunchInv /\ [Next]_vars => LaunchInv'
  BY LaunchStays
<1> QED
  BY <1>1, <1>2, PTL DEF Spec

(* A launch uses the record only through its operations.                   *)
THEOREM LaunchUsesSession == Spec => SessionSpec
<1>1. Init => SessionInit
  BY LaunchStarts
<1>2. LaunchInv /\ [Next]_vars => [SessionNext]_sessionVars
  BY LaunchStays
<1> QED
  BY <1>1, <1>2, LaunchRecordIsReadable, PTL DEF Spec, SessionSpec

(* In a launch no order of hooks, owners, watchers and deaths replaces the *)
(* identity, reopens the session or forgets a request or an evidence.      *)
THEOREM LaunchRecordGrows == Spec => RecordOnlyGrows
BY LaunchUsesSession, SessionOnlyGrows

(* The record of a launch passes the checks of its readers.                *)
THEOREM LaunchReadable == Spec => []RecordIsReadable
<1>1. LaunchInv => RecordIsReadable
  BY DEF LaunchInv, SessionInv
<1> QED
  BY <1>1, LaunchRecordIsReadable, PTL

-----------------------------------------------------------------------------
(* Answers and their count.                                                *)

HookTypeOK == hook \in [Hooks -> HookStages]

(* The hooks whose request was counted and that may print an answer.       *)
Served == {h \in Hooks : hook[h] \in {"asking", "answered"}}

(* A request is counted before the engine is asked: the hooks that ask, or *)
(* have answered, belong to the session of the record and are counted.     *)
CountInv ==
  Served # {} =>
    /\ native # None
    /\ \A h \in Served : native.session = SessionOf[h]
    /\ Cardinality(Served) <= native.requests

AnswerInv == LaunchInv /\ HookTypeOK /\ CountInv

LEMMA ServedIsFinite ==
  /\ IsFiniteSet(Served)
  /\ Cardinality(Served) \in Nat
BY LaunchAssumption, FS_Subset, FS_CardinalityType DEF LaunchAssumption, Served

(* A step in which no hook joins those that were counted.                  *)
LEMMA NobodyJoins ==
  ASSUME AnswerInv, [SessionNext]_sessionVars, HookTypeOK', Served' \subseteq Served
  PROVE  CountInv'
<1>1. CASE Served' = {}
  BY <1>1 DEF CountInv
<1>2. CASE Served' # {}
  <2>1. /\ native # None
        /\ \A h \in Served : native.session = SessionOf[h]
        /\ Cardinality(Served) <= native.requests
    BY <1>2 DEF AnswerInv, CountInv
  <2>2. native \in Records /\ SessionInv
    BY <2>1 DEF AnswerInv, LaunchInv, SessionInv, SessionTypeOK
  <2>3. /\ native' # None /\ native'.session = native.session
        /\ native'.requests >= native.requests
    <3>1. CASE SessionNext
      BY <3>1, <2>1, <2>2, StepGrows
    <3>2. CASE UNCHANGED sessionVars
      BY <3>2, <2>1, <2>2 DEF sessionVars, Records
    <3> QED
      BY <3>1, <3>2
  <2>4. Cardinality(Served') <= Cardinality(Served)
    BY ServedIsFinite, FS_Subset
  <2>5. native.requests \in Nat /\ native' \in Records
    <3>1. SessionInv'
      BY <2>2, SessionStays
    <3> QED
      BY <2>2, <2>3, <3>1 DEF SessionInv, SessionTypeOK, Records
  <2>6. native'.requests \in Nat
    BY <2>5 DEF Records
  <2>7. Cardinality(Served) \in Nat /\ Cardinality(Served') \in Nat
    BY ServedIsFinite, FS_Subset, FS_CardinalityType
  <2>8. Cardinality(Served') <= native'.requests
    BY <2>1, <2>3, <2>4, <2>5, <2>6, <2>7
  <2> QED
    BY <2>1, <2>3, <2>8 DEF CountInv
<1> QED
  BY <1>1, <1>2

(* A hook joins when its request is counted, in the same record.           *)
LEMMA ObserverJoins ==
  ASSUME AnswerInv, NEW h \in Hooks, HookObserves(h), Observe(h, SessionOf[h]),
         hook' = [hook EXCEPT ![h] = "asking"]
  PROVE  CountInv'
<1>1. h \in inside /\ copy[h] = native /\ native # None /\ native.session = SessionOf[h]
  BY ReadsCurrent DEF AnswerInv, LaunchInv, SessionInv, Observe, MayObserve, OpenFor, Replace
<1>2. native \in Records /\ native' = [native EXCEPT !.requests = @ + 1]
  BY <1>1 DEF AnswerInv, LaunchInv, SessionInv, SessionTypeOK, Observe, Replace
<1>3. /\ native' # None /\ native'.session = native.session
      /\ native'.requests = native.requests + 1
  BY <1>2, Counted, NoRecord
<1>4. h \notin Served /\ Served' = Served \cup {h}
  BY DEF HookObserves, HookAt, Served, AnswerInv, HookTypeOK
<1>5. Cardinality(Served') = Cardinality(Served) + 1
  BY <1>4, ServedIsFinite, FS_AddElement
<1>6. Cardinality(Served) <= native.requests
  <2>1. CASE Served = {}
    BY <2>1, <1>2, FS_EmptySet DEF Records
  <2>2. CASE Served # {}
    BY <2>2 DEF AnswerInv, CountInv
  <2> QED
    BY <2>1, <2>2
<1>7. native.requests \in Nat /\ Cardinality(Served) \in Nat
  BY <1>2, ServedIsFinite DEF Records
<1>8. Cardinality(Served') <= native'.requests
  BY <1>3, <1>5, <1>6, <1>7
<1>9. \A k \in Served' : native'.session = SessionOf[k]
  BY <1>1, <1>3, <1>4 DEF AnswerInv, CountInv
<1> QED
  BY <1>3, <1>8, <1>9 DEF CountInv

(* The steps of a hook, as far as its stage is concerned.                  *)
LEMMA HookMoves ==
  ASSUME HookTypeOK, NEW h \in Hooks, HookStarts(h) \/ HookStep(h) \/ HookKilled(h)
  PROVE  /\ HookTypeOK'
         /\ \/ Served' \subseteq Served
            \/ /\ HookObserves(h) /\ Observe(h, SessionOf[h])
               /\ hook' = [hook EXCEPT ![h] = "asking"]
<1>1. ASSUME NEW stage \in HookStages, hook' = [hook EXCEPT ![h] = stage],
             stage \in {"asking", "answered"} => h \in Served
      PROVE  HookTypeOK' /\ Served' \subseteq Served
  BY <1>1 DEF HookTypeOK, Served
<1>2. CASE HookStarts(h)
  <2>1. \E stage \in {"nothing", "shutdown", "enter"} : hook' = [hook EXCEPT ![h] = stage]
    BY <1>2 DEF HookStarts, HookGoes
  <2> QED
    BY <2>1, <1>1 DEF HookStages, HookEnds
<1>3. CASE HookEnters(h) \/ HookShutsDown(h) \/ HookCloses(h) \/ HookKilled(h)
  <2>1. \E stage \in {"inside", "enter", "ended", "died"} : hook' = [hook EXCEPT ![h] = stage]
    BY <1>3 DEF HookEnters, HookShutsDown, HookCloses, HookKilled, HookGoes
  <2> QED
    BY <2>1, <1>1 DEF HookStages, HookEnds
<1>4. CASE HookRegisters(h)
  <2>1. \E stage \in {"registered", "nothing"} : hook' = [hook EXCEPT ![h] = stage]
    BY <1>4 DEF HookRegisters, HookGoes
  <2> QED
    BY <2>1, <1>1 DEF HookStages, HookEnds
<1>5. CASE HookAnswers(h)
  <2>1. h \in Served
    BY <1>5 DEF HookAnswers, HookAt, Served
  <2>2. \E stage \in {"answered", "nothing"} : hook' = [hook EXCEPT ![h] = stage]
    BY <1>5 DEF HookAnswers, HookGoes
  <2> QED
    BY <2>1, <2>2, <1>1 DEF HookStages, HookEnds
<1>6. CASE HookObserves(h)
  <2>1. CASE Observe(h, SessionOf[h]) /\ HookGoes(h, "asking")
    BY <2>1, <1>6 DEF HookGoes, HookTypeOK, HookStages
  <2>2. CASE HookGoes(h, "nothing")
    BY <2>2, <1>1 DEF HookGoes, HookStages, HookEnds
  <2> QED
    BY <1>6, <2>1, <2>2 DEF HookObserves
<1> QED
  BY <1>2, <1>3, <1>4, <1>5, <1>6 DEF HookStep

(* Only hooks move hooks.                                                  *)
LEMMA OthersKeepHooks ==
  ASSUME [Next]_vars, ~\E h \in Hooks : HookStarts(h) \/ HookStep(h) \/ HookKilled(h)
  PROVE  UNCHANGED hook
<1>1. ASSUME NEW o \in Owners, OwnerStep(o) \/ HostExits(o) \/ Interrupt(o) \/ OwnerKilled(o)
      PROVE  UNCHANGED hook
  BY <1>1 DEF OwnerStep, LoadLaunch, CheckStarted, OpenLockFile, TryOwnerLock, MarkStarted,
     WaitReview, WaitPanes, HandOver, StartHost, WaitHost, Shutdown, Drain, ReadStatus, EnterClose,
     OwnerCloses, WriteExit, CleanUp, CloseWindow, Unlock, HostExits, Interrupt, OwnerKilled
<1>2. ASSUME WatchStep \/ CloseServer \/ TimePasses \/ WatcherQuits \/ WatcherKilled
      PROVE  UNCHANGED hook
  BY <1>2 DEF WatchStep, WatchKeeps, LoadWatch, StartWatch, TickProbe, TickRelease, TickDecide,
     TickClose, TickUnlink, TickEnter, TickCloses, LoopEnds, LeaveWatch, CloseServer, TimePasses,
     WatcherQuits, WatcherKilled
<1>3. ASSUME StarterStep \/ PanesFail \/ StarterGivesUp
      PROVE  UNCHANGED hook
  BY <1>3 DEF StarterStep, OpenPanes, StarterUnlinks, StarterEnters, StarterCloses, PollExit,
     PanesFail, StarterGivesUp
<1>4. ASSUME UNCHANGED vars
      PROVE  UNCHANGED hook
  BY <1>4 DEF vars
<1> QED
  BY <1>1, <1>2, <1>3, <1>4 DEF Next, Over

LEMMA AnswersStay ==
  ASSUME AnswerInv, [Next]_vars
  PROVE  AnswerInv'
<1>1. LaunchInv' /\ [SessionNext]_sessionVars
  BY LaunchStays DEF AnswerInv
<1>2. CASE \E h \in Hooks : HookStarts(h) \/ HookStep(h) \/ HookKilled(h)
  <2>1. PICK h \in Hooks : HookStarts(h) \/ HookStep(h) \/ HookKilled(h)
    BY <1>2
  <2>2. HookTypeOK'
    BY <2>1, HookMoves DEF AnswerInv
  <2>3. CASE Served' \subseteq Served
    BY <1>1, <2>2, <2>3, NobodyJoins DEF AnswerInv
  <2>4. CASE /\ HookObserves(h) /\ Observe(h, SessionOf[h])
             /\ hook' = [hook EXCEPT ![h] = "asking"]
    BY <1>1, <2>2, <2>4, ObserverJoins DEF AnswerInv
  <2> QED
    BY <2>1, <2>3, <2>4, HookMoves DEF AnswerInv
<1>3. CASE ~\E h \in Hooks : HookStarts(h) \/ HookStep(h) \/ HookKilled(h)
  <2>1. UNCHANGED hook
    BY <1>3, OthersKeepHooks
  <2>2. HookTypeOK' /\ Served' = Served
    BY <2>1 DEF AnswerInv, HookTypeOK, Served
  <2> QED
    BY <1>1, <2>2, NobodyJoins DEF AnswerInv
<1> QED
  BY <1>2, <1>3

(* A hook prints its answer after both checks.                             *)
LEMMA OnlyCheckedAnswer ==
  ASSUME HookTypeOK, [Next]_vars, NEW h \in Answered' \ Answered, h \in Hooks
  PROVE  hook[h] = "asking" /\ Required(SessionOf[h]) /\ \A g \in Hooks \ {h} : hook'[g] = hook[g]
<1>1. hook[h] # "answered" /\ hook'[h] = "answered"
  BY DEF Answered
<1>2. PICK g \in Hooks : HookStarts(g) \/ HookStep(g) \/ HookKilled(g)
  BY <1>1, OthersKeepHooks
<1>3. ASSUME NEW stage \in HookStages \ {"answered"}, hook' = [hook EXCEPT ![g] = stage]
      PROVE  FALSE
  BY <1>1, <1>3 DEF HookTypeOK
<1>4. ~HookStarts(g)
  <2>1. HookStarts(g) => \E stage \in {"nothing", "shutdown", "enter"} : hook' = [hook EXCEPT ![g] = stage]
    BY DEF HookStarts, HookGoes
  <2> QED
    BY <2>1, <1>3 DEF HookStages, HookEnds
<1>5. ~(HookEnters(g) \/ HookShutsDown(g) \/ HookCloses(g) \/ HookKilled(g))
  <2>1. HookEnters(g) \/ HookShutsDown(g) \/ HookCloses(g) \/ HookKilled(g) =>
          \E stage \in {"inside", "enter", "ended", "died"} : hook' = [hook EXCEPT ![g] = stage]
    BY DEF HookEnters, HookShutsDown, HookCloses, HookKilled, HookGoes
  <2> QED
    BY <2>1, <1>3 DEF HookStages, HookEnds
<1>6. ~(HookRegisters(g) \/ HookObserves(g))
  <2>1. HookRegisters(g) \/ HookObserves(g) =>
          \E stage \in {"registered", "asking", "nothing"} : hook' = [hook EXCEPT ![g] = stage]
    BY DEF HookRegisters, HookObserves, HookGoes
  <2> QED
    BY <2>1, <1>3 DEF HookStages, HookEnds
<1>7. HookAnswers(g)
  BY <1>2, <1>4, <1>5, <1>6 DEF HookStep
<1>8. hook' = [hook EXCEPT ![g] = "answered"] /\ Required(SessionOf[g]) /\ hook[g] = "asking"
  <2>1. HookGoes(g, "nothing") => FALSE
    BY <1>3 DEF HookGoes, HookStages, HookEnds
  <2> QED
    BY <1>7, <2>1 DEF HookAnswers, HookGoes, HookAt
<1>9. g = h
  BY <1>1, <1>8 DEF HookTypeOK
<1> QED
  BY <1>8, <1>9 DEF HookTypeOK

(* An answer leaves its hook only while its session is open, and after its *)
(* request was counted, in a launch of any size under any faults           *)
(* (host_hook.py:85-92).                                                   *)
THEOREM LaunchAnswersInSession == Spec => AnswersStayInSession
<1>1. Init => AnswerInv
  <2>1. Init => LaunchInv
    BY LaunchStarts
  <2>2. Init => HookTypeOK /\ Served = {}
    BY DEF Init, HookTypeOK, HookStages, Served
  <2> QED
    BY <2>1, <2>2 DEF AnswerInv, CountInv
<1>2. AnswerInv /\ [Next]_vars => AnswerInv'
  BY AnswersStay
<1>3. AnswerInv /\ [Next]_vars =>
        [\A h \in Answered' \ Answered :
           OpenFor(native, SessionOf[h]) /\ Cardinality(Answered') <= native.requests]_vars
  <2> SUFFICES ASSUME AnswerInv, [Next]_vars, NEW h \in Answered' \ Answered
               PROVE  OpenFor(native, SessionOf[h]) /\ Cardinality(Answered') <= native.requests
    OBVIOUS
  <2>1. h \in Hooks /\ hook[h] = "asking" /\ Required(SessionOf[h])
        /\ \A g \in Hooks \ {h} : hook'[g] = hook[g]
    BY OnlyCheckedAnswer DEF AnswerInv, Answered
  <2>2. Answered' \in SUBSET Served /\ Served # {}
    BY <2>1 DEF Answered, Served
  <2>3. Cardinality(Answered') <= Cardinality(Served)
    BY <2>2, ServedIsFinite, FS_Subset
  <2>4. Cardinality(Answered') \in Nat /\ Cardinality(Served) \in Nat
    BY <2>2, ServedIsFinite, FS_Subset, FS_CardinalityType
  <2>5. native # None /\ Cardinality(Served) <= native.requests
    BY <2>2 DEF AnswerInv, CountInv
  <2>6. native.requests \in Nat
    BY <2>5 DEF AnswerInv, LaunchInv, SessionInv, SessionTypeOK, Records
  <2>7. Cardinality(Answered') <= native.requests
    BY <2>3, <2>4, <2>5, <2>6
  <2> QED
    BY <2>1, <2>7 DEF Required
<1> QED
  BY <1>1, <1>2, <1>3, PTL DEF Spec, AnswersStayInSession

-----------------------------------------------------------------------------
(* Whose turn it is.                                                       *)

(* What the watcher, the outer launcher and the hooks leave alone.         *)
OwnersRest == UNCHANGED <<owner, saw, host, started, timedOut>>
LockRests == UNCHANGED ownerLock /\ (watcher' = "probe" <=> watcher = "probe")

(* What review may do, but for its start.                                  *)
ReviewWinds ==
  \/ review' = review
  \/ review = "up" /\ review' \in {"closing", "stale"}
  \/ review = "closing" /\ review' \in {"closed", "stale"}

WatcherGoesOn == watcher \notin {"idle", "loaded"} => watcher' \notin {"idle", "loaded"}

LEMMA WatcherSteps ==
  ASSUME WatchStep \/ CloseServer \/ TimePasses \/ WatcherQuits
  PROVE  /\ OwnersRest /\ WatcherGoesOn
         /\ \/ LockRests
            \/ ownerLock = None /\ ownerLock' = Watcher /\ watcher' = "probe"
            \/ watcher = "probe" /\ ownerLock' = None /\ watcher' # "probe"
         /\ ReviewWinds \/ (watcher = "loaded" /\ review' = "up" /\ watcher' = "loop")
<1> USE DEF WatchKeeps, ownerVars, fileVars, OwnersRest, LockRests, ReviewWinds, WatcherGoesOn,
        ShutDownReview, RemoveEnvironment
<1>1. CASE LoadWatch \/ StartWatch \/ TickProbe \/ TickRelease \/ TickDecide
  BY <1>1 DEF LoadWatch, StartWatch, TickProbe, TickRelease, TickDecide
<1>2. CASE TickClose \/ TickUnlink \/ TickEnter \/ TickCloses \/ LoopEnds \/ LeaveWatch
  BY <1>2 DEF TickClose, TickUnlink, TickEnter, TickCloses, LoopEnds, LeaveWatch
<1>3. CASE CloseServer \/ TimePasses \/ WatcherQuits
  BY <1>3 DEF CloseServer, TimePasses, WatcherQuits
<1> QED
  BY <1>1, <1>2, <1>3 DEF WatchStep

LEMMA HookSteps ==
  ASSUME NEW h \in Hooks, HookStarts(h) \/ HookStep(h) \/ HookKilled(h)
  PROVE  OwnersRest /\ LockRests /\ ReviewWinds /\ UNCHANGED watcher
BY DEF HookStep, HookStarts, HookEnters, HookRegisters, HookObserves, HookAnswers, HookShutsDown,
       HookCloses, HookKilled, HookKeeps, ownerVars, fileVars, OwnersRest, LockRests, ReviewWinds,
       ShutDownReview

LEMMA StarterSteps ==
  ASSUME StarterStep
  PROVE  OwnersRest /\ LockRests /\ UNCHANGED <<review, watcher>>
BY DEF StarterStep, OpenPanes, StarterUnlinks, StarterEnters, StarterCloses, PollExit,
       RemoveEnvironment, ownerVars, fileVars, watchVars, OwnersRest, LockRests

(* Some owners die, or the watcher, or both: their locks are free.  An     *)
(* owner c (or None) may be the one that closes their window.              *)
Kills(P, c) ==
  /\ owner' = [o \in Owners |-> IF o = c THEN "unlock"
                                ELSE IF o \in P THEN Died(owner[o]) ELSE owner[o]]
  /\ c \in Owners => owner[c] = "window" /\ c \notin P
  /\ ownerLock' = (IF ownerLock \in P THEN None ELSE ownerLock)
  /\ \/ Watcher \in P /\ watcher' \in {"done", "died"} /\ review' = Stale(review)
     \/ Watcher \notin P /\ UNCHANGED <<watcher, review>>
  /\ UNCHANGED <<saw, host, started, timedOut>>

(* A dead owner owns nothing and stays dead.                               *)
LEMMA DeadOwner ==
  ASSUME NEW stage \in OwnerStages
  PROVE  /\ Died(stage) \in OwnerEnds /\ Died(stage) \in OwnerStages
         /\ stage \in OwnerEnds => Died(stage) = stage
         /\ stage \notin OwnerEnds => Died(stage) \in Crashed
<1>1. stage \in OwnerEnds => stage \notin Finalizing
  BY DEF OwnerEnds, Finalizing, Crashed
<1>2. CASE stage \in OwnerEnds
  BY <1>1, <1>2 DEF Died
<1>3. CASE stage \in Finalizing
  BY <1>1, <1>3 DEF Died, OwnerEnds, OwnerStages, Crashed
<1>4. CASE stage \notin OwnerEnds /\ stage \notin Finalizing
  BY <1>4 DEF Died, OwnerEnds, OwnerStages, Crashed
<1> QED
  BY <1>2, <1>3, <1>4

LEMMA DeathSteps ==
  ASSUME TypeOK, PanesFail \/ StarterGivesUp \/ WatcherKilled \/ \E o \in Owners : OwnerKilled(o)
  PROVE  \E P : Kills(P, None)
<1>a. /\ owner \in [Owners -> OwnerStages] /\ Agent \in Owners /\ Watcher \notin Owners
      /\ None \notin Owners /\ None # Watcher
  BY LaunchAssumption, Members DEF TypeOK
<1>1. ASSUME UNCHANGED <<owner, watchVars, ownerLock, saw, host, started, timedOut>>
      PROVE  Kills({}, None)
  BY <1>1, <1>a DEF watchVars, Kills
<1>2. ASSUME KillWindow, UNCHANGED <<saw, host, started, timedOut>>
      PROVE  \E P : Kills(P, None)
  <2>1. CASE UNCHANGED <<owner, watchVars, ownerLock>>
    <3>1. Kills({}, None)
      BY <1>1, <1>2, <2>1
    <3> QED
      BY <3>1
  <2>2. CASE /\ owner' = [owner EXCEPT ![Agent] = Died(@)]
             /\ WatcherDies /\ Unlocked({Agent, Watcher})
    <3>1. owner' = [o \in Owners |-> IF o = None THEN "unlock"
                                     ELSE IF o \in {Agent, Watcher} THEN Died(owner[o]) ELSE owner[o]]
      BY <1>a, <2>2
    <3>2. Kills({Agent, Watcher}, None)
      BY <1>a, <1>2, <2>2, <3>1 DEF WatcherDies, Unlocked, Kills
    <3> QED
      BY <3>2
  <2> QED
    BY <1>2, <2>1, <2>2 DEF KillWindow
<1>3. CASE PanesFail \/ StarterGivesUp
  <2>1. KillWindow \/ UNCHANGED <<owner, watchVars, ownerLock>>
    BY <1>3 DEF PanesFail, StarterGivesUp
  <2>2. UNCHANGED <<saw, host, started, timedOut>>
    BY <1>3 DEF PanesFail, StarterGivesUp
  <2>3. CASE UNCHANGED <<owner, watchVars, ownerLock>>
    <3>1. Kills({}, None)
      BY <1>1, <2>2, <2>3
    <3> QED
      BY <3>1
  <2> QED
    BY <1>2, <2>1, <2>2, <2>3
<1>4. CASE WatcherKilled
  <2>1. Kills({Watcher}, None)
    BY <1>4, <1>a DEF WatcherKilled, WatcherDies, Unlocked, ownerVars, Kills
  <2> QED
    BY <2>1
<1>5. ASSUME NEW o \in Owners, OwnerKilled(o)
      PROVE  \E P : Kills(P, None)
  <2>1. Kills({o}, None)
    BY <1>5, <1>a DEF OwnerKilled, OwnerGoes, Unlocked, watchVars, Kills
  <2> QED
    BY <2>1
<1> QED
  BY <1>3, <1>4, <1>5

LockTypeOK ==
  /\ owner \in [Owners -> OwnerStages]
  /\ host \in [Owners -> {"none", "running", "exited"}]
  /\ ownerLock \in Owners \cup {None, Watcher}
  /\ \A o \in Owners : owner[o] \in Owning <=> ownerLock = o
  /\ ownerLock = Watcher <=> watcher = "probe"
  /\ \A o \in Owners : owner[o] \in Owning \ {"locked"} => started
  /\ review \in {"none", "up", "closing", "closed", "stale"}

ReviewInv ==
  /\ LockTypeOK /\ ReviewFollowsWatcher /\ HostNeedsReview /\ ShutdownIsHeard /\ HostsInTurn
  /\ OneHost /\ WaitedForReview

(* Deaths leave nothing owned and no host or review behind.                *)
LEMMA KillsKeepTurns ==
  ASSUME ReviewInv, NEW P, NEW c, Kills(P, c)
  PROVE  ReviewInv'
<1> USE DEF ReviewInv
<1>1. \A o \in Owners : owner[o] \in OwnerStages
  BY DEF LockTypeOK
<1>2. \A o \in Owners :
        owner'[o] \notin OwnerEnds =>
          /\ o \notin P
          /\ owner'[o] = owner[o] \/ (o = c /\ owner[o] = "window" /\ owner'[o] = "unlock")
  BY <1>1, DeadOwner DEF Kills
<1>3. LockTypeOK'
  <2>1. owner' \in [Owners -> OwnerStages] /\ host' = host /\ started' = started
    BY <1>1, DeadOwner DEF Kills, OwnerStages, Owning, Finalizing
  <2>2. \A o \in Owners : o \in P => owner'[o] \notin Owning
    BY <1>1, DeadOwner DEF Kills, OwnerEnds, Owning, Finalizing, Crashed
  <2>3. \A o \in Owners : o \notin P => (owner'[o] \in Owning <=> owner[o] \in Owning)
    BY DEF Kills, Owning, Finalizing
  <2>4. ownerLock' = IF ownerLock \in P THEN None ELSE ownerLock
    BY DEF Kills
  <2>5. \A o \in Owners : owner'[o] \in Owning <=> ownerLock' = o
    BY <2>2, <2>3, <2>4, LaunchAssumption, Members DEF LockTypeOK
  <2>6. ownerLock' = Watcher <=> watcher' = "probe"
    BY LaunchAssumption, Members DEF LockTypeOK, Kills
  <2>7. \A o \in Owners : owner'[o] \in Owning \ {"locked"} => started'
    BY <2>1, <2>2, <2>3 DEF LockTypeOK, Kills, Owning, Finalizing
  <2>8. review' \in {"none", "up", "closing", "closed", "stale"}
    BY DEF LockTypeOK, Kills, Stale
  <2> QED
    BY <2>1, <2>4, <2>5, <2>6, <2>7, <2>8, Zenon DEF LockTypeOK
<1>4. ReviewFollowsWatcher'
  BY DEF ReviewFollowsWatcher, Kills, Stale
<1>5. HostNeedsReview'
  BY <1>1, <1>2, DeadOwner
     DEF HostNeedsReview, Kills, Stale, OwnerEnds, HostStages, Finalizing, Crashed
<1>6. review' = review \/ review' = Stale(review)
  BY DEF Kills
<1>7. host' = host /\ timedOut' = timedOut
  BY DEF Kills
<1>8. ASSUME \A o \in Owners : owner'[o] \notin Crashed
      PROVE  \A o \in Owners :
               /\ owner[o] \notin Crashed
               /\ owner'[o] = owner[o] \/ (owner[o] = "window" /\ owner'[o] = "unlock")
  BY <1>8, <1>1, DeadOwner DEF Kills, LockTypeOK, Crashed
<1>9. HostsInTurn' /\ OneHost'
  BY <1>7, <1>8 DEF HostsInTurn, OneHost
<1>10. ShutdownIsHeard' /\ WaitedForReview'
  BY <1>2, <1>6, <1>7, DeadOwner, <1>1
     DEF ShutdownIsHeard, WaitedForReview, ReviewOver, Stale, AfterShutdown, OwnerEnds, Finalizing, Crashed, Kills
<1> QED
  BY <1>3, <1>4, <1>5, <1>9, <1>10

(* Steps of the others move no owner, and bring no review back.            *)
LEMMA OthersKeepTurns ==
  ASSUME ReviewInv, OwnersRest, WatcherGoesOn,
         \/ LockRests
         \/ ownerLock = None /\ ownerLock' = Watcher /\ watcher' = "probe"
         \/ watcher = "probe" /\ ownerLock' = None /\ watcher' # "probe",
         ReviewWinds \/ (watcher = "loaded" /\ review' = "up" /\ watcher' = "loop")
  PROVE  ReviewInv'
<1> USE DEF ReviewInv, OwnersRest
<1>1. ReviewWinds \/ (review = "none" /\ review' = "up" /\ watcher' = "loop")
  BY DEF ReviewFollowsWatcher
<1>2. LockTypeOK'
  BY <1>1, LaunchAssumption, Members DEF LockTypeOK, LockRests, ReviewWinds
<1>3. ReviewFollowsWatcher'
  BY <1>1 DEF ReviewFollowsWatcher, ReviewWinds, WatcherGoesOn
<1>4. HostNeedsReview' /\ ShutdownIsHeard' /\ HostsInTurn' /\ OneHost' /\ WaitedForReview'
  BY <1>1
     DEF HostNeedsReview, ShutdownIsHeard, HostsInTurn, OneHost, WaitedForReview, ReviewWinds,
         ReviewOver
<1> QED
  BY <1>2, <1>3, <1>4

(* The steps of one owner, but for the end of its window.                  *)
OwnerWalks(o) ==
  \/ LoadLaunch(o) \/ CheckStarted(o) \/ OpenLockFile(o) \/ TryOwnerLock(o) \/ MarkStarted(o)
  \/ WaitReview(o) \/ WaitPanes(o) \/ HandOver(o) \/ StartHost(o) \/ WaitHost(o)
  \/ Shutdown(o) \/ Drain(o) \/ ReadStatus(o) \/ EnterClose(o) \/ OwnerCloses(o)
  \/ WriteExit(o) \/ CleanUp(o) \/ Unlock(o) \/ HostExits(o) \/ Interrupt(o)

LEMMA WalksKeepTypes ==
  ASSUME LockTypeOK, NEW o \in Owners, OwnerWalks(o)
  PROVE  LockTypeOK'
<1> USE LaunchAssumption, Members
    DEF LockTypeOK, OwnerGoes, OwnerAt, OwnerStages, Owning, Finalizing, Crashed, OwnerEnds
<1>1. CASE LoadLaunch(o) \/ CheckStarted(o) \/ OpenLockFile(o)
  BY <1>1 DEF LoadLaunch, CheckStarted, OpenLockFile, fileVars, watchVars
<1>2. CASE TryOwnerLock(o) \/ MarkStarted(o)
  BY <1>2 DEF TryOwnerLock, MarkStarted, fileVars, watchVars
<1>3. CASE WaitReview(o) \/ WaitPanes(o) \/ HandOver(o) \/ StartHost(o) \/ WaitHost(o)
  BY <1>3 DEF WaitReview, WaitPanes, HandOver, StartHost, WaitHost, RemoveEnvironment, fileVars,
     watchVars
<1>4. CASE Shutdown(o) \/ Drain(o) \/ ReadStatus(o) \/ EnterClose(o) \/ OwnerCloses(o)
  BY <1>4 DEF Shutdown, Drain, ReadStatus, EnterClose, OwnerCloses, ShutDownReview, fileVars,
     watchVars
<1>5. CASE WriteExit(o) \/ CleanUp(o)
  BY <1>5 DEF WriteExit, CleanUp, RemoveEnvironment, fileVars, watchVars
<1>6. CASE Unlock(o)
  BY <1>6 DEF Unlock, fileVars, watchVars
<1>7. CASE HostExits(o) \/ Interrupt(o)
  BY <1>7 DEF HostExits, Interrupt, fileVars, watchVars
<1> QED
  BY <1>1, <1>2, <1>3, <1>4, <1>5, <1>6, <1>7 DEF OwnerWalks

(* Walking on, no owner gets past review while another one's host was      *)
(* started: that owner's shutdown came before it left the lock.            *)
LEMMA WalksKeepTurns ==
  ASSUME ReviewInv, NEW o \in Owners, OwnerWalks(o)
  PROVE  ReviewInv'
<1>a. LockTypeOK /\ LockTypeOK'
  BY WalksKeepTypes DEF ReviewInv
<1> USE DEF ReviewInv, OwnerGoes, OwnerAt
<1>1. ReviewFollowsWatcher'
  BY DEF OwnerWalks, LoadLaunch, CheckStarted, OpenLockFile, TryOwnerLock, MarkStarted, WaitReview,
     WaitPanes, HandOver, StartHost, WaitHost, Shutdown, Drain, ReadStatus, EnterClose, OwnerCloses,
     WriteExit, CleanUp, Unlock, HostExits, Interrupt, ShutDownReview, watchVars,
     ReviewFollowsWatcher
<1>2. HostNeedsReview'
  <2> USE DEF LockTypeOK, HostNeedsReview, HostStages, Finalizing, Crashed
  <2>1. CASE LoadLaunch(o) \/ CheckStarted(o) \/ OpenLockFile(o) \/ TryOwnerLock(o) \/ MarkStarted(o)
    BY <1>a, <2>1 DEF LoadLaunch, CheckStarted, OpenLockFile, TryOwnerLock, MarkStarted, watchVars
  <2>2. CASE WaitReview(o) \/ WaitPanes(o) \/ HandOver(o) \/ StartHost(o) \/ WaitHost(o)
             \/ HostExits(o) \/ Interrupt(o)
    BY <1>a, <2>2
       DEF WaitReview, WaitPanes, HandOver, StartHost, WaitHost, HostExits, Interrupt, watchVars
  <2>3. CASE \/ Shutdown(o) \/ Drain(o) \/ ReadStatus(o) \/ EnterClose(o) \/ OwnerCloses(o)
             \/ WriteExit(o) \/ CleanUp(o) \/ Unlock(o)
    BY <1>a, <2>3
       DEF Shutdown, Drain, ReadStatus, EnterClose, OwnerCloses, WriteExit, CleanUp, Unlock,
           ShutDownReview, watchVars
  <2> QED
    BY <2>1, <2>2, <2>3 DEF OwnerWalks
<1>3. ShutdownIsHeard'
  <2> USE DEF LockTypeOK, HostNeedsReview, ShutdownIsHeard, AfterShutdown, ReviewOver, HostStages,
          Finalizing, Crashed
  <2>1. CASE LoadLaunch(o) \/ CheckStarted(o) \/ OpenLockFile(o) \/ TryOwnerLock(o) \/ MarkStarted(o)
    BY <1>a, <2>1 DEF LoadLaunch, CheckStarted, OpenLockFile, TryOwnerLock, MarkStarted, watchVars
  <2>2. CASE WaitReview(o) \/ WaitPanes(o) \/ HandOver(o) \/ StartHost(o) \/ WaitHost(o)
             \/ HostExits(o) \/ Interrupt(o)
    BY <1>a, <2>2
       DEF WaitReview, WaitPanes, HandOver, StartHost, WaitHost, HostExits, Interrupt, watchVars
  <2>3. CASE \/ Shutdown(o) \/ Drain(o) \/ ReadStatus(o) \/ EnterClose(o) \/ OwnerCloses(o)
             \/ WriteExit(o) \/ CleanUp(o) \/ Unlock(o)
    BY <1>a, <2>3
       DEF Shutdown, Drain, ReadStatus, EnterClose, OwnerCloses, WriteExit, CleanUp, Unlock,
           ShutDownReview, watchVars
  <2> QED
    BY <2>1, <2>2, <2>3 DEF OwnerWalks
<1>4. (\A p \in Owners : owner'[p] \notin Crashed) => (\A p \in Owners : owner[p] \notin Crashed)
  BY <1>a
     DEF OwnerWalks, LoadLaunch, CheckStarted, OpenLockFile, TryOwnerLock, MarkStarted, WaitReview,
     WaitPanes, HandOver, StartHost, WaitHost, Shutdown, Drain, ReadStatus, EnterClose, OwnerCloses,
     WriteExit, CleanUp, Unlock, HostExits, Interrupt, LockTypeOK, Crashed
<1>5. HostsInTurn' /\ OneHost'
  <2> SUFFICES ASSUME ~MayFail, \A p \in Owners : owner'[p] \notin Crashed
               PROVE  /\ \A p, q \in Owners : owner'[p] \in {"panes", "unlink", "spawn"} => host'[q] = "none"
                      /\ \A p, q \in Owners : host'[p] # "none" /\ host'[q] # "none" => p = q
    BY DEF HostsInTurn, OneHost
  <2>0. /\ \A p \in Owners : owner[p] \notin Crashed
        /\ \A p, q \in Owners : owner[p] \in {"panes", "unlink", "spawn"} => host[q] = "none"
        /\ \A p, q \in Owners : host[p] # "none" /\ host[q] # "none" => p = q
    BY <1>4 DEF HostsInTurn, OneHost
  <2> USE DEF LockTypeOK
  <2>1. CASE LoadLaunch(o) \/ CheckStarted(o) \/ OpenLockFile(o) \/ TryOwnerLock(o) \/ MarkStarted(o)
    BY <1>a, <2>0, <2>1 DEF LoadLaunch, CheckStarted, OpenLockFile, TryOwnerLock, MarkStarted
  <2>2. CASE WaitReview(o)
    <3>1. review = "up" => \A q \in Owners : host[q] = "none"
      <4> SUFFICES ASSUME review = "up", NEW q \in Owners, host[q] # "none"
                   PROVE  FALSE
        OBVIOUS
      <4>1. owner[q] \in HostStages /\ owner[q] \notin Crashed
        BY <2>0 DEF HostNeedsReview
      <4>2. owner[q] \notin AfterShutdown
        BY DEF ShutdownIsHeard, ReviewOver
      <4>3. owner[q] \in {"wait", "shutdown"}
        BY <4>1, <4>2 DEF HostStages, AfterShutdown
      <4> QED
        BY <2>2, <4>3 DEF WaitReview, Owning, Finalizing
    <3> QED
      BY <1>a, <2>0, <2>2, <3>1 DEF WaitReview
  <2>3. CASE WaitPanes(o) \/ HandOver(o) \/ StartHost(o) \/ WaitHost(o)
    BY <1>a, <2>0, <2>3 DEF WaitPanes, HandOver, StartHost, WaitHost, Owning, Finalizing
  <2>4. CASE HostExits(o) \/ Interrupt(o)
    BY <1>a, <2>0, <2>4 DEF HostExits, Interrupt
  <2>5. CASE \/ Shutdown(o) \/ Drain(o) \/ ReadStatus(o) \/ EnterClose(o) \/ OwnerCloses(o)
             \/ WriteExit(o) \/ CleanUp(o) \/ Unlock(o)
    BY <1>a, <2>0, <2>5
       DEF Shutdown, Drain, ReadStatus, EnterClose, OwnerCloses, WriteExit, CleanUp, Unlock
  <2> QED
    BY <2>1, <2>2, <2>3, <2>4, <2>5 DEF OwnerWalks
<1>6. WaitedForReview'
  <2> USE DEF LockTypeOK, HostNeedsReview, WaitedForReview, HostStages, Finalizing, Crashed
  <2>1. CASE LoadLaunch(o) \/ CheckStarted(o) \/ OpenLockFile(o) \/ TryOwnerLock(o) \/ MarkStarted(o)
    BY <1>a, <2>1 DEF LoadLaunch, CheckStarted, OpenLockFile, TryOwnerLock, MarkStarted, watchVars
  <2>2. CASE WaitReview(o) \/ WaitPanes(o) \/ HandOver(o) \/ StartHost(o) \/ WaitHost(o)
             \/ HostExits(o) \/ Interrupt(o)
    BY <1>a, <2>2
       DEF WaitReview, WaitPanes, HandOver, StartHost, WaitHost, HostExits, Interrupt, watchVars
  <2>3. CASE \/ Shutdown(o) \/ Drain(o) \/ ReadStatus(o) \/ EnterClose(o) \/ OwnerCloses(o)
             \/ WriteExit(o) \/ CleanUp(o) \/ Unlock(o)
    BY <1>a, <2>3
       DEF Shutdown, Drain, ReadStatus, EnterClose, OwnerCloses, WriteExit, CleanUp, Unlock,
           ShutDownReview, ReviewGone, watchVars
  <2> QED
    BY <2>1, <2>2, <2>3 DEF OwnerWalks
<1> QED
  BY <1>a, <1>1, <1>2, <1>3, <1>5, <1>6

LEMMA WindowKills ==
  ASSUME LockTypeOK, NEW o \in Owners, CloseWindow(o)
  PROVE  \E P : Kills(P, o)
<1>a. /\ owner \in [Owners -> OwnerStages] /\ Agent \in Owners /\ Watcher \notin Owners
      /\ None \notin Owners /\ None # Watcher /\ owner[o] = "window" /\ ownerLock = o
  BY LaunchAssumption, Members DEF LockTypeOK, CloseWindow, OwnerAt, Owning, Finalizing
<1>b. UNCHANGED <<saw, host, started, timedOut>>
  BY DEF CloseWindow
<1>1. CASE panes /\ o # Agent
  <2>1. /\ owner' = [owner EXCEPT ![o] = "unlock", ![Agent] = Died(@)]
        /\ WatcherDies /\ Unlocked({Agent, Watcher})
    BY <1>1 DEF CloseWindow
  <2>2. owner' = [p \in Owners |-> IF p = o THEN "unlock"
                                   ELSE IF p \in {Agent, Watcher} THEN Died(owner[p]) ELSE owner[p]]
    BY <1>a, <1>1, <2>1
  <2>3. Kills({Agent, Watcher}, o)
    BY <1>a, <1>b, <1>1, <2>1, <2>2 DEF WatcherDies, Unlocked, Kills
  <2> QED
    BY <2>3
<1>2. CASE panes /\ o = Agent
  <2>1. Kills({Watcher}, o)
    BY <1>a, <1>b, <1>2 DEF CloseWindow, OwnerGoes, WatcherDies, Unlocked, Kills
  <2> QED
    BY <2>1
<1>3. CASE ~panes
  <2>1. Kills({}, o)
    BY <1>a, <1>b, <1>3 DEF CloseWindow, OwnerGoes, watchVars, Kills
  <2> QED
    BY <2>1
<1> QED
  BY <1>1, <1>2, <1>3

(* Owners take turns, review winds down once, and nobody cuts it short.    *)
LEMMA ReviewStays ==
  ASSUME ReviewInv, SessionTypeOK, SawTypeOK, HookTypeOK, [Next]_vars
  PROVE  ReviewInv'
<1>1. TypeOK
  BY DEF TypeOK, ReviewInv, LockTypeOK, SawTypeOK, HookTypeOK
<1>2. ASSUME NEW o \in Owners, OwnerStep(o) \/ HostExits(o) \/ Interrupt(o)
      PROVE  ReviewInv'
  <2>1. CloseWindow(o) \/ OwnerWalks(o)
    BY <1>2 DEF OwnerStep, OwnerWalks
  <2> QED
    BY <2>1, WindowKills, KillsKeepTurns, WalksKeepTurns DEF ReviewInv
<1>3. CASE PanesFail \/ StarterGivesUp \/ WatcherKilled \/ \E o \in Owners : OwnerKilled(o)
  BY <1>1, <1>3, DeathSteps, KillsKeepTurns
<1>4. CASE WatchStep \/ CloseServer \/ TimePasses \/ WatcherQuits
  BY <1>4, WatcherSteps, OthersKeepTurns
<1>5. ASSUME NEW h \in Hooks, HookStarts(h) \/ HookStep(h) \/ HookKilled(h)
      PROVE  ReviewInv'
  BY <1>5, HookSteps, OthersKeepTurns DEF WatcherGoesOn
<1>6. CASE StarterStep
  BY <1>6, StarterSteps, OthersKeepTurns DEF WatcherGoesOn, ReviewWinds
<1>7. CASE UNCHANGED vars
  BY <1>7, OthersKeepTurns
     DEF vars, ownerVars, fileVars, watchVars, OwnersRest, LockRests, ReviewWinds, WatcherGoesOn
<1> QED
  BY <1>2, <1>3, <1>4, <1>5, <1>6, <1>7 DEF Next, Over

-----------------------------------------------------------------------------
(* The end of a run.                                                       *)

(* What a step does to the record (HostSession) and to what owners saw.    *)
LEMMA RecordStays ==
  ASSUME LaunchInv, [Next]_vars, native # None
  PROVE  /\ native' # None /\ native'.session = native.session
         /\ Closed => Closed'
<1>1. CASE UNCHANGED native
  BY <1>1 DEF Closed
<1>2. CASE SessionNext
  BY <1>2, StepGrows DEF LaunchInv, Closed
<1> QED
  BY <1>1, <1>2, LaunchStays DEF sessionVars

LEMMA SawMoves ==
  ASSUME [Next]_vars
  PROVE  saw' = saw \/ \E o \in Owners : ReadStatus(o)
<1>1. ASSUME NEW o \in Owners, OwnerStep(o) \/ HostExits(o) \/ Interrupt(o) \/ OwnerKilled(o)
      PROVE  saw' = saw \/ ReadStatus(o)
  BY <1>1 DEF OwnerStep, LoadLaunch, CheckStarted, OpenLockFile, TryOwnerLock, MarkStarted,
     WaitReview, WaitPanes, HandOver, StartHost, WaitHost, Shutdown, Drain, EnterClose, OwnerCloses,
     WriteExit, CleanUp, CloseWindow, Unlock, HostExits, Interrupt, OwnerKilled
<1>2. CASE PanesFail \/ StarterGivesUp \/ WatcherKilled
  BY <1>2 DEF PanesFail, StarterGivesUp, WatcherKilled, ownerVars
<1>3. CASE WatchStep \/ CloseServer \/ TimePasses \/ WatcherQuits \/ StarterStep
           \/ \E h \in Hooks : HookStarts(h) \/ HookStep(h) \/ HookKilled(h)
  BY <1>3, WatcherSteps, HookSteps, StarterSteps DEF OwnersRest
<1>4. CASE Over \/ UNCHANGED vars
  BY <1>4 DEF Over, vars, ownerVars
<1> QED
  BY <1>1, <1>2, <1>3, <1>4 DEF Next

LEMMA SawIsKept ==
  ASSUME LaunchInv, ClosesWhatItSaw, [Next]_vars
  PROVE  ClosesWhatItSaw'
<1>1. CASE saw' = saw
  BY <1>1, RecordStays DEF ClosesWhatItSaw
<1>2. ASSUME NEW o \in Owners, ReadStatus(o)
      PROVE  ClosesWhatItSaw'
  <2>1. UNCHANGED native
    BY <1>2 DEF ReadStatus, sessionVars
  <2>2. saw \in [Owners -> Sessions \cup {None}]
    BY DEF LaunchInv, SawTypeOK
  <2>3. saw' = saw \/ saw' = [saw EXCEPT ![o] = IF native = None THEN None ELSE native.session]
    BY <1>2 DEF ReadStatus
  <2> QED
    BY <2>1, <2>2, <2>3 DEF ClosesWhatItSaw
<1> QED
  BY <1>1, <1>2, SawMoves

(* A closure that the owner infers closes the record, unless it was closed.*)
LEMMA ClosureCloses ==
  ASSUME LaunchInv, ClosesWhatItSaw, ~MayFail, NEW o \in Owners, OwnerCloses(o)
  PROVE  Closed'
<1>1. CloseInferred(o, saw[o])
  BY DEF OwnerCloses
<1>2. o \in inside /\ copy[o] = native
  BY <1>1, ReadsCurrent DEF CloseInferred, Close, Replace, LeaveAlone, LaunchInv, SessionInv
<1>3. MayEnd(native, saw[o], TRUE)
  BY DEF MayEnd, ClosesWhatItSaw
<1>4. CASE Close(o, saw[o], TRUE)
  <2>1. native' = Ended(IF native = None THEN Unregistered ELSE native, TRUE)
    BY <1>2, <1>4 DEF Close, Replace
  <2>2. native'.status = "closed"
    BY <2>1 DEF Ended
  <2>3. native' \in Records
    BY <2>1, EndedFields DEF LaunchInv, SessionInv, SessionTypeOK, Records, Unregistered
  <2> QED
    BY <2>2, <2>3, NoRecord DEF Closed
<1>5. CASE LeaveAlone(o) /\ ~MayClose(o, saw[o], TRUE)
  <2>1. native # None /\ native.inferredEnd
    BY <1>2, <1>3, <1>5 DEF MayClose, HasEvidence
  <2> QED
    BY <1>5, <2>1 DEF LeaveAlone, LaunchInv, SessionInv, RecordIsReadable, Closed
<1> QED
  BY <1>1, <1>4, <1>5 DEF CloseInferred

ClosedStages == {"exit", "cleanup", "window", "unlock", "done"}

(* An owner enters these stages only past a closed record.                 *)
LEMMA OwnerEndsRun ==
  ASSUME TypeOK, LockTypeOK, [Next]_vars, NEW o \in Owners, owner'[o] \in ClosedStages
  PROVE  \/ owner[o] \in ClosedStages
         \/ ReadStatus(o) /\ (MayFail \/ Closed)
         \/ OwnerCloses(o)
<1> USE DEF LockTypeOK, OwnerGoes, OwnerAt, ClosedStages
<1>1. ASSUME NEW p \in Owners, OwnerWalks(p), p # o
      PROVE  owner'[o] = owner[o]
  BY <1>1 DEF OwnerWalks, LoadLaunch, CheckStarted, OpenLockFile, TryOwnerLock, MarkStarted,
     WaitReview, WaitPanes, HandOver, StartHost, WaitHost, Shutdown, Drain, ReadStatus, EnterClose,
     OwnerCloses, WriteExit, CleanUp, Unlock, HostExits, Interrupt
<1>2. CASE OwnerWalks(o)
  BY <1>2 DEF OwnerWalks, LoadLaunch, CheckStarted, OpenLockFile, TryOwnerLock, MarkStarted,
     WaitReview, WaitPanes, HandOver, StartHost, WaitHost, Shutdown, Drain, ReadStatus, EnterClose,
     OwnerCloses, WriteExit, CleanUp, Unlock, HostExits, Interrupt
<1>3. ASSUME NEW P, NEW c, Kills(P, c)
      PROVE  owner'[o] = owner[o] \/ owner[o] = "window"
  <2>1. owner[o] \in OwnerStages
    OBVIOUS
  <2>2. /\ Died(owner[o]) \in OwnerEnds
        /\ owner[o] \in OwnerEnds => Died(owner[o]) = owner[o]
        /\ owner[o] \notin OwnerEnds => Died(owner[o]) \in Crashed
    BY <2>1, DeadOwner
  <2> QED
    BY <1>3, <2>2 DEF Kills, Crashed
<1>4. ASSUME NEW p \in Owners, OwnerStep(p) \/ HostExits(p) \/ Interrupt(p), ~OwnerWalks(p)
      PROVE  owner'[o] = owner[o] \/ owner[o] = "window"
  <2>1. CloseWindow(p)
    BY <1>4 DEF OwnerStep, OwnerWalks
  <2> QED
    BY <2>1, <1>3, WindowKills
<1>5. ASSUME PanesFail \/ StarterGivesUp \/ WatcherKilled \/ \E p \in Owners : OwnerKilled(p)
      PROVE  owner'[o] = owner[o] \/ owner[o] = "window"
  <2>1. \E P : Kills(P, None)
    BY <1>5, DeathSteps
  <2> QED
    BY <2>1, <1>3
<1>6. ASSUME \/ WatchStep \/ CloseServer \/ TimePasses \/ WatcherQuits \/ StarterStep
             \/ \E h \in Hooks : HookStarts(h) \/ HookStep(h) \/ HookKilled(h)
             \/ UNCHANGED vars
      PROVE  owner'[o] = owner[o]
  <2>1. UNCHANGED owner
    BY <1>6, WatcherSteps, HookSteps, StarterSteps DEF OwnersRest, vars, ownerVars
  <2> QED
    BY <2>1
<1>7. owner'[o] = owner[o] \/ owner[o] = "window" \/ OwnerWalks(o)
  <2>1. ASSUME NEW p \in Owners, OwnerStep(p) \/ HostExits(p) \/ Interrupt(p)
        PROVE  owner'[o] = owner[o] \/ owner[o] = "window" \/ OwnerWalks(o)
    BY <2>1, <1>1, <1>4
  <2> QED
    BY <2>1, <1>5, <1>6 DEF Next, Over
<1> QED
  BY <1>2, <1>7

LEMMA ClosedStays ==
  ASSUME TypeOK, LaunchInv, LaunchInv', ClosesWhatItSaw, ClosedBehind, [Next]_vars
  PROVE  ClosedBehind'
<1> SUFFICES ASSUME ~MayFail, NEW o \in Owners, owner'[o] \in ClosedStages
             PROVE  Closed'
  BY DEF ClosedBehind, ClosedStages
<1>1. CASE Closed
  BY <1>1, RecordStays DEF Closed
<1>2. CASE OwnerCloses(o)
  BY <1>2, ClosureCloses
<1> QED
  <2>1. LockTypeOK
    BY DEF TypeOK, LockTypeOK
  <2>2. \/ owner[o] \in ClosedStages
        \/ ReadStatus(o) /\ (MayFail \/ Closed)
        \/ OwnerCloses(o)
    BY <2>1, OwnerEndsRun
  <2> QED
    BY <1>1, <1>2, <2>2 DEF ClosedBehind, ClosedStages

-----------------------------------------------------------------------------
(* TurnsInv is inductive once the readers' view of the record (LaunchInv)  *)
(* is known.                                                               *)
LEMMA TurnsStart == Init => LaunchInv /\ TurnsInv
<1> SUFFICES ASSUME Init
             PROVE  LaunchInv /\ TurnsInv
  OBVIOUS
<1>1. LaunchInv
  BY LaunchStarts
<1>2. TypeOK
  BY <1>1, LaunchAssumption, Members
     DEF Init, LaunchInv, SessionInv, SawTypeOK, TypeOK, OwnerStages, Owning, Finalizing,
         HookStages
<1>3. ReviewFollowsWatcher /\ HostNeedsReview /\ ShutdownIsHeard /\ HostsInTurn /\ OneHost
      /\ WaitedForReview
  BY DEF Init, ReviewFollowsWatcher, HostNeedsReview, ShutdownIsHeard, HostsInTurn, OneHost,
         WaitedForReview
<1>4. ClosesWhatItSaw /\ ClosedBehind
  BY DEF Init, ClosesWhatItSaw, ClosedBehind
<1> QED
  BY <1>1, <1>2, <1>3, <1>4 DEF TurnsInv

LEMMA TurnsStay ==
  ASSUME LaunchInv, TurnsInv, [Next]_vars
  PROVE  LaunchInv' /\ TurnsInv'
<1>1. LaunchInv'
  BY LaunchStays
<1>2. ReviewInv'
  <2>1. ReviewInv /\ SessionTypeOK /\ SawTypeOK /\ HookTypeOK
    BY DEF TurnsInv, TypeOK, ReviewInv, LockTypeOK, SawTypeOK, HookTypeOK
  <2> QED
    BY <2>1, ReviewStays
<1>3. HookTypeOK'
  <2>1. HookTypeOK
    BY DEF TurnsInv, TypeOK, HookTypeOK
  <2>2. CASE UNCHANGED hook
    BY <2>1, <2>2 DEF HookTypeOK
  <2> QED
    BY <2>1, <2>2, HookMoves, OthersKeepHooks
<1>4. TypeOK'
  BY <1>1, <1>2, <1>3 DEF TypeOK, ReviewInv, LockTypeOK, LaunchInv, SessionInv, SawTypeOK, HookTypeOK
<1>5. ClosesWhatItSaw'
  BY SawIsKept DEF TurnsInv
<1>6. ClosedBehind'
  BY <1>1, ClosedStays DEF TurnsInv
<1> QED
  BY <1>1, <1>2, <1>4, <1>5, <1>6 DEF TurnsInv, ReviewInv

(* Where each owner stands in its turn, what review has heard of it, and   *)
(* which session it saw: the inductive invariant of the launch.            *)
THEOREM LaunchTakesTurns == Spec => [](LaunchInv /\ TurnsInv)
<1>1. Init => LaunchInv /\ TurnsInv
  BY TurnsStart
<1>2. LaunchInv /\ TurnsInv /\ [Next]_vars => (LaunchInv /\ TurnsInv)'
  BY TurnsStay
<1> QED
  BY <1>1, <1>2, PTL DEF Spec

(* An owner has its lock exactly while it owns the run; of owners that own *)
(* it in turn one starts a host; and no session survives the owner that    *)
(* finalized the run (owner_lock, _wait_review, _finalize).                *)
THEOREM OwnersTakeTurns == Spec => []OwnersInTurn
<1>1. TurnsInv => OwnersInTurn
  BY DEF TurnsInv, OwnersInTurn, ClosedBehind, EndedRunIsClosed
<1> QED
  BY <1>1, LaunchTakesTurns, PTL

(* Only the death of the watcher leaves its endpoint behind.               *)
LEMMA StaleByDeath ==
  ASSUME TypeOK, [Next]_vars, review' = "stale"
  PROVE  review \in {"up", "closing", "stale"}
<1>1. ASSUME NEW P, NEW c, Kills(P, c)
      PROVE  review \in {"up", "closing", "stale"}
  BY <1>1 DEF Kills, Stale
<1>2. ASSUME NEW o \in Owners, OwnerStep(o) \/ HostExits(o) \/ Interrupt(o)
      PROVE  review \in {"up", "closing", "stale"}
  <2>1. CASE CloseWindow(o)
    <3>1. LockTypeOK
      BY DEF TypeOK, LockTypeOK
    <3> QED
      BY <2>1, <3>1, <1>1, WindowKills
  <2>2. CASE OwnerWalks(o)
    BY <2>2 DEF OwnerWalks, LoadLaunch, CheckStarted, OpenLockFile, TryOwnerLock, MarkStarted,
       WaitReview, WaitPanes, HandOver, StartHost, WaitHost, Shutdown, Drain, ReadStatus,
       EnterClose, OwnerCloses, WriteExit, CleanUp, Unlock, HostExits, Interrupt, ShutDownReview,
       watchVars
  <2> QED
    BY <1>2, <2>1, <2>2 DEF OwnerStep, OwnerWalks
<1>3. CASE PanesFail \/ StarterGivesUp \/ WatcherKilled \/ \E o \in Owners : OwnerKilled(o)
  BY <1>1, <1>3, DeathSteps
<1>4. CASE \/ WatchStep \/ CloseServer \/ TimePasses \/ WatcherQuits \/ StarterStep
           \/ \E h \in Hooks : HookStarts(h) \/ HookStep(h) \/ HookKilled(h)
           \/ UNCHANGED vars
  BY <1>4, WatcherSteps, HookSteps, StarterSteps DEF ReviewWinds, vars, watchVars
<1> QED
  BY <1>2, <1>3, <1>4 DEF Next, Over

(* The window is destroyed only once the server has removed its endpoint,  *)
(* or an owner stopped waiting for that (_finalize, _wait_review_closed,   *)
(* _close_window).                                                         *)
THEOREM WindowWaitsForReview == Spec => NoStaleEndpoint
<1>1. ASSUME TurnsInv, [Next]_vars, NEW o \in Owners,
             owner[o] = "window", owner'[o] = "unlock", host[o] # "none", review' = "stale"
      PROVE  timedOut \/ review = "stale"
  BY <1>1, StaleByDeath DEF TurnsInv, WaitedForReview
<1>2. TurnsInv /\ [Next]_vars =>
        [\A o \in Owners :
           owner[o] = "window" /\ owner'[o] = "unlock" /\ host[o] # "none" /\ review' = "stale" =>
             timedOut \/ review = "stale"]_vars
  BY <1>1
<1> QED
  BY <1>2, LaunchTakesTurns, PTL DEF Spec, NoStaleEndpoint
=============================================================================
