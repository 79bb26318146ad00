-------------------------------- MODULE Launch --------------------------------
(***************************************************************************)
(* scope.launch, the owner side of scope.watch and scope.host_hook: the    *)
(* life of one launch.                                                     *)
(*                                                                         *)
(* The outer launcher (start) prepares the run directory, opens two panes  *)
(* and waits for the exit record.  In the agent pane an owner (run_agent)  *)
(* takes the owner lock, waits for the review, starts the host, waits for  *)
(* it and finalizes the run.  In the review pane the watcher answers       *)
(* requests and looks at the owner lock ten times a second: when the owner *)
(* is gone it ends the run itself.  Hooks are short processes of the host. *)
(* They share files: the environment with the user's secrets, owner.lock,  *)
(* owner.started, panes.json, exit.json and the session record.            *)
(*                                                                         *)
(* Any process may be killed between two steps.  The owner lock is an OS   *)
(* lock, released by the death of its holder.  Requests to the watcher are *)
(* one step; what it does with permissions is module PermissionReview.     *)
(* Receipts, notices and the contents of the records are left out.         *)
(***************************************************************************)
EXTENDS HostSession, FiniteSets

CONSTANTS
  Owners,       (* run_agent processes; Agent is the one of the pane.      *)
  Agent,
  Watcher,      (* watch --owner-home.                                     *)
  Starter,      (* start: the outer launcher.                              *)
  Hooks,        (* host-hook processes ...                                 *)
  EventOf,      (* ... the event of each ...                               *)
  SessionOf,    (* ... and the session it names.                           *)
  Manual,       (* --manual-watch: no panes; the owner is the launcher.    *)
  MayDie,       (* Bound: the processes that may be killed.                *)
  MayFail       (* Bound: whether writes and requests to review may fail.  *)

Events == {"SessionStart", "PermissionRequest", "SessionEnd"}

ASSUME LaunchAssumption ==
  /\ Agent \in Owners
  /\ IsFiniteSet(Hooks) /\ Watcher \notin Owners
  /\ Processes = Owners \cup Hooks \cup {Watcher, Starter}
  /\ EventOf \in [Hooks -> Events] /\ SessionOf \in [Hooks -> Sessions]
  /\ Manual \in BOOLEAN /\ MayFail \in BOOLEAN
  /\ MayDie \subseteq Processes
  /\ None \notin Processes

VARIABLES
  owner,        (* Where each owner stands.                                *)
  saw,          (* The session its last status named.                      *)
  host,         (* The host process it started.                            *)
  ownerLock,    (* The holder of owner.lock.                               *)
  lockFile,     (* owner.lock exists.                                      *)
  started,      (* owner.started exists.                                   *)
  environment,  (* environment.json exists.                                *)
  panes,        (* panes.json exists.                                      *)
  exitRecord,   (* exit.json exists.                                       *)
  watcher,      (* Where the watcher's main loop stands.                   *)
  review,       (* Its server: "none", "up", "closing", "closed", "stale". *)
  late,         (* The watcher has run for 30 seconds.                     *)
  starter,      (* Where the outer launcher stands.                        *)
  hook,         (* Where each hook stands.                                 *)
  timedOut      (* History: an owner stopped waiting for the server's end. *)

ownerVars == <<owner, saw, host>>
fileVars == <<ownerLock, lockFile, started, environment, panes, exitRecord>>
watchVars == <<watcher, review, late>>
vars == <<sessionVars, ownerVars, fileVars, watchVars, starter, hook, timedOut>>

Init ==
  /\ SessionInit
  /\ owner = [o \in Owners |-> "idle"]
  /\ saw = [o \in Owners |-> None]
  /\ host = [o \in Owners |-> "none"]
  /\ ownerLock = None
  /\ lockFile = FALSE /\ started = FALSE
  /\ environment = TRUE
  /\ panes = FALSE /\ exitRecord = FALSE
  /\ watcher = "idle" /\ review = "none" /\ late = FALSE
  /\ starter = IF Manual THEN "manual" ELSE "opening"
  /\ hook = [h \in Hooks |-> "idle"]
  /\ timedOut = FALSE

(* Stages in which an owner finalizes the run.                             *)
Finalizing == {"shutdown", "drain", "status", "close", "closing", "exit", "cleanup", "window",
               "unlock"}
(* Stages in which an owner holds its lock.                                *)
Owning == {"locked", "waiting", "panes", "unlink", "spawn", "wait"} \cup Finalizing
Crashed == {"died", "diedFinalizing"}
OwnerEnds == {"refused", "done"} \cup Crashed

OwnerAt(o, stage) == owner[o] = stage
OwnerGoes(o, stage) == owner' = [owner EXCEPT ![o] = stage]

Closed == native # None /\ native.status = "closed"

-----------------------------------------------------------------------------
(* Mutants used by PROJECT.json: plausible bugs in the code below.         *)

MutReviewGoneAlways == TRUE

-----------------------------------------------------------------------------
(* The owner: run_agent.                                                   *)

(* _load_launcher and _load_environment.                                   *)
LoadLaunch(o) ==
  /\ OwnerAt(o, "idle")
  /\ starter # "opening"
  /\ OwnerGoes(o, IF environment THEN "loaded" ELSE "refused")
  /\ UNCHANGED <<sessionVars, saw, host, fileVars, watchVars, starter, hook, timedOut>>

(* owner_lock: the marker is read before the lock is taken.                *)
CheckStarted(o) ==
  /\ OwnerAt(o, "loaded")
  /\ OwnerGoes(o, IF started THEN "refused" ELSE "checked")
  /\ UNCHANGED <<sessionVars, saw, host, fileVars, watchVars, starter, hook, timedOut>>

OpenLockFile(o) ==
  /\ OwnerAt(o, "checked")
  /\ OwnerGoes(o, "opened")
  /\ lockFile' = TRUE
  /\ UNCHANGED <<sessionVars, saw, host, ownerLock, started, environment, panes, exitRecord,
                 watchVars, starter, hook, timedOut>>

(* Without waiting: any holder, also a test of the watcher, is refused.    *)
TryOwnerLock(o) ==
  /\ OwnerAt(o, "opened")
  /\ \/ ownerLock = None /\ ownerLock' = o /\ OwnerGoes(o, "locked")
     \/ ownerLock # None /\ UNCHANGED ownerLock /\ OwnerGoes(o, "refused")
  /\ UNCHANGED <<sessionVars, saw, host, lockFile, started, environment, panes, exitRecord,
                 watchVars, starter, hook, timedOut>>

MarkStarted(o) ==
  /\ OwnerAt(o, "locked")
  /\ \/ started' = TRUE /\ OwnerGoes(o, "waiting") /\ UNCHANGED ownerLock
     \/ MayFail /\ ownerLock' = None /\ OwnerGoes(o, "refused") /\ UNCHANGED started
  /\ UNCHANGED <<sessionVars, saw, host, lockFile, environment, panes, exitRecord,
                 watchVars, starter, hook, timedOut>>

(* _wait_review, which gives up when review does not answer in time.       *)
WaitReview(o) ==
  /\ OwnerAt(o, "waiting")
  /\ OwnerGoes(o, IF review = "up" THEN "panes" ELSE "shutdown")
  /\ UNCHANGED <<sessionVars, saw, host, fileVars, watchVars, starter, hook, timedOut>>

WaitPanes(o) ==
  /\ OwnerAt(o, "panes")
  /\ OwnerGoes(o, IF Manual \/ panes THEN "unlink" ELSE "shutdown")
  /\ UNCHANGED <<sessionVars, saw, host, fileVars, watchVars, starter, hook, timedOut>>

RemoveEnvironment ==
  /\ environment' = FALSE
  /\ UNCHANGED <<ownerLock, lockFile, started, panes, exitRecord>>

HandOver(o) ==
  /\ OwnerAt(o, "unlink")
  /\ RemoveEnvironment
  /\ OwnerGoes(o, "spawn")
  /\ UNCHANGED <<sessionVars, saw, host, watchVars, starter, hook, timedOut>>

(* Popen, which may fail.                                                  *)
StartHost(o) ==
  /\ OwnerAt(o, "spawn")
  /\ \/ host' = [host EXCEPT ![o] = "running"] /\ OwnerGoes(o, "wait")
     \/ UNCHANGED host /\ OwnerGoes(o, "shutdown")
  /\ UNCHANGED <<sessionVars, saw, fileVars, watchVars, starter, hook, timedOut>>

(* The host ends by itself, also when its owner is dead.                   *)
HostExits(o) ==
  /\ host[o] = "running"
  /\ host' = [host EXCEPT ![o] = "exited"]
  /\ UNCHANGED <<sessionVars, owner, saw, fileVars, watchVars, starter, hook, timedOut>>

WaitHost(o) ==
  /\ OwnerAt(o, "wait") /\ host[o] = "exited"
  /\ OwnerGoes(o, "shutdown")
  /\ UNCHANGED <<sessionVars, saw, host, fileVars, watchVars, starter, hook, timedOut>>

(* KeyboardInterrupt in the body of the lock.                              *)
Interrupt(o) ==
  /\ owner[o] \in {"waiting", "panes", "unlink", "spawn", "wait"}
  /\ OwnerGoes(o, "shutdown")
  /\ host' = [host EXCEPT ![o] = IF @ = "running" THEN "exited" ELSE @]
  /\ UNCHANGED <<sessionVars, saw, fileVars, watchVars, starter, hook, timedOut>>

-----------------------------------------------------------------------------
(* The owner: _finalize and what follows it under the lock.                *)

(* A shutdown request: the reply comes before the server's cleanup.        *)
ShutDownReview == review' = IF review = "up" THEN "closing" ELSE review

Shutdown(o) ==
  /\ OwnerAt(o, "shutdown")
  /\ \/ ShutDownReview
     \/ MayFail /\ UNCHANGED review
  /\ OwnerGoes(o, "drain")
  /\ UNCHANGED <<sessionVars, saw, host, fileVars, watcher, late, starter, hook, timedOut>>

(* _wait_review_closed: the endpoint is gone and the server's lock is free *)
(* (if ever there was one); or two seconds have passed.                    *)
ReviewGone == review \in {"none", "closed"}

Drain(o) ==
  /\ OwnerAt(o, "drain")
  /\ timedOut' = (timedOut \/ ~ReviewGone)
  /\ OwnerGoes(o, "status")
  /\ UNCHANGED <<sessionVars, saw, host, fileVars, watchVars, starter, hook>>

ReadStatus(o) ==
  /\ OwnerAt(o, "status")
  /\ \/ /\ saw' = [saw EXCEPT ![o] = IF native = None THEN None ELSE native.session]
        /\ OwnerGoes(o, IF Closed THEN "exit" ELSE "close")
     \/ MayFail /\ UNCHANGED saw /\ OwnerGoes(o, "close")
  /\ UNCHANGED <<sessionVars, host, fileVars, watchVars, starter, hook, timedOut>>

EnterClose(o) ==
  /\ OwnerAt(o, "close")
  /\ Enter(o)
  /\ OwnerGoes(o, "closing")
  /\ UNCHANGED <<saw, host, fileVars, watchVars, starter, hook, timedOut>>

(* close_session(expected, inferred=True); a failure is only reported.     *)
CloseInferred(p, expected) ==
  \/ Close(p, expected, TRUE)
  \/ (MayFail \/ ~MayClose(p, expected, TRUE)) /\ LeaveAlone(p)

OwnerCloses(o) ==
  /\ OwnerAt(o, "closing")
  /\ CloseInferred(o, saw[o])
  /\ OwnerGoes(o, "exit")
  /\ UNCHANGED <<saw, host, fileVars, watchVars, starter, hook, timedOut>>

WriteExit(o) ==
  /\ OwnerAt(o, "exit")
  /\ \/ exitRecord' = TRUE
     \/ MayFail /\ UNCHANGED exitRecord
  /\ OwnerGoes(o, "cleanup")
  /\ UNCHANGED <<sessionVars, saw, host, ownerLock, lockFile, started, environment, panes,
                 watchVars, starter, hook, timedOut>>

CleanUp(o) ==
  /\ OwnerAt(o, "cleanup")
  /\ RemoveEnvironment
  /\ OwnerGoes(o, "window")
  /\ UNCHANGED <<sessionVars, saw, host, watchVars, starter, hook, timedOut>>

(* What the death of the processes P leaves: their locks are free, and the *)
(* watcher's endpoint stays unless its server had removed it.              *)
Stale(r) == IF r \in {"up", "closing"} THEN "stale" ELSE r
Unlocked(P) == ownerLock' = IF ownerLock \in P THEN None ELSE ownerLock

Died(stage) ==
  CASE stage \in OwnerEnds -> stage
    [] stage \in Finalizing -> "diedFinalizing"
    [] OTHER -> "died"

WatcherDies ==
  /\ watcher' = IF watcher = "done" THEN "done" ELSE "died"
  /\ review' = Stale(review)
  /\ UNCHANGED late

(* _close_window: the processes of both panes die.  An owner in the agent  *)
(* pane dies now or after Unlock, which is the same; one typed elsewhere   *)
(* kills the owner of the pane, too.                                       *)
CloseWindow(o) ==
  /\ OwnerAt(o, "window")
  /\ IF panes /\ o # Agent
     THEN /\ owner' = [owner EXCEPT ![o] = "unlock", ![Agent] = Died(@)]
          /\ WatcherDies /\ Left({Agent, Watcher}) /\ Unlocked({Agent, Watcher})
     ELSE /\ OwnerGoes(o, "unlock")
          /\ IF panes THEN WatcherDies /\ Left({Watcher}) /\ Unlocked({Watcher})
             ELSE UNCHANGED <<sessionVars, watchVars, ownerLock>>
  /\ UNCHANGED <<saw, host, lockFile, started, environment, panes, exitRecord, starter, hook,
                 timedOut>>

Unlock(o) ==
  /\ OwnerAt(o, "unlock")
  /\ OwnerGoes(o, "done")
  /\ ownerLock' = None
  /\ UNCHANGED <<sessionVars, saw, host, lockFile, started, environment, panes, exitRecord,
                 watchVars, starter, hook, timedOut>>

OwnerKilled(o) ==
  /\ o \in MayDie
  /\ owner[o] \notin OwnerEnds \cup {"idle"}
  /\ OwnerGoes(o, Died(owner[o]))
  /\ Unlocked({o}) /\ Left({o})
  /\ UNCHANGED <<saw, host, lockFile, started, environment, panes, exitRecord, watchVars,
                 starter, hook, timedOut>>

-----------------------------------------------------------------------------
(* The watcher: watch.main with --owner-home.                              *)

WatchKeeps(v) == UNCHANGED <<sessionVars, ownerVars, starter, hook, timedOut, v>>

LoadWatch ==
  /\ watcher = "idle"
  /\ starter \notin {"opening", "agent"}
  /\ watcher' = IF Manual \/ environment THEN "loaded" ELSE "done"
  /\ WatchKeeps(<<fileVars, review, late>>)

StartWatch ==
  /\ watcher = "loaded"
  /\ \/ watcher' = "loop" /\ review' = "up"
     \/ MayFail /\ watcher' = "done" /\ UNCHANGED review
  /\ WatchKeeps(<<fileVars, late>>)

(* owner_tick, owner_alive: nothing follows when the lock is held.  The    *)
(* test takes the lock for an instant.                                     *)
TickProbe ==
  /\ watcher = "loop" /\ review = "up"
  /\ \/ ~lockFile /\ watcher' = "check" /\ UNCHANGED ownerLock
     \/ lockFile /\ ownerLock = None /\ ownerLock' = Watcher /\ watcher' = "probe"
  /\ WatchKeeps(<<lockFile, started, environment, panes, exitRecord, review, late>>)

TickRelease ==
  /\ watcher = "probe"
  /\ watcher' = "check"
  /\ ownerLock' = None
  /\ WatchKeeps(<<lockFile, started, environment, panes, exitRecord, review, late>>)

(* A mutant of TickDecide: a run that no owner started is never ended.     *)
MutTickDecideStarted ==
  /\ watcher = "check"
  /\ watcher' = IF started THEN "end" ELSE "loop"
  /\ WatchKeeps(<<fileVars, review, late>>)

(* The lock was free: did an owner start, or has it been 30 seconds?       *)
TickDecide ==
  /\ watcher = "check"
  /\ watcher' = IF started \/ late THEN "end" ELSE "loop"
  /\ WatchKeeps(<<fileVars, review, late>>)

(* Watcher.close, here or because the loop saw a shutdown; it waits for    *)
(* the server to close.                                                    *)
TickClose ==
  /\ watcher = "end"
  /\ watcher' = "drain"
  /\ ShutDownReview
  /\ WatchKeeps(<<fileVars, late>>)

TickUnlink ==
  /\ watcher = "drain" /\ review = "closed"
  /\ watcher' = "record"
  /\ RemoveEnvironment
  /\ WatchKeeps(<<review, late>>)

TickEnter ==
  /\ watcher = "record"
  /\ watcher' = "recording"
  /\ Enter(Watcher)
  /\ UNCHANGED <<ownerVars, fileVars, review, late, starter, hook, timedOut>>

TickCloses ==
  /\ watcher = "recording"
  /\ watcher' = "leave"
  /\ CloseInferred(Watcher, None)
  /\ UNCHANGED <<ownerVars, fileVars, review, late, starter, hook, timedOut>>

(* The loop ends when the watcher was shut down.                           *)
LoopEnds ==
  /\ watcher = "loop" /\ review # "up"
  /\ watcher' = "leave"
  /\ WatchKeeps(<<fileVars, review, late>>)

LeaveWatch ==
  /\ watcher = "leave" /\ review = "closed"
  /\ watcher' = "done"
  /\ WatchKeeps(<<fileVars, review, late>>)

(* The thread that closes the server removes the endpoint.                 *)
CloseServer ==
  /\ review = "closing"
  /\ review' = "closed"
  /\ WatchKeeps(<<fileVars, watcher, late>>)

TimePasses ==
  /\ watcher \notin {"idle", "loaded", "done", "died"} /\ ~late
  /\ late' = TRUE
  /\ WatchKeeps(<<fileVars, watcher, review>>)

(* KeyboardInterrupt in the loop.                                          *)
WatcherQuits ==
  /\ Watcher \in MayDie
  /\ watcher = "loop"
  /\ watcher' = "leave"
  /\ ShutDownReview
  /\ WatchKeeps(<<fileVars, late>>)

WatcherKilled ==
  /\ Watcher \in MayDie
  /\ watcher \notin {"idle", "done", "died"}
  /\ WatcherDies
  /\ Left({Watcher}) /\ Unlocked({Watcher})
  /\ UNCHANGED <<ownerVars, lockFile, started, environment, panes, exitRecord, starter, hook,
                 timedOut>>

-----------------------------------------------------------------------------
(* The outer launcher: open_panes and start.                               *)

StarterAt(stage) == starter = stage
StarterGoes(stage) == starter' = stage

(* new-window (or new-session), split-window, panes.json, select-pane.     *)
OpenPanes ==
  /\ \/ StarterAt("opening") /\ StarterGoes("agent") /\ UNCHANGED panes
     \/ StarterAt("agent") /\ StarterGoes("review") /\ UNCHANGED panes
     \/ StarterAt("review") /\ StarterGoes("written") /\ panes' = TRUE
     \/ StarterAt("written") /\ StarterGoes("opened") /\ UNCHANGED panes
  /\ UNCHANGED <<sessionVars, ownerVars, ownerLock, lockFile, started, environment, exitRecord,
                 watchVars, hook, timedOut>>

(* kill-window: the processes of both panes die, if tmux does it.          *)
KillWindow ==
  \/ /\ owner' = [owner EXCEPT ![Agent] = Died(@)]
     /\ WatcherDies
     /\ Left({Agent, Watcher}) /\ Unlocked({Agent, Watcher})
  \/ UNCHANGED <<owner, watchVars, sessionVars, ownerLock>>

(* tmux fails: the error handling of open_panes, then that of start.       *)
PanesFail ==
  /\ MayFail
  /\ starter \in {"opening", "agent", "review", "written"}
  /\ IF StarterAt("opening") THEN UNCHANGED <<owner, watchVars, sessionVars, ownerLock>>
     ELSE KillWindow
  /\ StarterGoes("failed")
  /\ UNCHANGED <<saw, host, lockFile, started, environment, panes, exitRecord, hook, timedOut>>

StarterUnlinks ==
  /\ StarterAt("failed")
  /\ StarterGoes("record")
  /\ RemoveEnvironment
  /\ UNCHANGED <<sessionVars, ownerVars, watchVars, hook, timedOut>>

StarterEnters ==
  /\ StarterAt("record")
  /\ StarterGoes("recording")
  /\ Enter(Starter)
  /\ UNCHANGED <<ownerVars, fileVars, watchVars, hook, timedOut>>

StarterCloses ==
  /\ StarterAt("recording")
  /\ StarterGoes("raised")
  /\ CloseInferred(Starter, None)
  /\ UNCHANGED <<ownerVars, fileVars, watchVars, hook, timedOut>>

(* The loop of start: exit.json, then owner.started, then the owner lock   *)
(* (whose test is one step here: nothing depends on its duration).         *)
PollExit ==
  /\ \/ StarterAt("opened") /\ StarterGoes(IF exitRecord THEN "read" ELSE "look")
     \/ StarterAt("look") /\ StarterGoes(IF started THEN "probe" ELSE "opened")
     \/ StarterAt("probe") /\ StarterGoes(IF ownerLock = None THEN "noRecord" ELSE "opened")
  /\ UNCHANGED <<sessionVars, ownerVars, fileVars, watchVars, hook, timedOut>>

(* 30 seconds without owner.started.                                       *)
StarterGivesUp ==
  /\ StarterAt("look") /\ ~started
  /\ StarterGoes("noOwner")
  /\ KillWindow
  /\ UNCHANGED <<saw, host, lockFile, started, environment, panes, exitRecord, hook, timedOut>>

-----------------------------------------------------------------------------
(* The hooks: host_hook.process.                                           *)

HookAt(h, event, stage) == EventOf[h] = event /\ hook[h] = stage
HookGoes(h, stage) == hook' = [hook EXCEPT ![h] = stage]
HookKeeps == UNCHANGED <<ownerVars, fileVars, watcher, late, starter, timedOut>>

HostRuns == \E o \in Owners : host[o] = "running"

(* All but SessionStart require the session before anything else.          *)
HookStarts(h) ==
  /\ hook[h] = "idle" /\ HostRuns
  /\ HookGoes(h, IF EventOf[h] # "SessionStart" /\ ~Required(SessionOf[h]) THEN "nothing"
                 ELSE IF EventOf[h] = "SessionEnd" THEN "shutdown" ELSE "enter")
  /\ HookKeeps /\ UNCHANGED <<sessionVars, review>>

HookEnters(h) ==
  /\ hook[h] = "enter"
  /\ Enter(h)
  /\ HookGoes(h, "inside")
  /\ HookKeeps /\ UNCHANGED review

(* register; the same session may start again while it is open.            *)
HookRegisters(h) ==
  /\ HookAt(h, "SessionStart", "inside")
  /\ \/ Register(h, SessionOf[h]) /\ HookGoes(h, "registered")
     \/ /\ MayFail \/ ~MayRegister(h, SessionOf[h])
        /\ LeaveAlone(h)
        /\ HookGoes(h, IF OpenFor(copy[h], SessionOf[h]) THEN "registered" ELSE "nothing")
  /\ HookKeeps /\ UNCHANGED review

(* observe_permission, before the permission engine is asked.              *)
HookObserves(h) ==
  /\ HookAt(h, "PermissionRequest", "inside")
  /\ \/ Observe(h, SessionOf[h]) /\ HookGoes(h, "asking")
     \/ /\ MayFail \/ ~MayObserve(h, SessionOf[h])
        /\ LeaveAlone(h) /\ HookGoes(h, "nothing")
  /\ HookKeeps /\ UNCHANGED review

(* A mutant of HookAnswers: the answer is printed without the second check.*)
MutHookAnswersUnchecked(h) ==
  /\ HookAt(h, "PermissionRequest", "asking")
  /\ HookGoes(h, "answered") \/ HookGoes(h, "nothing")
  /\ HookKeeps /\ UNCHANGED <<sessionVars, review>>

(* Whatever the engine decides (a classifier may allow without review),    *)
(* nothing is printed unless the session is still open.                    *)
HookAnswers(h) ==
  /\ HookAt(h, "PermissionRequest", "asking")
  /\ \/ Required(SessionOf[h]) /\ HookGoes(h, "answered")
     \/ HookGoes(h, "nothing")
  /\ HookKeeps /\ UNCHANGED <<sessionVars, review>>

(* SessionEnd: shut the review down, then record the end.                  *)
HookShutsDown(h) ==
  /\ HookAt(h, "SessionEnd", "shutdown")
  /\ \/ ShutDownReview
     \/ MayFail /\ UNCHANGED review
  /\ HookGoes(h, "enter")
  /\ HookKeeps /\ UNCHANGED sessionVars

HookCloses(h) ==
  /\ HookAt(h, "SessionEnd", "inside")
  /\ \/ Close(h, SessionOf[h], FALSE)
     \/ (MayFail \/ ~MayClose(h, SessionOf[h], FALSE)) /\ LeaveAlone(h)
  /\ HookGoes(h, "ended")
  /\ HookKeeps /\ UNCHANGED review

HookEnds == {"registered", "answered", "ended", "nothing", "died"}

HookKilled(h) ==
  /\ h \in MayDie
  /\ hook[h] \notin HookEnds \cup {"idle"}
  /\ HookGoes(h, "died")
  /\ Left({h})
  /\ HookKeeps /\ UNCHANGED review

-----------------------------------------------------------------------------
OwnerStep(o) ==
  \/ LoadLaunch(o) \/ CheckStarted(o) \/ OpenLockFile(o) \/ TryOwnerLock(o) \/ MarkStarted(o)
  \/ WaitReview(o) \/ WaitPanes(o) \/ HandOver(o) \/ StartHost(o) \/ WaitHost(o)
  \/ Shutdown(o) \/ Drain(o) \/ ReadStatus(o) \/ EnterClose(o) \/ OwnerCloses(o)
  \/ WriteExit(o) \/ CleanUp(o) \/ CloseWindow(o) \/ Unlock(o)

WatchStep ==
  \/ LoadWatch \/ StartWatch \/ TickProbe \/ TickRelease \/ TickDecide \/ TickClose
  \/ TickUnlink \/ TickEnter \/ TickCloses \/ LoopEnds \/ LeaveWatch

StarterStep == OpenPanes \/ StarterUnlinks \/ StarterEnters \/ StarterCloses \/ PollExit

HookStep(h) ==
  \/ HookEnters(h) \/ HookRegisters(h) \/ HookObserves(h) \/ HookAnswers(h)
  \/ HookShutsDown(h) \/ HookCloses(h)

(* Nothing is left to do.                                                  *)
Over ==
  /\ \A o \in Owners : owner[o] \in OwnerEnds /\ host[o] # "running"
  /\ watcher \in {"done", "died"}
  /\ starter \in {"manual", "read", "noRecord", "noOwner", "raised"}
  /\ UNCHANGED vars

Next ==
  \/ \E o \in Owners : OwnerStep(o) \/ HostExits(o) \/ Interrupt(o) \/ OwnerKilled(o)
  \/ WatchStep \/ CloseServer \/ TimePasses \/ WatcherQuits \/ WatcherKilled
  \/ StarterStep \/ PanesFail \/ StarterGivesUp
  \/ \E h \in Hooks : HookStarts(h) \/ HookStep(h) \/ HookKilled(h)
  \/ Over

Spec == Init /\ [][Next]_vars

(* Every process that is not killed runs on, and time passes.  The host    *)
(* may run forever and the hooks it calls are its choice.                  *)
FairSpec ==
  /\ Spec
  /\ \A o \in Owners : WF_vars(OwnerStep(o))
  /\ WF_vars(WatchStep) /\ WF_vars(CloseServer) /\ WF_vars(TimePasses)
  /\ WF_vars(StarterStep)
  /\ \A h \in Hooks : WF_vars(HookStep(h))

-----------------------------------------------------------------------------
OwnerStages ==
  {"idle", "loaded", "checked", "opened"} \cup Owning \cup OwnerEnds

HookStages == {"idle", "enter", "inside", "shutdown", "asking"} \cup HookEnds

(* Types, and who holds the owner lock: an owner from TryOwnerLock to its  *)
(* end, or a test of the watcher.                                          *)
TypeOK ==
  /\ SessionTypeOK
  /\ owner \in [Owners -> OwnerStages]
  /\ saw \in [Owners -> Sessions \cup {None}]
  /\ host \in [Owners -> {"none", "running", "exited"}]
  /\ hook \in [Hooks -> HookStages]
  /\ ownerLock \in Owners \cup {None, Watcher}
  /\ \A o \in Owners : owner[o] \in Owning <=> ownerLock = o
  /\ ownerLock = Watcher <=> watcher = "probe"
  /\ \A o \in Owners : owner[o] \in Owning \ {"locked"} => started
  /\ review \in {"none", "up", "closing", "closed", "stale"}

Answered == {h \in Hooks : hook[h] = "answered"}

(* A permission answer is printed only while its session is open: one that *)
(* was closed by anybody during the human wait, or was never this one,     *)
(* gets no answer, however the closure overlaps the wait.  And the request *)
(* was counted in that very record: a run never shows fewer requests than  *)
(* it answered, whatever registrations and closures overlap.               *)
AnswersStayInSession ==
  [][\A h \in Answered' \ Answered :
       OpenFor(native, SessionOf[h]) /\ Cardinality(Answered') <= native.requests]_vars

(* "wait before removing its pane": after a host has run, destroying the   *)
(* window does not cut the cleanup of the server short, unless the owner   *)
(* stopped waiting for it.                                                 *)
NoStaleEndpoint ==
  [][\A o \in Owners :
       owner[o] = "window" /\ owner'[o] = "unlock" /\ host[o] # "none" /\ review' = "stale" =>
         timedOut \/ review = "stale"]_vars

(* A watcher that ends the run because an owner started and is gone is     *)
(* right: no owner is alive ("The owned watcher ends when its owner        *)
(* process disappears").                                                   *)
WatcherEndsWithOwner == watcher = "end" /\ ~late => ownerLock \notin Owners

(* Once an owner has finalized the run no session is open and none can     *)
(* start, also when one registered while the owner was finalizing.         *)
EndedRunIsClosed ==
  (~MayFail /\ \E o \in Owners : owner[o] = "done") => Closed

(* Two owners may pass the start mark before either has the lock, and own  *)
(* the run one after the other.  Still at most one of them starts a host,  *)
(* when none is killed and its shutdown request arrives: the first has     *)
(* shut the review down by then, and the second waits for review in vain.  *)
OneHost ==
  (~MayFail /\ \A o \in Owners : owner[o] \notin Crashed) =>
    \A o, p \in Owners : host[o] # "none" /\ host[p] # "none" => o = p

(* The owners of a run: each has the lock exactly while it owns the run    *)
(* (owner_lock), one of them at most starts a host, and a session never    *)
(* survives the owner that finalized the run.                              *)
OwnersInTurn == TypeOK /\ OneHost /\ EndedRunIsClosed

-----------------------------------------------------------------------------
(* Facts the proofs of OwnersInTurn and NoStaleEndpoint rest on.           *)

(* The watcher takes requests only once it has started, and it starts once.*)
ReviewFollowsWatcher == review # "none" => watcher \notin {"idle", "loaded"}

(* An owner with a host came past WaitReview.                              *)
HostStages == {"wait"} \cup Finalizing \cup {"done"} \cup Crashed

HostNeedsReview ==
  \A o \in Owners :
    /\ host[o] # "none" => owner[o] \in HostStages
    /\ host[o] # "none" \/ owner[o] \in {"panes", "unlink", "spawn", "wait"} => review # "none"

(* After the host of an owner, its shutdown: review takes no requests.     *)
ReviewOver == review \notin {"none", "up"}
AfterShutdown == (Finalizing \ {"shutdown"}) \cup {"done"}

ShutdownIsHeard ==
  ~MayFail => \A o \in Owners : host[o] # "none" /\ owner[o] \in AfterShutdown => ReviewOver

(* Nobody is past WaitReview while another owner has, or had, a host.      *)
HostsInTurn ==
  ~MayFail /\ (\A o \in Owners : owner[o] \notin Crashed) =>
    \A o, p \in Owners :
      owner[o] \in {"panes", "unlink", "spawn"} => host[p] = "none"

(* The wait for the server's end was not given up: the server has ended.   *)
WaitedForReview ==
  ~timedOut =>
    \A o \in Owners :
      host[o] # "none" /\ owner[o] \in {"status", "close", "closing", "exit", "cleanup", "window"}
        => review \notin {"up", "closing"}

(* What an owner closes is the session it saw, if it saw one.              *)
ClosesWhatItSaw ==
  \A o \in Owners :
    saw[o] # None => native # None /\ native.session = saw[o]

ClosedBehind ==
  ~MayFail =>
    \A o \in Owners : owner[o] \in {"exit", "cleanup", "window", "unlock", "done"} => Closed

TurnsInv ==
  /\ TypeOK /\ ReviewFollowsWatcher /\ HostNeedsReview /\ ShutdownIsHeard /\ HostsInTurn
  /\ OneHost /\ WaitedForReview /\ ClosesWhatItSaw /\ ClosedBehind

-----------------------------------------------------------------------------
KilledFinalizing == \E o \in Owners : owner[o] = "diedFinalizing"

(* Every run is ended by whoever is left: it is recorded as closed and the *)
(* file with the user's environment is gone, whether its owner finalized   *)
(* it, was killed, or no owner ever held the lock because each was refused *)
(* by another one or by the watcher's own test.  That file does not even   *)
(* wait for the host to end.  Two ways are left in which nobody ends the   *)
(* run: an owner killed after it shut the watcher down, and an outer       *)
(* launcher that gave up and destroyed the window with the watcher in it.  *)
EveryRunEnds ==
  /\ (\A o \in Owners : owner[o] \in OwnerEnds) ~>
       (Closed /\ ~environment) \/ starter = "noOwner" \/ KilledFinalizing
  /\ started ~> ~environment \/ KilledFinalizing
=============================================================================
