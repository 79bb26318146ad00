-------------------------------- MODULE Mailbox --------------------------------
(***************************************************************************)
(* scope.mailbox: the file transport a launched agent falls back to when   *)
(* its sandbox forbids the loopback connection.                            *)
(*                                                                         *)
(* A publisher (exchange) takes the admission lock, creates a lease file   *)
(* and locks it, writes its request and polls for the response.  A poller  *)
(* thread of the watcher (Listener._serve) collects what dead publishers   *)
(* left and gives each live request to a worker, which answers through the *)
(* shared dispatcher.                                                      *)
(*                                                                         *)
(* A lock is an OS lock on an open file, released when its process dies;   *)
(* it is not affected by unlinking the file.  Testing a lease (lease_alive)*)
(* takes its lock for an instant, which is two steps here because a        *)
(* publisher may try to lock its lease in between.  close() unlinks the    *)
(* file of the admission lock too, which a publisher may still hold: the   *)
(* next one creates a new file under the same name, another inode with a   *)
(* lock of its own.  Unlinking the files of one nonce is one step except   *)
(* in close, and temporary files are left out: a frame appears at once     *)
(* (os.replace).  Contents, authentication and what an exchange returns    *)
(* are not modelled: every request is one of its publisher.                *)
(***************************************************************************)
EXTENDS Integers, FiniteSets

CONSTANTS
  Publishers,   (* Exchanges; each has its own nonce, used as its name.    *)
  Controls,     (* The exchanges that carry revoke or shutdown.            *)
  MAX_PENDING,  (* Cap on lease files.                                     *)
  MAX_CLIENTS,  (* Normal slots of the server.                             *)
  MayCrash,     (* Bound: the publishers that may be killed.               *)
  MayClose,     (* Bound: whether the watcher closes or dies.              *)
  MayLinger,    (* Bound: whether the poller may outlast the half second   *)
                (* that close waits for it.                                *)
  None

ASSUME MailboxAssumption ==
  /\ IsFiniteSet(Publishers)
  /\ Controls \subseteq Publishers /\ MayCrash \subseteq Publishers
  /\ MAX_PENDING \in Nat \ {0} /\ MAX_CLIENTS \in Nat \ {0}
  /\ MayClose \in BOOLEAN /\ MayLinger \in BOOLEAN
  /\ None \notin Publishers \cup {"publisher", "poller"} /\ None \notin {0, 1}

VARIABLES
  pub,        (* Where each publisher stands.                              *)
  opened,     (* The inode of admission.lock it has opened, or None.       *)
  files,      (* The files of the mailbox: <<nonce, kind>>.                *)
  gone,       (* The mailbox directory was removed.                        *)
  leaseLock,  (* Who holds the lock of each lease: "publisher", "poller".  *)
  door,       (* The inode admission.lock names: 0, or 1 once close has    *)
              (* unlinked the first one.                                   *)
  poller,     (* Where the poller stands.                                  *)
  todo,       (* The names left in its round.                              *)
  cur,        (* The name at hand, and whether its nonce was completed.    *)
  active,     (* Listener.active.                                          *)
  completed,  (* Listener.completed.                                       *)
  worker,     (* Where each nonce's worker stands.                         *)
  slot,       (* The semaphore it holds.                                   *)
  delivered,  (* Context.delivered.                                        *)
  seen,       (* Server._seen_nonces.                                      *)
  spawned,    (* History: how many workers were started for each nonce.    *)
  closed,     (* The server and the listener are closed (or dead).         *)
  closer,     (* Whether close has begun to unlink, and is done with it.   *)
  doomed      (* The names it has listed and still has to unlink.          *)

pubVars == <<pub, opened>>
dirVars == <<files, gone>>
closeVars == <<closed, closer, doomed, door>>
pollVars == <<poller, todo, cur>>
workVars == <<active, completed, worker, slot, delivered, seen, spawned>>
vars == <<pubVars, dirVars, leaseLock, pollVars, workVars, closeVars>>

Kinds == {"lease", "request", "response"}
Names == Publishers \X Kinds

Lease(n) == <<n, "lease">>
Request(n) == <<n, "request">>
Response(n) == <<n, "response">>

(* What close lists beside the files of the nonces.                        *)
AdmissionFile == <<"admission", "lock">>

(* Tagged in a round's todo: a completed nonce to sweep.                   *)
Sweep(n) == <<n, "sweep">>

Waiting == {"wait", "absent"}

Init ==
  /\ pub = [n \in Publishers |-> "idle"]
  /\ files = {}
  /\ gone = FALSE
  /\ leaseLock = [n \in Publishers |-> None]
  /\ opened = [n \in Publishers |-> None]
  /\ door = 0
  /\ poller = "round"
  /\ todo = {}
  /\ cur = None
  /\ active = {}
  /\ completed = {}
  /\ worker = [n \in Publishers |-> "none"]
  /\ slot = [n \in Publishers |-> "none"]
  /\ delivered = [n \in Publishers |-> FALSE]
  /\ seen = {}
  /\ spawned = [n \in Publishers |-> 0]
  /\ closed = FALSE
  /\ closer = "waiting"
  /\ doomed = {}

-----------------------------------------------------------------------------
(* Mutants used by PROJECT.json: plausible bugs in the code below.         *)

MutAdmissionFreeAlways(inode) == TRUE

MutLeaseAliveByFile(n) == Lease(n) \in files

MutKeptOnFinish(n) == {f \in files : f[1] = n /\ f[2] = "lease"}

MutCompletedNever(n) == completed

-----------------------------------------------------------------------------
(* Pieces shared by the steps.                                             *)

FilesOf(n) == {f \in files : f[1] = n}

(* _remove(..., lease=False).                                              *)
WithoutFrames(n) == files \ {Request(n), Response(n)}

(* The publishers that hold the lock of the file they have opened, from    *)
(* Admission to LeaveAdmission or a failure.                               *)
Inside == {n \in Publishers : pub[n] \in {"admitted", "counted", "created", "locked", "written"}}

(* flock of one inode, whether or not the directory still names it.        *)
AdmissionFree(inode) == \A n \in Inside : opened[n] # inode

AdmissionFileExists == \E n \in Publishers : opened[n] = door

(* lease_alive says so of any holder, even of another test.                *)
LeaseAlive(n) == Lease(n) \in files /\ leaseLock[n] # None

(* Listener._alive.                                                        *)
Alive(n) == ~closed /\ Request(n) \in files /\ LeaseAlive(n)

HasSlot(kind) ==
  Cardinality({n \in Publishers : slot[n] = kind}) < (IF kind = "normal" THEN MAX_CLIENTS ELSE 1)

(* What the server adds to completed when n's worker ends.                 *)
CompletedWith(n) == IF delivered[n] THEN completed \cup {n} ELSE completed

(* What is left of n's files when its worker ends.                         *)
KeptOnFinish(n) == IF delivered[n] THEN FilesOf(n) ELSE FilesOf(n) \cap {Lease(n)}

-----------------------------------------------------------------------------
(* exchange.                                                               *)

At(n, stage) == pub[n] = stage
Goto(n, stage) == pub' = [pub EXCEPT ![n] = stage]

(* admission.lock is opened, or created, once: before its lock is tried.   *)
OpenAdmission(n) ==
  /\ At(n, "idle")
  /\ ~gone
  /\ opened' = [opened EXCEPT ![n] = door]
  /\ Goto(n, "opened")
  /\ UNCHANGED <<dirVars, leaseLock, pollVars, workVars, closeVars>>

(* The lock is taken without blocking, again and again.  The poller tests  *)
(* it too, for an instant: the publisher then tries again.                 *)
Admission(n) ==
  /\ At(n, "opened")
  /\ AdmissionFree(opened[n])
  /\ Goto(n, "admitted")
  /\ UNCHANGED <<opened, dirVars, leaseLock, pollVars, workVars, closeVars>>

(* The deadline passes before that, or the directory is gone.              *)
NotAdmitted(n) ==
  /\ At(n, "idle") \/ At(n, "opened")
  /\ Goto(n, "done")
  /\ UNCHANGED <<opened, dirVars, leaseLock, pollVars, workVars, closeVars>>

Leases == {n \in Publishers : Lease(n) \in files}

(* Counting the leases and creating one are two steps; only the admission  *)
(* lock keeps another publisher out in between.                            *)
CountLeases(n) ==
  /\ At(n, "admitted")
  /\ \/ /\ ~gone /\ Cardinality(Leases) < MAX_PENDING
        /\ Goto(n, "counted")
     \/ /\ gone \/ Cardinality(Leases) >= MAX_PENDING
        /\ Goto(n, "done")
  /\ UNCHANGED <<opened, dirVars, leaseLock, pollVars, workVars, closeVars>>

CreateLease(n) ==
  /\ At(n, "counted")
  /\ \/ /\ ~gone
        /\ files' = files \cup {Lease(n)}
        /\ Goto(n, "created")
     \/ /\ gone
        /\ Goto(n, "done")
        /\ UNCHANGED files
  /\ UNCHANGED <<opened, gone, leaseLock, pollVars, workVars, closeVars>>

(* Locking fails if the poller is just testing the new lease.              *)
LockLease(n) ==
  /\ At(n, "created")
  /\ \/ /\ leaseLock[n] = None
        /\ leaseLock' = [leaseLock EXCEPT ![n] = "publisher"]
        /\ Goto(n, "locked")
     \/ /\ leaseLock[n] # None
        /\ Goto(n, "cleanup")
        /\ UNCHANGED leaseLock
  /\ UNCHANGED <<opened, dirVars, pollVars, workVars, closeVars>>

WriteRequest(n) ==
  /\ At(n, "locked")
  /\ \/ /\ ~gone
        /\ files' = files \cup {Request(n)}
        /\ Goto(n, "written")
     \/ /\ gone
        /\ Goto(n, "cleanup")
        /\ UNCHANGED files
  /\ UNCHANGED <<opened, gone, leaseLock, pollVars, workVars, closeVars>>

LeaveAdmission(n) ==
  /\ At(n, "written")
  /\ Goto(n, "wait")
  /\ UNCHANGED <<opened, dirVars, leaseLock, pollVars, workVars, closeVars>>

(* The answer, if it is there, ends the exchange.                          *)
ReadResponse(n) ==
  /\ At(n, "wait")
  /\ \/ /\ Response(n) \in files
        /\ Goto(n, "cleanup")
     \/ /\ Response(n) \notin files
        /\ Goto(n, "absent")
  /\ UNCHANGED <<opened, dirVars, leaseLock, pollVars, workVars, closeVars>>

(* No response yet: the request's removal means that none will come.       *)
CheckRequest(n) ==
  /\ At(n, "absent")
  /\ \/ /\ Request(n) \in files
        /\ Goto(n, "wait")
     \/ /\ Request(n) \notin files
        /\ Goto(n, "cleanup")
  /\ UNCHANGED <<opened, dirVars, leaseLock, pollVars, workVars, closeVars>>

Deadline(n) ==
  /\ At(n, "wait")
  /\ Goto(n, "cleanup")
  /\ UNCHANGED <<opened, dirVars, leaseLock, pollVars, workVars, closeVars>>

(* The finally: frames first, then the lock, then everything.              *)
CleanUp(n) ==
  \/ /\ At(n, "cleanup")
     /\ files' = WithoutFrames(n)
     /\ Goto(n, "unlock")
     /\ UNCHANGED <<opened, gone, leaseLock, pollVars, workVars, closeVars>>
  \/ /\ At(n, "unlock")
     /\ leaseLock' = [leaseLock EXCEPT ![n] = IF @ = "publisher" THEN None ELSE @]
     /\ Goto(n, "leave")
     /\ UNCHANGED <<opened, dirVars, pollVars, workVars, closeVars>>
  \/ /\ At(n, "leave")
     /\ files' = files \ FilesOf(n)
     /\ Goto(n, "done")
     /\ UNCHANGED <<opened, gone, leaseLock, pollVars, workVars, closeVars>>

(* The agent's hook process is killed: the OS releases its locks.          *)
Killed(n) ==
  /\ n \in MayCrash
  /\ pub[n] \notin {"idle", "done", "killed"}
  /\ Goto(n, "killed")
  /\ leaseLock' = [leaseLock EXCEPT ![n] = IF @ = "publisher" THEN None ELSE @]
  /\ UNCHANGED <<opened, dirVars, pollVars, workVars, closeVars>>

-----------------------------------------------------------------------------
(* Listener._serve: first sweep the completed nonces, then every file.     *)

PollAt(stage) == poller = stage
PollGoto(stage) == poller' = stage

(* Go on with the next name.                                               *)
Skip == PollGoto("next") /\ cur' = None

PollRound ==
  /\ PollAt("round")
  /\ ~closed
  /\ PollGoto("next")
  /\ todo' = {Sweep(n) : n \in completed} \cup {<<"entries", "unread">>}
  /\ UNCHANGED <<pubVars, dirVars, leaseLock, cur, workVars, closeVars>>

Sweeping == {f \in todo : f[2] = "sweep"}
Unread == <<"entries", "unread">> \in todo

(* The directory is listed once, after the sweep.  Of the names of one     *)
(* nonce one is kept, its request if there is one: the others are passed   *)
(* over, or would collect the same files again.                            *)
Entry(n) == <<n, IF Request(n) \in files THEN "request" ELSE "other">>

PollList ==
  /\ PollAt("next")
  /\ Unread /\ Sweeping = {}
  /\ todo' = {Entry(f[1]) : f \in files}
  /\ UNCHANGED <<pubVars, dirVars, leaseLock, poller, cur, workVars, closeVars>>

(* Pick a name, in any order; the nonce of a running worker is skipped.    *)
PollNext ==
  /\ PollAt("next")
  /\ \E f \in IF Unread THEN Sweeping ELSE todo :
       /\ todo' = todo \ {f}
       /\ \/ /\ f[2] # "sweep" /\ f[1] \in active
             /\ UNCHANGED <<poller, cur>>
          \/ /\ f[2] = "sweep" \/ f[1] \notin active
             /\ cur' = [nonce |-> f[1], kind |-> f[2], done |-> f[1] \in completed]
             /\ PollGoto("probe")
  /\ UNCHANGED <<pubVars, dirVars, leaseLock, workVars, closeVars>>

PollEnd ==
  /\ PollAt("next")
  /\ todo = {}
  /\ PollGoto(IF closed THEN "stopped" ELSE "round")
  /\ UNCHANGED <<pubVars, dirVars, leaseLock, todo, cur, workVars, closeVars>>

(* lease_alive of the nonce: a missing file is a dead lease, a lock that   *)
(* is held is a live one, a lock that is free is taken and released.       *)
PollProbe ==
  /\ PollAt("probe")
  /\ \/ /\ Lease(cur.nonce) \notin files
        /\ PollGoto("doubt")
        /\ UNCHANGED leaseLock
     \/ /\ LeaseAlive(cur.nonce)
        /\ PollGoto("alive")
        /\ UNCHANGED leaseLock
     \/ /\ Lease(cur.nonce) \in files /\ leaseLock[cur.nonce] = None
        /\ leaseLock' = [leaseLock EXCEPT ![cur.nonce] = "poller"]
        /\ PollGoto("probing")
  /\ UNCHANGED <<pubVars, dirVars, todo, cur, workVars, closeVars>>

PollRelease ==
  /\ PollAt("probing")
  /\ leaseLock' = [leaseLock EXCEPT ![cur.nonce] = None]
  /\ PollGoto("doubt")
  /\ UNCHANGED <<pubVars, dirVars, todo, cur, workVars, closeVars>>

(* A dead lease is spared while some publisher holds the admission lock.   *)
PollSpare ==
  /\ PollAt("doubt")
  /\ ~AdmissionFree(door)
  /\ Skip
  /\ UNCHANGED <<pubVars, dirVars, leaseLock, todo, workVars, closeVars>>

PollDoom ==
  /\ PollAt("doubt")
  /\ AdmissionFree(door)
  /\ PollGoto("collect")
  /\ UNCHANGED <<pubVars, dirVars, leaseLock, todo, cur, workVars, closeVars>>

PollCollect ==
  /\ PollAt("collect")
  /\ files' = files \ FilesOf(cur.nonce)
  /\ completed' = completed \ {cur.nonce}
  /\ Skip
  /\ UNCHANGED <<pubVars, gone, leaseLock, todo, active, worker, slot,
                 delivered, seen, spawned, closeVars>>

(* A live lease: only a request that was not answered yet needs a worker.  *)
Wanted == cur.kind = "request" /\ ~cur.done

PollPass ==
  /\ PollAt("alive")
  /\ ~Wanted
  /\ Skip
  /\ UNCHANGED <<pubVars, dirVars, leaseLock, todo, workVars, closeVars>>

(* Which slot a request would get, if any.                                 *)
SlotFor(n) ==
  IF HasSlot("normal") THEN "normal"
  ELSE IF n \in Controls /\ HasSlot("control") THEN "control" ELSE "none"

(* A request that cannot be read any more, or finds no slot, is removed.   *)
PollRefuse ==
  /\ PollAt("alive")
  /\ Wanted
  /\ Request(cur.nonce) \notin files \/ SlotFor(cur.nonce) = "none"
  /\ files' = WithoutFrames(cur.nonce)
  /\ Skip
  /\ UNCHANGED <<pubVars, gone, leaseLock, todo, workVars, closeVars>>

PollSpawn ==
  /\ PollAt("alive")
  /\ Wanted
  /\ LET n == cur.nonce IN
     /\ Request(n) \in files /\ SlotFor(n) # "none"
     /\ \/ /\ closed
           /\ PollGoto("stopped") /\ cur' = None /\ todo' = {}
           /\ UNCHANGED workVars
        \/ /\ ~closed
           /\ slot' = [slot EXCEPT ![n] = SlotFor(n)]
           /\ active' = active \cup {n}
           /\ worker' = [worker EXCEPT ![n] = "dispatch"]
           /\ spawned' = [spawned EXCEPT ![n] = @ + 1]
           /\ Skip
           /\ UNCHANGED <<todo, completed, delivered, seen>>
  /\ UNCHANGED <<pubVars, dirVars, leaseLock, closeVars>>

-----------------------------------------------------------------------------
(* A worker: the shared dispatcher, then _finish.                          *)

WorkerAt(n, stage) == worker[n] = stage
WorkerGoto(n, stage) == worker' = [worker EXCEPT ![n] = stage]

(* _dispatch up to the handler: a live waiter, a nonce never seen before.  *)
WorkerStart(n) ==
  /\ WorkerAt(n, "dispatch")
  /\ \/ /\ Alive(n) /\ n \notin seen
        /\ seen' = seen \cup {n}
        /\ WorkerGoto(n, "handled")
     \/ /\ ~Alive(n) \/ n \in seen
        /\ WorkerGoto(n, "finish")
        /\ UNCHANGED seen
  /\ UNCHANGED <<pubVars, dirVars, leaseLock, pollVars, active, completed, slot,
                 delivered, spawned, closeVars>>

(* The last active() before sending; the reply may also be withheld.       *)
WorkerReplies(n) ==
  /\ WorkerAt(n, "handled")
  /\ \/ Alive(n) /\ WorkerGoto(n, "send")
     \/ WorkerGoto(n, "finish")
  /\ UNCHANGED <<pubVars, dirVars, leaseLock, pollVars, active, completed, slot,
                 delivered, seen, spawned, closeVars>>

(* The response is written, whether or not anyone still waits for it.      *)
WorkerSends(n) ==
  /\ WorkerAt(n, "send")
  /\ WorkerGoto(n, "finish")
  /\ \/ /\ ~gone
        /\ files' = files \cup {Response(n)}
        /\ delivered' = [delivered EXCEPT ![n] = TRUE]
     \/ UNCHANGED <<files, delivered>>
  /\ UNCHANGED <<pubVars, gone, leaseLock, pollVars, active, completed, slot,
                 seen, spawned, closeVars>>

WorkerFinish(n) ==
  /\ WorkerAt(n, "finish")
  /\ WorkerGoto(n, "forget")
  /\ files' = (files \ FilesOf(n)) \cup KeptOnFinish(n)
  /\ UNCHANGED <<pubVars, gone, leaseLock, pollVars, active, completed, slot,
                 delivered, seen, spawned, closeVars>>

(* A mutant of WorkerForget: the server's _finish_context is not called.   *)
MutWorkerForgetKeepsSlot(n) ==
  /\ WorkerAt(n, "forget")
  /\ WorkerGoto(n, "done")
  /\ completed' = CompletedWith(n)
  /\ active' = active \ {n}
  /\ UNCHANGED <<pubVars, dirVars, leaseLock, pollVars, slot, delivered, seen,
                 spawned, closeVars>>

(* Under Listener.mutex.                                                   *)
WorkerForget(n) ==
  /\ WorkerAt(n, "forget")
  /\ WorkerGoto(n, "release")
  /\ completed' = CompletedWith(n)
  /\ active' = active \ {n}
  /\ UNCHANGED <<pubVars, dirVars, leaseLock, pollVars, slot, delivered, seen,
                 spawned, closeVars>>

WorkerRelease(n) ==
  /\ WorkerAt(n, "release")
  /\ WorkerGoto(n, "done")
  /\ slot' = [slot EXCEPT ![n] = "none"]
  /\ UNCHANGED <<pubVars, dirVars, leaseLock, pollVars, active, completed,
                 delivered, seen, spawned, closeVars>>

-----------------------------------------------------------------------------
(* Listener.close, and the death of the watcher.                           *)

Close ==
  /\ MayClose
  /\ ~closed
  /\ closed' = TRUE
  /\ UNCHANGED <<pubVars, dirVars, leaseLock, pollVars, workVars, closer, doomed, door>>

(* After waiting up to half a second for the poller, and as long for       *)
(* answers to be read, close lists the directory once.                     *)
CloseLists ==
  /\ closed /\ closer = "waiting"
  /\ poller = "stopped" \/ (MayLinger /\ poller # "killed")
  /\ closer' = "unlinking"
  /\ doomed' = files \cup (IF AdmissionFileExists THEN {AdmissionFile} ELSE {})
  /\ UNCHANGED <<pubVars, dirVars, leaseLock, pollVars, workVars, closed, door>>

(* One file after the other, in the order of the listing.  Whoever opens   *)
(* admission.lock after it was unlinked creates a new one.                 *)
CloseUnlinks ==
  /\ closer = "unlinking"
  /\ \E f \in doomed :
       /\ doomed' = doomed \ {f}
       /\ files' = files \ {f}
       /\ door' = IF f = AdmissionFile THEN 1 ELSE door
  /\ UNCHANGED <<pubVars, gone, leaseLock, pollVars, workVars, closed, closer>>

(* rmdir fails if a file was created meanwhile; a temporary one also counts.*)
CloseRemoves ==
  /\ closer = "unlinking" /\ doomed = {}
  /\ closer' = "done"
  /\ gone' \in {FALSE, files = {} /\ ~AdmissionFileExists}
  /\ UNCHANGED <<pubVars, files, leaseLock, pollVars, workVars, closed, doomed, door>>

(* The watcher is killed: its threads, its memory and its locks vanish,    *)
(* the files stay.                                                         *)
WatcherKilled ==
  /\ MayClose
  /\ poller # "killed"
  /\ poller' = "killed" /\ todo' = {} /\ cur' = None
  /\ closed' = TRUE /\ closer' = "done" /\ doomed' = {}
  /\ active' = {} /\ completed' = {} /\ seen' = {}
  /\ worker' = [n \in Publishers |-> "done"]
  /\ slot' = [n \in Publishers |-> "none"]
  /\ delivered' = [n \in Publishers |-> FALSE]
  /\ leaseLock' = [n \in Publishers |-> IF leaseLock[n] = "poller" THEN None ELSE leaseLock[n]]
  /\ UNCHANGED <<pubVars, dirVars, spawned, door>>

(* Nothing is left to do.                                                  *)
Ended ==
  /\ closed
  /\ \A n \in Publishers : pub[n] \in {"done", "killed"} /\ worker[n] \in {"none", "done"}
  /\ UNCHANGED vars

-----------------------------------------------------------------------------
PublisherStep(n) ==
  \/ OpenAdmission(n) \/ Admission(n) \/ CountLeases(n) \/ CreateLease(n) \/ LockLease(n) \/ WriteRequest(n)
  \/ LeaveAdmission(n) \/ ReadResponse(n) \/ CheckRequest(n) \/ CleanUp(n)

PollStep ==
  \/ PollRound \/ PollList \/ PollNext \/ PollEnd \/ PollProbe \/ PollRelease \/ PollSpare
  \/ PollDoom \/ PollCollect \/ PollPass \/ PollRefuse \/ PollSpawn

WorkerStep(n) ==
  \/ WorkerStart(n) \/ WorkerReplies(n) \/ WorkerSends(n)
  \/ WorkerFinish(n) \/ WorkerForget(n) \/ WorkerRelease(n)

Next ==
  \/ \E n \in Publishers :
       PublisherStep(n) \/ NotAdmitted(n) \/ Deadline(n) \/ Killed(n) \/ WorkerStep(n)
  \/ PollStep
  \/ Close \/ CloseLists \/ CloseUnlinks \/ CloseRemoves \/ WatcherKilled \/ Ended

Spec == Init /\ [][Next]_vars

(* The threads of the watcher run, publishers run, and their deadlines     *)
(* pass.  A handler ends too: it polls its context, whose deadline passes. *)
FairSpec ==
  /\ Spec
  /\ WF_vars(PollStep)
  /\ \A n \in Publishers :
       WF_vars(PublisherStep(n)) /\ WF_vars(WorkerStep(n)) /\ SF_vars(Deadline(n))

-----------------------------------------------------------------------------
Stages == {"idle", "opened", "admitted", "counted", "created", "locked", "written", "wait", "absent",
           "cleanup", "unlock", "leave", "done", "killed"}

(* Types, and the two locks: publishers between Admission and              *)
(* LeaveAdmission have opened different files, all of them the first one   *)
(* until close has unlinked it, and a publisher holds its lease from       *)
(* LockLease until it unlocks it or dies.                                  *)
TypeOK ==
  /\ pub \in [Publishers -> Stages]
  /\ opened \in [Publishers -> {None} \cup 0..door]
  /\ files \subseteq Names
  /\ leaseLock \in [Publishers -> {None, "publisher", "poller"}]
  /\ active \subseteq Publishers /\ completed \subseteq Publishers /\ seen \subseteq Publishers
  /\ slot \in [Publishers -> {"none", "normal", "control"}]
  /\ delivered \in [Publishers -> BOOLEAN]
  /\ gone \in BOOLEAN /\ closed \in BOOLEAN
  /\ closer \in {"waiting", "unlinking", "done"} /\ (closer # "waiting" => closed)
  /\ door \in {0, 1}
  /\ \A n \in Publishers :
       /\ pub[n] = "opened" => opened[n] # None
       /\ pub[n] \in Waiting \cup {"locked", "written"} => leaseLock[n] = "publisher"
  /\ \A m, n \in Inside : opened[n] # None /\ (opened[m] = opened[n] => m = n)

(* There are never more leases than MAX_PENDING: publishers that count and *)
(* create at the same time cannot overshoot the cap, until close unlinks   *)
(* the file of the admission lock.  From then on two publishers may be     *)
(* inside at once, one with each file, and the leases exceed the cap by    *)
(* one at most.                                                            *)
PendingWithinCap == Cardinality(Leases) <= MAX_PENDING + door

(* A request gets at most one worker, although its file stays in the       *)
(* directory until the publisher has read the response.                    *)
SpawnedOnce == \A n \in Publishers : spawned[n] <= 1

(* A response that was published stays until its waiting publisher has     *)
(* read it: neither the end of the worker nor a sweep removes it early.    *)
DeliveredStaysReadable ==
  \A n \in Publishers :
    pub[n] \in Waiting /\ delivered[n] /\ ~closed => Response(n) \in files

(* Whatever dead or finished publishers leave behind, also a response that *)
(* came too late, is collected by a watcher that keeps running.            *)
EventuallyClean == <>[](closed \/ files = {})

(* Every publisher that is not killed returns, and its slot comes back.    *)
ExchangesEnd ==
  \A n \in Publishers :
    pub[n] # "idle" ~> (pub[n] \in {"done", "killed"} /\ slot[n] = "none") \/ closed
=============================================================================
