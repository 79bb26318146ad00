------------------------------ MODULE HostSession ------------------------------
(***************************************************************************)
(* scope.host_session: the record of the one native session a launch may   *)
(* have, host-session.json.                                                *)
(*                                                                         *)
(* Hooks of the host register it, count its permission requests and close  *)
(* it; the launch owner, the watcher and the outer launcher close it when  *)
(* they infer its end.  They are different processes.  Each change reads   *)
(* the record under a file lock and replaces it whole, which is two steps  *)
(* here: between them other processes may read the old record, and a       *)
(* process that dies has changed nothing.                                  *)
(*                                                                         *)
(* Left out: the claims checked before the lock is taken (host, project),  *)
(* the contents of the session's log, and the time an evidence was         *)
(* recorded.  An operation that fails (lock busy, unreadable record, full  *)
(* disk) is LeaveAlone; when only its log line fails the record stands.    *)
(***************************************************************************)
EXTENDS Integers

CONSTANTS
  Processes,    (* Whoever reads or changes the record.                    *)
  Sessions,     (* Native session identities.                              *)
  Parents,      (* launch["parent_session_ids"]: never this launch's own.  *)
  None

ASSUME SessionAssumption ==
  /\ Parents \subseteq Sessions
  /\ None \notin Sessions

VARIABLES
  native,       (* host-session.json, None while it does not exist.        *)
  inside,       (* The processes inside _locked.                           *)
  copy          (* What each of them read there.                           *)

sessionVars == <<native, inside, copy>>

Records ==
  [session : Sessions \cup {None}, status : {"open", "closed"}, requests : Nat,
   nativeEnd : BOOLEAN, inferredEnd : BOOLEAN]

ASSUME NoRecord == None \notin Records

SessionInit ==
  /\ native = None
  /\ inside = {}
  /\ copy = [p \in Processes |-> None]

-----------------------------------------------------------------------------
(* Mutants used by PROJECT.json: plausible bugs in the code below.         *)

MutEndedReplaces(r, inferred) ==
  [r EXCEPT !.status = "closed", !.inferredEnd = inferred, !.nativeEnd = ~inferred]

MutMayEndExactly(r, expected, inferred) ==
  /\ r = None => inferred /\ expected = None
  /\ r # None => r.session = expected

-----------------------------------------------------------------------------
(* The contents of the record.                                             *)

(* What register writes.                                                   *)
Registered(s) ==
  [session |-> s, status |-> "open", requests |-> 0, nativeEnd |-> FALSE, inferredEnd |-> FALSE]

(* What an inferred closure starts from when nothing was registered.       *)
Unregistered ==
  [session |-> None, status |-> "closed", requests |-> 0, nativeEnd |-> FALSE,
   inferredEnd |-> FALSE]

OpenFor(r, s) == r # None /\ r.status = "open" /\ r.session = s

(* require_session(s): a read without the lock.                            *)
Required(s) == s \notin Parents /\ OpenFor(native, s)

(* One more evidence of the end; the first one stays.                      *)
Ended(r, inferred) ==
  [session |-> r.session, status |-> "closed", requests |-> r.requests,
   nativeEnd |-> r.nativeEnd \/ ~inferred, inferredEnd |-> r.inferredEnd \/ inferred]

(* Whether close_session(expected, inferred) may close what it read.       *)
MayEnd(r, expected, inferred) ==
  /\ r = None => inferred /\ expected = None
  /\ r # None => /\ expected # None => r.session = expected
                 /\ ~inferred => r.session # None

HasEvidence(r, inferred) == IF inferred THEN r.inferredEnd ELSE r.nativeEnd

-----------------------------------------------------------------------------
(* The operations.                                                         *)

SessionLockFree == inside = {}

(* _locked and _native: take the lock and read the record.                 *)
Enter(p) ==
  /\ SessionLockFree /\ p \notin inside
  /\ inside' = inside \cup {p}
  /\ copy' = [copy EXCEPT ![p] = native]
  /\ UNCHANGED native

(* The processes P leave the lock, if they were in it.                     *)
Leave(P) ==
  /\ inside' = inside \ P
  /\ copy' = [p \in Processes |-> IF p \in P THEN None ELSE copy[p]]

Replace(p, r) == p \in inside /\ native' = r /\ Leave({p})

(* A refusal, a repetition or a failure.                                   *)
LeaveAlone(p) == p \in inside /\ Leave({p}) /\ UNCHANGED native

(* The death of processes, wherever they are.                              *)
Left(P) == Leave(P) /\ UNCHANGED native

MayRegister(p, s) == s \notin Parents /\ copy[p] = None

Register(p, s) == MayRegister(p, s) /\ Replace(p, Registered(s))

(* observe_permission, in a launch with the permissions workflow.          *)
MayObserve(p, s) == s \notin Parents /\ OpenFor(copy[p], s)

Observe(p, s) ==
  /\ MayObserve(p, s)
  /\ Replace(p, [copy[p] EXCEPT !.requests = @ + 1])

(* close_session.                                                          *)
MayClose(p, expected, inferred) ==
  /\ MayEnd(copy[p], expected, inferred)
  /\ copy[p] # None => ~HasEvidence(copy[p], inferred)

Close(p, expected, inferred) ==
  /\ MayClose(p, expected, inferred)
  /\ Replace(p, Ended(IF copy[p] = None THEN Unregistered ELSE copy[p], inferred))

(* Everything any process may do to the record.                            *)
SessionNext ==
  \/ \E p \in Processes :
       \/ Enter(p)
       \/ \E s \in Sessions : Register(p, s) \/ Observe(p, s)
       \/ \E s \in Sessions \cup {None}, inferred \in BOOLEAN : Close(p, s, inferred)
  \/ \E P \in SUBSET Processes : Left(P)

SessionSpec == SessionInit /\ [][SessionNext]_sessionVars

-----------------------------------------------------------------------------
SessionTypeOK ==
  /\ native \in Records \cup {None}
  /\ inside \subseteq Processes
  /\ copy \in [Processes -> Records \cup {None}]

(* Whoever is inside the lock is alone there and read the current record.  *)
CopiesAreCurrent ==
  /\ \A p, q \in inside : p = q
  /\ \A p \in inside : copy[p] = native

(* The record always passes the checks of _native: a closed one carries    *)
(* its evidence, an open one none, and one without an identity was closed  *)
(* by inference alone.  Otherwise every later reader would fail.           *)
RecordIsReadable ==
  native # None =>
    /\ native.status = "closed" <=> native.nativeEnd \/ native.inferredEnd
    /\ native.session = None =>
         native.status = "closed" /\ ~native.nativeEnd /\ native.requests = 0
    /\ native.session \notin Parents

(* Whatever the order of registration, requests and closures by different  *)
(* processes: the record never disappears, its identity never changes, a   *)
(* closed session never reopens, no evidence and no request is forgotten.  *)
(* A read that is written back late would do any of these.                 *)
RecordOnlyGrows ==
  [][native # None =>
       /\ native' # None
       /\ native'.session = native.session
       /\ native.status = "closed" => native'.status = "closed"
       /\ native.nativeEnd => native'.nativeEnd
       /\ native.inferredEnd => native'.inferredEnd
       /\ native'.requests >= native.requests]_native
=============================================================================
