------------------------------ MODULE Endpoint ------------------------------
(***************************************************************************)
(* The life of scope.ipc.Server: the lifetime lock of the Scope home, the  *)
(* endpoint file that tells clients where the watcher is, and close().     *)
(*                                                                         *)
(* A server is one Server object of one process; it is started at most     *)
(* once (a closed server cannot restart).  The operating system drops a    *)
(* lock with its process, the endpoint file stays behind.  The token of an *)
(* endpoint is the server that wrote it.  The steps of start and close     *)
(* that other processes can see between are separate actions.              *)
(***************************************************************************)
EXTENDS Naturals, FiniteSets

CONSTANTS
  Servers,   (* The watchers that are ever started in this home.           *)
  Crashes,   (* Bound: how many processes may be killed.                   *)
  None

ASSUME ServersAssumption == None \notin Servers /\ Crashes \in Nat

VARIABLES
  launched,  (* The home belongs to a private launch (never changes).      *)
  phase,     (* Where each server stands in start and close.               *)
  listens,   (* It has a TCP listener.                                     *)
  lock,      (* The server that holds LOCK_NAME, or None.                  *)
  endpoint,  (* The server that the endpoint file names, or None.          *)
  crashes    (* Bound: the kills so far.                                   *)

endpointVars == <<launched, phase, listens, lock, endpoint, crashes>>

Owning == {"locked", "listening", "open", "closing", "unlinked"}
Phases == Owning \cup {"new", "refused", "closed", "dead"}

EndpointTypeOK ==
  /\ launched \in BOOLEAN
  /\ phase \in [Servers -> Phases]
  /\ listens \in [Servers -> BOOLEAN]
  /\ lock \in Servers \cup {None}
  /\ endpoint \in Servers \cup {None}
  /\ crashes \in 0..Crashes

EndpointInit ==
  /\ launched \in BOOLEAN
  /\ phase = [s \in Servers |-> "new"]
  /\ listens = [s \in Servers |-> FALSE]
  /\ lock = None
  /\ endpoint = None
  /\ crashes = 0

Enter(s, next) == phase' = [phase EXCEPT ![s] = next]

-----------------------------------------------------------------------------
(* Mutants used by PROJECT.json.                                           *)

MutTakeLockShared(s) ==
  /\ phase[s] = "new"
  /\ Enter(s, "locked") /\ lock' = s
  /\ UNCHANGED <<launched, listens, endpoint, crashes>>

-----------------------------------------------------------------------------
(* start: the non-blocking lock of the home, or AlreadyRunningError.       *)
TakeLock(s) ==
  /\ phase[s] = "new"
  /\ IF lock = None THEN Enter(s, "locked") /\ lock' = s
                    ELSE Enter(s, "refused") /\ UNCHANGED lock
  /\ UNCHANGED <<launched, listens, endpoint, crashes>>

(* start: bind and listen.  A launched watcher can do without a listener,  *)
(* its mailbox remains.                                                    *)
Listen(s) ==
  /\ phase[s] = "locked"
  /\ \E bound \in BOOLEAN :
       /\ listens' = [listens EXCEPT ![s] = bound]
       /\ Enter(s, IF bound \/ launched THEN "listening" ELSE "closing")
  /\ UNCHANGED <<launched, lock, endpoint, crashes>>

(* start: the endpoint is written aside and renamed into place, over       *)
(* whatever a dead watcher left; then the server takes requests.           *)
Publish(s) ==
  /\ phase[s] = "listening"
  /\ endpoint' = s
  /\ Enter(s, "open")
  /\ UNCHANGED <<launched, listens, lock, crashes>>

(* start: the endpoint cannot be written; close().                         *)
FailStart(s) ==
  /\ phase[s] = "listening"
  /\ Enter(s, "closing")
  /\ UNCHANGED <<launched, listens, lock, endpoint, crashes>>

(* close: no request is taken or answered from here on.                    *)
BeginClose(s) ==
  /\ phase[s] = "open"
  /\ Enter(s, "closing")
  /\ UNCHANGED <<launched, listens, lock, endpoint, crashes>>

(* close: the endpoint goes if it is still this server's.                  *)
RemoveEndpoint(s) ==
  /\ phase[s] = "closing"
  /\ endpoint' = IF endpoint = s THEN None ELSE endpoint
  /\ Enter(s, "unlinked")
  /\ UNCHANGED <<launched, listens, lock, crashes>>

(* close: the lock goes last.                                              *)
Unlock(s) ==
  /\ phase[s] = "unlinked"
  /\ lock' = IF lock = s THEN None ELSE lock
  /\ Enter(s, "closed")
  /\ UNCHANGED <<launched, listens, endpoint, crashes>>

(* The process is killed: the system releases its lock, nothing else.      *)
Crash(s) ==
  /\ phase[s] \in Owning /\ crashes < Crashes
  /\ crashes' = crashes + 1
  /\ lock' = IF lock = s THEN None ELSE lock
  /\ Enter(s, "dead")
  /\ UNCHANGED <<launched, listens, endpoint>>

ServerStep(s) ==
  \/ TakeLock(s) \/ Listen(s) \/ Publish(s) \/ FailStart(s)
  \/ BeginClose(s) \/ RemoveEndpoint(s) \/ Unlock(s) \/ Crash(s)

EndpointNext == \E s \in Servers : ServerStep(s)

EndpointSpec == EndpointInit /\ [][EndpointNext]_endpointVars

-----------------------------------------------------------------------------
(* A server that takes requests is the one that the endpoint file names:   *)
(* nobody who starts, gives up or closes meanwhile replaces or removes the *)
(* endpoint of a running watcher (ipc.py:363, 507).                        *)
EndpointNamesTheOwner == \A s \in Servers : phase[s] = "open" => endpoint = s
=============================================================================
