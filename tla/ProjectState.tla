----------------------------- MODULE ProjectState -----------------------------
(***************************************************************************)
(* scope.storage: the state file of a project, state.json, which commands  *)
(* in different processes read and replace under the project lock.         *)
(*                                                                         *)
(* update is two steps: a process takes the lock and reads the file, then  *)
(* replaces the file at once (os.replace) or raises and leaves it alone.   *)
(* A process that dies in between has changed nothing but a temporary      *)
(* file nobody reads, and the system releases its lock.                    *)
(***************************************************************************)
EXTENDS Integers

CONSTANTS
  Processes,    (* Whoever reads or changes the file.                      *)
  None

VARIABLES
  state,        (* state.json, None while it does not exist.               *)
  inside,       (* The processes inside project_lock.                      *)
  copy          (* What each of them read there.                           *)

stateVars == <<state, inside, copy>>

StateInit ==
  /\ state = None
  /\ inside = {}
  /\ copy = [p \in Processes |-> None]

(* Mutant used by PROJECT.json: a lock that excludes nobody.               *)
MutProjectLockAlways == TRUE

ProjectLockFree == inside = {}

(* project_lock and _read.                                                 *)
Lock(p) ==
  /\ ProjectLockFree
  /\ inside' = inside \cup {p}
  /\ copy' = [copy EXCEPT ![p] = state]
  /\ UNCHANGED state

(* The processes P leave the lock, if they were in it.                     *)
Release(P) ==
  /\ inside' = inside \ P
  /\ copy' = [p \in Processes |-> IF p \in P THEN None ELSE copy[p]]

(* _write.                                                                 *)
Write(p, s) == p \in inside /\ state' = s /\ Release({p})

(* The change, its validation or the write raises.                         *)
Refuse(p) == p \in inside /\ Release({p}) /\ UNCHANGED state

(* load: the file is read under the lock, in one step.                     *)
Loads == ProjectLockFree

(* The death of processes, wherever they are.                              *)
Gone(P) == Release(P) /\ UNCHANGED state

-----------------------------------------------------------------------------
(* Whoever is inside the lock is alone there and read the current file.    *)
ReadsAreCurrent ==
  /\ \A p, q \in inside : p = q
  /\ \A p \in inside : copy[p] = state
=============================================================================
