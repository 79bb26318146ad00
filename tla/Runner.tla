-------------------------------- MODULE Runner --------------------------------
(***************************************************************************)
(* scope.runner.run: one child with a time limit, and the capture of its   *)
(* two output streams.                                                     *)
(*                                                                         *)
(* The child may leave a descendant that keeps its pipes open or escapes   *)
(* from its process group.  A thread per stream drains the pipe, keeps at  *)
(* most MaxOutput and reads on; the caller waits, kills the group when     *)
(* time is up, waits again, and joins the threads with deadlines.  Any     *)
(* deadline may pass at any moment.  Output is counted, not kept; argument *)
(* checks and the Windows variant of the kill are left out.                *)
(***************************************************************************)
EXTENDS Naturals

CONSTANTS
  Streams,      (* stdout and stderr.                                      *)
  MaxOutput,    (* MAX_OUTPUT_BYTES, in units of output.                   *)
  PipeSize,     (* What a pipe holds before its writer blocks.             *)
  Chunk,        (* What one read returns at most.                          *)
  MaxWritten,   (* Bound: what is written to a stream in all.              *)
  MayFail       (* Bound: whether reading a stream or killing may fail.    *)

ASSUME RunnerAssumption ==
  /\ {MaxOutput, MaxWritten} \subseteq Nat
  /\ {PipeSize, Chunk} \subseteq Nat \ {0}
  /\ MayFail \in BOOLEAN

Child == "child"
Heir == "heir"
Family == {Child, Heir}

VARIABLES
  process,      (* Each process: "none", "running", "dying", "gone".       *)
  group,        (* The processes in the child's process group.             *)
  exitCode,     (* Of the child: "none", "zero", "other".                  *)
  writers,      (* The processes that have a stream open for writing.      *)
  written,      (* Units written to each stream.                           *)
  pipe,         (* Units in its pipe.                                      *)
  thread,       (* Its drain: "reading", "done", "failed".                 *)
  kept,         (* Units its capture holds.                                *)
  truncated,    (* It dropped some.                                        *)
  caller,       (* Where run stands.                                       *)
  timedOut, incomplete, error,
  result        (* Whether the RunResult says succeeded.                   *)

familyVars == <<process, group, exitCode, writers>>
streamVars == <<written, pipe>>
captureVars == <<thread, kept, truncated>>
callerVars == <<caller, timedOut, incomplete, error, result>>
vars == <<familyVars, streamVars, captureVars, callerVars>>

(* Popen in a session of its own.                                          *)
Init ==
  /\ process = [p \in Family |-> IF p = Child THEN "running" ELSE "none"]
  /\ group = {Child}
  /\ exitCode = "none"
  /\ writers = [s \in Streams |-> {Child}]
  /\ written = [s \in Streams |-> 0] /\ pipe = [s \in Streams |-> 0]
  /\ thread = [s \in Streams |-> "reading"]
  /\ kept = [s \in Streams |-> 0] /\ truncated = [s \in Streams |-> FALSE]
  /\ caller = "wait"
  /\ timedOut = FALSE /\ incomplete = FALSE /\ error = FALSE
  /\ result = "none"

-----------------------------------------------------------------------------
(* The child and its descendant.                                           *)

Alive(p) == process[p] = "running"

(* A write; to a pipe that nobody reads it has no effect but the signal.   *)
Writes(p, s) ==
  /\ Alive(p) /\ p \in writers[s]
  /\ thread[s] = "reading"
  /\ written[s] < MaxWritten /\ pipe[s] < PipeSize
  /\ written' = [written EXCEPT ![s] = @ + 1]
  /\ pipe' = [pipe EXCEPT ![s] = @ + 1]
  /\ UNCHANGED <<familyVars, captureVars, callerVars>>

CloseStream(p, s) ==
  /\ Alive(p) /\ p \in writers[s]
  /\ writers' = [writers EXCEPT ![s] = @ \ {p}]
  /\ UNCHANGED <<process, group, exitCode, streamVars, captureVars, callerVars>>

Forks ==
  /\ Alive(Child) /\ process[Heir] = "none"
  /\ process' = [process EXCEPT ![Heir] = "running"]
  /\ group' = group \cup {Heir}
  /\ writers' = [s \in Streams |->
                   IF Child \in writers[s] THEN writers[s] \cup {Heir} ELSE writers[s]]
  /\ UNCHANGED <<exitCode, streamVars, captureVars, callerVars>>

(* "a descendant can escape a process group/tree".                         *)
Escapes ==
  /\ Alive(Heir) /\ Heir \in group
  /\ group' = group \ {Heir}
  /\ UNCHANGED <<process, exitCode, writers, streamVars, captureVars, callerVars>>

(* The end of a process closes what it had open.                           *)
Ends(p) ==
  /\ process[p] \in {"running", "dying"}
  /\ process' = [process EXCEPT ![p] = "gone"]
  /\ group' = group \ {p}
  /\ writers' = [s \in Streams |-> writers[s] \ {p}]
  /\ IF p = Child
     THEN exitCode' \in IF Alive(p) THEN {"zero", "other"} ELSE {"other"}
     ELSE UNCHANGED exitCode
  /\ UNCHANGED <<streamVars, captureVars, callerVars>>

-----------------------------------------------------------------------------
(* _Capture.drain.                                                         *)

Least(a, b) == IF a < b THEN a ELSE b

(* A mutant of Reads: the thread stops when it has all it may keep.        *)
MutReadsUntilCap(s) ==
  /\ thread[s] = "reading" /\ pipe[s] > 0 /\ kept[s] < MaxOutput
  /\ LET n == Least(Chunk, pipe[s])
         room == MaxOutput - kept[s]
     IN  /\ pipe' = [pipe EXCEPT ![s] = @ - n]
         /\ kept' = [kept EXCEPT ![s] = @ + Least(n, room)]
         /\ truncated' = [truncated EXCEPT ![s] = @ \/ n > room]
  /\ UNCHANGED <<familyVars, written, thread, callerVars>>

Reads(s) ==
  /\ thread[s] = "reading" /\ pipe[s] > 0
  /\ LET n == Least(Chunk, pipe[s])
         room == MaxOutput - kept[s]
     IN  /\ pipe' = [pipe EXCEPT ![s] = @ - n]
         /\ kept' = [kept EXCEPT ![s] = @ + Least(n, room)]
         /\ truncated' = [truncated EXCEPT ![s] = @ \/ n > room]
  /\ UNCHANGED <<familyVars, written, thread, callerVars>>

ReadsEnd(s) ==
  /\ thread[s] = "reading"
  /\ \/ pipe[s] = 0 /\ writers[s] = {} /\ thread' = [thread EXCEPT ![s] = "done"]
     \/ MayFail /\ thread' = [thread EXCEPT ![s] = "failed"]
  /\ UNCHANGED <<familyVars, streamVars, kept, truncated, callerVars>>

-----------------------------------------------------------------------------
(* run, after the spawn.                                                   *)

CallerAt(stage) == caller = stage
CallerGoes(stage) == caller' = stage
Draining == \E s \in Streams : thread[s] = "reading"

(* _terminate_tree: the group, then the child if it is still there; what   *)
(* is killed does nothing more, but may take its time to go.               *)
Kill(killed) == process' = [p \in Family |-> IF p \in killed /\ Alive(p) THEN "dying" ELSE process[p]]

TerminateTree(incompleteIfDone) ==
  /\ \/ Kill(group \cup {Child}) /\ incomplete' = incompleteIfDone
     \/ MayFail /\ (Kill({Child}) \/ Kill({})) /\ incomplete' = TRUE
  /\ UNCHANGED <<group, exitCode, writers>>

(* process.wait(timeout): the child is gone, or time is up.                *)
WaitChild ==
  /\ CallerAt("wait")
  /\ \/ process[Child] = "gone" /\ CallerGoes("settle") /\ UNCHANGED timedOut
     \/ process[Child] # "gone" /\ CallerGoes("terminate") /\ timedOut' = TRUE
  /\ UNCHANGED <<familyVars, streamVars, captureVars, incomplete, error, result>>

TimeIsUp ==
  /\ CallerAt("terminate")
  /\ TerminateTree(FALSE)
  /\ CallerGoes("settle")
  /\ UNCHANGED <<streamVars, captureVars, timedOut, error, result>>

(* An exception in the wait, such as KeyboardInterrupt.                    *)
Interrupted ==
  /\ CallerAt("wait")
  /\ TerminateTree(FALSE)
  /\ CallerGoes("raising")
  /\ UNCHANGED <<streamVars, captureVars, timedOut, error, result>>

Raises ==
  /\ CallerAt("raising")
  /\ CallerGoes("raised")
  /\ UNCHANGED <<familyVars, streamVars, captureVars, timedOut, incomplete, error, result>>

(* The second wait: "child did not exit after cleanup".                    *)
Settle ==
  /\ CallerAt("settle")
  /\ CallerGoes("join")
  /\ \/ process[Child] = "gone" /\ UNCHANGED <<incomplete, error>>
     \/ process[Child] # "gone" /\ incomplete' = TRUE /\ error' = TRUE
  /\ UNCHANGED <<familyVars, streamVars, captureVars, timedOut, result>>

(* A mutant of Join: without the test afterwards.                          *)
MutJoinUnchecked ==
  /\ CallerAt("join")
  /\ CallerGoes("report")
  /\ UNCHANGED <<familyVars, streamVars, captureVars, timedOut, incomplete, error, result>>

(* join with a deadline: "output pipes required forced cleanup".           *)
Join ==
  /\ CallerAt("join")
  /\ CallerGoes(IF Draining THEN "force" ELSE "report")
  /\ error' = (error \/ Draining)
  /\ UNCHANGED <<familyVars, streamVars, captureVars, timedOut, incomplete, result>>

ForceCleanup ==
  /\ CallerAt("force")
  /\ TerminateTree(incomplete)
  /\ CallerGoes("rejoin")
  /\ UNCHANGED <<streamVars, captureVars, timedOut, error, result>>

(* "output pipes remained open after cleanup".                             *)
Rejoin ==
  /\ CallerAt("rejoin")
  /\ CallerGoes("report")
  /\ incomplete' = (incomplete \/ Draining)
  /\ UNCHANGED <<familyVars, streamVars, captureVars, timedOut, error, result>>

(* RunResult and its succeeded; what was captured may not be UTF-8.        *)
Report ==
  /\ CallerAt("report")
  /\ CallerGoes("returned")
  /\ \E undecodable \in BOOLEAN :
       error' = (error \/ undecodable \/ \E s \in Streams : thread[s] = "failed")
  /\ result' = IF /\ exitCode = "zero" /\ ~timedOut /\ ~error' /\ ~incomplete
                  /\ \A s \in Streams : ~truncated[s]
               THEN "succeeded" ELSE "failed"
  /\ UNCHANGED <<familyVars, streamVars, captureVars, timedOut, incomplete>>

CallerStep ==
  \/ WaitChild \/ TimeIsUp \/ Raises \/ Settle \/ Join \/ ForceCleanup \/ Rejoin \/ Report

Drains(s) == Reads(s) \/ ReadsEnd(s)

(* run has ended, and so has all that it started.                          *)
Over ==
  /\ caller \in {"returned", "raised"}
  /\ \A p \in Family : process[p] \in {"none", "gone"}
  /\ ~Draining
  /\ UNCHANGED vars

Next ==
  \/ \E p \in Family, s \in Streams : Writes(p, s) \/ CloseStream(p, s)
  \/ Forks \/ Escapes \/ \E p \in Family : Ends(p)
  \/ \E s \in Streams : Drains(s)
  \/ CallerStep \/ Interrupted
  \/ Over

Spec == Init /\ [][Next]_vars

(* The threads are scheduled and read what there is, and every deadline    *)
(* passes; nothing is assumed of the child, also when it was killed.       *)
FairSpec == Spec /\ WF_vars(CallerStep) /\ \A s \in Streams : WF_vars(Reads(s))

-----------------------------------------------------------------------------
(* Types, and the count of output: what was written is in the pipe, was    *)
(* kept within the cap, or was dropped and is reported as truncated.       *)
TypeOK ==
  /\ process \in [Family -> {"none", "running", "dying", "gone"}]
  /\ group \subseteq {p \in Family : process[p] \in {"running", "dying"}}
  /\ exitCode \in {"none", "zero", "other"} /\ (exitCode = "none" <=> process[Child] # "gone")
  /\ caller \in {"wait", "terminate", "raising", "raised", "settle", "join", "force", "rejoin",
                 "report", "returned"}
  /\ \A s \in Streams :
       /\ writers[s] \subseteq {p \in Family : process[p] \in {"running", "dying"}}
       /\ thread[s] \in {"reading", "done", "failed"}
       /\ pipe[s] \in 0..PipeSize
       /\ kept[s] = IF truncated[s] THEN MaxOutput ELSE written[s] - pipe[s]
       /\ kept[s] <= MaxOutput

(* A run that is said to have succeeded was captured completely: every     *)
(* unit the child and its descendants wrote is kept, and nobody is left    *)
(* who could write more.                                                   *)
SucceededIsComplete ==
  result = "succeeded" =>
    \A s \in Streams : kept[s] = written[s] /\ writers[s] = {} /\ thread[s] = "done"

(* A result that does not report incomplete cleanup leaves no child and no *)
(* pipe that some descendant holds open, also after a timeout and a kill,  *)
(* unless a stream could not be read to its end.                           *)
CleanupIsReported ==
  caller = "returned" /\ ~incomplete =>
    /\ process[Child] = "gone"
    /\ \A s \in Streams : thread[s] # "failed" => writers[s] = {}

(* What run returns is true: a success is complete, and what is left of    *)
(* the child is reported (the tests at runner.py:160-186), whatever order  *)
(* deadlines, output, kills and the ends of the processes come in.         *)
ResultIsTrue == TypeOK /\ SucceededIsComplete /\ CleanupIsReported

(* Facts the proof of ResultIsTrue rests on.  The ranges TypeOK leaves out *)
Ranges ==
  /\ written \in [Streams -> Nat] /\ pipe \in [Streams -> Nat] /\ kept \in [Streams -> Nat]
  /\ writers \in [Streams -> SUBSET Family] /\ thread \in [Streams -> {"reading", "done", "failed"}]
  /\ truncated \in [Streams -> BOOLEAN]
  /\ \A s \in Streams : pipe[s] <= written[s]
  /\ {timedOut, incomplete, error} \subseteq BOOLEAN
  /\ result \in {"none", "succeeded", "failed"}

(* A thread that came to the end of its stream left nothing behind, and    *)
(* nobody can write to it any more: only a writer has heirs.               *)
DoneIsDrained == \A s \in Streams : thread[s] = "done" => pipe[s] = 0 /\ writers[s] = {}

(* What the caller has seen to when it passes a wait without a complaint.  *)
WaitsAreKept ==
  ~incomplete =>
    /\ caller \in {"join", "force", "rejoin", "report", "returned"} => process[Child] = "gone"
    /\ caller \in {"report", "returned"} => ~Draining

(* The verdict is given once, on what was seen last.                       *)
VerdictIsLast ==
  result = "succeeded" =>
    /\ caller = "returned" /\ ~incomplete
    /\ \A s \in Streams : ~truncated[s] /\ thread[s] = "done"

RunnerInv == TypeOK /\ Ranges /\ DoneIsDrained /\ WaitsAreKept /\ VerdictIsLast

(* Nobody is stuck: the call ends within its deadlines, also when the      *)
(* child ignores the kill or an escaped descendant keeps the pipes open    *)
(* for ever, and a child that writes more than is kept is not blocked by a *)
(* full pipe (the drains read on beyond the cap).                          *)
NobodyIsStuck ==
  /\ <>(caller \in {"returned", "raised"})
  /\ \A s \in Streams : pipe[s] = PipeSize ~> pipe[s] < PipeSize \/ thread[s] = "failed"
=============================================================================
