------------------------------ MODULE RunnerProofs ------------------------------
(***************************************************************************)
(* Proofs about the runner, for any streams, caps, pipes and chunks.       *)
(*                                                                         *)
(* ResultIsTrue is not inductive: the verdict is given on what the waits   *)
(* and the joins left behind.  RunnerInv adds that a drain that ended left *)
(* no output and no writer, that a caller past a wait has no child and no  *)
(* drain left or has said so, and that the verdict came last.              *)
(***************************************************************************)
EXTENDS Runner, TLAPS

LEMMA Sizes ==
  /\ MaxOutput \in Nat /\ MaxWritten \in Nat
  /\ PipeSize \in Nat /\ PipeSize > 0 /\ Chunk \in Nat /\ Chunk > 0
BY RunnerAssumption

-----------------------------------------------------------------------------
(* The streams.                                                            *)

LEMMA LeastIsLess ==
  ASSUME NEW a \in Nat, NEW b \in Nat
  PROVE  Least(a, b) \in Nat /\ Least(a, b) <= a /\ Least(a, b) <= b
BY DEF Least

LEMMA WriteKeeps ==
  ASSUME RunnerInv, NEW p \in Family, NEW s \in Streams, Writes(p, s)
  PROVE  RunnerInv'
<1> USE DEF RunnerInv, Writes, familyVars, captureVars, callerVars
<1>1. TypeOK'
  BY Sizes DEF TypeOK, Ranges
<1>2. Ranges'
  BY Sizes DEF TypeOK, Ranges
<1>3. DoneIsDrained' /\ WaitsAreKept' /\ VerdictIsLast'
  BY DEF DoneIsDrained, WaitsAreKept, VerdictIsLast, Draining, TypeOK
<1> QED
  BY <1>1, <1>2, <1>3

(* A read moves what it can keep and drops the rest: nothing is lost that  *)
(* truncated does not report.                                              *)
LEMMA ReadKeeps ==
  ASSUME RunnerInv, NEW s \in Streams, Reads(s)
  PROVE  RunnerInv'
<1> DEFINE n == Least(Chunk, pipe[s])
           room == MaxOutput - kept[s]
<1>1. /\ UNCHANGED <<familyVars, written, thread, callerVars>> /\ thread[s] = "reading"
      /\ pipe[s] > 0
      /\ pipe' = [pipe EXCEPT ![s] = @ - n]
      /\ kept' = [kept EXCEPT ![s] = @ + Least(n, room)]
      /\ truncated' = [truncated EXCEPT ![s] = @ \/ n > room]
  BY DEF Reads
<1>2. /\ pipe[s] \in Nat /\ pipe[s] <= PipeSize /\ kept[s] \in Nat /\ kept[s] <= MaxOutput
      /\ written[s] \in Nat /\ pipe[s] <= written[s] /\ truncated[s] \in BOOLEAN
      /\ kept[s] = IF truncated[s] THEN MaxOutput ELSE written[s] - pipe[s]
  BY RunnerAssumption DEF RunnerInv, TypeOK, Ranges
<1>a. n \in Nat /\ n <= pipe[s]
  BY <1>2, Sizes DEF Least
<1>b. room \in Nat /\ kept[s] + room = MaxOutput
  <2> HIDE DEF n
  <2> QED
    BY <1>2, Sizes
<1>3. n \in Nat /\ n <= pipe[s] /\ room \in Nat /\ kept[s] + room = MaxOutput
  BY <1>a, <1>b
<1> HIDE DEF n, room
<1>4. Least(n, room) = IF n > room THEN room ELSE n
  BY <1>3 DEF Least
<1>5. Least(n, room) \in Nat /\ kept[s] + Least(n, room) <= MaxOutput
  BY <1>2, <1>3, <1>4, Sizes
<1>6. TypeOK'
  <2>0. /\ kept'[s] = kept[s] + Least(n, room) /\ pipe'[s] = pipe[s] - n
        /\ written'[s] = written[s] /\ truncated'[s] = (truncated[s] \/ n > room)
    BY <1>1 DEF RunnerInv, Ranges
  <2>1. kept'[s] = IF truncated'[s] THEN MaxOutput ELSE written'[s] - pipe'[s]
    <3>1. CASE n > room
      BY <2>0, <1>2, <1>3, <1>4, <3>1, Sizes
    <3>2. CASE ~(n > room) /\ truncated[s]
      <4>1. kept[s] = MaxOutput /\ Least(n, room) = 0
        BY <1>2, <1>3, <1>4, <3>2, Sizes
      <4>2. truncated'[s]
        BY <2>0, <3>2
      <4> QED
        BY <2>0, <4>1, <4>2, Sizes
    <3>3. CASE ~(n > room) /\ ~truncated[s]
      BY <2>0, <1>2, <1>3, <1>4, <3>3, Sizes
    <3> QED
      BY <3>1, <3>2, <3>3
  <2>2. kept'[s] <= MaxOutput /\ pipe'[s] \in 0..PipeSize
    BY <1>1, <1>2, <1>3, <1>5, Sizes DEF RunnerInv, Ranges
  <2>3. \A r \in Streams : r # s => UNCHANGED <<kept[r], pipe[r], truncated[r]>>
    BY <1>1 DEF RunnerInv, Ranges
  <2> QED
    BY <1>1, <2>1, <2>2, <2>3 DEF RunnerInv, TypeOK, familyVars, callerVars
<1>7. Ranges'
  <2>1. kept[s] + Least(n, room) \in Nat /\ pipe[s] - n \in Nat /\ pipe[s] - n <= written[s]
    BY <1>2, <1>3, <1>5
  <2>2. truncated' \in [Streams -> BOOLEAN]
    BY <1>1 DEF RunnerInv, Ranges
  <2>3. kept' \in [Streams -> Nat] /\ pipe' \in [Streams -> Nat]
    BY <1>1, <2>1 DEF RunnerInv, Ranges
  <2>4. \A r \in Streams : pipe'[r] <= written'[r]
    BY <1>1, <2>1 DEF RunnerInv, Ranges
  <2> QED
    BY <1>1, <2>2, <2>3, <2>4 DEF RunnerInv, Ranges, callerVars, familyVars
<1>8. DoneIsDrained' /\ WaitsAreKept' /\ VerdictIsLast'
  BY <1>1 DEF RunnerInv, DoneIsDrained, WaitsAreKept, VerdictIsLast, Draining, familyVars,
              callerVars
<1> QED
  BY <1>6, <1>7, <1>8 DEF RunnerInv

LEMMA EndKeeps ==
  ASSUME RunnerInv, NEW s \in Streams, ReadsEnd(s)
  PROVE  RunnerInv'
<1> USE DEF RunnerInv, ReadsEnd, familyVars, streamVars, callerVars
<1>1. TypeOK' /\ Ranges'
  BY DEF TypeOK, Ranges
<1>2. DoneIsDrained' /\ WaitsAreKept' /\ VerdictIsLast'
  BY DEF DoneIsDrained, WaitsAreKept, VerdictIsLast, Draining, Ranges
<1> QED
  BY <1>1, <1>2

-----------------------------------------------------------------------------
(* The child and its descendant.                                           *)

LEMMA FamilyKeeps ==
  ASSUME RunnerInv, UNCHANGED <<streamVars, captureVars, callerVars>>,
         process' \in [Family -> {"none", "running", "dying", "gone"}],
         group' \subseteq {p \in Family : process'[p] \in {"running", "dying"}},
         exitCode' \in {"none", "zero", "other"},
         exitCode' = "none" <=> process'[Child] # "gone",
         process[Child] = "gone" => process'[Child] = "gone",
         writers' \in [Streams -> SUBSET Family],
         \A s \in Streams : writers'[s] \subseteq {p \in Family : process'[p] \in {"running", "dying"}},
         \A s \in Streams : writers[s] = {} => writers'[s] = {}
  PROVE  RunnerInv'
<1> USE DEF RunnerInv, streamVars, captureVars, callerVars
<1>1. TypeOK'
  BY DEF TypeOK
<1>2. Ranges' /\ DoneIsDrained' /\ WaitsAreKept' /\ VerdictIsLast'
  BY DEF Ranges, DoneIsDrained, WaitsAreKept, VerdictIsLast, Draining
<1> QED
  BY <1>1, <1>2

LEMMA FamilySteps ==
  ASSUME RunnerInv,
         \/ \E p \in Family, s \in Streams : CloseStream(p, s)
         \/ Forks \/ Escapes \/ \E p \in Family : Ends(p)
  PROVE  RunnerInv'
<1> DEFINE Living(q) == {p \in Family : q[p] \in {"running", "dying"}}
<1>a. /\ process \in [Family -> {"none", "running", "dying", "gone"}]
      /\ group \subseteq Living(process)
      /\ exitCode \in {"none", "zero", "other"} /\ (exitCode = "none" <=> process[Child] # "gone")
      /\ writers \in [Streams -> SUBSET Family]
      /\ \A s \in Streams : writers[s] \subseteq Living(process)
  BY DEF RunnerInv, TypeOK, Ranges
<1>1. ASSUME NEW p \in Family, NEW s \in Streams, CloseStream(p, s)
      PROVE  RunnerInv'
  BY <1>1, <1>a, FamilyKeeps DEF CloseStream
<1>2. CASE Forks
  <2>1. process' = [process EXCEPT ![Heir] = "running"] /\ group' = group \cup {Heir}
    BY <1>2 DEF Forks
  <2>2. /\ process' \in [Family -> {"none", "running", "dying", "gone"}]
        /\ Living(process') = Living(process) \cup {Heir}
        /\ process'[Child] = process[Child]
    BY <2>1, <1>a DEF Family, Child, Heir
  <2>3. /\ writers' \in [Streams -> SUBSET Family]
        /\ \A s \in Streams : writers'[s] \subseteq writers[s] \cup {Heir}
        /\ \A s \in Streams : writers[s] = {} => writers'[s] = {}
    BY <1>2, <1>a DEF Forks, Family
  <2>4. UNCHANGED <<exitCode, streamVars, captureVars, callerVars>>
    BY <1>2 DEF Forks
  <2> QED
    BY <1>a, <2>1, <2>2, <2>3, <2>4, FamilyKeeps
<1>3. CASE Escapes
  BY <1>3, <1>a, FamilyKeeps DEF Escapes
<1>4. ASSUME NEW p \in Family, Ends(p)
      PROVE  RunnerInv'
  BY <1>4, <1>a, FamilyKeeps DEF Ends
<1> QED
  BY <1>1, <1>2, <1>3, <1>4

-----------------------------------------------------------------------------
(* The caller.                                                             *)

(* A kill ends nothing by itself and brings nobody back.                   *)
LEMMA KillKeeps ==
  ASSUME TypeOK, NEW b \in BOOLEAN, incomplete \in BOOLEAN, TerminateTree(b)
  PROVE  /\ process' \in [Family -> {"none", "running", "dying", "gone"}]
         /\ \A p \in Family :
              /\ process'[p] \in {"running", "dying"} <=> process[p] \in {"running", "dying"}
              /\ process'[p] = "gone" <=> process[p] = "gone"
         /\ incomplete' \in BOOLEAN /\ (~incomplete' => ~b)
         /\ UNCHANGED <<group, exitCode, writers>>
<1>1. ASSUME NEW killed, Kill(killed)
      PROVE  /\ process' \in [Family -> {"none", "running", "dying", "gone"}]
             /\ \A p \in Family :
                  /\ process'[p] \in {"running", "dying"} <=> process[p] \in {"running", "dying"}
                  /\ process'[p] = "gone" <=> process[p] = "gone"
  BY <1>1 DEF Kill, Alive, TypeOK
<1> QED
  BY <1>1 DEF TerminateTree

(* The steps that kill.                                                    *)
LEMMA KillingKeeps ==
  ASSUME RunnerInv, TimeIsUp \/ Interrupted \/ ForceCleanup
  PROVE  RunnerInv'
<1>a. incomplete \in BOOLEAN /\ TypeOK
  BY DEF RunnerInv, Ranges
<1>1. PICK b \in BOOLEAN : TerminateTree(b) /\ (ForceCleanup => b = incomplete)
  BY <1>a DEF TimeIsUp, Interrupted, ForceCleanup, CallerAt
<1>2. UNCHANGED <<streamVars, captureVars, timedOut, error, result>>
  BY DEF TimeIsUp, Interrupted, ForceCleanup
<1>3. \/ caller = "terminate" /\ caller' = "settle"
      \/ caller = "wait" /\ caller' = "raising"
      \/ ForceCleanup /\ caller = "force" /\ caller' = "rejoin"
  BY DEF TimeIsUp, Interrupted, ForceCleanup, CallerAt, CallerGoes
<1>4. /\ process' \in [Family -> {"none", "running", "dying", "gone"}]
      /\ \A p \in Family :
           /\ process'[p] \in {"running", "dying"} <=> process[p] \in {"running", "dying"}
           /\ process'[p] = "gone" <=> process[p] = "gone"
      /\ incomplete' \in BOOLEAN /\ (~incomplete' => ~b)
      /\ UNCHANGED <<group, exitCode, writers>>
  BY <1>a, <1>1, KillKeeps
<1>5. TypeOK'
  BY <1>2, <1>3, <1>4 DEF RunnerInv, TypeOK, streamVars, captureVars, Family
<1>6. Ranges' /\ DoneIsDrained'
  BY <1>2, <1>4 DEF RunnerInv, Ranges, DoneIsDrained, streamVars, captureVars
<1>7. WaitsAreKept'
  BY <1>1, <1>3, <1>4 DEF RunnerInv, WaitsAreKept, Family
<1>8. VerdictIsLast'
  BY <1>2, <1>3 DEF RunnerInv, VerdictIsLast, captureVars
<1> QED
  BY <1>5, <1>6, <1>7, <1>8 DEF RunnerInv

(* The steps that wait and look.                                           *)
LEMMA WaitingKeeps ==
  ASSUME RunnerInv, WaitChild \/ Raises \/ Settle \/ Join \/ Rejoin
  PROVE  RunnerInv'
<1> USE DEF RunnerInv, CallerAt, CallerGoes, familyVars, streamVars, captureVars
<1>1. TypeOK'
  BY DEF TypeOK, WaitChild, Raises, Settle, Join, Rejoin
<1>2. Ranges'
  BY DEF Ranges, WaitChild, Raises, Settle, Join, Rejoin, Draining
<1>3. DoneIsDrained' /\ VerdictIsLast'
  BY DEF DoneIsDrained, VerdictIsLast, WaitChild, Raises, Settle, Join, Rejoin
<1>4. WaitsAreKept'
  BY DEF WaitsAreKept, Draining, WaitChild, Raises, Settle, Join, Rejoin, Ranges
<1> QED
  BY <1>1, <1>2, <1>3, <1>4

LEMMA ReportKeeps ==
  ASSUME RunnerInv, Report
  PROVE  RunnerInv'
<1> USE DEF RunnerInv, Report, CallerAt, CallerGoes, familyVars, streamVars, captureVars
<1>1. TypeOK'
  BY DEF TypeOK
<1>2. Ranges' /\ DoneIsDrained' /\ WaitsAreKept'
  BY DEF Ranges, DoneIsDrained, WaitsAreKept, Draining
<1>3. VerdictIsLast'
  <2> SUFFICES ASSUME result' = "succeeded"
               PROVE  /\ caller' = "returned" /\ ~incomplete'
                      /\ \A s \in Streams : ~truncated'[s] /\ thread'[s] = "done"
    BY DEF VerdictIsLast
  <2>1. ~error' /\ ~incomplete /\ \A s \in Streams : ~truncated[s]
    OBVIOUS
  <2>2. \A s \in Streams : thread[s] # "failed"
    BY <2>1
  <2>3. \A s \in Streams : thread[s] # "reading"
    BY <2>1 DEF WaitsAreKept, Draining
  <2> QED
    BY <2>1, <2>2, <2>3 DEF Ranges
<1> QED
  BY <1>1, <1>2, <1>3

-----------------------------------------------------------------------------
(* The counts of the streams, what the drains and waits left, and the      *)
(* verdict: the inductive invariant of run.                                *)
THEOREM RunIsAccounted == Spec => []RunnerInv
<1>1. Init => RunnerInv
  <2>1. Init => TypeOK
    BY Sizes DEF Init, TypeOK, Family, Child, Heir
  <2>2. Init => Ranges
    <3> SUFFICES ASSUME Init
                 PROVE  Ranges
      OBVIOUS
    <3>1. /\ written \in [Streams -> Nat] /\ pipe \in [Streams -> Nat] /\ kept \in [Streams -> Nat]
          /\ thread \in [Streams -> {"reading", "done", "failed"}]
          /\ \A s \in Streams : pipe[s] <= written[s]
      BY DEF Init
    <3>2. writers \in [Streams -> SUBSET Family] /\ truncated \in [Streams -> BOOLEAN]
      BY DEF Init, Family
    <3>3. timedOut \in BOOLEAN /\ incomplete \in BOOLEAN /\ error \in BOOLEAN /\ result = "none"
      BY DEF Init
    <3> QED
      BY <3>1, <3>2, <3>3 DEF Ranges
  <2>3. Init => DoneIsDrained /\ WaitsAreKept /\ VerdictIsLast
    BY DEF Init, DoneIsDrained, WaitsAreKept, VerdictIsLast
  <2> QED
    BY <2>1, <2>2, <2>3 DEF RunnerInv
<1>2. RunnerInv /\ [Next]_vars => RunnerInv'
  <2> SUFFICES ASSUME RunnerInv, [Next]_vars
               PROVE  RunnerInv'
    OBVIOUS
  <2>1. ASSUME NEW p \in Family, NEW s \in Streams, Writes(p, s)
        PROVE  RunnerInv'
    BY <2>1, WriteKeeps
  <2>2. CASE \/ \E p \in Family, s \in Streams : CloseStream(p, s)
             \/ Forks \/ Escapes \/ \E p \in Family : Ends(p)
    BY <2>2, FamilySteps
  <2>3. ASSUME NEW s \in Streams, Drains(s)
        PROVE  RunnerInv'
    BY <2>3, ReadKeeps, EndKeeps DEF Drains
  <2>4. CASE CallerStep \/ Interrupted
    BY <2>4, KillingKeeps, WaitingKeeps, ReportKeeps DEF CallerStep
  <2>5. CASE UNCHANGED vars
    BY <2>5
       DEF vars, familyVars, streamVars, captureVars, callerVars, RunnerInv, TypeOK, Ranges,
           DoneIsDrained, WaitsAreKept, VerdictIsLast, Draining
  <2> QED
    BY <2>1, <2>2, <2>3, <2>4, <2>5 DEF Next, Over
<1> QED
  BY <1>1, <1>2, PTL DEF Spec

(* What run returns is true, for any caps, any order of output, deadlines, *)
(* kills and ends, and whatever cannot be read or killed.                  *)
THEOREM ResultsAreTrue == Spec => []ResultIsTrue
<1>1. ASSUME RunnerInv, result = "succeeded", NEW s \in Streams
      PROVE  kept[s] = written[s] /\ writers[s] = {} /\ thread[s] = "done"
  BY <1>1 DEF RunnerInv, TypeOK, Ranges, DoneIsDrained, VerdictIsLast
<1>2. RunnerInv => SucceededIsComplete
  BY <1>1 DEF SucceededIsComplete
<1>3. RunnerInv => CleanupIsReported
  BY DEF RunnerInv, CleanupIsReported, WaitsAreKept, DoneIsDrained, Draining, Ranges
<1>4. RunnerInv => ResultIsTrue
  BY <1>2, <1>3 DEF RunnerInv, ResultIsTrue
<1> QED
  BY <1>4, RunIsAccounted, PTL
=============================================================================
