----------------------------- MODULE MailboxProofs -----------------------------
(***************************************************************************)
(* Proofs about Mailbox, for every number of exchanges, every cap, any     *)
(* number of slots and wherever publishers and the watcher are killed.     *)
(***************************************************************************)
EXTENDS Mailbox, FiniteSetTheorems, TLAPS

-----------------------------------------------------------------------------
(* Types and locks.                                                        *)

Busy == {"probe", "alive", "probing", "doubt", "collect"}

(* What the poller works on, and the lease it has just locked to test it.  *)
PollerInv ==
  /\ poller \in Busy \cup {"round", "next", "stopped", "killed"}
  /\ todo \subseteq (Publishers \X {"sweep", "request", "other"}) \cup {<<"entries", "unread">>}
  /\ poller \in Busy =>
       cur \in [nonce : Publishers, kind : {"sweep", "request", "other"}, done : BOOLEAN]
  /\ poller = "probing" => leaseLock[cur.nonce] = "poller"

WorkerTypes ==
  /\ worker \in [Publishers -> {"none", "dispatch", "handled", "send", "finish", "forget", "release", "done"}]
  /\ spawned \in [Publishers -> Nat]

TypeInv == TypeOK /\ PollerInv /\ WorkerTypes

-----------------------------------------------------------------------------
(* The cap.                                                                *)

Counted == {n \in Publishers : pub[n] = "counted"}

(* Who has counted the leases has the room it found, shared at most with   *)
(* the publisher that is inside with the other file.                       *)
CapInv == Cardinality(Leases \cup Counted) <= MAX_PENDING + door

-----------------------------------------------------------------------------
(* Workers.                                                                *)

(* A publisher that wrote its request and still wants the answer.          *)
Holding(n) == pub[n] \in Waiting \cup {"written"}

Past == {"written", "wait", "absent", "cleanup", "unlock", "leave", "done", "killed"}

(* A request is written once, and what has had a worker is remembered: as  *)
(* active, as completed, or by the absence of its request.                 *)
Remembered(n) ==
  /\ spawned[n] \in {0, 1}
  /\ spawned[n] = 1 \/ Request(n) \in files => pub[n] \in Past
  /\ worker[n] \in {"dispatch", "handled", "send", "finish", "forget"} => n \in active
  /\ n \in active \/ delivered[n] => spawned[n] = 1
  /\ worker[n] = "forget" /\ ~delivered[n] => Request(n) \notin files
  /\ spawned[n] = 1 /\ n \notin active /\ Request(n) \in files /\ poller # "killed" => n \in completed

(* Nobody takes the files of a publisher that waits for its worker.        *)
Kept(n) ==
  Holding(n) /\ ~closed =>
    /\ spawned[n] = 1 => Lease(n) \in files
    /\ delivered[n] => Response(n) \in files /\ (n \in active \/ n \in completed)

(* What the poller has found out about the nonce at hand still holds.      *)
AtHand ==
  LET n == cur.nonce IN
  /\ cur.kind # "sweep" => n \notin active
  /\ Wanted /\ spawned[n] = 1 => Request(n) \notin files
  /\ ~closed =>
       /\ cur.kind # "sweep" /\ delivered[n] /\ Holding(n) => cur.done
       /\ poller = "alive" /\ pub[n] # "done" => Lease(n) \in files
       /\ poller \in {"probing", "doubt", "collect"} /\ spawned[n] = 1 => ~Holding(n)

ServeInv ==
  /\ \A n \in Publishers : Remembered(n) /\ Kept(n)
  /\ poller \in Busy => AtHand

MailboxInv == TypeInv /\ CapInv /\ ServeInv

-----------------------------------------------------------------------------
LEMMA MailboxStarts == Init => MailboxInv
<1> SUFFICES ASSUME Init
             PROVE  MailboxInv
  OBVIOUS
<1>1. TypeInv
  BY MailboxAssumption DEF Init, TypeInv, TypeOK, Inside, PollerInv, WorkerTypes, Stages, Names, Busy, Waiting
<1>2. ServeInv
  BY DEF Init, ServeInv, Remembered, Kept, Holding, Busy, Waiting
<1>3. Leases \cup Counted = {}
  BY DEF Init, Leases, Counted
<1>4. CapInv
  BY <1>3, FS_EmptySet, MailboxAssumption DEF Init, CapInv
<1> QED
  BY <1>1, <1>2, <1>4 DEF MailboxInv

-----------------------------------------------------------------------------
LEMMA PublisherTypes ==
  ASSUME TypeInv, NEW n \in Publishers, PublisherStep(n) \/ NotAdmitted(n) \/ Deadline(n) \/ Killed(n)
  PROVE  TypeInv'
<1> USE MailboxAssumption DEF TypeInv, TypeOK, PollerInv, WorkerTypes, Stages, Names, Kinds, Busy, Waiting,
        Inside, Lease, Request, Response, At, Goto, pubVars, dirVars, pollVars, workVars, closeVars
<1>0. CASE OpenAdmission(n)
  BY <1>0 DEF OpenAdmission
<1>1. CASE Admission(n)
  BY <1>1 DEF Admission, AdmissionFree
<1>2. CASE CountLeases(n)
  BY <1>2 DEF CountLeases
<1>3. CASE CreateLease(n)
  BY <1>3 DEF CreateLease
<1>4. CASE LockLease(n)
  BY <1>4 DEF LockLease
<1>5. CASE WriteRequest(n)
  BY <1>5 DEF WriteRequest
<1>6. CASE LeaveAdmission(n)
  BY <1>6 DEF LeaveAdmission
<1>7. CASE ReadResponse(n)
  BY <1>7 DEF ReadResponse
<1>8. CASE CheckRequest(n)
  BY <1>8 DEF CheckRequest
<1>9. CASE CleanUp(n)
  BY <1>9 DEF CleanUp, WithoutFrames, FilesOf
<1>10. CASE NotAdmitted(n)
  BY <1>10 DEF NotAdmitted
<1>11. CASE Deadline(n)
  BY <1>11 DEF Deadline
<1>12. CASE Killed(n)
  BY <1>12 DEF Killed
<1> QED
  BY <1>0, <1>1, <1>2, <1>3, <1>4, <1>5, <1>6, <1>7, <1>8, <1>9, <1>10, <1>11, <1>12 DEF PublisherStep

LEMMA PollerTypes ==
  ASSUME TypeInv, PollStep
  PROVE  TypeInv'
<1> USE MailboxAssumption DEF TypeInv, TypeOK, PollerInv, WorkerTypes, Stages, Names, Kinds, Busy, Waiting,
        Inside, Lease, Request, Response, PollAt, PollGoto, Skip, pubVars, dirVars, pollVars, workVars, closeVars
<1>1. CASE PollRound
  BY <1>1 DEF PollRound, Sweep
<1>2. CASE PollList
  <2>1. \A f \in files : Entry(f[1]) \in Publishers \X {"request", "other"}
    BY DEF Entry
  <2>2. todo' = {Entry(f[1]) : f \in files} /\ UNCHANGED <<pubVars, dirVars, leaseLock, poller, cur, workVars, closeVars>>
    BY <1>2 DEF PollList
  <2>3. todo' \subseteq Publishers \X {"request", "other"}
    BY <2>1, <2>2
  <2> QED
    BY <2>2, <2>3
<1>3. CASE PollNext
  <2>1. PICK f \in IF Unread THEN Sweeping ELSE todo :
          /\ todo' = todo \ {f}
          /\ \/ UNCHANGED <<poller, cur>>
             \/ /\ cur' = [nonce |-> f[1], kind |-> f[2], done |-> f[1] \in completed]
                /\ PollGoto("probe")
    BY <1>3 DEF PollNext
  <2>2. f \in Publishers \X {"sweep", "request", "other"}
    BY DEF Unread, Sweeping
  <2>3. [nonce |-> f[1], kind |-> f[2], done |-> f[1] \in completed]
          \in [nonce : Publishers, kind : {"sweep", "request", "other"}, done : BOOLEAN]
    BY <2>2
  <2>4. UNCHANGED <<pubVars, dirVars, leaseLock, workVars, closeVars>> /\ poller = "next"
    BY <1>3 DEF PollNext
  <2>5. PollerInv'
    BY <2>1, <2>3, <2>4
  <2>6. TypeOK' /\ WorkerTypes'
    BY <2>4
  <2> QED
    BY <2>5, <2>6
<1>4. CASE PollEnd
  BY <1>4 DEF PollEnd
<1>5. CASE PollProbe
  BY <1>5 DEF PollProbe
<1>6. CASE PollRelease
  BY <1>6 DEF PollRelease
<1>7. CASE PollSpare \/ PollDoom \/ PollPass
  BY <1>7 DEF PollSpare, PollDoom, PollPass
<1>8. CASE PollCollect
  BY <1>8 DEF PollCollect, FilesOf
<1>9. CASE PollRefuse
  BY <1>9 DEF PollRefuse, WithoutFrames
<1>10. CASE PollSpawn
  BY <1>10 DEF PollSpawn, SlotFor
<1> QED
  BY <1>1, <1>2, <1>3, <1>4, <1>5, <1>6, <1>7, <1>8, <1>9, <1>10 DEF PollStep

(* The steps of Listener.close.                                            *)
CloseMoves == Close \/ CloseLists \/ CloseUnlinks \/ CloseRemoves

LEMMA ServerTypes ==
  ASSUME TypeInv,
         (\E n \in Publishers : WorkerStep(n)) \/ CloseMoves \/ WatcherKilled \/ UNCHANGED vars
  PROVE  TypeInv'
<1> USE MailboxAssumption DEF TypeInv, TypeOK, PollerInv, WorkerTypes, Stages, Names, Kinds, Busy, Waiting,
        Inside, Lease, Request, Response, WorkerAt, WorkerGoto, pubVars, dirVars, pollVars, workVars, closeVars
<1>1. ASSUME NEW n \in Publishers, WorkerStart(n) \/ WorkerReplies(n)
      PROVE  TypeInv'
  BY <1>1 DEF WorkerStart, WorkerReplies
<1>2. ASSUME NEW n \in Publishers, WorkerSends(n)
      PROVE  TypeInv'
  <2>1. \/ files' = files \cup {Response(n)} /\ delivered' = [delivered EXCEPT ![n] = TRUE]
        \/ UNCHANGED <<files, delivered>>
    BY <1>2 DEF WorkerSends
  <2>3. files' \subseteq Names
    BY <2>1
  <2>4. delivered' \in [Publishers -> BOOLEAN]
    <3>1. delivered \in [Publishers -> BOOLEAN] /\ TRUE \in BOOLEAN
      OBVIOUS
    <3>2. [delivered EXCEPT ![n] = TRUE] \in [Publishers -> BOOLEAN]
      BY ONLY <3>1, n \in Publishers, Zenon
    <3> QED
      BY <2>1, <3>1, <3>2
  <2>2. worker' = [worker EXCEPT ![n] = "finish"]
          /\ UNCHANGED <<pubVars, gone, leaseLock, pollVars, active, completed, slot, seen, spawned, closeVars>>
    BY <1>2 DEF WorkerSends
  <2>5. TypeOK'
    <3>1. UNCHANGED <<pub, opened, leaseLock, active, completed, seen, slot, gone, closed, closer, door>>
      BY <2>2
    <3> QED
      BY <2>3, <2>4, <3>1
  <2>6. PollerInv' /\ WorkerTypes'
    BY <2>2
  <2> QED
    BY <2>5, <2>6
<1>3. ASSUME NEW n \in Publishers, WorkerFinish(n)
      PROVE  TypeInv'
  BY <1>3 DEF WorkerFinish, KeptOnFinish, FilesOf
<1>4. ASSUME NEW n \in Publishers, WorkerForget(n) \/ WorkerRelease(n)
      PROVE  TypeInv'
  BY <1>4 DEF WorkerForget, WorkerRelease, CompletedWith
<1>5. CASE Close
  BY <1>5 DEF Close
<1>8. CASE CloseLists
  BY <1>8 DEF CloseLists
<1>9. CASE CloseUnlinks
  BY <1>9 DEF CloseUnlinks
<1>10. CASE CloseRemoves
  <2>1. gone' \in BOOLEAN
    BY <1>10, Zenon DEF CloseRemoves
  <2>2. UNCHANGED <<pubVars, files, leaseLock, pollVars, workVars, closed, door>>
        /\ closer = "unlinking" /\ closer' = "done"
    BY <1>10, Zenon DEF CloseRemoves
  <2> QED
    BY <2>1, <2>2
<1>6. CASE WatcherKilled
  BY <1>6 DEF WatcherKilled
<1>7. CASE UNCHANGED vars
  BY <1>7 DEF vars
<1> QED
  BY <1>1, <1>2, <1>3, <1>4, <1>5, <1>6, <1>7, <1>8, <1>9, <1>10 DEF WorkerStep, CloseMoves

(* The parts of the next-state relation.                                   *)
PublisherMoves(n) == PublisherStep(n) \/ NotAdmitted(n) \/ Deadline(n) \/ Killed(n)

ServerMoves ==
  (\E n \in Publishers : WorkerStep(n)) \/ CloseMoves \/ WatcherKilled \/ UNCHANGED vars

LEMMA NextSplits == [Next]_vars => (\E n \in Publishers : PublisherMoves(n)) \/ PollStep \/ ServerMoves
BY DEF Next, PublisherMoves, ServerMoves, CloseMoves, Ended

LEMMA TypesStay == TypeInv /\ [Next]_vars => TypeInv'
BY NextSplits, PublisherTypes, PollerTypes, ServerTypes DEF PublisherMoves, ServerMoves

-----------------------------------------------------------------------------
(* The cap on leases.                                                      *)

LEMMA Finite ==
  ASSUME NEW S \in SUBSET Publishers
  PROVE  IsFiniteSet(S) /\ Cardinality(S) \in Nat
BY FS_Subset, FS_CardinalityType, MailboxAssumption

LEMMA OneMore ==
  ASSUME NEW S, NEW x, IsFiniteSet(S)
  PROVE  /\ IsFiniteSet(S \cup {x}) /\ Cardinality(S \cup {x}) \in Nat
         /\ Cardinality(S \cup {x}) <= Cardinality(S) + 1
<1>1. /\ IsFiniteSet(S \cup {x})
      /\ x \in S => Cardinality(S \cup {x}) = Cardinality(S)
      /\ x \notin S => Cardinality(S \cup {x}) = Cardinality(S) + 1
  BY FS_AddElement
<1>2. Cardinality(S) \in Nat
  BY FS_CardinalityType
<1> QED
  BY <1>1, <1>2

(* A step that neither counts nor creates leaves the room there is.        *)
LEMMA FewerKeepCap ==
  ASSUME TypeInv, CapInv, Leases' \cup Counted' \subseteq Leases \cup Counted, door' \in {door, 1}
  PROVE  CapInv'
<1>1. Leases \cup Counted \in SUBSET Publishers /\ Leases' \cup Counted' \in SUBSET (Leases \cup Counted)
  BY DEF Leases, Counted
<1>2. Leases' \cup Counted' \in SUBSET Publishers
  BY <1>1
<1>3. /\ IsFiniteSet(Leases \cup Counted) /\ Cardinality(Leases \cup Counted) \in Nat
      /\ Cardinality(Leases' \cup Counted') \in Nat
  BY <1>1, <1>2, Finite
<1>4. Cardinality(Leases' \cup Counted') <= Cardinality(Leases \cup Counted)
  BY <1>1, <1>3, FS_Subset
<1>5. door \in {0, 1} /\ door' >= door
  BY DEF TypeInv, TypeOK
<1> QED
  BY <1>3, <1>4, <1>5, MailboxAssumption DEF CapInv

(* Who counts is alone inside, or one of two once there are two files.     *)
LEMMA CountingKeepsCap ==
  ASSUME TypeInv, CapInv, NEW n \in Publishers, CountLeases(n)
  PROVE  CapInv'
<1>1. Leases' = Leases /\ door' = door /\ door \in {0, 1} /\ pub[n] = "admitted"
  BY DEF CountLeases, At, Leases, dirVars, closeVars, TypeInv, TypeOK
<1>2. \A m \in Publishers \ {n} : pub'[m] = pub[m]
  BY DEF CountLeases, Goto, TypeInv, TypeOK
<1>3. CASE pub'[n] # "counted"
  <2>1. Counted' \subseteq Counted
    BY <1>2, <1>3 DEF Counted
  <2> QED
    BY <1>1, <2>1, FewerKeepCap
<1>4. CASE pub'[n] = "counted"
  <2>1. Cardinality(Leases) < MAX_PENDING
    BY <1>4 DEF CountLeases, Goto, TypeInv, TypeOK
  <2>2. n \notin Counted /\ Counted' \subseteq Counted \cup {n}
    BY <1>1, <1>2, <1>4 DEF Counted
  <2>3. Leases \in SUBSET Publishers /\ IsFiniteSet(Leases) /\ Cardinality(Leases) \in Nat
    BY Finite DEF Leases
  <2>4. CASE Counted = {}
    <3>1. Leases' \cup Counted' \in SUBSET (Leases \cup {n}) /\ Leases' \cup Counted' \in SUBSET Publishers
      BY <1>1, <2>2, <2>4 DEF Leases, Counted
    <3>2. /\ IsFiniteSet(Leases \cup {n}) /\ Cardinality(Leases \cup {n}) \in Nat
          /\ Cardinality(Leases \cup {n}) <= Cardinality(Leases) + 1
      BY <2>3, OneMore
    <3>3. Cardinality(Leases' \cup Counted') <= Cardinality(Leases \cup {n})
      BY <3>1, <3>2, FS_Subset
    <3>4. Cardinality(Leases' \cup Counted') \in Nat
      BY <3>1, Finite
    <3> QED
      BY <1>1, <2>1, <2>3, <3>2, <3>3, <3>4, MailboxAssumption DEF CapInv
  <2>5. ASSUME NEW m \in Counted
        PROVE  CapInv'
    <3>1. m \in Publishers /\ m # n /\ m \in Inside /\ n \in Inside
      BY <1>1, <2>2, <2>5 DEF Counted, Inside
    <3>2. /\ opened[m] # opened[n]
          /\ opened[m] \in 0..door /\ opened[n] \in 0..door
      BY <3>1 DEF TypeInv, TypeOK
    <3>3. door = 1
      BY <1>1, <3>2
    <3>4. Counted \subseteq {m}
      <4> SUFFICES ASSUME NEW k \in Counted
                   PROVE  k = m
        OBVIOUS
      <4>1. k \in Publishers /\ k \in Inside /\ k # n
        BY <1>1, <2>2 DEF Counted, Inside
      <4>2. opened[k] # opened[n] /\ opened[k] \in 0..door
        BY <3>1, <4>1 DEF TypeInv, TypeOK
      <4>3. opened[k] = opened[m]
        BY <3>2, <3>3, <4>2
      <4> QED
        BY <3>1, <4>1, <4>3 DEF TypeInv, TypeOK
    <3>5. Leases' \cup Counted' \in SUBSET ((Leases \cup {m}) \cup {n}) /\ Leases' \cup Counted' \in SUBSET Publishers
      BY <1>1, <2>2, <3>4 DEF Leases, Counted
    <3>6. IsFiniteSet(Leases \cup {m}) /\ Cardinality(Leases \cup {m}) \in Nat
          /\ Cardinality(Leases \cup {m}) <= Cardinality(Leases) + 1
      BY <2>3, OneMore
    <3>7. /\ IsFiniteSet((Leases \cup {m}) \cup {n}) /\ Cardinality((Leases \cup {m}) \cup {n}) \in Nat
          /\ Cardinality((Leases \cup {m}) \cup {n}) <= Cardinality(Leases \cup {m}) + 1
      BY <3>6, OneMore
    <3>8. Cardinality(Leases' \cup Counted') <= Cardinality((Leases \cup {m}) \cup {n})
      BY <3>5, <3>7, FS_Subset
    <3>9. Cardinality(Leases' \cup Counted') \in Nat
      BY <3>5, Finite
    <3> QED
      BY <1>1, <2>1, <2>3, <3>3, <3>6, <3>7, <3>8, <3>9, MailboxAssumption DEF CapInv
  <2> QED
    BY <2>4, <2>5
<1> QED
  BY <1>3, <1>4

LEMMA CapStays ==
  ASSUME TypeInv, CapInv, [Next]_vars
  PROVE  CapInv'
<1> DEFINE Keeps == Leases' \cup Counted' \subseteq Leases \cup Counted /\ door' \in {door, 1}
<1>0. pub \in [Publishers -> Stages]
  BY DEF TypeInv, TypeOK
<1>2. ASSUME NEW n \in Publishers, PublisherMoves(n), ~CountLeases(n)
      PROVE  Keeps
  <2> USE <1>0, <1>2 DEF Goto, Leases, Counted, Lease, Request, dirVars, closeVars, At
  <2>1. CASE OpenAdmission(n) \/ Admission(n)
    BY <2>1 DEF OpenAdmission, Admission
  <2>8. CASE CreateLease(n)
    BY <2>8 DEF CreateLease
  <2>2. CASE LockLease(n)
    BY <2>2 DEF LockLease
  <2>3. CASE WriteRequest(n)
    BY <2>3 DEF WriteRequest
  <2>4. CASE LeaveAdmission(n) \/ ReadResponse(n) \/ CheckRequest(n)
    BY <2>4 DEF LeaveAdmission, ReadResponse, CheckRequest
  <2>5. CASE CleanUp(n)
    BY <2>5 DEF CleanUp, WithoutFrames, FilesOf
  <2>6. CASE NotAdmitted(n) \/ Deadline(n)
    BY <2>6 DEF NotAdmitted, Deadline
  <2>7. CASE Killed(n)
    BY <2>7 DEF Killed
  <2> QED
    BY <2>1, <2>2, <2>3, <2>4, <2>5, <2>6, <2>7, <2>8 DEF PublisherMoves, PublisherStep
<1>3. ASSUME PollStep
      PROVE  Keeps
  BY <1>3 DEF PollStep, PollRound, PollList, PollNext, PollEnd, PollProbe, PollRelease, PollSpare,
     PollDoom, PollCollect, PollPass, PollRefuse, PollSpawn, WithoutFrames, Leases, Counted, Lease, pubVars,
     dirVars, closeVars
<1>4. ASSUME ServerMoves
      PROVE  Keeps
  BY <1>4 DEF ServerMoves, CloseMoves, WorkerStep, WorkerStart, WorkerReplies, WorkerSends, WorkerFinish,
     KeptOnFinish, FilesOf, WorkerForget, WorkerRelease, Close, CloseLists, CloseUnlinks, CloseRemoves,
     WatcherKilled, vars, Leases, Counted, Lease, Response, pubVars, dirVars, closeVars
<1> QED
  BY <1>2, <1>3, <1>4, NextSplits, CountingKeepsCap, FewerKeepCap

-----------------------------------------------------------------------------
(* One worker per request, and its answer stays.                           *)

(* A step of a publisher: it touches its own files and stage only.         *)
LEMMA PublisherServes ==
  ASSUME TypeInv, ServeInv, NEW n \in Publishers, PublisherMoves(n)
  PROVE  ServeInv'
<1> USE DEF TypeInv, TypeOK, PollerInv, WorkerTypes, ServeInv, Remembered, Kept, AtHand, Holding, Wanted, Past,
        Busy, Waiting, Stages, Lease, Request, Response, At, Goto, pubVars, dirVars, pollVars, workVars, closeVars
<1>1. CASE OpenAdmission(n) \/ Admission(n) \/ CountLeases(n) \/ LockLease(n)
  BY <1>1 DEF OpenAdmission, Admission, CountLeases, LockLease
<1>2. CASE CreateLease(n)
  BY <1>2 DEF CreateLease
<1>3. CASE WriteRequest(n)
  <2>1. spawned[n] # 1 /\ ~Holding(n) /\ n \notin active /\ ~delivered[n]
    BY <1>3 DEF WriteRequest
  <2>2. /\ files' \subseteq files \cup {Request(n)} /\ files \subseteq files'
        /\ pub'[n] \in {"written", "cleanup"} /\ (pub'[n] = "cleanup" => files' = files)
        /\ \A m \in Publishers \ {n} : pub'[m] = pub[m]
        /\ UNCHANGED <<pollVars, workVars, closeVars>>
    BY <1>3 DEF WriteRequest
  <2>6. \A m \in Publishers : m # n => (Request(m) \in files' <=> Request(m) \in files)
    BY <2>2
  <2>3. \A m \in Publishers : Remembered(m)'
    <3> SUFFICES ASSUME NEW m \in Publishers
                 PROVE  Remembered(m)'
      OBVIOUS
    <3>1. CASE m = n
      BY <2>1, <2>2, <3>1
    <3>2. CASE m # n
      BY <2>2, <2>6, <3>2
    <3> QED
      BY <3>1, <3>2
  <2>4. \A m \in Publishers : Kept(m)'
    BY <2>1, <2>2
  <2>5. poller \in Busy => AtHand'
    <3> SUFFICES ASSUME poller \in Busy
                 PROVE  AtHand'
      OBVIOUS
    <3>1. CASE cur.nonce = n
      <4>1. poller = "alive" /\ ~closed => Lease(n) \in files
        BY <1>3, <3>1 DEF WriteRequest
      <4> QED
        BY <2>1, <2>2, <3>1, <4>1
    <3>2. CASE cur.nonce # n
      BY <2>2, <2>6, <3>2
    <3> QED
      BY <3>1, <3>2
  <2> QED
    BY <2>2, <2>3, <2>4, <2>5
<1>4. CASE LeaveAdmission(n) \/ ReadResponse(n) \/ CheckRequest(n)
  BY <1>4 DEF LeaveAdmission, ReadResponse, CheckRequest
<1>5. CASE CleanUp(n)
  BY <1>5 DEF CleanUp, WithoutFrames, FilesOf
<1>6. CASE NotAdmitted(n) \/ Deadline(n) \/ Killed(n)
  BY <1>6 DEF NotAdmitted, Deadline, Killed
<1> QED
  BY <1>1, <1>2, <1>3, <1>4, <1>5, <1>6 DEF PublisherMoves, PublisherStep

LEMMA PollerServes ==
  ASSUME TypeInv, ServeInv, PollStep
  PROVE  ServeInv'
<1> USE DEF TypeInv, TypeOK, PollerInv, WorkerTypes, ServeInv, Remembered, Kept, AtHand, Holding, Wanted, Past,
        Busy, Waiting, Lease, Request, Response, PollAt, PollGoto, Skip, pubVars, dirVars, pollVars, workVars, closeVars
<1>1. CASE PollRound \/ PollList \/ PollEnd
  BY <1>1 DEF PollRound, PollList, PollEnd
<1>2. CASE PollNext
  <2>1. PICK f \in IF Unread THEN Sweeping ELSE todo :
          \/ UNCHANGED <<poller, cur>>
          \/ /\ f[2] = "sweep" \/ f[1] \notin active
             /\ cur' = [nonce |-> f[1], kind |-> f[2], done |-> f[1] \in completed]
             /\ poller' = "probe"
    BY <1>2 DEF PollNext
  <2>2. f \in Publishers \X {"sweep", "request", "other"}
    BY DEF Unread, Sweeping
  <2>3. UNCHANGED <<pubVars, dirVars, workVars, closeVars>> /\ poller = "next"
    BY <1>2 DEF PollNext
  <2>4. CASE UNCHANGED <<poller, cur>>
    BY <2>3, <2>4
  <2>5. ASSUME f[2] = "sweep" \/ f[1] \notin active, poller' = "probe",
               cur' = [nonce |-> f[1], kind |-> f[2], done |-> f[1] \in completed]
        PROVE  AtHand'
    <3>1. cur'.nonce = f[1] /\ cur'.kind = f[2] /\ (cur'.done <=> f[1] \in completed) /\ f[1] \in Publishers
      BY <2>2, <2>5
    <3> QED
      BY <2>3, <2>5, <3>1
  <2>6. \A n \in Publishers : Remembered(n)' /\ Kept(n)'
    BY <2>3
  <2> QED
    BY <2>1, <2>4, <2>5, <2>6
<1>3. CASE PollProbe
  <2>1. /\ UNCHANGED <<pubVars, dirVars, cur, workVars, closeVars>> /\ poller = "probe"
        /\ \/ Lease(cur.nonce) \notin files /\ poller' = "doubt"
           \/ Lease(cur.nonce) \in files /\ poller' = "alive"
           \/ leaseLock[cur.nonce] = None /\ poller' = "probing"
    BY <1>3 DEF PollProbe, LeaseAlive
  <2>2. cur.nonce \in Publishers /\ AtHand
    BY <2>1
  <2>3. leaseLock[cur.nonce] = None => ~Holding(cur.nonce)
    BY <2>2, MailboxAssumption
  <2>4. AtHand'
    BY <2>1, <2>2, <2>3
  <2> QED
    BY <2>1, <2>4
<1>4. CASE PollRelease \/ PollDoom
  BY <1>4 DEF PollRelease, PollDoom
<1>5. CASE PollSpare \/ PollPass
  BY <1>5 DEF PollSpare, PollPass
<1>6. CASE PollCollect
  BY <1>6 DEF PollCollect, FilesOf
<1>7. CASE PollRefuse
  BY <1>7 DEF PollRefuse, WithoutFrames
<1>8. CASE PollSpawn
  BY <1>8 DEF PollSpawn
<1> QED
  BY <1>1, <1>2, <1>3, <1>4, <1>5, <1>6, <1>7, <1>8 DEF PollStep

LEMMA ServerServes ==
  ASSUME TypeInv, ServeInv, ServerMoves
  PROVE  ServeInv'
<1> USE DEF TypeInv, TypeOK, PollerInv, WorkerTypes, ServeInv, Remembered, Kept, AtHand, Holding, Wanted, Past,
        Busy, Waiting, Lease, Request, Response, WorkerAt, WorkerGoto, pubVars, dirVars, pollVars, workVars, closeVars
<1>1. ASSUME NEW n \in Publishers, WorkerStart(n) \/ WorkerReplies(n)
      PROVE  ServeInv'
  BY <1>1 DEF WorkerStart, WorkerReplies
<1>2. ASSUME NEW n \in Publishers, WorkerSends(n)
      PROVE  ServeInv'
  <2>1. /\ UNCHANGED <<pubVars, gone, pollVars, active, completed, spawned, closeVars>>
        /\ worker' = [worker EXCEPT ![n] = "finish"] /\ worker[n] = "send"
        /\ \/ files' = files \cup {Response(n)} /\ delivered' = [delivered EXCEPT ![n] = TRUE]
           \/ UNCHANGED <<files, delivered>>
    BY <1>2 DEF WorkerSends
  <2>2. n \in active /\ spawned[n] = 1
    BY <2>1
  <2>3. /\ \A m \in Publishers \ {n} : delivered'[m] = delivered[m] /\ worker'[m] = worker[m]
        /\ worker'[n] = "finish"
        /\ (delivered'[n] => delivered[n] \/ Response(n) \in files')
        /\ files \subseteq files'
        /\ \A m \in Publishers : Request(m) \in files' <=> Request(m) \in files
    BY <2>1
  <2>4. ASSUME NEW m \in Publishers
        PROVE  Remembered(m)' /\ Kept(m)'
    <3>1. CASE m = n
      <4>1. Remembered(n) /\ Kept(n)
        OBVIOUS
      <4>2. Remembered(n)'
        BY <2>1, <2>2, <2>3, <4>1
      <4>3. Kept(n)'
        BY <2>1, <2>2, <2>3, <4>1
      <4> QED
        BY <3>1, <4>2, <4>3
    <3>2. CASE m # n
      BY <2>1, <2>3, <3>2
    <3> QED
      BY <3>1, <3>2
  <2>6. poller \in Busy => AtHand'
    BY <2>1, <2>2, <2>3
  <2> QED
    BY <2>1, <2>4, <2>6
<1>3. ASSUME NEW n \in Publishers, WorkerFinish(n)
      PROVE  ServeInv'
  BY <1>3 DEF WorkerFinish, KeptOnFinish, FilesOf
<1>4. ASSUME NEW n \in Publishers, WorkerForget(n)
      PROVE  ServeInv'
  BY <1>4 DEF WorkerForget, CompletedWith
<1>5. ASSUME NEW n \in Publishers, WorkerRelease(n)
      PROVE  ServeInv'
  BY <1>5 DEF WorkerRelease
<1>6. CASE Close
  BY <1>6 DEF Close
<1>7. CASE CloseLists
  BY <1>7 DEF CloseLists
<1>11. CASE CloseUnlinks
  <2>1. UNCHANGED <<pubVars, pollVars, workVars, closed>> /\ files' \subseteq files /\ closer = "unlinking"
    BY <1>11 DEF CloseUnlinks
  <2> QED
    BY <2>1
<1>10. CASE CloseRemoves
  <2>1. UNCHANGED <<pubVars, files, leaseLock, pollVars, workVars, closed, door>>
    BY <1>10, Zenon DEF CloseRemoves
  <2> QED
    BY <2>1
<1>8. CASE WatcherKilled
  BY <1>8 DEF WatcherKilled
<1>9. CASE UNCHANGED vars
  BY <1>9 DEF vars
<1> QED
  BY <1>1, <1>2, <1>3, <1>4, <1>5, <1>6, <1>7, <1>8, <1>9, <1>10, <1>11 DEF ServerMoves, CloseMoves, WorkerStep

LEMMA MailboxStays == MailboxInv /\ [Next]_vars => MailboxInv'
<1> SUFFICES ASSUME MailboxInv, [Next]_vars
             PROVE  MailboxInv'
  OBVIOUS
<1>1. TypeInv /\ CapInv /\ ServeInv
  BY DEF MailboxInv
<1>2. TypeInv' /\ CapInv'
  BY <1>1, TypesStay, CapStays
<1>3. ServeInv'
  BY <1>1, NextSplits, PublisherServes, PollerServes, ServerServes
<1> QED
  BY <1>2, <1>3 DEF MailboxInv

LEMMA MailboxHolds == Spec => []MailboxInv
BY MailboxStarts, MailboxStays, PTL DEF Spec

(* The mailbox keeps its types and the discipline of its locks.            *)
THEOREM MailboxTypes == Spec => []TypeOK
<1>1. MailboxInv => TypeOK
  BY DEF MailboxInv, TypeInv
<1> QED
  BY <1>1, MailboxHolds, PTL

(* However many publishers race and wherever they are killed, the leases   *)
(* never exceed MAX_PENDING until close unlinks admission.lock, and exceed *)
(* it by one at most afterwards (mailbox.py:131-149, 309-311).             *)
THEOREM LeasesStayWithinCap == Spec => []PendingWithinCap
<1>1. ASSUME MailboxInv
      PROVE  PendingWithinCap
  <2>1. Leases \in SUBSET (Leases \cup Counted) /\ Leases \cup Counted \in SUBSET Publishers
    BY DEF Leases, Counted
  <2>2. /\ IsFiniteSet(Leases \cup Counted) /\ Cardinality(Leases \cup Counted) \in Nat
        /\ Cardinality(Leases) \in Nat
    BY <2>1, Finite
  <2>3. Cardinality(Leases) <= Cardinality(Leases \cup Counted)
    BY <2>1, <2>2, FS_Subset
  <2>4. door \in Nat
    BY <1>1 DEF MailboxInv, TypeInv, TypeOK
  <2> QED
    BY <1>1, <2>2, <2>3, <2>4, MailboxAssumption DEF MailboxInv, CapInv, PendingWithinCap
<1> QED
  BY <1>1, MailboxHolds, PTL

(* No request gets a second worker, whatever the poller reads while the    *)
(* first one works, ends or leaves its answer (mailbox.py:220-291).        *)
THEOREM RequestsAreServedOnce == Spec => []SpawnedOnce
<1>1. MailboxInv => SpawnedOnce
  BY DEF MailboxInv, ServeInv, Remembered, SpawnedOnce
<1> QED
  BY <1>1, MailboxHolds, PTL

(* An answer that was delivered stays until its publisher has read it: no  *)
(* sweep, refusal or end of a worker takes it (mailbox.py:205-291).        *)
THEOREM AnswersStay == Spec => []DeliveredStaysReadable
<1>1. MailboxInv => DeliveredStaysReadable
  BY DEF MailboxInv, ServeInv, Kept, Holding, DeliveredStaysReadable
<1> QED
  BY <1>1, MailboxHolds, PTL
=============================================================================
