-------------------------- MODULE RequestPathProofs --------------------------
(***************************************************************************)
(* Proofs about Endpoint and RequestPath, for every number of watchers,    *)
(* hooks and kills and every set of verdicts: the endpoint file names the  *)
(* running watcher, a frame is handled once, what the host reads was       *)
(* routine or decided, and the receipt tells the truth about it.           *)
(***************************************************************************)
EXTENDS RequestPath, FiniteSetTheorems, TLAPS

-----------------------------------------------------------------------------
(* The endpoint file.                                                      *)

(* Whoever is between start and the end of close holds the lock.           *)
OwnerHoldsLock == \A s \in Servers : phase[s] \in Owning => lock = s

EndpointInv == EndpointTypeOK /\ OwnerHoldsLock /\ EndpointNamesTheOwner

LEMMA EndpointStarts == EndpointInit => EndpointInv
BY ServersAssumption DEF EndpointInit, EndpointInv, EndpointTypeOK, OwnerHoldsLock,
   EndpointNamesTheOwner, Owning, Phases

LEMMA EndpointStays == EndpointInv /\ [EndpointNext]_endpointVars => EndpointInv'
<1> SUFFICES ASSUME EndpointInv, [EndpointNext]_endpointVars
             PROVE  EndpointInv'
  OBVIOUS
<1> USE ServersAssumption DEF EndpointInv, EndpointTypeOK, OwnerHoldsLock,
        EndpointNamesTheOwner, Owning, Phases, Enter
<1>1. ASSUME NEW s \in Servers, TakeLock(s)
      PROVE  EndpointInv'
  BY <1>1 DEF TakeLock
<1>2. ASSUME NEW s \in Servers, Listen(s)
      PROVE  EndpointInv'
  BY <1>2 DEF Listen
<1>3. ASSUME NEW s \in Servers, Publish(s)
      PROVE  EndpointInv'
  BY <1>3 DEF Publish
<1>4. ASSUME NEW s \in Servers, FailStart(s)
      PROVE  EndpointInv'
  BY <1>4 DEF FailStart
<1>5. ASSUME NEW s \in Servers, BeginClose(s)
      PROVE  EndpointInv'
  BY <1>5 DEF BeginClose
<1>6. ASSUME NEW s \in Servers, RemoveEndpoint(s)
      PROVE  EndpointInv'
  BY <1>6 DEF RemoveEndpoint
<1>7. ASSUME NEW s \in Servers, Unlock(s)
      PROVE  EndpointInv'
  BY <1>7 DEF Unlock
<1>8. ASSUME NEW s \in Servers, Crash(s)
      PROVE  EndpointInv'
  BY <1>8 DEF Crash
<1>9. CASE UNCHANGED endpointVars
  BY <1>9 DEF endpointVars
<1> QED
  BY <1>1, <1>2, <1>3, <1>4, <1>5, <1>6, <1>7, <1>8, <1>9 DEF EndpointNext, ServerStep

(* The endpoint file names the running watcher, however watchers start,    *)
(* give up, close and die.                                                 *)
THEOREM EndpointIsTheOwners == EndpointSpec => []EndpointNamesTheOwner
<1>1. EndpointInv => EndpointNamesTheOwner
  BY DEF EndpointInv
<1> QED
  BY <1>1, EndpointStarts, EndpointStays, PTL DEF EndpointSpec

-----------------------------------------------------------------------------
(* The request path uses its watchers only as Endpoint allows.             *)

(* The steps of Next by what they leave alone.                             *)
HookStep(h) ==
  \/ ReadRequest(h) \/ RecordRequest(h) \/ ReadEndpoint(h) \/ SendByTcp(h)
  \/ CannotConnect(h) \/ Receive(h) \/ GiveUp(h) \/ RecordDecision(h)
  \/ PrintDecision(h) \/ KillHook(h) \/ DeliverAgain(h)

CopyStep(c) ==
  \/ Admit(c) \/ Drop(c) \/ RecordReview(c) \/ Decide(c) \/ ChooseGrant(c)
  \/ RecordGrant(c) \/ Commit(c) \/ Send(c) \/ SendGrant(c)

LEMMA HookKeepsServers == \A h \in Hooks : HookStep(h) => UNCHANGED endpointVars
BY DEF HookStep, ReadRequest, RecordRequest, ReadEndpoint, SendByTcp, CannotConnect, Receive,
       GiveUp, RecordDecision, PrintDecision, KillHook, DeliverAgain

LEMMA CopyKeepsServers ==
  \A c \in Copies : CopyStep(c) => UNCHANGED <<endpointVars, scenario, hookVars>>
BY DEF CopyStep, Admit, Drop, RecordReview, Decide, ChooseGrant, RecordGrant, Commit, Send,
       SendGrant

(* Who takes part in a scenario is declared.                               *)
Cast == scenario \in Scenarios

LEMMA CastIsDeclared ==
  ASSUME Cast
  PROVE  scenario.hooks \subseteq Hooks /\ scenario.servers \subseteq Servers
BY HooksAssumption DEF Cast

LEMMA NextCast == Cast /\ [Next]_vars => Cast'
<1> SUFFICES ASSUME Cast, [Next]_vars
             PROVE  UNCHANGED scenario
  BY DEF Cast
<1>1. ASSUME NEW h \in Hooks, HookStep(h)
      PROVE  UNCHANGED scenario
  BY <1>1 DEF HookStep, ReadRequest, RecordRequest, ReadEndpoint, SendByTcp, CannotConnect,
     Receive, GiveUp, RecordDecision, PrintDecision, KillHook, DeliverAgain
<1> QED
  BY <1>1, CastIsDeclared, CopyKeepsServers DEF Next, HookStep, CopyStep, Quiet, vars

LEMMA StepIsAServers == Cast /\ [Next]_vars => [EndpointNext]_endpointVars
<1> SUFFICES ASSUME Cast, [Next]_vars
             PROVE  EndpointNext \/ UNCHANGED endpointVars
  OBVIOUS
<1>1. ASSUME NEW s \in scenario.servers, ServerStep(s)
      PROVE  EndpointNext
  BY <1>1, CastIsDeclared DEF EndpointNext
<1>2. ASSUME NEW h \in scenario.hooks, HookStep(h)
      PROVE  UNCHANGED endpointVars
  BY <1>2, CastIsDeclared, HookKeepsServers
<1>3. ASSUME NEW c \in Copies, CopyStep(c)
      PROVE  UNCHANGED endpointVars
  BY <1>3, CopyKeepsServers
<1> QED
  BY <1>1, <1>2, <1>3 DEF Next, HookStep, CopyStep, Quiet, vars

(* Watchers behave on the request path as they do alone.                   *)
THEOREM PathUsesEndpoint == Spec => EndpointSpec
<1>1. Init => EndpointInit /\ Cast
  BY DEF Init, Cast
<1> QED
  BY <1>1, NextCast, StepIsAServers, PTL DEF Spec, EndpointSpec

(* So the endpoint file names the running watcher on the request path too. *)
THEOREM PathEndpointIsTheOwners == Spec => []EndpointNamesTheOwner
BY PathUsesEndpoint, EndpointIsTheOwners, PTL

-----------------------------------------------------------------------------
(* A frame is handled once.                                                *)

Unread == {"start", "judged", "exchange"}

(* A frame that exists has a server and a hook that has read its endpoint; *)
(* that server has the nonce of every frame that it handled.               *)
FramesInv ==
  /\ hook \in [Hooks -> HookStages]
  /\ target \in [Hooks -> Servers \cup {None}]
  /\ copy \in [Copies -> CopyStages]
  /\ at \in [Copies -> Servers \cup {None}]
  /\ seen \in [Servers -> SUBSET Hooks]
  /\ handled \subseteq Copies \X Servers
  /\ \A h \in Hooks : hook[h] = "connect" => target[h] \in Servers
  /\ \A c \in Copies : copy[c] # "none" => at[c] \in Servers /\ hook[HookOf(c)] \notin Unread
  /\ \A d \in handled :
       /\ HookOf(d[1]) \in seen[d[2]]
       /\ hook[HookOf(d[1])] \notin Unread

PathInv == Cast /\ EndpointTypeOK /\ FramesInv /\ HandledOnce

LEMMA PathStarts == Init => PathInv
BY ServersAssumption, EndpointStarts DEF Init, PathInv, Cast, EndpointInv, FramesInv, HandledOnce,
   HookStages, CopyStages, Copies, HookOf

(* A hook that only goes on, past its reading of the endpoint or not,      *)
(* disturbs no frame.                                                      *)
LEMMA HookGoesOn ==
  ASSUME PathInv, NEW h \in Hooks, NEW next \in HookStages \ {"connect"}, HookTo(h, next),
         hook[h] \notin Unread => next \notin Unread,
         UNCHANGED <<target, copy, at, seen, handled>>
  PROVE  FramesInv' /\ HandledOnce'
BY DEF PathInv, FramesInv, HandledOnce, HookTo, Copies, HookOf

LEMMA HookFrames ==
  ASSUME PathInv, NEW h \in Hooks, HookStep(h)
  PROVE  FramesInv' /\ HandledOnce'
<1> USE DEF HookStages, Unread
<1>1. CASE ReadRequest(h)
  BY <1>1, HookGoesOn DEF ReadRequest, copyVars
<1>2. CASE RecordRequest(h)
  BY <1>2, HookGoesOn DEF RecordRequest, copyVars
<1>3. CASE ReadEndpoint(h)
  <2>1. \A d \in handled : HookOf(d[1]) \in Hooks /\ HookOf(d[1]) # h
    BY <1>3 DEF ReadEndpoint, PathInv, FramesInv, Copies, HookOf
  <2>2. endpoint \in Servers \cup {None}
    BY DEF PathInv, EndpointTypeOK
  <2> QED
    BY <1>3, <2>1, <2>2 DEF ReadEndpoint, HookTo, PathInv, FramesInv, HandledOnce, copyVars,
       Copies, HookOf
<1>4. CASE SendByTcp(h)
  BY <1>4 DEF SendByTcp, HookTo, CopyTo, PathInv, FramesInv, HandledOnce, Copies, HookOf,
     CopyStages
<1>5. CASE CannotConnect(h)
  <2>1. CASE launched
    <3> DEFINE c == <<h, "sent">>
    <3>1. c \in Copies /\ HookOf(c) = h /\ target[h] \in Servers
      BY <1>5 DEF CannotConnect, PathInv, FramesInv, Copies, HookOf
    <3>2. /\ hook' = [hook EXCEPT ![h] = "waiting"]
          /\ copy' = [copy EXCEPT ![c] = "wire"]
          /\ at' = [at EXCEPT ![c] = target[h]]
          /\ UNCHANGED <<target, seen, handled>>
      BY <1>5, <2>1 DEF CannotConnect, HookTo, CopyTo
    <3>3. \A d \in Copies : HookOf(d) \in Hooks
      BY DEF Copies, HookOf
    <3> QED
      BY <3>1, <3>2, <3>3 DEF PathInv, FramesInv, HandledOnce, CopyStages
  <2>2. CASE ~launched
    BY <1>5, <2>2, HookGoesOn DEF CannotConnect
  <2> QED
    BY <2>1, <2>2
<1>6. CASE Receive(h) \/ GiveUp(h) \/ RecordDecision(h) \/ PrintDecision(h) \/ KillHook(h)
  BY <1>6, HookGoesOn DEF Receive, GiveUp, RecordDecision, PrintDecision, KillHook, copyVars
<1>7. CASE DeliverAgain(h)
  BY <1>7 DEF DeliverAgain, CopyTo, PathInv, FramesInv, HandledOnce, Copies, HookOf, CopyStages,
     hookVars
<1> QED
  BY <1>1, <1>2, <1>3, <1>4, <1>5, <1>6, <1>7 DEF HookStep

(* A frame that only goes on.                                              *)
LEMMA FrameGoesOn ==
  ASSUME PathInv, NEW c \in Copies, copy[c] # "none", NEW next \in CopyStages, CopyTo(c, next),
         UNCHANGED <<hook, target, at, seen, handled>>
  PROVE  FramesInv' /\ HandledOnce'
BY DEF PathInv, FramesInv, HandledOnce, CopyTo, Copies, HookOf

LEMMA CopyFrames ==
  ASSUME PathInv, NEW c \in Copies, CopyStep(c)
  PROVE  FramesInv' /\ HandledOnce'
<1> USE DEF CopyStages
<1>1. CASE Admit(c)
  <2> DEFINE h == HookOf(c)
             s == at[c]
  <2>1. h \in Hooks /\ s \in Servers /\ target[h] = s /\ h \notin seen[s]
    BY <1>1 DEF Admit, PathInv, FramesInv, Copies, HookOf
  <2>2. \A d \in handled : HookOf(d[1]) # h
    BY <2>1 DEF PathInv, FramesInv, HandledOnce
  <2>3. FramesInv'
    BY <1>1, <2>1 DEF Admit, CopyTo, PathInv, FramesInv, hookVars, Copies, HookOf
  <2>4. handled' = handled \cup {<<c, s>>} /\ target' = target
    BY <1>1 DEF Admit, hookVars
  <2> QED
    BY <2>1, <2>2, <2>3, <2>4 DEF PathInv, HandledOnce
<1>2. CASE Drop(c)
  BY <1>2, FrameGoesOn DEF Drop, hookVars
<1>3. CASE RecordReview(c)
  BY <1>3, FrameGoesOn DEF RecordReview, hookVars
<1>4. CASE Decide(c)
  BY <1>4, FrameGoesOn DEF Decide, hookVars
<1>5. CASE ChooseGrant(c)
  BY <1>5, FrameGoesOn DEF ChooseGrant, hookVars
<1>6. CASE RecordGrant(c) \/ Commit(c)
  BY <1>6, FrameGoesOn DEF RecordGrant, Commit, hookVars
<1>7. CASE Send(c)
  BY <1>7, FrameGoesOn DEF Send, hookVars
<1>8. CASE SendGrant(c)
  BY <1>8, FrameGoesOn DEF SendGrant, hookVars
<1> QED
  BY <1>1, <1>2, <1>3, <1>4, <1>5, <1>6, <1>7, <1>8 DEF CopyStep

LEMMA PathStays == PathInv /\ [EndpointNext]_endpointVars /\ EndpointTypeOK' /\ [Next]_vars => PathInv'
<1> SUFFICES ASSUME PathInv, EndpointTypeOK', [Next]_vars
             PROVE  PathInv'
  OBVIOUS
<1>1. Cast'
  BY NextCast DEF PathInv
<1>2. ASSUME UNCHANGED <<hookVars, copyVars>>
      PROVE  FramesInv' /\ HandledOnce'
  BY <1>2 DEF PathInv, FramesInv, HandledOnce, hookVars, copyVars
<1>3. ASSUME NEW h \in scenario.hooks, HookStep(h)
      PROVE  FramesInv' /\ HandledOnce'
  BY <1>3, HookFrames, CastIsDeclared DEF PathInv
<1>4. ASSUME NEW c \in Copies, CopyStep(c)
      PROVE  FramesInv' /\ HandledOnce'
  BY <1>4, CopyFrames
<1>5. FramesInv' /\ HandledOnce'
  BY <1>2, <1>3, <1>4 DEF Next, HookStep, CopyStep, Quiet, vars, PathInv
<1> QED
  BY <1>1, <1>5 DEF PathInv

LEMMA PathHolds == Spec => []PathInv
<1>1. EndpointInv => EndpointTypeOK
  BY DEF EndpointInv
<1> QED
  BY <1>1, PathStarts, PathStays, PathUsesEndpoint, EndpointStarts, EndpointStays, PTL
     DEF Spec, EndpointSpec

(* However often a frame arrives, and wherever, it is handled once, by the *)
(* watcher whose endpoint its client had read.                             *)
THEOREM FramesAreHandledOnce == Spec => []HandledOnce
<1>1. PathInv => HandledOnce
  BY DEF PathInv
<1> QED
  BY <1>1, PathHolds, PTL

-----------------------------------------------------------------------------
(* What the host reads.                                                    *)

(* What the classifier owes the path: an automatic allow is for a routine  *)
(* command that does no harm, and a hazardous one whose moves it follows   *)
(* is the host's to ask about.                                             *)
VerdictsAreSafe ==
  \A v \in Verdicts :
    v.valid => /\ v.tier = 1 => v.routine /\ ~v.hazardous
               /\ v.hazardous /\ v.followed => v.tier = 3

(* A hook settles what its tier or the watcher's decision allows, and the  *)
(* host reads what it settled.                                             *)
HookAnswers(h) ==
  /\ hook[h] \in {"start", "judged"} => settled[h] = "null"
  /\ hook[h] \in Unread \cup {"connect"} => copy[<<h, "sent">>] = "none"
  /\ hook[h] \notin {"start", "silent"} => verdict[h].valid
  /\ hook[h] \in {"exchange", "connect", "waiting"} => verdict[h].tier = 2
  /\ settled[h] # "null" => verdict[h].valid /\ verdict[h].tier # 3
  /\ settled[h] = "allow" => verdict[h].tier = 1 \/ "allow" \in decided[h]
  /\ settled[h] = "deny" => "deny" \in decided[h]
  /\ host[h] # "nothing" => hook[h] = "done" /\ host[h] = settled[h]

(* A frame belongs to a request that needs review; its answer was decided, *)
(* a new grant by the time it is sent.                                     *)
FrameAnswers(c) ==
  /\ copy[c] # "none" =>
       HookOf(c) \in scenario.hooks /\ verdict[HookOf(c)].valid /\ verdict[HookOf(c)].tier = 2
  /\ copy[c] \in {"none", "wire", "admitted", "asking"} => answer[c] = "none"
  /\ copy[c] \in {"commit", "minted", "unsent", "send"} => answer[c] = "grant"
  /\ copy[c] = "reply" => answer[c] # "grant"
  /\ answer[c] = "grant" /\ copy[c] \in {"send", "sent"} => "allow" \in decided[HookOf(c)]
  /\ answer[c] \in {"allow", "deny"} => answer[c] \in decided[HookOf(c)]

AnswerTypes ==
  /\ verdict \in [scenario.hooks -> Verdicts]
  /\ hook \in [Hooks -> HookStages]
  /\ settled \in [Hooks -> {"allow", "deny", "null"}]
  /\ host \in [Hooks -> {"nothing", "allow", "deny"}]
  /\ copy \in [Copies -> CopyStages]
  /\ answer \in [Copies -> Answers]
  /\ decided \in [Hooks -> SUBSET {"allow", "deny"}]

AnswersInv ==
  /\ Cast /\ AnswerTypes
  /\ \A h \in scenario.hooks : HookAnswers(h)
  /\ \A c \in Copies : FrameAnswers(c)

LEMMA VerdictFields ==
  ASSUME AnswersInv, NEW h \in scenario.hooks
  PROVE  verdict[h].tier \in 1..3 /\ verdict[h].valid \in BOOLEAN
BY HooksAssumption DEF AnswersInv, AnswerTypes

LEMMA AnswersStart == Init => AnswersInv
<1> SUFFICES ASSUME Init
             PROVE  AnswersInv
  OBVIOUS
<1>0. Cast /\ verdict \in [scenario.hooks -> scenario.verdicts] /\ scenario.verdicts \subseteq Verdicts
  BY HooksAssumption DEF Init, Cast
<1>1. Cast /\ verdict \in [scenario.hooks -> Verdicts]
  BY <1>0
<1>2. AnswerTypes
  BY <1>1 DEF Init, AnswerTypes, HookStages, CopyStages, Answers
<1>3. ASSUME NEW h \in scenario.hooks
      PROVE  HookAnswers(h)
  BY <1>1, CastIsDeclared DEF Init, HookAnswers, Copies, Unread
<1>4. ASSUME NEW c \in Copies
      PROVE  FrameAnswers(c)
  BY DEF Init, FrameAnswers
<1> QED
  BY <1>1, <1>2, <1>3, <1>4 DEF AnswersInv

LEMMA AnswersSuffice ==
  ASSUME VerdictsAreSafe, AnswersInv
  PROVE  OnlyRoutineOrAnswered
<1> SUFFICES ASSUME NEW h \in scenario.hooks
             PROVE  /\ host[h] = "allow" =>
                         "allow" \in decided[h] \/ (verdict[h].routine /\ ~verdict[h].hazardous)
                    /\ host[h] = "deny" => "deny" \in decided[h]
                    /\ verdict[h].hazardous /\ verdict[h].followed =>
                         /\ host[h] = "nothing"
                         /\ \A c \in Copies : HookOf(c) = h => copy[c] = "none"
  BY DEF OnlyRoutineOrAnswered
<1> DEFINE harmSeen == verdict[h].hazardous /\ verdict[h].followed
<1>1. /\ verdict[h].valid /\ verdict[h].tier = 1 => verdict[h].routine /\ ~verdict[h].hazardous
      /\ verdict[h].valid /\ harmSeen => verdict[h].tier = 3
  BY DEF VerdictsAreSafe, AnswersInv, AnswerTypes
<1>2. HookAnswers(h) /\ \A c \in Copies : FrameAnswers(c)
  BY DEF AnswersInv
<1>3. host[h] \in {"nothing", "allow", "deny"}
  BY CastIsDeclared DEF AnswersInv, AnswerTypes
<1>4. harmSeen => host[h] = "nothing"
  BY <1>1, <1>2, <1>3 DEF HookAnswers
<1>5. harmSeen => \A c \in Copies : HookOf(c) = h => copy[c] = "none"
  BY <1>1, <1>2 DEF FrameAnswers
<1>6. /\ host[h] = "allow" =>
           "allow" \in decided[h] \/ (verdict[h].routine /\ ~verdict[h].hazardous)
      /\ host[h] = "deny" => "deny" \in decided[h]
  BY <1>1, <1>2 DEF HookAnswers
<1> QED
  BY <1>4, <1>5, <1>6

(* A step that changes one hook and no frame keeps what it has to.         *)
LEMMA OneHook ==
  ASSUME AnswersInv, NEW h \in scenario.hooks,
         NEW next \in HookStages, NEW says \in {"allow", "deny", "null"},
         NEW reads \in {"nothing", "allow", "deny"},
         hook' = [hook EXCEPT ![h] = next], settled' = [settled EXCEPT ![h] = says],
         host' = [host EXCEPT ![h] = reads],
         UNCHANGED <<scenario, verdict, copy, answer, decided>>, HookAnswers(h)'
  PROVE  AnswersInv'
<1>1. h \in Hooks
  BY CastIsDeclared DEF AnswersInv
<1>2. Cast' /\ AnswerTypes'
  BY <1>1 DEF AnswersInv, Cast, AnswerTypes
<1>3. ASSUME NEW g \in scenario.hooks, g # h
      PROVE  HookAnswers(g)'
  BY <1>1, <1>3, CastIsDeclared DEF AnswersInv, AnswerTypes, HookAnswers
<1>4. ASSUME NEW c \in Copies
      PROVE  FrameAnswers(c)'
  BY <1>4 DEF AnswersInv, FrameAnswers
<1> QED
  BY <1>2, <1>3, <1>4 DEF AnswersInv

LEMMA HookKeepsAnswers ==
  ASSUME AnswersInv, NEW h \in scenario.hooks, HookStep(h)
  PROVE  AnswersInv'
<1> USE VerdictFields DEF HookStages, Unread
<1>0. h \in Hooks /\ HookAnswers(h) /\ AnswerTypes
  BY CastIsDeclared DEF AnswersInv
<1>1. CASE ReadRequest(h)
  <2>1. settled' = [settled EXCEPT ![h] = settled[h]] /\ host' = [host EXCEPT ![h] = host[h]]
    BY <1>0, <1>1 DEF ReadRequest, AnswerTypes
  <2>2. hook' = [hook EXCEPT ![h] = IF verdict[h].valid THEN "judged" ELSE "silent"]
    BY <1>1 DEF ReadRequest, HookTo
  <2>3. HookAnswers(h)'
    BY <1>0, <1>1, <2>2 DEF ReadRequest, HookAnswers, AnswerTypes, copyVars
  <2> QED
    BY <1>0, <1>1, <2>1, <2>2, <2>3, OneHook DEF ReadRequest, AnswerTypes, copyVars
<1>2. CASE RecordRequest(h)
  <2>1. PICK raises \in BOOLEAN :
          /\ hook' = [hook EXCEPT ![h] =
               IF raises THEN "silent" ELSE IF verdict[h].tier = 2 THEN "exchange" ELSE "settle"]
          /\ settled' = [settled EXCEPT ![h] =
               IF ~raises /\ verdict[h].tier = 1 THEN "allow" ELSE "null"]
    BY <1>2 DEF RecordRequest, HookTo
  <2>2. host' = [host EXCEPT ![h] = host[h]]
    BY <1>0, <1>2 DEF RecordRequest, AnswerTypes
  <2>3. HookAnswers(h)'
    BY <1>0, <1>2, <2>1 DEF RecordRequest, HookAnswers, AnswerTypes, copyVars
  <2> QED
    BY <1>0, <1>2, <2>1, <2>2, <2>3, OneHook DEF RecordRequest, AnswerTypes, copyVars
<1>3. CASE ReadEndpoint(h)
  <2>1. settled' = [settled EXCEPT ![h] = settled[h]] /\ host' = [host EXCEPT ![h] = host[h]]
    BY <1>0, <1>3 DEF ReadEndpoint, AnswerTypes
  <2>2. hook' = [hook EXCEPT ![h] = IF endpoint = None THEN "settle" ELSE "connect"]
    BY <1>3 DEF ReadEndpoint, HookTo
  <2>3. HookAnswers(h)'
    BY <1>0, <1>3, <2>2 DEF ReadEndpoint, HookAnswers, AnswerTypes, copyVars
  <2> QED
    BY <1>0, <1>3, <2>1, <2>2, <2>3, OneHook DEF ReadEndpoint, AnswerTypes, copyVars
<1>4. CASE Receive(h)
  <2> DEFINE c == <<h, "sent">>
  <2>1. c \in Copies /\ HookOf(c) = h /\ FrameAnswers(c)
    BY <1>0 DEF Copies, HookOf, AnswersInv
  <2>2. /\ Accepted(c) \in {"allow", "deny", "null"}
        /\ Accepted(c) # "null" => Accepted(c) \in decided[h]
    BY <1>4, <2>1 DEF Receive, Accepted, FrameAnswers
  <2>3. host' = [host EXCEPT ![h] = host[h]]
    BY <1>0, <1>4 DEF Receive, AnswerTypes
  <2>4. hook' = [hook EXCEPT ![h] = "settle"] /\ settled' = [settled EXCEPT ![h] = Accepted(c)]
    BY <1>4 DEF Receive, HookTo
  <2>5. HookAnswers(h)'
    BY <1>0, <1>4, <2>2, <2>4 DEF Receive, HookAnswers, AnswerTypes, copyVars
  <2> QED
    BY <1>0, <1>4, <2>2, <2>3, <2>4, <2>5, OneHook DEF Receive, AnswerTypes, copyVars
<1>5. CASE GiveUp(h) \/ RecordDecision(h) \/ KillHook(h)
  <2>1. settled' = [settled EXCEPT ![h] = settled[h]] /\ host' = [host EXCEPT ![h] = host[h]]
    BY <1>0, <1>5 DEF GiveUp, RecordDecision, KillHook, AnswerTypes
  <2>2. PICK next \in {"settle", "print", "silent"} :
          /\ hook' = [hook EXCEPT ![h] = next]
          /\ next = "settle" => hook[h] = "waiting"
          /\ next = "print" => hook[h] = "settle"
          /\ hook[h] # "done"
    BY <1>5 DEF GiveUp, RecordDecision, KillHook, HookTo
  <2>3. UNCHANGED <<scenario, verdict, copyVars>>
    BY <1>5 DEF GiveUp, RecordDecision, KillHook
  <2>4. HookAnswers(h)'
    BY <1>0, <2>1, <2>2, <2>3 DEF HookAnswers, AnswerTypes, copyVars
  <2> QED
    BY <1>0, <2>1, <2>2, <2>3, <2>4, OneHook DEF AnswerTypes, copyVars
<1>6. CASE PrintDecision(h)
  <2>1. settled' = [settled EXCEPT ![h] = settled[h]]
    BY <1>0, <1>6 DEF PrintDecision, AnswerTypes
  <2>2. PICK written \in BOOLEAN :
          /\ hook' = [hook EXCEPT ![h] = IF written THEN "done" ELSE "silent"]
          /\ host' = [host EXCEPT ![h] =
               IF written /\ settled[h] # "null" THEN settled[h] ELSE "nothing"]
    BY <1>6 DEF PrintDecision, HookTo
  <2>3. HookAnswers(h)'
    BY <1>0, <1>6, <2>2 DEF PrintDecision, HookAnswers, AnswerTypes, copyVars
  <2> QED
    BY <1>0, <1>6, <2>1, <2>2, <2>3, OneHook DEF PrintDecision, AnswerTypes, copyVars
<1>7. CASE SendByTcp(h) \/ CannotConnect(h)
  <2> DEFINE c == <<h, "sent">>
  <2>1. c \in Copies /\ HookOf(c) = h /\ \A d \in Copies : HookOf(d) \in Hooks
    BY <1>0 DEF Copies, HookOf
  <2>2. /\ hook[h] = "connect"
        /\ UNCHANGED <<scenario, verdict, settled, host, answer, decided>>
        /\ hook' = [hook EXCEPT ![h] = "waiting"] \/ hook' = [hook EXCEPT ![h] = "settle"]
    BY <1>7 DEF SendByTcp, CannotConnect, HookTo
  <2>3. copy' = [copy EXCEPT ![c] = "wire"] \/ UNCHANGED copy
    BY <1>7 DEF SendByTcp, CannotConnect, CopyTo
  <2>4. Cast' /\ AnswerTypes'
    BY <1>0, <2>1, <2>2, <2>3 DEF AnswersInv, Cast, AnswerTypes, CopyStages
  <2>5. ASSUME NEW g \in scenario.hooks
        PROVE  HookAnswers(g)'
    <3>1. g \in Hooks /\ HookAnswers(g) /\ <<g, "sent">> \in Copies
      BY CastIsDeclared DEF AnswersInv, Copies
    <3>2. CASE g = h
      BY <1>0, <2>2, <3>1, <3>2 DEF HookAnswers, AnswerTypes
    <3>3. CASE g # h
      <4>1. hook'[g] = hook[g] /\ copy'[<<g, "sent">>] = copy[<<g, "sent">>]
        BY <1>0, <2>2, <2>3, <3>1, <3>3 DEF AnswerTypes
      <4> QED
        BY <2>2, <3>1, <4>1 DEF HookAnswers
    <3> QED
      BY <3>2, <3>3
  <2>6. ASSUME NEW d \in Copies
        PROVE  FrameAnswers(d)'
    <3>1. FrameAnswers(d)
      BY DEF AnswersInv
    <3>2. CASE copy'[d] = copy[d]
      BY <2>2, <3>1, <3>2 DEF FrameAnswers
    <3>3. CASE copy'[d] # copy[d]
      <4>1. d = c /\ copy'[d] = "wire"
        BY <1>0, <2>1, <2>3, <3>3 DEF AnswerTypes
      <4>2. answer[d] = "none"
        BY <1>0, <2>2, <3>1, <4>1 DEF HookAnswers, FrameAnswers
      <4> QED
        BY <1>0, <2>1, <2>2, <4>1, <4>2 DEF HookAnswers, FrameAnswers
    <3> QED
      BY <3>2, <3>3
  <2> QED
    BY <2>2, <2>4, <2>5, <2>6 DEF AnswersInv
<1>8. CASE DeliverAgain(h)
  <2> DEFINE c == <<h, "again">>
             first == <<h, "sent">>
  <2>1. /\ c \in Copies /\ HookOf(c) = h /\ FrameAnswers(c)
        /\ first \in Copies /\ HookOf(first) = h /\ FrameAnswers(first)
    BY <1>0 DEF Copies, HookOf, AnswersInv
  <2>2. /\ copy[first] # "none" /\ copy[c] = "none"
        /\ copy' = [copy EXCEPT ![c] = "wire"]
        /\ UNCHANGED <<scenario, hookVars, answer, decided>>
    BY <1>8 DEF DeliverAgain, CopyTo
  <2>3. Cast' /\ AnswerTypes'
    BY <1>0, <2>1, <2>2 DEF AnswersInv, Cast, AnswerTypes, CopyStages, hookVars
  <2>4. ASSUME NEW g \in scenario.hooks
        PROVE  HookAnswers(g)'
    BY <2>2 DEF AnswersInv, HookAnswers, hookVars
  <2>5. ASSUME NEW d \in Copies
        PROVE  FrameAnswers(d)'
    BY <1>0, <2>1, <2>2 DEF AnswersInv, FrameAnswers, AnswerTypes, hookVars
  <2> QED
    BY <2>2, <2>3, <2>4, <2>5 DEF AnswersInv
<1> QED
  BY <1>1, <1>2, <1>3, <1>4, <1>5, <1>6, <1>7, <1>8 DEF HookStep

(* A step that changes one frame keeps what the hooks have.                *)
LEMMA OneFrame ==
  ASSUME AnswersInv, NEW c \in Copies, copy[c] # "none",
         NEW next \in CopyStages \ {"none"}, NEW says \in Answers,
         NEW new \in SUBSET {"allow", "deny"},
         copy' = [copy EXCEPT ![c] = next], answer' = [answer EXCEPT ![c] = says],
         decided' = [decided EXCEPT ![HookOf(c)] = @ \cup new],
         UNCHANGED <<scenario, hookVars>>, FrameAnswers(c)'
  PROVE  AnswersInv'
<1>1. HookOf(c) \in Hooks /\ FrameAnswers(c)
  BY DEF Copies, HookOf, AnswersInv
<1>2. Cast' /\ AnswerTypes'
  BY <1>1 DEF AnswersInv, Cast, AnswerTypes, hookVars
<1>3. ASSUME NEW h \in Hooks
      PROVE  decided[h] \subseteq decided'[h]
  BY <1>1 DEF AnswersInv, AnswerTypes
<1>4. ASSUME NEW h \in scenario.hooks
      PROVE  HookAnswers(h)'
  <2>1. h \in Hooks /\ HookAnswers(h) /\ <<h, "sent">> \in Copies
    BY CastIsDeclared DEF AnswersInv, Copies
  <2>2. copy[<<h, "sent">>] = "none" => copy'[<<h, "sent">>] = "none"
    BY <2>1 DEF AnswersInv, AnswerTypes
  <2> QED
    BY <1>3, <2>1, <2>2 DEF HookAnswers, hookVars
<1>5. ASSUME NEW d \in Copies, d # c
      PROVE  FrameAnswers(d)'
  <2>1. HookOf(d) \in Hooks /\ copy'[d] = copy[d] /\ answer'[d] = answer[d]
    BY <1>5 DEF AnswersInv, AnswerTypes, Copies, HookOf
  <2> QED
    BY <1>3, <2>1 DEF AnswersInv, FrameAnswers, hookVars
<1> QED
  BY <1>2, <1>4, <1>5 DEF AnswersInv, hookVars

(* The same when nothing is decided.                                       *)
LEMMA OneFrameSays ==
  ASSUME AnswersInv, NEW c \in Copies, copy[c] # "none",
         NEW next \in CopyStages \ {"none"}, NEW says \in Answers,
         copy' = [copy EXCEPT ![c] = next], answer' = [answer EXCEPT ![c] = says],
         UNCHANGED <<decided, scenario, hookVars>>, FrameAnswers(c)'
  PROVE  AnswersInv'
<1>1. HookOf(c) \in Hooks
  BY DEF Copies, HookOf
<1>2. decided' = [decided EXCEPT ![HookOf(c)] = @ \cup {}]
  BY <1>1 DEF AnswersInv, AnswerTypes
<1>3. PICK new \in SUBSET {"allow", "deny"} :
        decided' = [decided EXCEPT ![HookOf(c)] = @ \cup new]
  BY <1>2
<1> QED
  BY <1>3, OneFrame

LEMMA CopyKeepsAnswers ==
  ASSUME AnswersInv, NEW c \in Copies, CopyStep(c)
  PROVE  AnswersInv'
<1> DEFINE h == HookOf(c)
<1>0. /\ h \in Hooks /\ FrameAnswers(c) /\ AnswerTypes /\ UNCHANGED <<scenario, hookVars>>
      /\ answer[c] \in Answers
  BY CopyKeepsServers DEF AnswersInv, AnswerTypes, Copies, HookOf
<1>1. (* The frame goes on with the answer that it has.                    *)
      ASSUME NEW next \in CopyStages \ {"none"}, copy[c] # "none",
             CopyTo(c, next), UNCHANGED <<answer, decided>>,
             FrameAnswers(c) => FrameAnswers(c)'
      PROVE  AnswersInv'
  <2>1. answer' = [answer EXCEPT ![c] = answer[c]]
    BY <1>0, <1>1 DEF AnswerTypes
  <2> QED
    BY <1>0, <1>1, <2>1, OneFrameSays DEF CopyTo
<1>2. CASE Admit(c)
  BY <1>0, <1>1, <1>2 DEF Admit, CopyTo, CopyStages, FrameAnswers, AnswerTypes, hookVars
<1>3. CASE Drop(c)
  BY <1>0, <1>1, <1>3 DEF Drop, CopyTo, CopyStages, FrameAnswers, AnswerTypes, hookVars
<1>4. CASE Send(c)
  <2>1. PICK sent \in BOOLEAN : CopyTo(c, IF sent THEN "sent" ELSE "over")
    BY <1>4 DEF Send
  <2>2. copy[c] = "reply" /\ UNCHANGED <<answer, decided>>
    BY <1>4 DEF Send
  <2> QED
    BY <1>0, <1>1, <2>1, <2>2 DEF CopyTo, CopyStages, FrameAnswers, AnswerTypes, hookVars
<1>5. CASE SendGrant(c)
  <2>1. PICK sent \in BOOLEAN :
          CopyTo(c, IF sent THEN "sent" ELSE "over") /\ (sent => copy[c] = "send")
    BY <1>5 DEF SendGrant
  <2>2. copy[c] \in {"commit", "unsent", "send"} /\ UNCHANGED <<answer, decided>>
    BY <1>5 DEF SendGrant
  <2> QED
    BY <1>0, <1>1, <2>1, <2>2 DEF CopyTo, CopyStages, FrameAnswers, AnswerTypes, hookVars
<1>6. CASE RecordReview(c)
  <2>1. PICK raises \in BOOLEAN :
          /\ copy' = [copy EXCEPT ![c] = IF raises THEN "reply" ELSE "asking"]
          /\ answer' = [answer EXCEPT ![c] = IF raises THEN "error" ELSE answer[c]]
    BY <1>6 DEF RecordReview, CopyTo
  <2>2. UNCHANGED decided
    BY <1>6 DEF RecordReview
  <2>3. copy[c] = "admitted" /\ answer[c] = "none"
    BY <1>0, <1>6 DEF RecordReview, FrameAnswers
  <2>4. FrameAnswers(c)'
    BY <1>0, <2>1, <2>2, <2>3 DEF FrameAnswers, AnswerTypes, hookVars
  <2> QED
    BY <1>0, <2>1, <2>2, <2>3, <2>4, OneFrameSays DEF CopyStages, Answers
<1>7. CASE Decide(c)
  <2>1. PICK o \in Outcomes(c), raises \in BOOLEAN :
          /\ answer' = [answer EXCEPT ![c] = IF raises THEN "error" ELSE o.answer]
          /\ decided' = [decided EXCEPT ![h] = IF raises THEN @ ELSE @ \cup ({o.answer} \ {"null"})]
    BY <1>7 DEF Decide
  <2>2. o.answer \in {"allow", "deny", "null"}
    BY DEF Outcomes
  <2>3. copy[c] = "asking" /\ copy' = [copy EXCEPT ![c] = "reply"]
    BY <1>7 DEF Decide, CopyTo
  <2> DEFINE new == IF raises THEN {} ELSE {o.answer} \ {"null"}
             says == IF raises THEN "error" ELSE o.answer
  <2>4. decided' = [decided EXCEPT ![h] = @ \cup new] /\ new \in SUBSET {"allow", "deny"}
    BY <1>0, <2>1, <2>2 DEF AnswerTypes
  <2>5. says \in Answers \ {"grant"} /\ (says \in {"allow", "deny"} => says \in new)
    BY <2>2 DEF Answers
  <2> HIDE DEF new, says
  <2>6. answer'[c] = says /\ copy'[c] = "reply" /\ decided'[h] = decided[h] \cup new
    BY <1>0, <2>1, <2>3, <2>4 DEF AnswerTypes, says
  <2>7. FrameAnswers(c)'
    BY <1>0, <2>3, <2>5, <2>6 DEF FrameAnswers, hookVars
  <2> QED
    BY <1>0, <2>1, <2>3, <2>4, <2>5, <2>7, OneFrame DEF CopyStages, says
<1>8. CASE ChooseGrant(c)
  <2>1. /\ copy[c] = "asking" /\ copy' = [copy EXCEPT ![c] = "commit"]
        /\ answer' = [answer EXCEPT ![c] = "grant"]
    BY <1>8 DEF ChooseGrant, CopyTo
  <2>2. UNCHANGED decided
    BY <1>8 DEF ChooseGrant
  <2>3. FrameAnswers(c)'
    BY <1>0, <2>1, <2>2 DEF FrameAnswers, AnswerTypes, hookVars
  <2> QED
    BY <1>0, <2>1, <2>2, <2>3, OneFrameSays DEF CopyStages, Answers
<1>9. CASE RecordGrant(c)
  <2>1. PICK next \in {"minted", "unsent"} : CopyTo(c, next)
    BY <1>9 DEF RecordGrant
  <2>2. copy[c] = "commit" /\ UNCHANGED <<answer, decided>>
    BY <1>9 DEF RecordGrant
  <2> QED
    BY <1>0, <1>1, <2>1, <2>2 DEF CopyTo, CopyStages, FrameAnswers, AnswerTypes, hookVars
<1>10. CASE Commit(c)
  <2>1. PICK raises \in BOOLEAN :
          /\ copy' = [copy EXCEPT ![c] = IF raises THEN "unsent" ELSE "send"]
          /\ decided' = [decided EXCEPT ![h] = IF raises THEN @ ELSE @ \cup {"allow"}]
    <3>1. CASE CopyTo(c, "unsent") /\ UNCHANGED <<decided, logVars>>
      BY <1>0, <3>1 DEF CopyTo, AnswerTypes
    <3> QED
      BY <1>10, <3>1 DEF Commit, CopyTo
  <2>2. copy[c] = "minted" /\ answer' = [answer EXCEPT ![c] = answer[c]]
    BY <1>0, <1>10 DEF Commit, AnswerTypes
  <2> DEFINE new == IF raises THEN {} ELSE {"allow"}
  <2>3. decided' = [decided EXCEPT ![h] = @ \cup new] /\ new \in SUBSET {"allow", "deny"}
    BY <1>0, <2>1 DEF AnswerTypes
  <2>4. FrameAnswers(c)'
    BY <1>0, <2>1, <2>2 DEF FrameAnswers, AnswerTypes, hookVars
  <2> QED
    BY <1>0, <2>1, <2>2, <2>3, <2>4, OneFrame DEF CopyStages
<1> QED
  BY <1>2, <1>3, <1>4, <1>5, <1>6, <1>7, <1>8, <1>9, <1>10 DEF CopyStep

LEMMA AnswersStay == AnswersInv /\ [Next]_vars => AnswersInv'
<1> SUFFICES ASSUME AnswersInv, [Next]_vars
             PROVE  AnswersInv'
  OBVIOUS
<1>1. ASSUME UNCHANGED <<scenario, hookVars, copyVars>>
      PROVE  AnswersInv'
  BY <1>1 DEF AnswersInv, Cast, AnswerTypes, HookAnswers, FrameAnswers, hookVars, copyVars
<1>2. ASSUME NEW h \in scenario.hooks, HookStep(h)
      PROVE  AnswersInv'
  BY <1>2, HookKeepsAnswers
<1>3. ASSUME NEW c \in Copies, CopyStep(c)
      PROVE  AnswersInv'
  BY <1>3, CopyKeepsAnswers
<1> QED
  BY <1>1, <1>2, <1>3 DEF Next, HookStep, CopyStep, Quiet, vars

(* If the verdicts are safe, nothing that happens to hooks, frames,        *)
(* watchers and the log can make the host read an allow that is neither    *)
(* decided nor for a routine, harmless command, a denial nobody gave, or   *)
(* any answer for a hazardous command whose moves are followed.  A         *)
(* hazardous command whose moves are not is answered by a decision only.   *)
THEOREM HostReadsWhatWasDecided ==
  ASSUME VerdictsAreSafe
  PROVE  Spec => []OnlyRoutineOrAnswered
<1>1. AnswersInv => OnlyRoutineOrAnswered
  BY AnswersSuffice
<1> QED
  BY <1>1, AnswersStart, AnswersStay, PTL DEF Spec

-----------------------------------------------------------------------------
(* What the receipt says.                                                  *)

(* A line with that name was written for the request, or a line is lost    *)
(* and the receipt says so.                                                *)
Logged(h, name) == broken \/ Group(log, h, name) # {}

(* What the hook recorded is what it found and settled; it settled what    *)
(* its tier or the reply it received says.                                 *)
HookRecords(h) ==
  /\ \A e \in Group(log, h, "permission_request") : e.tier = verdict[h].tier
  /\ \A e \in Group(log, h, "permission_decision") :
       e.behavior = settled[h] /\ hook[h] \in {"print", "done", "silent"}
  /\ hook[h] \in {"exchange", "connect", "waiting", "settle", "print", "done"} =>
       Logged(h, "permission_request")
  /\ hook[h] \in {"print", "done"} => Logged(h, "permission_decision")
  /\ settled[h] # "null" =>
       \/ verdict[h].tier = 1
       \/ /\ copy[<<h, "sent">>] = "sent"
          /\ answer[<<h, "sent">>] \in (IF settled[h] = "allow" THEN {"allow", "grant"} ELSE {"deny"})

(* What the watcher recorded goes back to a copy of the frame that it      *)
(* handled; it recorded one decision.                                      *)
WatcherRecords(h) ==
  /\ \A e \in Group(log, h, "permission_review") : verdict[h].tier = 2 /\ e.tier = 2
  /\ \A e \in Group(log, h, "permission_review_decision") :
       /\ verdict[h].tier = 2 /\ e.behavior \in {"null"} \cup decided[h]
       /\ \E c \in Copies :
            HookOf(c) = h /\ answer[c] # "none" /\ copy[c] \in {"reply", "send", "sent", "over"}
  /\ \A e, f \in Group(log, h, "permission_review_decision") : e = f
  /\ Group(log, h, "grant_created") # {} =>
       \E c \in Copies :
         /\ HookOf(c) = h /\ answer[c] = "grant"
         /\ copy[c] \in {"minted", "unsent", "send", "sent", "over"}
  /\ FailedDelivery(log, h) =>
       \E c \in Copies : HookOf(c) = h /\ answer[c] = "grant" /\ copy[c] = "over"

(* The watcher handled the frames that have an answer, and recorded what   *)
(* it sends.                                                               *)
FrameRecords(c) ==
  /\ copy[c] \notin {"none", "wire", "over"} \/ answer[c] # "none" =>
       \E s \in Servers : <<c, s>> \in handled
  /\ copy[c] \in {"reply", "send", "sent"} /\ answer[c] \in {"allow", "grant"} =>
       \/ broken
       \/ \E e \in Group(log, HookOf(c), "permission_review_decision") :
            e.action \in {"allowed_once", "scope_allow"}
  /\ copy[c] \in {"minted", "send", "sent"} /\ answer[c] = "grant" =>
       Logged(HookOf(c), "grant_created")

LogInv ==
  /\ torn \in BOOLEAN /\ broken \in BOOLEAN
  /\ \A e \in log : e.id \in scenario.hooks
  /\ \A h \in Hooks \ scenario.hooks : host[h] = "nothing"
  /\ \A h \in scenario.hooks : HookRecords(h) /\ WatcherRecords(h)
  /\ \A c \in Copies : FrameRecords(c)

(* The one value that some records have under a key.                       *)
LEMMA OneOfMany ==
  ASSUME NEW records, NEW key, NEW v, Values(records, key) \subseteq {v}
  PROVE  /\ ~Conflicting(records, key)
         /\ One(records, key) \in {v, None}
         /\ Values(records, key) = {v} => One(records, key) = v
<1>1. Cardinality({v}) = 1 /\ Cardinality({}) = 0
  BY FS_Singleton, FS_EmptySet
<1>2. CASE Values(records, key) = {v}
  BY <1>1, <1>2 DEF Conflicting, One
<1>3. CASE Values(records, key) = {}
  BY <1>1, <1>3 DEF Conflicting, One
<1> QED
  BY <1>2, <1>3

LEMMA OneIsAValue ==
  ASSUME NEW records, NEW key, One(records, key) # None
  PROVE  One(records, key) \in Values(records, key)
<1>1. Cardinality({}) = 0
  BY FS_EmptySet
<1>2. Cardinality(Values(records, key)) = 1
  BY DEF One
<1>3. Values(records, key) # {}
  BY <1>1, <1>2
<1>4. One(records, key) = CHOOSE v \in Values(records, key) : TRUE
  BY <1>2 DEF One
<1> QED
  BY <1>3, <1>4

(* The watcher handles one copy of a frame, so only one has an answer.     *)
LEMMA OneCopyAnswered ==
  ASSUME LogInv, HandledOnce, NEW c \in Copies, NEW d \in Copies, HookOf(c) = HookOf(d),
         copy[c] \notin {"none", "wire", "over"} \/ answer[c] # "none",
         copy[d] \notin {"none", "wire", "over"} \/ answer[d] # "none"
  PROVE  c = d
<1>1. PICK s \in Servers, t \in Servers : <<c, s>> \in handled /\ <<d, t>> \in handled
  BY DEF LogInv, FrameRecords
<1> QED
  BY <1>1 DEF HandledOnce

(* The tiers that a request was recorded with are its tier.                *)
LEMMA RecordedTiers ==
  ASSUME AnswersInv, LogInv, NEW h \in scenario.hooks
  PROVE  /\ Values(Contexts(log, h), "tier") \subseteq {verdict[h].tier}
         /\ RequestTier(log, h) \in {verdict[h].tier, None}
         /\ Group(log, h, "permission_request") # {} => RequestTier(log, h) = verdict[h].tier
<1>1. HookRecords(h) /\ WatcherRecords(h)
  BY DEF LogInv
<1>2. /\ Values(Group(log, h, "permission_request"), "tier") \subseteq {verdict[h].tier}
      /\ Values(Group(log, h, "permission_review"), "tier") \subseteq {verdict[h].tier}
      /\ Values(Contexts(log, h), "tier") \subseteq {verdict[h].tier}
  BY <1>1 DEF HookRecords, WatcherRecords, Values, Contexts
<1>3. ASSUME Group(log, h, "permission_request") # {}
      PROVE  Values(Group(log, h, "permission_request"), "tier") = {verdict[h].tier}
  <2>1. verdict[h].tier # None
    BY VerdictFields, NoFieldAssumption
  <2>2. PICK e \in Group(log, h, "permission_request") : e.tier = verdict[h].tier
    BY <1>1, <1>3 DEF HookRecords
  <2> QED
    BY <1>2, <2>1, <2>2 DEF Values
<1> QED
  BY <1>2, <1>3, OneOfMany DEF RequestTier

(* What the hook recorded, it settled.                                     *)
LEMMA HookTellsIt ==
  ASSUME AnswersInv, LogInv, NEW h \in scenario.hooks,
         Group(log, h, "permission_decision") # {}
  PROVE  /\ Source(log, h) = "hook"
         /\ Decision(log, h) = IF settled[h] = "null" THEN "unknown" ELSE settled[h]
<1>1. HookRecords(h)
  BY DEF LogInv
<1>2. settled[h] \in {"allow", "deny", "null"}
  BY CastIsDeclared DEF AnswersInv, AnswerTypes
<1>3. Decisions(log, h) = Group(log, h, "permission_decision")
  BY DEF Decisions
<1>4. PICK e \in Group(log, h, "permission_decision") : e.behavior = settled[h]
  BY <1>1 DEF HookRecords
<1>5. Values(Decisions(log, h), "behavior") = {settled[h]}
  BY <1>1, <1>2, <1>3, <1>4, NoFieldAssumption DEF HookRecords, Values
<1>6. One(Decisions(log, h), "behavior") = settled[h]
  BY <1>5, OneOfMany
<1>7. ~Conflicting(Contexts(log, h), "tier")
  BY RecordedTiers, OneOfMany
<1>8. Source(log, h) = "hook"
  BY DEF Source
<1> QED
  BY <1>2, <1>6, <1>7, <1>8 DEF Decision

(* What the watcher alone recorded, it decided, for a request of T2.       *)
LEMMA WatcherTellsIt ==
  ASSUME AnswersInv, LogInv, NEW h \in scenario.hooks,
         Group(log, h, "permission_decision") = {}, Decision(log, h) # "unknown"
  PROVE  /\ Source(log, h) = "watcher" /\ verdict[h].tier = 2
         /\ Decision(log, h) \in decided[h]
<1>1. WatcherRecords(h)
  BY DEF LogInv
<1>2. Decisions(log, h) = Group(log, h, "permission_review_decision")
  BY DEF Decisions
<1>3. /\ Decision(log, h) = One(Decisions(log, h), "behavior")
      /\ One(Decisions(log, h), "behavior") \in {"allow", "deny"}
  BY DEF Decision
<1>4. One(Decisions(log, h), "behavior") \in Values(Decisions(log, h), "behavior")
  BY <1>3, OneIsAValue, NoFieldAssumption
<1>5. PICK e \in Group(log, h, "permission_review_decision") : e.behavior = Decision(log, h)
  BY <1>2, <1>3, <1>4 DEF Values
<1> QED
  BY <1>1, <1>3, <1>5 DEF WatcherRecords, Source

(* The answer that the host read is in the receipt, as what it was, unless *)
(* a line is lost.                                                         *)
LEMMA AnswerIsTold ==
  ASSUME AnswersInv, HandledOnce, LogInv, NEW h \in scenario.hooks,
         host[h] # "nothing", ~broken
  PROVE  /\ h \in Reported(log) /\ Decision(log, h) = host[h] /\ Source(log, h) = "hook"
         /\ answer[<<h, "sent">>] = "grant" => h \in ScopesGranted(log)
         /\ Category(log, h) \in
              (IF host[h] = "allow" THEN {"auto_allowed", "allowed_once"} ELSE {"denied"})
<1> DEFINE c == <<h, "sent">>
<1>0. h \in Hooks /\ c \in Copies /\ HookOf(c) = h
  BY CastIsDeclared DEF AnswersInv, Copies, HookOf
<1>1. HookRecords(h) /\ WatcherRecords(h) /\ FrameRecords(c) /\ HookAnswers(h) /\ FrameAnswers(c)
  BY <1>0 DEF LogInv, AnswersInv
<1>2. hook[h] = "done" /\ settled[h] = host[h] /\ settled[h] \in {"allow", "deny"}
  BY <1>0, <1>1 DEF HookAnswers, AnswersInv, AnswerTypes
<1>3. Group(log, h, "permission_request") # {} /\ Group(log, h, "permission_decision") # {}
  BY <1>1, <1>2 DEF HookRecords, Logged
<1>4. h \in Reported(log)
  BY <1>0, <1>3 DEF Reported, Contexts
<1>5. Source(log, h) = "hook" /\ Decision(log, h) = host[h]
  BY <1>2, <1>3, HookTellsIt
<1>6. ASSUME answer[c] = "grant"
      PROVE  h \in ScopesGranted(log)
  <2>1. copy[c] # "none"
    BY <1>1, <1>6 DEF FrameAnswers
  <2>2. copy[c] = "sent"
    BY <1>0, <1>1, <1>2, <2>1 DEF HookRecords, FrameAnswers
  <2>3. Group(log, h, "grant_created") # {}
    BY <1>0, <1>1, <1>6, <2>2 DEF FrameRecords, Logged
  <2>4. ASSUME FailedDelivery(log, h)
        PROVE  FALSE
    <3>1. PICK d \in Copies : HookOf(d) = h /\ answer[d] = "grant" /\ copy[d] = "over"
      BY <1>1, <2>4 DEF WatcherRecords
    <3>2. c = d
      BY <1>0, <1>6, <3>1, OneCopyAnswered
    <3> QED
      BY <2>2, <3>1, <3>2
  <2> QED
    BY <1>0, <2>3, <2>4 DEF ScopesGranted
<1>7. RequestTier(log, h) = verdict[h].tier
  BY <1>3, RecordedTiers
<1>8. ASSUME host[h] = "allow", verdict[h].tier # 1
      PROVE  One(Group(log, h, "permission_review_decision"), "action") \in {"allowed_once", "scope_allow"}
  <2>1. copy[c] = "sent" /\ answer[c] \in {"allow", "grant"}
    BY <1>1, <1>2, <1>8 DEF HookRecords
  <2>2. PICK e \in Group(log, h, "permission_review_decision") :
          e.action \in {"allowed_once", "scope_allow"}
    BY <1>0, <1>1, <2>1 DEF FrameRecords
  <2>3. \A f \in Group(log, h, "permission_review_decision") : f = e
    BY <1>1, <2>2 DEF WatcherRecords
  <2>4. Values(Group(log, h, "permission_review_decision"), "action") = {e.action}
    BY <2>2, <2>3, NoFieldAssumption DEF Values
  <2> QED
    BY <2>2, <2>4, OneOfMany
<1>9. Category(log, h) \in
        (IF host[h] = "allow" THEN {"auto_allowed", "allowed_once"} ELSE {"denied"})
  BY <1>2, <1>5, <1>7, <1>8 DEF Category
<1> QED
  BY <1>4, <1>5, <1>6, <1>9

LEMMA RecordsSuffice ==
  ASSUME AnswersInv, HandledOnce, LogInv
  PROVE  ReceiptTellsTheTruth
<1> SUFFICES ASSUME NEW h \in Hooks
             PROVE  LET told == Decision(log, h) IN
               /\ told # "unknown" /\ Source(log, h) = "hook" => told = settled[h]
               /\ told # "unknown" /\ Source(log, h) = "watcher" => told \in decided[h]
               /\ h \in HardAsks(log) => verdict[h].tier = 3 /\ told = "unknown"
               /\ h \in ScopesGranted(log) =>
                    \E c \in Copies : HookOf(c) = h /\ answer[c] = "grant" /\ copy[c] # "commit"
               /\ host[h] # "nothing" /\ ~Malformed =>
                    /\ h \in Reported(log) /\ told = host[h] /\ Source(log, h) = "hook"
                    /\ answer[<<h, "sent">>] = "grant" => h \in ScopesGranted(log)
                    /\ Category(log, h) \in
                         (IF host[h] = "allow" THEN {"auto_allowed", "allowed_once"} ELSE {"denied"})
  BY DEF ReceiptTellsTheTruth
<1>1. CASE h \notin scenario.hooks
  <2>1. host[h] = "nothing" /\ \A name \in EventNames : Group(log, h, name) = {}
    BY <1>1 DEF LogInv, Group
  <2>2. /\ Group(log, h, "permission_request") = {} /\ Group(log, h, "permission_review") = {}
        /\ Group(log, h, "permission_decision") = {} /\ Group(log, h, "grant_created") = {}
        /\ Group(log, h, "permission_review_decision") = {}
    BY <2>1 DEF EventNames
  <2>3. Source(log, h) = "unknown" /\ h \notin HardAsks(log) /\ h \notin ScopesGranted(log)
    BY <2>2 DEF Source, HardAsks, Reported, Contexts, ScopesGranted
  <2> QED
    BY <2>1, <2>3
<1>2. CASE h \in scenario.hooks
  <2>1. WatcherRecords(h) /\ HookAnswers(h)
    BY <1>2 DEF LogInv, AnswersInv
  <2>2. Group(log, h, "permission_decision") = {} => Source(log, h) # "hook"
    BY DEF Source
  <2>3. Decision(log, h) # "unknown" /\ Source(log, h) = "hook" => Decision(log, h) = settled[h]
    BY <1>2, <2>2, HookTellsIt
  <2>4. Decision(log, h) # "unknown" /\ Source(log, h) = "watcher" => Decision(log, h) \in decided[h]
    BY <1>2, HookTellsIt, WatcherTellsIt
  <2>5. ASSUME h \in HardAsks(log)
        PROVE  verdict[h].tier = 3 /\ Decision(log, h) = "unknown"
    <3>1. verdict[h].tier = 3
      BY <1>2, <2>5, RecordedTiers, NoFieldAssumption DEF HardAsks
    <3>2. settled[h] = "null"
      BY <2>1, <3>1 DEF HookAnswers
    <3> QED
      BY <1>2, <3>1, <3>2, HookTellsIt, WatcherTellsIt
  <2>6. h \in ScopesGranted(log) =>
          \E c \in Copies : HookOf(c) = h /\ answer[c] = "grant" /\ copy[c] # "commit"
    BY <2>1 DEF ScopesGranted, WatcherRecords
  <2>7. ASSUME host[h] # "nothing", ~Malformed
        PROVE  /\ h \in Reported(log) /\ Decision(log, h) = host[h] /\ Source(log, h) = "hook"
               /\ answer[<<h, "sent">>] = "grant" => h \in ScopesGranted(log)
               /\ Category(log, h) \in
                    (IF host[h] = "allow" THEN {"auto_allowed", "allowed_once"} ELSE {"denied"})
    BY <1>2, <2>7, AnswerIsTold DEF Malformed
  <2> QED
    BY <2>3, <2>4, <2>5, <2>6, <2>7
<1> QED
  BY <1>1, <1>2

(* What an append does, whether it raises or not: a line is written or     *)
(* lost, and what is lost stays lost.                                      *)
LEMMA Appended ==
  ASSUME LogInv, NEW e, NEW raises \in BOOLEAN, LogAppend(e, raises)
  PROVE  /\ torn' \in BOOLEAN /\ broken' \in BOOLEAN /\ (broken => broken')
         /\ log \subseteq log' /\ log' \subseteq log \cup {e}
         /\ raises => log' = log /\ broken' = broken
         /\ ~raises => broken' \/ e \in log'
BY DEF LogAppend, LogInv

(* The log only grows, by records of h, and what it lost stays lost.       *)
LogGrows(h) ==
  /\ torn' \in BOOLEAN /\ broken' \in BOOLEAN /\ (broken => broken')
  /\ log \subseteq log' /\ \A e \in log' \ log : e.id = h

LEMMA GroupsGrow ==
  ASSUME NEW h, LogGrows(h)
  PROVE  /\ \A g, name : Group(log, g, name) \subseteq Group(log', g, name)
         /\ \A g, name : g # h => Group(log', g, name) = Group(log, g, name)
         /\ \A g, name : Logged(g, name) => Logged(g, name)'
BY DEF LogGrows, Group, Logged

(* Records of h do not disturb another request.                            *)
LEMMA OthersKeepRecords ==
  ASSUME AnswersInv, LogInv, NEW h \in scenario.hooks, NEW g \in scenario.hooks, g # h,
         LogGrows(h), UNCHANGED verdict,
         hook'[g] = hook[g], settled'[g] = settled[g], decided'[g] = decided[g],
         \A c \in Copies : HookOf(c) = g => copy'[c] = copy[c] /\ answer'[c] = answer[c]
  PROVE  HookRecords(g)' /\ WatcherRecords(g)'
<1>1. g \in Hooks /\ <<g, "sent">> \in Copies /\ HookOf(<<g, "sent">>) = g
  BY CastIsDeclared DEF AnswersInv, Copies, HookOf
<1>2. \A name : Group(log', g, name) = Group(log, g, name)
  BY GroupsGrow
<1>3. \A name : Logged(g, name) => Logged(g, name)'
  BY GroupsGrow
<1>4. HookRecords(g)'
  BY <1>1, <1>2, <1>3 DEF LogInv, HookRecords
<1>5. FailedDelivery(log', g) <=> FailedDelivery(log, g)
  BY <1>2 DEF FailedDelivery
<1>6. WatcherRecords(g)'
  BY <1>2, <1>5 DEF LogInv, WatcherRecords
<1> QED
  BY <1>4, <1>6

(* What was recorded of a frame that does not move stays recorded.         *)
LEMMA FrameKeepsRecords ==
  ASSUME LogInv, NEW h, LogGrows(h), NEW c \in Copies,
         copy'[c] = copy[c], answer'[c] = answer[c], handled \subseteq handled'
  PROVE  FrameRecords(c)'
<1>1. FrameRecords(c)
  BY DEF LogInv
<1>2. /\ \A name : Group(log, HookOf(c), name) \subseteq Group(log', HookOf(c), name)
      /\ \A name : Logged(HookOf(c), name) => Logged(HookOf(c), name)'
  BY GroupsGrow
<1> QED
  BY <1>1, <1>2 DEF FrameRecords, LogGrows

(* A step of one hook that moves no frame has to keep its own records.     *)
LEMMA HookLogs ==
  ASSUME AnswersInv, LogInv, NEW h \in scenario.hooks, NEW next, NEW says, NEW reads,
         hook' = [hook EXCEPT ![h] = next], settled' = [settled EXCEPT ![h] = says],
         host' = [host EXCEPT ![h] = reads],
         UNCHANGED <<scenario, verdict, copy, answer, decided, handled>>,
         LogGrows(h),
         \A e \in log' \ log : e.event \in {"permission_request", "permission_decision"},
         HookRecords(h)'
  PROVE  LogInv'
<1>1. h \in Hooks
  BY CastIsDeclared DEF AnswersInv
<1>2. ASSUME NEW g \in scenario.hooks, g # h
      PROVE  HookRecords(g)' /\ WatcherRecords(g)'
  <2>1. hook'[g] = hook[g] /\ settled'[g] = settled[g]
    BY <1>1, <1>2, CastIsDeclared DEF AnswersInv, AnswerTypes
  <2> QED
    BY <1>2, <2>1, OthersKeepRecords
<1>3. WatcherRecords(h)'
  <2>1. /\ Group(log', h, "permission_review") = Group(log, h, "permission_review")
        /\ Group(log', h, "permission_review_decision") = Group(log, h, "permission_review_decision")
        /\ Group(log', h, "permission_review_delivery") = Group(log, h, "permission_review_delivery")
        /\ Group(log', h, "grant_created") = Group(log, h, "grant_created")
    BY DEF Group, LogGrows
  <2>2. FailedDelivery(log', h) <=> FailedDelivery(log, h)
    BY <2>1 DEF FailedDelivery
  <2> QED
    BY <2>1, <2>2 DEF LogInv, WatcherRecords
<1>4. ASSUME NEW c \in Copies
      PROVE  FrameRecords(c)'
  BY <1>4, FrameKeepsRecords
<1>5. \A g \in Hooks \ scenario.hooks : host'[g] = "nothing"
  BY <1>1 DEF LogInv, AnswersInv, AnswerTypes
<1>6. torn' \in BOOLEAN /\ broken' \in BOOLEAN /\ \A e \in log' : e.id \in scenario.hooks
  BY DEF LogInv, LogGrows
<1> QED
  BY <1>2, <1>3, <1>4, <1>5, <1>6 DEF LogInv

(* A frame on its way to a server has no record yet.                       *)
LEMMA FrameArrives ==
  ASSUME AnswersInv, LogInv, NEW h \in scenario.hooks, NEW c \in Copies, HookOf(c) = h,
         copy[c] = "none", copy' = [copy EXCEPT ![c] = "wire"],
         NEW next \in {hook[h], "waiting"}, hook' = [hook EXCEPT ![h] = next],
         next = "waiting" => hook[h] \in {"connect", "waiting"},
         UNCHANGED <<scenario, verdict, settled, host, answer, decided, handled, logVars>>
  PROVE  LogInv'
<1>1. h \in Hooks /\ <<h, "sent">> \in Copies /\ HookRecords(h) /\ WatcherRecords(h)
  BY CastIsDeclared DEF AnswersInv, LogInv, Copies
<1>2. answer[c] = "none" /\ copy'[c] = "wire" /\ \A d \in Copies : d # c => copy'[d] = copy[d]
  BY DEF AnswersInv, AnswerTypes, FrameAnswers
<1>3. LogGrows(h)
  BY DEF LogGrows, LogInv, logVars
<1>4. ASSUME NEW g \in scenario.hooks, g # h
      PROVE  HookRecords(g)' /\ WatcherRecords(g)'
  <2>1. hook'[g] = hook[g]
    BY <1>1, <1>4, CastIsDeclared DEF AnswersInv, AnswerTypes
  <2>2. \A d \in Copies : HookOf(d) = g => copy'[d] = copy[d]
    BY <1>2, <1>4
  <2> QED
    BY <1>3, <1>4, <2>1, <2>2, OthersKeepRecords
<1>5. HookRecords(h)'
  <2>1. settled[h] # "null" /\ verdict[h].tier # 1 => <<h, "sent">> # c
    BY <1>1 DEF HookRecords
  <2>2. hook'[h] = next
    BY <1>1 DEF AnswersInv, AnswerTypes
  <2> QED
    BY <1>1, <1>2, <2>1, <2>2 DEF HookRecords, Logged, logVars
<1>6. WatcherRecords(h)'
  BY <1>1, <1>2 DEF WatcherRecords, logVars
<1>7. ASSUME NEW d \in Copies
      PROVE  FrameRecords(d)'
  <2>1. CASE d = c
    BY <1>2, <2>1 DEF FrameRecords
  <2>2. CASE d # c
    BY <1>2, <1>3, <2>2, FrameKeepsRecords
  <2> QED
    BY <2>1, <2>2
<1> QED
  BY <1>4, <1>5, <1>6, <1>7 DEF LogInv, logVars

LEMMA HookKeepsRecords ==
  ASSUME AnswersInv, LogInv, NEW h \in scenario.hooks, HookStep(h)
  PROVE  LogInv'
<1> DEFINE c == <<h, "sent">>
<1>0. /\ h \in Hooks /\ HookAnswers(h) /\ HookRecords(h) /\ AnswerTypes
      /\ c \in Copies /\ HookOf(c) = h /\ FrameAnswers(c)
      /\ verdict[h].tier \in 1..3
  BY CastIsDeclared, VerdictFields DEF AnswersInv, LogInv, Copies, HookOf
<1>1. CASE ReadRequest(h) \/ ReadEndpoint(h) \/ GiveUp(h) \/ KillHook(h)
  <2>1. settled' = [settled EXCEPT ![h] = settled[h]] /\ host' = [host EXCEPT ![h] = host[h]]
    BY <1>0, <1>1 DEF ReadRequest, ReadEndpoint, GiveUp, KillHook, AnswerTypes
  <2>2. UNCHANGED <<scenario, verdict, copyVars, logVars>>
    BY <1>1 DEF ReadRequest, ReadEndpoint, GiveUp, KillHook
  <2>3. PICK next \in {"judged", "silent", "settle", "connect"} :
          /\ hook' = [hook EXCEPT ![h] = next]
          /\ next \in {"settle", "connect"} => hook[h] \in {"exchange", "waiting"}
          /\ next = "judged" => hook[h] = "start"
    BY <1>1 DEF ReadRequest, ReadEndpoint, GiveUp, KillHook, HookTo
  <2>4. LogGrows(h)
    BY <2>2 DEF LogGrows, LogInv, logVars
  <2>5. HookRecords(h)'
    BY <1>0, <2>1, <2>2, <2>3 DEF HookRecords, AnswerTypes, Logged, copyVars, logVars
  <2> QED
    BY <2>1, <2>2, <2>3, <2>4, <2>5, HookLogs DEF copyVars, logVars
<1>2. CASE RecordRequest(h)
  <2> DEFINE e == [Record("permission_request", h) EXCEPT !.tier = verdict[h].tier]
  <2>1. PICK raises \in BOOLEAN :
          /\ LogAppend(e, raises)
          /\ hook' = [hook EXCEPT ![h] =
               IF raises THEN "silent" ELSE IF verdict[h].tier = 2 THEN "exchange" ELSE "settle"]
          /\ settled' = [settled EXCEPT ![h] =
               IF ~raises /\ verdict[h].tier = 1 THEN "allow" ELSE "null"]
    BY <1>2 DEF RecordRequest, HookTo
  <2>2. host' = [host EXCEPT ![h] = host[h]] /\ UNCHANGED <<scenario, verdict, copyVars>>
    BY <1>0, <1>2 DEF RecordRequest, AnswerTypes
  <2>3. e.event = "permission_request" /\ e.id = h /\ e.tier = verdict[h].tier
    BY DEF Record
  <2> HIDE DEF e
  <2>4. LogGrows(h) /\ log' \subseteq log \cup {e}
    BY <2>1, <2>3, Appended DEF LogGrows
  <2>5. ~raises => Logged(h, "permission_request")'
    BY <2>1, <2>3, Appended DEF Logged, Group
  <2>6. Group(log, h, "permission_decision") = {}
    BY <1>0, <1>2 DEF RecordRequest, HookRecords
  <2>7. HookRecords(h)'
    <3>1. Group(log', h, "permission_decision") = {}
      BY <2>3, <2>4, <2>6 DEF Group
    <3>2. \A f \in Group(log', h, "permission_request") : f.tier = verdict[h].tier
      BY <1>0, <2>3, <2>4 DEF HookRecords, Group
    <3>3. hook'[h] \in {"silent", "exchange", "settle"} /\ (hook'[h] # "silent" => ~raises)
      BY <1>0, <2>1 DEF AnswerTypes
    <3>4. settled'[h] # "null" => verdict[h].tier = 1
      BY <1>0, <2>1 DEF AnswerTypes
    <3> QED
      BY <2>2, <2>5, <3>1, <3>2, <3>3, <3>4 DEF HookRecords
  <2>8. PICK next, says : hook' = [hook EXCEPT ![h] = next] /\ settled' = [settled EXCEPT ![h] = says]
    BY <2>1
  <2>9. \A f \in log' \ log : f.event = "permission_request"
    BY <2>3, <2>4
  <2> QED
    BY <2>2, <2>4, <2>7, <2>8, <2>9, HookLogs DEF copyVars
<1>3. CASE SendByTcp(h)
  <2>1. copy[c] = "none"
    BY <1>0, <1>3 DEF SendByTcp, HookAnswers
  <2> QED
    BY <1>0, <1>3, <2>1, FrameArrives DEF SendByTcp, HookTo, CopyTo
<1>4. CASE CannotConnect(h)
  <2>1. CASE launched
    <3>1. copy[c] = "none"
      BY <1>0, <1>4 DEF CannotConnect, HookAnswers
    <3> QED
      BY <1>0, <1>4, <2>1, <3>1, FrameArrives DEF CannotConnect, HookTo, CopyTo
  <2>2. CASE ~launched
    <3>1. settled' = [settled EXCEPT ![h] = settled[h]] /\ host' = [host EXCEPT ![h] = host[h]]
      BY <1>0, <1>4 DEF CannotConnect, AnswerTypes
    <3>2. /\ hook[h] = "connect" /\ hook' = [hook EXCEPT ![h] = "settle"]
          /\ UNCHANGED <<scenario, verdict, settled, copy, answer, decided, handled, logVars>>
      BY <1>4, <2>2 DEF CannotConnect, HookTo
    <3>3. LogGrows(h)
      BY <3>2 DEF LogGrows, LogInv, logVars
    <3>4. HookRecords(h)'
      BY <1>0, <3>2 DEF HookRecords, AnswerTypes, Logged, logVars
    <3> QED
      BY <3>1, <3>2, <3>3, <3>4, HookLogs DEF logVars
  <2> QED
    BY <2>1, <2>2
<1>5. CASE Receive(h)
  <2>1. host' = [host EXCEPT ![h] = host[h]] /\ UNCHANGED <<scenario, verdict, copyVars, logVars>>
    BY <1>0, <1>5 DEF Receive, AnswerTypes
  <2>2. /\ hook[h] = "waiting" /\ copy[c] = "sent" /\ hook' = [hook EXCEPT ![h] = "settle"]
        /\ settled' = [settled EXCEPT ![h] = Accepted(c)]
    BY <1>5 DEF Receive, HookTo
  <2>3. Accepted(c) # "null" =>
          answer[c] \in (IF Accepted(c) = "allow" THEN {"allow", "grant"} ELSE {"deny"})
    BY DEF Accepted
  <2>4. LogGrows(h)
    BY <2>1 DEF LogGrows, LogInv, logVars
  <2>5. HookRecords(h)'
    BY <1>0, <2>1, <2>2, <2>3 DEF HookRecords, AnswerTypes, Logged, copyVars, logVars
  <2> QED
    BY <2>1, <2>2, <2>4, <2>5, HookLogs DEF copyVars, logVars
<1>6. CASE RecordDecision(h)
  <2> DEFINE e == [Record("permission_decision", h) EXCEPT
                     !.tier = verdict[h].tier, !.behavior = settled[h]]
  <2>1. PICK raises \in BOOLEAN :
          LogAppend(e, raises) /\ hook' = [hook EXCEPT ![h] = IF raises THEN "silent" ELSE "print"]
    BY <1>6 DEF RecordDecision, HookTo
  <2>2. /\ settled' = [settled EXCEPT ![h] = settled[h]] /\ host' = [host EXCEPT ![h] = host[h]]
        /\ hook[h] = "settle" /\ UNCHANGED <<scenario, verdict, settled, copyVars>>
    BY <1>0, <1>6 DEF RecordDecision, AnswerTypes
  <2>3. e.event = "permission_decision" /\ e.id = h /\ e.behavior = settled[h]
    BY DEF Record
  <2> HIDE DEF e
  <2>4. LogGrows(h) /\ log' \subseteq log \cup {e}
    BY <2>1, <2>3, Appended DEF LogGrows
  <2>5. ~raises => Logged(h, "permission_decision")'
    BY <2>1, <2>3, Appended DEF Logged, Group
  <2>6. Logged(h, "permission_request")'
    BY <1>0, <2>2, <2>4, GroupsGrow DEF HookRecords
  <2>7. HookRecords(h)'
    <3>1. hook'[h] \in {"silent", "print"} /\ (hook'[h] = "print" => ~raises)
      BY <1>0, <2>1 DEF AnswerTypes
    <3>2. \A f \in Group(log', h, "permission_decision") : f.behavior = settled[h]
      BY <1>0, <2>3, <2>4 DEF HookRecords, Group
    <3>3. \A f \in Group(log', h, "permission_request") : f.tier = verdict[h].tier
      BY <1>0, <2>3, <2>4 DEF HookRecords, Group
    <3> QED
      BY <1>0, <2>2, <2>5, <2>6, <3>1, <3>2, <3>3 DEF HookRecords, copyVars
  <2>8. PICK next : hook' = [hook EXCEPT ![h] = next]
    BY <2>1
  <2>9. \A f \in log' \ log : f.event = "permission_decision"
    BY <2>3, <2>4
  <2> QED
    BY <2>2, <2>4, <2>7, <2>8, <2>9, HookLogs DEF copyVars
<1>7. CASE PrintDecision(h)
  <2>1. PICK written \in BOOLEAN :
          /\ hook' = [hook EXCEPT ![h] = IF written THEN "done" ELSE "silent"]
          /\ host' = [host EXCEPT ![h] =
               IF written /\ settled[h] # "null" THEN settled[h] ELSE "nothing"]
    BY <1>7 DEF PrintDecision, HookTo
  <2>2. /\ settled' = [settled EXCEPT ![h] = settled[h]] /\ hook[h] = "print"
        /\ UNCHANGED <<scenario, verdict, settled, copyVars, logVars>>
    BY <1>0, <1>7 DEF PrintDecision, AnswerTypes
  <2>3. LogGrows(h)
    BY <2>2 DEF LogGrows, LogInv, logVars
  <2>4. HookRecords(h)'
    BY <1>0, <2>1, <2>2 DEF HookRecords, AnswerTypes, Logged, copyVars, logVars
  <2> QED
    BY <2>1, <2>2, <2>3, <2>4, HookLogs DEF copyVars, logVars
<1>8. CASE DeliverAgain(h)
  <2> DEFINE d == <<h, "again">>
  <2>1. d \in Copies /\ HookOf(d) = h /\ hook' = [hook EXCEPT ![h] = hook[h]]
    BY <1>0, <1>8 DEF DeliverAgain, Copies, HookOf, AnswerTypes, hookVars
  <2> QED
    BY <1>8, <2>1, FrameArrives DEF DeliverAgain, CopyTo, hookVars
<1> QED
  BY <1>1, <1>2, <1>3, <1>4, <1>5, <1>6, <1>7, <1>8 DEF HookStep

-----------------------------------------------------------------------------
(* What the watcher writes of a frame.                                     *)

(* A record that tells of a frame what became of it.                       *)
EventFits(c, e) ==
  LET h == HookOf(c) IN
  /\ e.id = h /\ verdict[h].tier = 2
  /\ e.event \in {"permission_review", "permission_review_decision",
                  "permission_review_delivery", "grant_created"}
  /\ e.event = "permission_review" => e.tier = 2
  /\ e.event = "permission_review_decision" =>
       /\ e.behavior \in {"null"} \cup decided[h]
       /\ answer[c] # "none" /\ copy[c] \in {"reply", "send", "sent", "over"}
  /\ e.event = "grant_created" =>
       answer[c] = "grant" /\ copy[c] \in {"minted", "unsent", "send", "sent", "over"}
  /\ e.event = "permission_review_delivery" /\ e.delivered = FALSE =>
       answer[c] = "grant" /\ copy[c] = "over"

(* A step of one frame that writes fitting records, one decision at most.  *)
LEMMA FrameLogs ==
  ASSUME AnswersInv, LogInv, NEW c \in Copies, copy[c] \notin {"none", "sent", "over"},
         NEW next, NEW says,
         copy' = [copy EXCEPT ![c] = next], answer' = [answer EXCEPT ![c] = says],
         copy[c] \in {"reply", "send"} => next \in {"sent", "over"} /\ says = answer[c],
         copy[c] \in {"minted", "unsent"} => next \in {"unsent", "send", "sent", "over"} /\ says = answer[c],
         NEW new, decided' = [decided EXCEPT ![HookOf(c)] = @ \cup new],
         handled \subseteq handled', UNCHANGED <<scenario, hookVars>>,
         LogGrows(HookOf(c)),
         \A e \in log' \ log :
           /\ EventFits(c, e)'
           /\ e.event = "permission_review_decision" =>
                /\ Group(log, HookOf(c), "permission_review_decision") = {}
                /\ log' \subseteq log \cup {e},
         FrameRecords(c)'
  PROVE  LogInv'
<1> DEFINE h == HookOf(c)
<1>1. /\ h \in scenario.hooks /\ h \in Hooks /\ AnswerTypes
      /\ HookRecords(h) /\ WatcherRecords(h)
  BY CastIsDeclared DEF AnswersInv, LogInv, FrameAnswers
<1>2. /\ copy'[c] = next /\ answer'[c] = says
      /\ \A d \in Copies : d # c => copy'[d] = copy[d] /\ answer'[d] = answer[d]
      /\ decided[h] \subseteq decided'[h]
      /\ \A g \in Hooks : g # h => decided'[g] = decided[g]
  BY <1>1 DEF AnswerTypes
<1>3. ASSUME NEW g \in scenario.hooks, g # h
      PROVE  HookRecords(g)' /\ WatcherRecords(g)'
  <2>1. \A d \in Copies : HookOf(d) = g => copy'[d] = copy[d] /\ answer'[d] = answer[d]
    BY <1>2, <1>3
  <2>2. decided'[g] = decided[g]
    BY <1>2, <1>3, CastIsDeclared DEF AnswersInv
  <2> QED
    BY <1>1, <1>3, <2>1, <2>2, OthersKeepRecords DEF hookVars
<1>4. HookRecords(h)'
  <2>1. /\ Group(log', h, "permission_request") = Group(log, h, "permission_request")
        /\ Group(log', h, "permission_decision") = Group(log, h, "permission_decision")
    BY DEF Group, LogGrows, EventFits
  <2>2. \A name : Logged(h, name) => Logged(h, name)'
    BY GroupsGrow
  <2>3. <<h, "sent">> \in Copies
    BY <1>1 DEF Copies
  <2>4. copy[<<h, "sent">>] = "sent" =>
          copy'[<<h, "sent">>] = "sent" /\ answer'[<<h, "sent">>] = answer[<<h, "sent">>]
    BY <1>2, <2>3
  <2> QED
    BY <1>1, <2>1, <2>2, <2>4 DEF HookRecords, hookVars
<1>5. WatcherRecords(h)'
  <2>1. ASSUME NEW e \in Group(log', h, "permission_review")
        PROVE  verdict[h].tier = 2 /\ e.tier = 2
    BY <1>1, <2>1 DEF WatcherRecords, Group, EventFits, hookVars
  <2>2. ASSUME NEW e \in Group(log', h, "permission_review_decision")
        PROVE  /\ verdict[h].tier = 2 /\ e.behavior \in {"null"} \cup decided'[h]
               /\ \E d \in Copies : /\ HookOf(d) = h /\ answer'[d] # "none"
                                    /\ copy'[d] \in {"reply", "send", "sent", "over"}
    <3>1. CASE e \in log
      <4>1. /\ verdict[h].tier = 2 /\ e.behavior \in {"null"} \cup decided[h]
            /\ \E d \in Copies : /\ HookOf(d) = h /\ answer[d] # "none"
                                 /\ copy[d] \in {"reply", "send", "sent", "over"}
        BY <1>1, <2>2, <3>1 DEF WatcherRecords, Group
      <4>2. PICK d \in Copies : /\ HookOf(d) = h /\ answer[d] # "none"
                                /\ copy[d] \in {"reply", "send", "sent", "over"}
        BY <4>1
      <4>3. answer'[d] # "none" /\ copy'[d] \in {"reply", "send", "sent", "over"}
        BY <1>2, <4>2
      <4> QED
        BY <1>2, <4>1, <4>2, <4>3
    <3>2. CASE e \notin log
      BY <1>1, <2>2, <3>2 DEF Group, EventFits, hookVars
    <3> QED
      BY <3>1, <3>2
  <2>3. ASSUME NEW e \in Group(log', h, "permission_review_decision"),
               NEW f \in Group(log', h, "permission_review_decision")
        PROVE  e = f
    BY <1>1, <2>3 DEF WatcherRecords, Group
  <2>4. ASSUME Group(log', h, "grant_created") # {}
        PROVE  \E d \in Copies :
                 /\ HookOf(d) = h /\ answer'[d] = "grant"
                 /\ copy'[d] \in {"minted", "unsent", "send", "sent", "over"}
    <3>1. CASE Group(log, h, "grant_created") # {}
      <4>1. PICK d \in Copies : /\ HookOf(d) = h /\ answer[d] = "grant"
                                /\ copy[d] \in {"minted", "unsent", "send", "sent", "over"}
        BY <1>1, <3>1 DEF WatcherRecords
      <4>2. d # c => copy'[d] = copy[d] /\ answer'[d] = answer[d]
        BY <1>2
      <4>3. d = c => next \in {"unsent", "send", "sent", "over"} /\ says = answer[c]
        BY <4>1
      <4> QED
        BY <1>2, <4>1, <4>2, <4>3
    <3>2. CASE Group(log, h, "grant_created") = {}
      <4>1. PICK e \in log' \ log : e.event = "grant_created"
        BY <2>4, <3>2 DEF Group
      <4> QED
        BY <4>1 DEF EventFits
    <3> QED
      BY <3>1, <3>2
  <2>5. ASSUME FailedDelivery(log', h)
        PROVE  \E d \in Copies : HookOf(d) = h /\ answer'[d] = "grant" /\ copy'[d] = "over"
    <3>1. CASE FailedDelivery(log, h)
      <4>1. PICK d \in Copies : HookOf(d) = h /\ answer[d] = "grant" /\ copy[d] = "over"
        BY <1>1, <3>1 DEF WatcherRecords
      <4> QED
        BY <1>2, <4>1
    <3>2. CASE ~FailedDelivery(log, h)
      <4>1. PICK e \in log' \ log : e.event = "permission_review_delivery" /\ e.delivered = FALSE
        BY <2>5, <3>2 DEF FailedDelivery, Group
      <4> QED
        BY <4>1 DEF EventFits
    <3> QED
      BY <3>1, <3>2
  <2> QED
    BY <2>1, <2>2, <2>3, <2>4, <2>5 DEF WatcherRecords, hookVars
<1>6. ASSUME NEW d \in Copies, d # c
      PROVE  FrameRecords(d)'
  BY <1>2, <1>6, FrameKeepsRecords
<1>7. /\ torn' \in BOOLEAN /\ broken' \in BOOLEAN /\ \A e \in log' : e.id \in scenario.hooks
      /\ UNCHANGED <<scenario, host>>
  BY <1>1 DEF LogInv, LogGrows, hookVars
<1> QED
  BY <1>3, <1>4, <1>5, <1>6, <1>7 DEF LogInv

LEMMA CopyKeepsRecords ==
  ASSUME AnswersInv, HandledOnce, FramesInv, LogInv, NEW c \in Copies, CopyStep(c)
  PROVE  LogInv'
<1> DEFINE h == HookOf(c)
<1>0. /\ h \in Hooks /\ FrameAnswers(c) /\ FrameRecords(c) /\ AnswerTypes
      /\ UNCHANGED <<scenario, hookVars>>
  BY CopyKeepsServers DEF AnswersInv, LogInv, Copies, HookOf
<1>1. (* Frames that go on and write nothing.                              *)
      ASSUME copy[c] \notin {"none", "sent", "over"}, NEW next, CopyTo(c, next),
             copy[c] \in {"reply", "send"} => next \in {"sent", "over"},
             copy[c] \in {"minted", "unsent"} => next \in {"unsent", "send", "sent", "over"},
             UNCHANGED <<answer, decided, logVars>>, handled \subseteq handled',
             FrameRecords(c)'
      PROVE  LogInv'
  <2>1. /\ copy' = [copy EXCEPT ![c] = next] /\ answer' = [answer EXCEPT ![c] = answer[c]]
        /\ decided' = [decided EXCEPT ![h] = @ \cup {}]
    BY <1>0, <1>1 DEF CopyTo, AnswerTypes
  <2>2. LogGrows(h) /\ \A e \in log' \ log : FALSE
    BY <1>1 DEF LogGrows, LogInv, logVars
  <2> QED
    BY <1>0, <1>1, <2>1, <2>2, FrameLogs
<1>2. CASE Admit(c)
  <2>1. copy[c] = "wire" /\ UNCHANGED <<answer, decided, logVars>>
    BY <1>2 DEF Admit
  <2>2. copy'[c] = "admitted" /\ handled' = handled \cup {<<c, at[c]>>} /\ at[c] \in Servers
    BY <1>0, <1>2, <2>1 DEF Admit, CopyTo, AnswerTypes, FramesInv
  <2>3. FrameRecords(c)'
    BY <2>2 DEF FrameRecords
  <2> QED
    BY <1>1, <1>2, <2>1, <2>2, <2>3 DEF Admit
<1>3. CASE Drop(c)
  <2>1. /\ copy[c] \in {"wire", "admitted", "reply", "asking", "commit", "minted", "unsent", "send"}
        /\ CopyTo(c, "over") /\ UNCHANGED <<answer, decided, handled, logVars>>
    BY <1>3 DEF Drop
  <2>2. copy'[c] = "over"
    BY <1>0, <2>1 DEF CopyTo, AnswerTypes
  <2>3. FrameRecords(c)'
    BY <1>0, <2>1, <2>2 DEF FrameRecords
  <2> QED
    BY <1>1, <2>1, <2>3
<1>4. CASE Send(c)
  <2>1. PICK sent \in BOOLEAN : CopyTo(c, IF sent THEN "sent" ELSE "over")
    BY <1>4 DEF Send
  <2>2. copy[c] = "reply" /\ answer[c] # "grant" /\ UNCHANGED <<answer, decided, handled, logVars>>
    BY <1>0, <1>4 DEF Send, FrameAnswers
  <2>3. copy'[c] \in {"sent", "over"}
    BY <1>0, <2>1 DEF CopyTo, AnswerTypes
  <2>4. FrameRecords(c)'
    BY <1>0, <2>2, <2>3 DEF FrameRecords, logVars
  <2> QED
    BY <1>1, <2>1, <2>2, <2>4
<1>5. CASE ChooseGrant(c)
  <2>1. /\ copy[c] = "asking" /\ copy' = [copy EXCEPT ![c] = "commit"]
        /\ answer' = [answer EXCEPT ![c] = "grant"]
        /\ UNCHANGED <<decided, handled, logVars>>
    BY <1>5 DEF ChooseGrant, CopyTo
  <2>2. copy'[c] = "commit" /\ decided' = [decided EXCEPT ![h] = @ \cup {}]
    BY <1>0, <2>1 DEF AnswerTypes
  <2>3. FrameRecords(c)'
    BY <1>0, <2>1, <2>2 DEF FrameRecords
  <2>4. LogGrows(h) /\ \A e \in log' \ log : FALSE
    BY <2>1 DEF LogGrows, LogInv, logVars
  <2> QED
    BY <1>0, <2>1, <2>2, <2>3, <2>4, FrameLogs
<1>6. (* No decision is recorded of a frame that has none yet.             *)
      ASSUME copy[c] \in {"asking", "minted"}
      PROVE  Group(log, h, "permission_review_decision") = {}
  <2>1. h \in scenario.hooks
    BY <1>0, <1>6 DEF FrameAnswers
  <2> SUFFICES ASSUME NEW e \in Group(log, h, "permission_review_decision")
               PROVE  FALSE
    OBVIOUS
  <2>2. PICK d \in Copies : /\ HookOf(d) = h /\ answer[d] # "none"
                            /\ copy[d] \in {"reply", "send", "sent", "over"}
    BY <2>1 DEF LogInv, WatcherRecords
  <2>3. c = d
    BY <1>6, <2>2, OneCopyAnswered
  <2> QED
    BY <1>6, <2>2, <2>3
<1>7. (* Frames that go on and write a line, or not.                       *)
      ASSUME copy[c] \in {"admitted", "asking", "commit", "minted", "unsent", "send"},
             NEW next, CopyTo(c, next),
             copy[c] = "send" => next \in {"sent", "over"},
             copy[c] \in {"minted", "unsent"} => next \in {"unsent", "send", "sent", "over"},
             NEW says, answer' = [answer EXCEPT ![c] = says],
             copy[c] \in {"minted", "unsent", "send"} => says = answer[c],
             NEW new, decided' = [decided EXCEPT ![h] = @ \cup new], UNCHANGED handled,
             NEW e, NEW raises \in BOOLEAN, LogAppend(e, raises),
             ~raises => EventFits(c, e)',
             e.id = h,
             e.event = "permission_review_decision" => copy[c] \in {"asking", "minted"},
             FrameRecords(c)'
      PROVE  LogInv'
  <2>1. LogGrows(h) /\ log' \subseteq log \cup {e} /\ (raises => log' = log)
    BY <1>7, Appended DEF LogGrows
  <2>2. \A f \in log' \ log : f = e /\ ~raises
    BY <2>1
  <2>3. \A f \in log' \ log :
          /\ EventFits(c, f)'
          /\ f.event = "permission_review_decision" =>
               /\ Group(log, h, "permission_review_decision") = {}
               /\ log' \subseteq log \cup {f}
    BY <1>6, <1>7, <2>1, <2>2
  <2>4. copy' = [copy EXCEPT ![c] = next]
    BY <1>7 DEF CopyTo
  <2> QED
    BY <1>0, <1>7, <2>1, <2>3, <2>4, FrameLogs
<1>8. copy[c] # "none" => verdict[h].tier = 2
  BY <1>0 DEF FrameAnswers
<1>9. CASE RecordReview(c)
  <2>0. PICK e : e = [Record("permission_review", h) EXCEPT !.tier = verdict[h].tier]
    OBVIOUS
  <2>1. PICK raises \in BOOLEAN :
          /\ LogAppend(e, raises) /\ CopyTo(c, IF raises THEN "reply" ELSE "asking")
          /\ answer' = [answer EXCEPT ![c] = IF raises THEN "error" ELSE @]
    BY <1>9, <2>0 DEF RecordReview
  <2>2. copy[c] = "admitted" /\ UNCHANGED <<decided, handled>>
    BY <1>9 DEF RecordReview
  <2>3. PICK says : answer' = [answer EXCEPT ![c] = says] /\ says = IF raises THEN "error" ELSE answer[c]
    BY <2>1
  <2>4. /\ decided' = [decided EXCEPT ![h] = @ \cup {}]
        /\ answer'[c] = says /\ copy'[c] = IF raises THEN "reply" ELSE "asking"
    BY <1>0, <2>1, <2>2, <2>3 DEF CopyTo, AnswerTypes
  <2>5. e.event = "permission_review" /\ e.id = h /\ e.tier = verdict[h].tier
    BY <2>0 DEF Record
  <2>6. EventFits(c, e)'
    BY <1>0, <1>8, <2>2, <2>5 DEF EventFits, hookVars
  <2>7. FrameRecords(c)'
    <3>1. answer[c] = "none"
      BY <1>0, <2>2 DEF FrameAnswers
    <3> QED
      BY <1>0, <2>2, <2>3, <2>4, <3>1 DEF FrameRecords
  <2> QED
    BY <1>7, <2>1, <2>2, <2>3, <2>4, <2>5, <2>6, <2>7
<1>10. CASE Decide(c)
  <2>1. PICK o \in Outcomes(c), raises \in BOOLEAN :
          /\ LogAppend([Record("permission_review_decision", h) EXCEPT
                          !.behavior = o.answer, !.action = o.action], raises)
          /\ answer' = [answer EXCEPT ![c] = IF raises THEN "error" ELSE o.answer]
          /\ decided' = [decided EXCEPT ![h] = IF raises THEN @ ELSE @ \cup ({o.answer} \ {"null"})]
    BY <1>10 DEF Decide
  <2> DEFINE e == [Record("permission_review_decision", h) EXCEPT
                     !.behavior = o.answer, !.action = o.action]
             says == IF raises THEN "error" ELSE o.answer
             new == IF raises THEN {} ELSE {o.answer} \ {"null"}
  <2>2. /\ o.answer \in {"allow", "deny", "null"}
        /\ o.answer = "allow" => o.action \in {"allowed_once", "scope_allow"}
    BY DEF Outcomes
  <2>3. copy[c] = "asking" /\ CopyTo(c, "reply") /\ UNCHANGED handled
    BY <1>10 DEF Decide
  <2>4. answer' = [answer EXCEPT ![c] = says] /\ decided' = [decided EXCEPT ![h] = @ \cup new]
    BY <1>0, <2>1 DEF AnswerTypes
  <2>5. e.event = "permission_review_decision" /\ e.id = h /\ e.behavior = o.answer /\ e.action = o.action
    BY DEF Record
  <2>6. LogAppend(e, raises)
    BY <2>1
  <2> HIDE DEF e
  <2>7. answer'[c] = says /\ copy'[c] = "reply" /\ decided'[h] = decided[h] \cup new
    BY <1>0, <2>3, <2>4 DEF CopyTo, AnswerTypes
  <2>8. ~raises => EventFits(c, e)'
    BY <1>0, <1>8, <2>2, <2>3, <2>5, <2>7 DEF EventFits, hookVars
  <2>9. FrameRecords(c)'
    <3>1. \E s \in Servers : <<c, s>> \in handled'
      BY <1>0, <2>3 DEF FrameRecords
    <3>2. answer'[c] = "allow" =>
            broken' \/ e \in Group(log', h, "permission_review_decision")
      BY <2>5, <2>6, <2>7, Appended DEF Group
    <3>3. answer'[c] # "grant"
      BY <2>2, <2>7
    <3>4. answer'[c] = "allow" => e.action \in {"allowed_once", "scope_allow"}
      BY <2>2, <2>5, <2>7
    <3> QED
      BY <2>7, <3>1, <3>2, <3>3, <3>4 DEF FrameRecords
  <2> HIDE DEF says, new
  <2> QED
    BY <1>7, <2>3, <2>4, <2>5, <2>6, <2>8, <2>9
<1>11. CASE RecordGrant(c)
  <2> DEFINE e == Record("grant_created", h)
  <2>1. copy[c] = "commit" /\ answer[c] = "grant" /\ UNCHANGED <<answer, decided, handled>>
    BY <1>0, <1>11 DEF RecordGrant, FrameAnswers
  <2>2. answer' = [answer EXCEPT ![c] = answer[c]] /\ decided' = [decided EXCEPT ![h] = @ \cup {}]
    BY <1>0, <2>1 DEF AnswerTypes
  <2>3. CASE CopyTo(c, "unsent") /\ UNCHANGED logVars
    <3>1. copy'[c] = "unsent"
      BY <1>0, <2>3 DEF CopyTo, AnswerTypes
    <3>2. FrameRecords(c)'
      BY <1>0, <2>1, <3>1 DEF FrameRecords
    <3> QED
      BY <1>1, <2>1, <2>3, <3>2
  <2>4. CASE \E raises \in BOOLEAN : LogAppend(e, raises) /\ CopyTo(c, IF raises THEN "unsent" ELSE "minted")
    <3>1. PICK raises \in BOOLEAN : LogAppend(e, raises) /\ CopyTo(c, IF raises THEN "unsent" ELSE "minted")
      BY <2>4
    <3>2. e.event = "grant_created" /\ e.id = h
      BY DEF Record
    <3> HIDE DEF e
    <3>3. copy'[c] = IF raises THEN "unsent" ELSE "minted"
      BY <1>0, <3>1 DEF CopyTo, AnswerTypes
    <3>4. EventFits(c, e)'
      BY <1>0, <1>8, <2>1, <3>2, <3>3 DEF EventFits, hookVars
    <3>5. FrameRecords(c)'
      <4>1. \E s \in Servers : <<c, s>> \in handled'
        BY <1>0, <2>1 DEF FrameRecords
      <4>2. ~raises => Logged(h, "grant_created")'
        BY <3>1, <3>2, Appended DEF Logged, Group
      <4> QED
        BY <3>3, <4>1, <4>2 DEF FrameRecords
    <3> QED
      BY <1>7, <2>1, <2>2, <3>1, <3>2, <3>4, <3>5
  <2> QED
    BY <1>11, <2>3, <2>4 DEF RecordGrant
<1>12. CASE Commit(c)
  <2> DEFINE e == [Record("permission_review_decision", h) EXCEPT
                     !.behavior = "allow", !.action = "scope_allow"]
  <2>1. copy[c] = "minted" /\ answer[c] = "grant" /\ UNCHANGED <<answer, handled>>
    BY <1>0, <1>12 DEF Commit, FrameAnswers
  <2>2. answer' = [answer EXCEPT ![c] = answer[c]]
    BY <1>0, <2>1 DEF AnswerTypes
  <2>3. CASE CopyTo(c, "unsent") /\ UNCHANGED <<decided, logVars>>
    <3>1. copy'[c] = "unsent"
      BY <1>0, <2>3 DEF CopyTo, AnswerTypes
    <3>2. FrameRecords(c)'
      BY <1>0, <2>1, <3>1 DEF FrameRecords
    <3> QED
      BY <1>1, <2>1, <2>3, <3>2
  <2>4. CASE \E raises \in BOOLEAN :
               /\ LogAppend(e, raises) /\ CopyTo(c, IF raises THEN "unsent" ELSE "send")
               /\ decided' = [decided EXCEPT ![h] = IF raises THEN @ ELSE @ \cup {"allow"}]
    <3>1. PICK raises \in BOOLEAN :
            /\ LogAppend(e, raises) /\ CopyTo(c, IF raises THEN "unsent" ELSE "send")
            /\ decided' = [decided EXCEPT ![h] = IF raises THEN @ ELSE @ \cup {"allow"}]
      BY <2>4
    <3> DEFINE new == IF raises THEN {} ELSE {"allow"}
    <3>2. /\ e.event = "permission_review_decision" /\ e.id = h
          /\ e.behavior = "allow" /\ e.action = "scope_allow"
      BY DEF Record
    <3> HIDE DEF e
    <3>3. /\ copy'[c] = IF raises THEN "unsent" ELSE "send"
          /\ decided' = [decided EXCEPT ![h] = @ \cup new]
          /\ decided'[h] = decided[h] \cup new
      BY <1>0, <3>1 DEF CopyTo, AnswerTypes
    <3>4. ~raises => EventFits(c, e)'
      BY <1>0, <1>8, <2>1, <3>2, <3>3 DEF EventFits, hookVars
    <3>5. LogGrows(h)
      BY <3>1, <3>2, Appended DEF LogGrows
    <3>6. FrameRecords(c)'
      <4>1. \E s \in Servers : <<c, s>> \in handled'
        BY <1>0, <2>1 DEF FrameRecords
      <4>2. Logged(h, "grant_created")'
        BY <1>0, <2>1, <3>5, GroupsGrow DEF FrameRecords
      <4>3. ~raises => broken' \/ e \in Group(log', h, "permission_review_decision")
        BY <3>1, <3>2, Appended DEF Group
      <4> QED
        BY <3>2, <3>3, <4>1, <4>2, <4>3 DEF FrameRecords
    <3> HIDE DEF new
    <3> QED
      BY <1>7, <2>1, <2>2, <3>1, <3>2, <3>3, <3>4, <3>6
  <2> QED
    BY <1>12, <2>3, <2>4 DEF Commit
<1>13. CASE SendGrant(c)
  <2>1. PICK sent \in BOOLEAN, raises \in BOOLEAN :
          /\ sent => copy[c] = "send"
          /\ CopyTo(c, IF sent THEN "sent" ELSE "over")
          /\ LogAppend([Record("permission_review_delivery", h) EXCEPT !.delivered = sent], raises)
    BY <1>13 DEF SendGrant
  <2> DEFINE e == [Record("permission_review_delivery", h) EXCEPT !.delivered = sent]
  <2>2. /\ copy[c] \in {"commit", "unsent", "send"} /\ answer[c] = "grant"
        /\ UNCHANGED <<answer, decided, handled>>
    BY <1>0, <1>13 DEF SendGrant, FrameAnswers
  <2>3. answer' = [answer EXCEPT ![c] = answer[c]] /\ decided' = [decided EXCEPT ![h] = @ \cup {}]
    BY <1>0, <2>2 DEF AnswerTypes
  <2>4. e.event = "permission_review_delivery" /\ e.id = h /\ e.delivered = sent
    BY DEF Record
  <2>5. LogAppend(e, raises)
    BY <2>1
  <2> HIDE DEF e
  <2>6. copy'[c] = IF sent THEN "sent" ELSE "over"
    BY <1>0, <2>1 DEF CopyTo, AnswerTypes
  <2>7. EventFits(c, e)'
    BY <1>0, <1>8, <2>2, <2>4, <2>6 DEF EventFits, hookVars
  <2>8. LogGrows(h)
    BY <2>4, <2>5, Appended DEF LogGrows
  <2>9. FrameRecords(c)'
    <3>1. /\ \A name : Group(log, h, name) \subseteq Group(log', h, name)
          /\ \A name : Logged(h, name) => Logged(h, name)'
      BY <2>8, GroupsGrow
    <3> QED
      BY <1>0, <2>1, <2>2, <2>6, <2>8, <3>1 DEF FrameRecords, LogGrows
  <2> QED
    BY <1>7, <2>1, <2>2, <2>3, <2>4, <2>5, <2>7, <2>9
<1> QED
  BY <1>2, <1>3, <1>4, <1>5, <1>9, <1>10, <1>11, <1>12, <1>13 DEF CopyStep

LEMMA RecordsStart == Init => LogInv
<1> SUFFICES ASSUME Init
             PROVE  LogInv
  OBVIOUS
<1>1. ASSUME NEW h \in scenario.hooks
      PROVE  HookRecords(h) /\ WatcherRecords(h)
  <2>1. h \in Hooks
    BY <1>1, AnswersStart, CastIsDeclared DEF AnswersInv
  <2> QED
    BY <2>1 DEF Init, HookRecords, WatcherRecords, Group, FailedDelivery
<1>2. ASSUME NEW c \in Copies
      PROVE  FrameRecords(c)
  BY DEF Init, FrameRecords
<1> QED
  BY <1>1, <1>2 DEF Init, LogInv

LEMMA RecordsStay ==
  AnswersInv /\ FramesInv /\ HandledOnce /\ LogInv /\ [Next]_vars => LogInv'
<1> SUFFICES ASSUME AnswersInv, FramesInv, HandledOnce, LogInv, [Next]_vars
             PROVE  LogInv'
  OBVIOUS
<1>1. ASSUME UNCHANGED <<scenario, hookVars, copyVars, logVars>>
      PROVE  LogInv'
  BY <1>1 DEF LogInv, HookRecords, WatcherRecords, FrameRecords, Logged, hookVars, copyVars, logVars
<1>2. ASSUME NEW h \in scenario.hooks, HookStep(h)
      PROVE  LogInv'
  BY <1>2, HookKeepsRecords
<1>3. ASSUME NEW c \in Copies, CopyStep(c)
      PROVE  LogInv'
  BY <1>3, CopyKeepsRecords
<1> QED
  BY <1>1, <1>2, <1>3 DEF Next, HookStep, CopyStep, Quiet, vars

(* Whoever dies, whatever arrives twice and whichever lines are cut short, *)
(* the receipt tells what happened: it calls decided only what was decided,*)
(* counts no scope that was not minted, and unless it reports a malformed  *)
(* line it has every answer that the host read, as what it was             *)
(* (receipt.project; hook.main and Watcher._request, which record first    *)
(* and answer afterwards).                                                 *)
THEOREM ReceiptIsTrue == Spec => []ReceiptTellsTheTruth
<1>1. PathInv => FramesInv /\ HandledOnce
  BY DEF PathInv
<1>2. Spec => []AnswersInv
  BY AnswersStart, AnswersStay, PTL DEF Spec
<1>3. AnswersInv /\ HandledOnce /\ LogInv => ReceiptTellsTheTruth
  BY RecordsSuffice
<1> QED
  BY <1>1, <1>2, <1>3, PathHolds, RecordsStart, RecordsStay, PTL DEF Spec
==============================================================================
