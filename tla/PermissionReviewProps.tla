------------------------ MODULE PermissionReviewProps ------------------------
(***************************************************************************)
(* What the watcher must guarantee: properties of PermissionReview and its *)
(* refinement of Authority.                                                *)
(***************************************************************************)
EXTENDS PermissionReview

Stages == {"idle", "dispatch", "handle", "classify", "propose", "ask", "human", "decide",
           "notice", "stop", "reply", "commit", "consume", "send", "finalize", "finish",
           "closer", "done"}

Replies == {"none", "allow", "deny", "abstain", "error", "answer", "ready", "accepted",
            "refused", "received", "revoke", "shutdown"}

AnyAnswer == [action : Actions \cup {"none", "text"}, card : Cards \cup {None}]

WorkersTypeOK ==
  /\ pc \in [Workers -> Stages]
  /\ msg \in [Workers -> Messages \cup {None}]
  /\ slot \in [Workers -> {"none", "normal", "control"}]
  /\ live \in [Workers -> BOOLEAN] /\ bound \in [Workers -> BOOLEAN]
  /\ gen \in [Workers -> Nat \cup {None}]
  /\ shown \in [Workers -> Cards \cup {None}]
  /\ pending \in [Workers -> Cards \cup {None}]
  /\ reply \in [Workers -> Replies] /\ outcome \in [Workers -> Replies]
  /\ minted \in [Workers -> Ids \cup {None}] /\ used \in [Workers -> Ids \cup {None}]
  /\ answer \in [Workers -> AnyAnswer]

SharedTypeOK ==
  /\ interactive \in BOOLEAN /\ hostOpen \in BOOLEAN /\ closed \in BOOLEAN
  /\ closing \in {"no", "marked", "revoked", "closed"}
  /\ lock \in Workers \cup {None} /\ ui \in Workers \cup {None}

LockedStages == {"commit", "consume", "send", "finalize"}

(* The reply lock is held by the worker in the locked part of the reply    *)
(* path, ui_lock by the worker whose prompt is on screen.                  *)
Holders ==
  \A w \in Workers : (lock = w <=> pc[w] \in LockedStages) /\ (ui = w <=> pc[w] = "human")

(* The watcher's variables have their types, and each lock has the one     *)
(* holder its stage says.                                                  *)
TypeOK == StoreTypeOK /\ WorkersTypeOK /\ SharedTypeOK /\ Holders

MintedBy(w, grant) == minted[w] = grant.id

(* Whenever Store.lock is free, every grant in the store is one whose      *)
(* approving request was answered "allow": a reply that could not be       *)
(* committed, logged or sent leaves no grant behind (commit and finalize   *)
(* in Watcher._request, the finally of Server._dispatch).                  *)
OnlyDeliveredGrants ==
  LockFree =>
    \A k \in Bound(grants) :
      \E w \in Workers : MintedBy(w, grants[k]) /\ outcome[w] = "allow"

(* The card the human accepted on w's review.                              *)
AcceptedCard(w) == IF answer[w].card # None THEN answer[w].card ELSE shown[w]

(* A grant carries the card its human saw or edited, for the key of the    *)
(* request under review, even when the agent replaced the proposal while   *)
(* the prompt was open.                                                    *)
GrantIsWhatTheHumanSaw ==
  \A k \in Bound(grants), w \in Workers :
    MintedBy(w, grants[k]) =>
      /\ k = KeyOf(RequestOf(w))
      /\ answer[w].action = "grant"
      /\ grants[k].card = AcceptedCard(w)

ProposedBy(w, b) ==
  /\ msg[w] # None
  /\ msg[w].kind = "proposal" /\ msg[w].base = b /\ msg[w].card = proposals[b]

(* After a revoke nothing approved or proposed by a request admitted       *)
(* before it is left or comes back, however late that request's human,     *)
(* commit or proposal step runs.                                           *)
NothingOutlivesRevoke ==
  /\ \A k \in Bound(grants) :
       \E w \in Workers : MintedBy(w, grants[k]) /\ gen[w] = generation
  /\ \A b \in Bound(proposals) :
       \E w \in Workers : ProposedBy(w, b) /\ gen[w] = generation

(* Once Watcher.close has revoked, the store stays empty, although workers *)
(* are still running and clients still connect until the server closes.    *)
ClosedStoreIsEmpty ==
  closing \in {"revoked", "closed"} => Bound(grants) = {} /\ Bound(proposals) = {}

(* No reply of any kind - an allow, but also an answer the human typed to  *)
(* a question - is sent to a request admitted before a revoke.             *)
NoReplyAcrossRevoke ==
  [][\A w \in Workers :
       outcome'[w] # outcome[w] => gen[w] = generation /\ generation' = generation]_vars

-----------------------------------------------------------------------------
(* Facts the proofs rest on: what holds where a worker stands.             *)

CarriesMessage == \A w \in Workers : pc[w] # "idle" => msg[w] \in Messages

ProposesAtPropose == \A w \in Workers : pc[w] = "propose" => msg[w].kind = "proposal"

CommitsACard == \A w \in Workers : pc[w] = "commit" => pending[w] \in Cards

(* Nothing revokes while the reply lock is held.                           *)
CurrentUnderLock ==
  \A w \in Workers : pc[w] \in {"commit", "consume", "send"} => gen[w] = generation

ClosingMeansClosed == closing # "no" => closed

WatchInv ==
  WorkersTypeOK /\ SharedTypeOK /\ Holders /\ CarriesMessage /\ ProposesAtPropose /\ CommitsACard

ReviewTypeInv == StoreTypeOK /\ WatchInv

ReviewInv == ReviewTypeInv /\ CurrentUnderLock /\ ClosingMeansClosed /\ ClosedStoreIsEmpty

-----------------------------------------------------------------------------
(* How a permission reaches its client: facts about one worker, then about *)
(* the grants it mints and spends.                                         *)

Asks(w) == msg[w] # None /\ msg[w].kind = "request"
Admitted(w) == Asks(w) /\ gen[w] # None

Unadmitted == {"idle", "dispatch"}
BeforeAnswer ==
  Unadmitted \cup {"handle", "classify", "propose", "notice", "stop", "ask", "human"}
BeforeReply == BeforeAnswer \cup {"decide"}
Replying == {"reply", "commit", "consume", "send"}

(* Nothing of a worker is set before the stage that sets it.               *)
SetInOrder(w) ==
  /\ pc[w] = "idle" => msg[w] = None
  /\ pc[w] \in Unadmitted => gen[w] = None
  /\ pc[w] \in BeforeAnswer => answer[w] = NoAnswer
  /\ pc[w] \in BeforeReply => pending[w] = None
  /\ pc[w] \in BeforeReply \cup {"reply", "commit"} => minted[w] = None
  /\ pc[w] \in BeforeReply \cup {"commit", "consume"} => used[w] = None
  /\ pc[w] \in BeforeReply \cup Replying => outcome[w] = "none"

(* What a worker serves where it stands.                                   *)
ServesItsKind(w) ==
  /\ pc[w] \in (BeforeReply \ Unadmitted) \cup Replying => gen[w] # None
  /\ pc[w] \in {"classify", "commit", "consume"} => Asks(w)
  /\ pc[w] \in {"notice", "stop"} => ~Asks(w)
  /\ pc[w] \in {"ask", "human", "decide"} =>
       msg[w].kind \in {"request", "question"} /\ (Asks(w) => Tier(w) = "T2")

(* A card waits to be approved only as the human accepted it on a request. *)
PendingIsAccepted(w) ==
  pending[w] # None =>
    /\ Asks(w) /\ gen[w] # None
    /\ answer[w].action = "grant" /\ pending[w] = AcceptedCard(w)
    /\ reply[w] = "allow"
    /\ pc[w] = "reply" => used[w] = None

(* What a request is about to be told, and why an allow may be among it.   *)
AllowHasACause(w) ==
  pc[w] \in Replying /\ Asks(w) =>
    /\ reply[w] \in {"allow", "deny", "abstain", "error"}
    /\ reply[w] = "allow" =>
         \/ Tier(w) = "T1"
         \/ Tier(w) = "T2" /\ answer[w].action = "once"
         \/ used[w] # None
         \/ pending[w] # None /\ pc[w] # "send"

FollowsPath(w) ==
  /\ SetInOrder(w) /\ ServesItsKind(w) /\ PendingIsAccepted(w) /\ AllowHasACause(w)
  /\ outcome[w] \in {"none", reply[w]}

PathInv == \A w \in Workers : FollowsPath(w)

(* Every grant ever minted was minted by one worker, from its pending card *)
(* and for its key.                                                        *)
MintedOnce ==
  /\ \A w \in Workers :
       minted[w] # None =>
         /\ minted[w] <= issued
         /\ pending[w] # None
         /\ terms[minted[w]].key = KeyOf(RequestOf(w))
         /\ terms[minted[w]].card = pending[w]
  /\ \A v, w \in Workers : minted[v] = minted[w] /\ minted[v] # None => v = w
  /\ \A i \in 1..issued : \E w \in Workers : minted[w] = i

(* A live grant is of the present generation, and its minter was answered  *)
(* allow or still holds the lock.                                          *)
LiveIsCurrent ==
  \A k \in Bound(grants), w \in Workers :
    MintedBy(w, grants[k]) => gen[w] = generation /\ (outcome[w] = "allow" \/ lock = w)

(* Whoever spent a unit asked for the grant's key, for a command its card  *)
(* covers, in the generation of its minter.                                *)
SpentAsApproved ==
  \A v \in Workers :
    used[v] # None =>
      /\ used[v] <= issued
      /\ Asks(v)
      /\ terms[used[v]].key = KeyOf(RequestOf(v))
      /\ Matches(terms[used[v]].card, RequestOf(v))
      /\ \A w \in Workers : minted[w] = used[v] => gen[w] = gen[v]

Spenders(i) == {v \in Workers : used[v] = i}

(* The workers that spent a grant are no more than its spent units.        *)
SpendersAreCounted == \A i \in Ids : Cardinality(Spenders(i)) <= spent[i]

(* A pending proposal was made in the present generation.                  *)
ProposalsAreCurrent ==
  \A b \in Bound(proposals) : \E w \in Workers : ProposedBy(w, b) /\ gen[w] = generation

LedgerInv ==
  MintedOnce /\ LiveIsCurrent /\ SpentAsApproved /\ SpendersAreCounted /\ ProposalsAreCurrent

AuthorityInv == StoreInv /\ WatchInv /\ CurrentUnderLock /\ PathInv /\ LedgerInv

-----------------------------------------------------------------------------
(* The refinement of Authority.                                            *)

ApprovesCard(w) == answer[w].action = "grant" /\ AcceptedCard(w) # None

Word(w) ==
  IF answer[w].action = "once" THEN [says |-> "once", card |-> None]
  ELSE IF ApprovesCard(w) THEN [says |-> "card", card |-> AcceptedCard(w)]
  ELSE [says |-> "nothing", card |-> None]

UnitsDelivered(w) ==
  Cardinality({v \in Workers : outcome[v] = "allow" /\ used[v] # None /\ used[v] = minted[w]})

Asked ==
  [w \in Workers |->
     IF Admitted(w)
     THEN [epoch |-> gen[w], key |-> KeyOf(RequestOf(w)), command |-> msg[w].command]
     ELSE None]

Words == [w \in Workers |-> Word(w)]

Credit ==
  [w \in Workers |-> IF ApprovesCard(w) THEN AcceptedCard(w).budget - UnitsDelivered(w) ELSE 0]

AnswerSent == [w \in Workers |-> IF Asks(w) THEN outcome[w] ELSE "none"]

Promise == INSTANCE Authority WITH
  Clients <- Workers,
  epoch <- generation,
  asked <- Asked,
  word <- Words,
  credit <- Credit,
  answered <- AnswerSent

(* Every behavior of the watcher keeps the promise of Authority: an allow  *)
(* that leaves it is T1, or the human's own word on that very request, or  *)
(* a unit of a card the human approved since the last revoke.              *)
KeepsPromise == Promise!Spec

-----------------------------------------------------------------------------
(* Liveness.                                                               *)

Running(w) == pc[w] \notin {"idle", "done"}
StillWanted(w) == live[w] /\ ~closed /\ generation = gen[w]
WaitsForHuman(w) == pc[w] \in {"ask", "human", "notice"} /\ StillWanted(w)

(* A worker never hangs except on a prompt that is still wanted: it ends,  *)
(* and gives its slot and ui_lock back, or its client waits for the human. *)
(* So a request that was cancelled, revoked or overtaken by close() ends   *)
(* whatever the human does (watch.py:148-160, ipc.py:463-491).             *)
RequestsEndOrWait == \A w \in Workers : Running(w) ~> (pc[w] = "done" \/ WaitsForHuman(w))

(* A revoke or shutdown that got a slot takes effect although every other  *)
(* worker may wait for a human who never answers: it is not dropped, and   *)
(* not queued behind a prompt.  Only its own end, before it is served, or  *)
(* a server that closes may cut it off (ipc.py:385-421).                   *)
ControlGetsThrough ==
  \A w \in Workers :
    pc[w] = "dispatch" /\ msg[w].kind \in ControlKinds
      ~> \/ pc[w] = "done" /\ reply[w] # "none"
         \/ pc[w] # "done" /\ ~live[w]
         \/ closing # "no"
=============================================================================
