-------------------------- MODULE PermissionReview --------------------------
(***************************************************************************)
(* The watcher: scope.watch.Watcher on top of the request path of          *)
(* scope.ipc.Server (_serve, _handle, _dispatch, _finish_context) and of   *)
(* the store of GrantStore.                                                *)
(*                                                                         *)
(* A worker is one connection: a daemon thread of the server with its      *)
(* Context.  Workers share the store under Store.lock, one human behind    *)
(* ui_lock, and the server's slots.  A `with store.lock` block of the code *)
(* is one step here, except the reply path of _dispatch, which holds the   *)
(* lock over several steps (check, commit, send, finalize) because the     *)
(* client, the clock, the host session and close() move meanwhile.         *)
(*                                                                         *)
(* live[w] stands for Context.active of the transport: it goes from TRUE   *)
(* to FALSE once, when the deadline passes, the client disconnects or the  *)
(* server cancels the context.  Authentication and nonces are not modelled *)
(* here: every message is one the server accepts as authentic.  A log      *)
(* append may fail (disk full) whenever LogMayFail.                        *)
(***************************************************************************)
EXTENDS GrantStore

CONSTANTS
  Workers,         (* Connections; each is used once.                      *)
  Messages,        (* The messages clients may send.                       *)
  MAX_CLIENTS,     (* Server.max_clients: normal slots.                    *)
  Crowd,           (* Bound: normal slots that other connections may hold. *)
  Launched,        (* Whether the watcher belongs to a private launch.     *)
  LogMayFail,      (* Whether log.append may raise.                        *)
  Says,            (* Bound: the actions the human chooses from.           *)
  OperatorRevokes, (* Bound: revokes typed at the review desk (Ctrl-R).    *)
  Surroundings     (* Bound: which outside events this instance includes,  *)
                   (* of "expire", "terminal", "host", "close", "desk".    *)

ControlKinds == {"revoke", "shutdown"}
Actions == {"once", "deny", "abstain", "revoke", "grant", "badcard"}
BoundKinds == {"request", "proposal", "question"}
Kinds == ControlKinds \cup BoundKinds \cup {"ping", "notice", "stop", "invalid"}

Message ==
  {m \in [kind : Kinds, base : Bases, shell : Shells, command : Commands,
           card : Cards \cup {None}] :
     m.kind = "proposal" => m.card \in Cards}

ASSUME MessagesAssumption == Messages \subseteq Message

ASSUME NothingAssumption ==
  /\ None \notin Messages /\ None \notin Nat
  /\ None \notin [epoch : Nat, key : Keys, command : Commands]

ASSUME WorkersAssumption ==
  /\ IsFiniteSet(Workers) /\ None \notin Workers
  /\ Says \subseteq Actions
  /\ MAX_CLIENTS \in Nat \ {0} /\ Crowd \in Nat
  /\ OperatorRevokes \in Nat
  /\ Launched \in BOOLEAN /\ LogMayFail \in BOOLEAN
  (* Bounds that never stop a worker: each mints and revokes at most once. *)
  /\ MaxGrants >= Cardinality(Workers)
  /\ MaxGeneration > OperatorRevokes + Cardinality(Workers)

VARIABLES
  pc,          (* Where each worker stands.                                *)
  msg,         (* Its message.                                             *)
  slot,        (* The semaphore it holds: "normal", "control" or "none".   *)
  live,        (* Its transport context is not cancelled.                  *)
  bound,       (* Its review context is bound to the native host session.  *)
  gen,         (* The generation its reply is guarded by.                  *)
  shown,       (* The proposal card shown with its review, or None.        *)
  answer,      (* What the human answered: [action, card], or None.        *)
  pending,     (* The card its before_reply callback will approve, or None *)
  reply,       (* The reply its handler returned.                          *)
  minted,      (* The grant its commit minted, or None.                    *)
  used,        (* The grant it consumed (and its decision names), or None. *)
  outcome,     (* The reply that was sent to its client, or "none".        *)
  lock,        (* The worker that holds Store.lock across steps, or None.  *)
  ui,          (* The worker that holds ui_lock, or None.                  *)
  interactive, (* ui.interactive: the terminal can still ask the human.    *)
  hostOpen,    (* host_session.require_session succeeds.                   *)
  closed,      (* Watcher.closed.                                          *)
  closing      (* Progress of Watcher.close.                               *)

connVars == <<msg, slot, live, bound, gen>>
humanVars == <<shown, answer>>
commitVars == <<pending, minted, used, outcome>>
sharedVars == <<lock, ui, interactive, hostOpen, closed, closing>>
vars == <<storeVars, pc, connVars, humanVars, commitVars, reply, sharedVars>>

(* The request a message carries, as the store sees it.                    *)
RequestOf(w) == [base |-> msg[w].base, shell |-> msg[w].shell, command |-> msg[w].command]

Tier(w) == TierOf[msg[w].command]

LogOutcomes == IF LogMayFail THEN {TRUE, FALSE} ELSE {TRUE}

(* What the human may answer.  "grant" without a card approves the card    *)
(* that was shown, with one an edited card; "badcard" is an edited card    *)
(* that validate_card refuses.                                             *)
Answers(kind) ==
  IF kind = "question" THEN [action : {"text"}, card : {None}]
  ELSE [action : Says, card : {None}] \cup [action : Says \cap {"grant"}, card : Cards]

NoAnswer == [action |-> "none", card |-> None]

At(w, stage) == pc[w] = stage
Goto(w, stage) == pc' = [pc EXCEPT ![w] = stage]

-----------------------------------------------------------------------------
Init ==
  /\ StoreInit
  /\ pc = [w \in Workers |-> "idle"]
  /\ msg = [w \in Workers |-> None]
  /\ slot = [w \in Workers |-> "none"]
  /\ live = [w \in Workers |-> FALSE]
  /\ bound = [w \in Workers |-> FALSE]
  /\ gen = [w \in Workers |-> None]
  /\ shown = [w \in Workers |-> None]
  /\ answer = [w \in Workers |-> NoAnswer]
  /\ pending = [w \in Workers |-> None]
  /\ reply = [w \in Workers |-> "none"]
  /\ minted = [w \in Workers |-> None]
  /\ used = [w \in Workers |-> None]
  /\ outcome = [w \in Workers |-> "none"]
  /\ lock = None
  /\ ui = None
  /\ interactive = TRUE
  /\ hostOpen = TRUE
  /\ closed = FALSE
  /\ closing = "no"

-----------------------------------------------------------------------------
(* Mutants used by PROJECT.json: plausible bugs in the code below.         *)

MutReviewActiveIgnoresGeneration(w) ==
  live[w] /\ ~closed /\ (bound[w] => hostOpen)

MutReviewActiveIgnoresCancel(w) ==
  ~closed /\ generation = gen[w] /\ (bound[w] => hostOpen)

MutReviewActiveIgnoresClosed(w) ==
  live[w] /\ generation = gen[w] /\ (bound[w] => hostOpen)

MutReplyValidAlways(w) == TRUE

MutSelectedCardFromStore(w) ==
  IF answer[w].card # None THEN answer[w].card ELSE proposals[msg[w].base]

MutUndeliveredIgnoresMinted(w) == FALSE

-----------------------------------------------------------------------------
(* _ReviewContext.active.                                                  *)
ReviewActive(w) ==
  live[w] /\ ~closed /\ generation = gen[w] /\ (bound[w] => hostOpen)

(* Context.reply_valid as _guard and _bind set it.                         *)
ReplyValid(w) == generation = gen[w] /\ ~closed /\ (bound[w] => hostOpen)

(* No worker holds Store.lock across steps.                                *)
LockFree == lock = None

(* ui_lock is free.                                                        *)
DeskFree == ui = None

(* The semaphore `kind` can be acquired without blocking, with so many     *)
(* other connections holding it.                                           *)
HasSlot(kind, others) ==
  Cardinality({w \in Workers : slot[w] = kind}) + others < (IF kind = "normal" THEN MAX_CLIENTS ELSE 1)

(* The card a "grant" answer approves: the edited one, else the one shown. *)
SelectedCard(w) == IF answer[w].card # None THEN answer[w].card ELSE shown[w]

(* Whether reply_finalize has a grant to discard.                          *)
UndeliveredMint(w) == outcome[w] = "none" /\ minted[w] # None

-----------------------------------------------------------------------------
(* Accepting and admitting a connection (Server._serve, _handle, _dispatch)*)

(* _serve: a client takes a normal slot, else the control slot, else its   *)
(* connection is closed.                                                   *)
Accept(w) ==
  /\ At(w, "idle")
  /\ closing # "closed"
  /\ \E m \in Messages : msg' = [msg EXCEPT ![w] = m]
  /\ \/ /\ HasSlot("normal", 0)
        /\ slot' = [slot EXCEPT ![w] = "normal"]
        /\ live' = [live EXCEPT ![w] = TRUE]
        /\ Goto(w, "dispatch")
     \/ /\ ~HasSlot("normal", Crowd) /\ HasSlot("control", 0)
        /\ slot' = [slot EXCEPT ![w] = "control"]
        /\ live' = [live EXCEPT ![w] = TRUE]
        /\ Goto(w, "dispatch")
     \/ /\ ~HasSlot("normal", Crowd) /\ ~HasSlot("control", 0)
        /\ Goto(w, "done")
        /\ UNCHANGED <<slot, live>>
  /\ UNCHANGED <<storeVars, bound, gen, humanVars, commitVars, reply, sharedVars>>

(* The control reader serves revoke and shutdown only.                     *)
Served(w) == live[w] /\ (slot[w] = "control" => msg[w].kind \in ControlKinds)

(* _dispatch: the admission callback reads the generation under the lock.  *)
Admit(w) ==
  /\ At(w, "dispatch")
  /\ Goto(w, "handle")
  /\ Served(w)
  /\ LockFree
  /\ gen' = [gen EXCEPT ![w] = generation]
  /\ UNCHANGED <<storeVars, msg, slot, live, bound, humanVars, commitVars, reply, sharedVars>>

Drop(w) ==
  /\ At(w, "dispatch")
  /\ Goto(w, "finish")
  /\ ~Served(w)
  /\ UNCHANGED <<storeVars, connVars, humanVars, commitVars, reply, sharedVars>>

-----------------------------------------------------------------------------
(* Watcher.handle.                                                         *)

Return(w, r) == Goto(w, "reply") /\ reply' = [reply EXCEPT ![w] = r]

(* A mutant of Control: revoking waits until no prompt is on screen.       *)
MutControlWaitsForDesk(w) ==
  /\ At(w, "handle")
  /\ msg[w].kind \in ControlKinds
  /\ LockFree /\ DeskFree
  /\ Revoke
  /\ Return(w, msg[w].kind)
  /\ gen' = [gen EXCEPT ![w] = generation']
  /\ UNCHANGED <<msg, slot, live, bound, humanVars, commitVars, sharedVars>>

(* revoke and shutdown: _revoke under the lock, then _guard with the new   *)
(* generation.  If logging fails the store is revoked all the same, but    *)
(* the guard keeps the old generation and shutdown sets no after_reply.    *)
Control(w) ==
  /\ At(w, "handle")
  /\ msg[w].kind \in ControlKinds
  /\ LockFree
  /\ Revoke
  /\ \E logged \in LogOutcomes :
       /\ Return(w, IF logged THEN msg[w].kind ELSE "error")
       /\ gen' = [gen EXCEPT ![w] = IF logged THEN generation' ELSE @]
  /\ UNCHANGED <<msg, slot, live, bound, humanVars, commitVars, sharedVars>>

(* What handle does next, by kind.                                         *)
StageOf == [request |-> "classify", proposal |-> "propose", question |-> "ask",
            notice |-> "notice", stop |-> "stop"]

(* The other kinds.  A malformed body is an error, a cancelled context too,*)
(* and so is a request of a launch whose host session is not open (_bind). *)
Refused(w) ==
  \/ msg[w].kind = "invalid"
  \/ ~ReviewActive(w)
  \/ msg[w].kind \in BoundKinds /\ Launched /\ ~hostOpen

Gate(w) ==
  /\ At(w, "handle")
  /\ msg[w].kind \notin ControlKinds
  /\ \/ /\ Refused(w)
        /\ Return(w, "error")
        /\ UNCHANGED bound
     \/ /\ ~Refused(w) /\ msg[w].kind = "ping"
        /\ Return(w, "ready")
        /\ UNCHANGED bound
     \/ /\ ~Refused(w) /\ msg[w].kind # "ping"
        /\ Goto(w, StageOf[msg[w].kind])
        /\ bound' = [bound EXCEPT ![w] = Launched /\ msg[w].kind \in BoundKinds]
        /\ UNCHANGED reply
  /\ UNCHANGED <<storeVars, msg, slot, live, gen, humanVars, commitVars, sharedVars>>

(* proposal: store the card of an active context.  At the cap propose      *)
(* raises; a failing log append leaves the card stored and answers error.  *)
Proposal(w) ==
  /\ At(w, "propose")
  /\ LockFree
  /\ \/ /\ ReviewActive(w)
        /\ Propose(msg[w].base, msg[w].card)
        /\ \E logged \in LogOutcomes :
             Return(w, IF logged THEN "accepted" ELSE "error")
     \/ /\ ReviewActive(w) /\ ~Fits(proposals, msg[w].base)
        /\ Return(w, "error")
        /\ UNCHANGED storeVars
     \/ /\ ~ReviewActive(w)
        /\ Return(w, "refused")
        /\ UNCHANGED storeVars
  /\ UNCHANGED <<connVars, humanVars, commitVars, sharedVars>>

(* _decision: log the decision and return its behavior; if the append      *)
(* raises the handler answers error.                                       *)
Conclude(w, behavior) ==
  \E logged \in LogOutcomes : Return(w, IF logged THEN behavior ELSE "error")

(* _request up to the human: the first locked section.                     *)
Classify(w) ==
  /\ At(w, "classify")
  /\ LockFree
  /\ \/ /\ ~ReviewActive(w)
        /\ Return(w, "abstain")
        /\ UNCHANGED <<storeVars, shown, used>>
     \/ /\ ReviewActive(w) /\ LogMayFail     (* permission_review is not logged *)
        /\ Return(w, "error")
        /\ UNCHANGED <<storeVars, shown, used>>
     \/ /\ ReviewActive(w) /\ Tier(w) = "T3"
        /\ Conclude(w, "abstain")
        /\ UNCHANGED <<storeVars, shown, used>>
     \/ /\ ReviewActive(w) /\ Tier(w) = "T1"
        /\ Conclude(w, "allow")
        /\ UNCHANGED <<storeVars, shown, used>>
     \/ /\ ReviewActive(w) /\ Tier(w) = "T2" /\ ~interactive
        /\ Conclude(w, "abstain")
        /\ UNCHANGED <<storeVars, shown, used>>
     \/ /\ ReviewActive(w) /\ Tier(w) = "T2" /\ interactive
        /\ Consume(RequestOf(w))
        /\ used' = [used EXCEPT ![w] = Pruned[KeyOf(RequestOf(w))].id]
        /\ Conclude(w, "allow")
        /\ UNCHANGED shown
     \/ /\ ReviewActive(w) /\ Tier(w) = "T2" /\ interactive
        /\ ConsumeNothing(RequestOf(w))
        /\ shown' = [shown EXCEPT ![w] = proposals[msg[w].base]]
        /\ Goto(w, "ask")
        /\ UNCHANGED <<reply, used>>
  /\ UNCHANGED <<connVars, answer, pending, minted, outcome, sharedVars>>

-----------------------------------------------------------------------------
(* _ask and the human.                                                     *)

TakeDesk(w) ==
  /\ At(w, "ask")
  /\ Goto(w, "human")
  /\ ReviewActive(w) /\ interactive /\ DeskFree
  /\ ui' = w
  /\ UNCHANGED <<storeVars, connVars, humanVars, commitVars, reply,
                 lock, interactive, hostOpen, closed, closing>>

(* A mutant of LeaveQueue: ui_lock acquired without a timeout.             *)
MutLeaveQueueBlocks(w) ==
  /\ At(w, "ask")
  /\ Goto(w, "decide")
  /\ DeskFree
  /\ ~ReviewActive(w) \/ ~interactive
  /\ UNCHANGED <<storeVars, connVars, humanVars, commitVars, reply, sharedVars>>

(* The context ended, or the terminal is gone, before the desk was free.   *)
LeaveQueue(w) ==
  /\ At(w, "ask")
  /\ Goto(w, "decide")
  /\ ~ReviewActive(w) \/ ~interactive
  /\ UNCHANGED <<storeVars, connVars, humanVars, commitVars, reply, sharedVars>>

(* The human answers; nothing orders this after the context's end.         *)
HumanAnswers(w) ==
  /\ At(w, "human")
  /\ Goto(w, "decide")
  /\ interactive
  /\ \E a \in Answers(msg[w].kind) : answer' = [answer EXCEPT ![w] = a]
  /\ ui' = None
  /\ UNCHANGED <<storeVars, connVars, shown, commitVars, reply,
                 lock, interactive, hostOpen, closed, closing>>

(* The review interface gives up: it polls the context and the terminal.   *)
DeskGivesUp(w) ==
  /\ At(w, "human")
  /\ Goto(w, "decide")
  /\ ~ReviewActive(w) \/ ~interactive
  /\ ui' = None
  /\ UNCHANGED <<storeVars, connVars, humanVars, commitVars, reply,
                 lock, interactive, hostOpen, closed, closing>>

(* The interface ends the prompt without an answer, perhaps in a context   *)
(* that is still active: Escape, Skip, Ctrl-R before it revokes            *)
(* (DeskRevokes), or the end of the interface itself.                      *)
DeskCancels(w) ==
  /\ At(w, "human")
  /\ Goto(w, "decide")
  /\ ui' = None
  /\ UNCHANGED <<storeVars, connVars, humanVars, commitVars, reply,
                 lock, interactive, hostOpen, closed, closing>>

(* The review interface raises: ui_lock is released, handle answers error. *)
DeskFails(w) ==
  /\ "desk" \in Surroundings
  /\ At(w, "human")
  /\ Return(w, "error")
  /\ ui' = None
  /\ UNCHANGED <<storeVars, connVars, humanVars, commitVars,
                 lock, interactive, hostOpen, closed, closing>>

-----------------------------------------------------------------------------
(* After the human: the second locked section of _request, and a question. *)

Unanswered(w) == ~ReviewActive(w) \/ answer[w] = NoAnswer

AnswerQuestion(w) ==
  /\ At(w, "decide")
  /\ msg[w].kind = "question"
  /\ LockFree
  /\ Return(w, IF Unanswered(w) THEN "error" ELSE "answer")
  /\ UNCHANGED <<storeVars, connVars, humanVars, commitVars, sharedVars>>

(* A plain verdict: logged, then returned.                                 *)
Verdict(w, behavior) ==
  /\ Conclude(w, behavior)
  /\ UNCHANGED <<storeVars, pending>>

Decide(w) ==
  /\ At(w, "decide")
  /\ msg[w].kind = "request"
  /\ LockFree
  /\ \/ Unanswered(w) /\ Verdict(w, "abstain")
     \/ /\ ~Unanswered(w)
        /\ \/ answer[w].action = "once" /\ Verdict(w, "allow")
           \/ answer[w].action = "deny" /\ Verdict(w, "deny")
           \/ answer[w].action = "abstain" /\ Verdict(w, "abstain")
           \/ /\ answer[w].action = "revoke"
              /\ Revoke
              /\ \E logged \in LogOutcomes :
                   Return(w, IF logged THEN "abstain" ELSE "error")
              /\ UNCHANGED pending
           \/ /\ answer[w].action = "badcard"
              /\ Return(w, "error")
              /\ UNCHANGED <<storeVars, pending>>
           \/ /\ answer[w].action = "grant" /\ SelectedCard(w) = None
              /\ Verdict(w, "abstain")
           \/ /\ answer[w].action = "grant" /\ SelectedCard(w) # None
              /\ pending' = [pending EXCEPT ![w] = SelectedCard(w)]
              /\ Return(w, "allow")
              /\ UNCHANGED storeVars
  /\ UNCHANGED <<connVars, humanVars, minted, outcome, used, sharedVars>>

(* notice waits for the desk, prints, and never reads input.               *)
Notice(w) ==
  /\ At(w, "notice")
  /\ \/ ReviewActive(w) /\ DeskFree /\ Return(w, "received")
     \/ ~ReviewActive(w) /\ Return(w, "refused")
  /\ UNCHANGED <<storeVars, connVars, humanVars, commitVars, sharedVars>>

(* stop only logs; a launch needs its open host session.                   *)
StopNotice(w) ==
  /\ At(w, "stop")
  /\ LockFree
  /\ \E logged \in LogOutcomes :
       Return(w, IF logged /\ (Launched => hostOpen) THEN "received" ELSE "error")
  /\ UNCHANGED <<storeVars, connVars, humanVars, commitVars, sharedVars>>

-----------------------------------------------------------------------------
(* The reply path of _dispatch, under the reply lock from BeginReply to    *)
(* Finalize.                                                               *)

BeginReply(w) ==
  /\ At(w, "reply")
  /\ LockFree
  /\ lock' = w
  /\ \/ ~(live[w] /\ ReplyValid(w)) /\ Goto(w, "finalize")
     \/ live[w] /\ ReplyValid(w) /\ pending[w] # None /\ Goto(w, "commit")
     \/ live[w] /\ ReplyValid(w) /\ pending[w] = None /\ Goto(w, "send")
  /\ UNCHANGED <<storeVars, connVars, humanVars, commitVars, reply,
                 ui, interactive, hostOpen, closed, closing>>

(* commit(), first half: approve the selected card.  approve raises if the *)
(* card does not cover the request or the store is full; a failing log     *)
(* append raises after the grant was minted.                               *)
CommitApprove(w) ==
  /\ At(w, "commit")
  /\ \/ /\ ~(ReviewActive(w) /\ interactive)
        /\ Goto(w, "finalize")
        /\ UNCHANGED <<storeVars, minted>>
     \/ /\ ReviewActive(w) /\ interactive
        /\ Approve(RequestOf(w), pending[w])
        /\ minted' = [minted EXCEPT ![w] = issued']
        /\ \E logged \in LogOutcomes :
             Goto(w, IF logged THEN "consume" ELSE "finalize")
     \/ /\ ReviewActive(w) /\ interactive
        /\ ApproveFull(RequestOf(w), pending[w])
        /\ Goto(w, "finalize")
        /\ UNCHANGED minted
     \/ /\ ReviewActive(w) /\ interactive /\ ~Matches(pending[w], RequestOf(w))
        /\ Goto(w, "finalize")
        /\ UNCHANGED <<storeVars, minted>>
  /\ UNCHANGED <<connVars, humanVars, pending, used, outcome, reply, sharedVars>>

(* commit(), second half: this request spends the first unit.              *)
CommitConsume(w) ==
  /\ At(w, "consume")
  /\ \/ /\ Consume(RequestOf(w))
        /\ used' = [used EXCEPT ![w] = Pruned[KeyOf(RequestOf(w))].id]
        /\ \E logged \in LogOutcomes :
             Goto(w, IF logged THEN "send" ELSE "finalize")
     \/ /\ ConsumeNothing(RequestOf(w))
        /\ Goto(w, "finalize")
        /\ UNCHANGED used
  /\ UNCHANGED <<connVars, humanVars, pending, minted, outcome, reply, sharedVars>>

(* The last active() check and sendall, which may fail.                    *)
Send(w) ==
  /\ At(w, "send")
  /\ Goto(w, "finalize")
  /\ \/ live[w] /\ outcome' = [outcome EXCEPT ![w] = reply[w]]
     \/ UNCHANGED outcome
  /\ UNCHANGED <<storeVars, connVars, humanVars, pending, minted, used, reply, sharedVars>>

(* reply_finalize: an undelivered grant is discarded before the lock goes. *)
Finalize(w) ==
  /\ At(w, "finalize")
  /\ Goto(w, "finish")
  /\ IF UndeliveredMint(w) THEN Discard(minted[w]) ELSE UNCHANGED storeVars
  /\ lock' = None
  /\ UNCHANGED <<connVars, humanVars, commitVars, reply,
                 ui, interactive, hostOpen, closed, closing>>

(* _finish_context: the slot is released, then after_reply runs.           *)
Finish(w) ==
  /\ At(w, "finish")
  /\ Goto(w, IF reply[w] = "shutdown" THEN "closer" ELSE "done")
  /\ slot' = [slot EXCEPT ![w] = "none"]
  /\ live' = [live EXCEPT ![w] = FALSE]
  /\ UNCHANGED <<storeVars, msg, bound, gen, humanVars, commitVars, reply, sharedVars>>

-----------------------------------------------------------------------------
(* Watcher.close: mark, revoke under the lock, close the server.  It is    *)
(* called by a shutdown's worker, by the operator or by the owner's end.   *)

MarkClosed ==
  /\ closed' = TRUE
  /\ closing' = IF closing = "no" THEN "marked" ELSE closing
  /\ UNCHANGED <<lock, ui, interactive, hostOpen>>

AfterReply(w) ==
  /\ At(w, "closer")
  /\ Goto(w, "done")
  /\ MarkClosed
  /\ UNCHANGED <<storeVars, connVars, humanVars, commitVars, reply>>

CloseByOwner ==
  /\ "close" \in Surroundings
  /\ ~closed
  /\ MarkClosed
  /\ UNCHANGED <<storeVars, pc, connVars, humanVars, commitVars, reply>>

CloseRevokes ==
  /\ closing = "marked"
  /\ LockFree
  /\ Revoke
  /\ closing' = "revoked"
  /\ UNCHANGED <<pc, connVars, humanVars, commitVars, reply,
                 lock, ui, interactive, hostOpen, closed>>

CloseServer ==
  /\ closing = "revoked"
  /\ closing' = "closed"
  /\ live' = [w \in Workers |-> FALSE]
  /\ UNCHANGED <<storeVars, pc, msg, slot, bound, gen, humanVars, commitVars, reply,
                 lock, ui, interactive, hostOpen, closed>>

-----------------------------------------------------------------------------
(* The surroundings.                                                       *)

(* Ctrl-R at the review desk.                                              *)
DeskRevokes ==
  /\ generation < OperatorRevokes
  /\ LockFree
  /\ Revoke
  /\ UNCHANGED <<pc, connVars, humanVars, commitVars, reply, sharedVars>>

(* A deadline passes or a client disconnects.                              *)
Expire(w) ==
  /\ "expire" \in Surroundings
  /\ live[w]
  /\ live' = [live EXCEPT ![w] = FALSE]
  /\ UNCHANGED <<storeVars, pc, msg, slot, bound, gen, humanVars, commitVars, reply,
                 sharedVars>>

TerminalLost ==
  /\ "terminal" \in Surroundings
  /\ interactive
  /\ interactive' = FALSE
  /\ UNCHANGED <<storeVars, pc, connVars, humanVars, commitVars, reply,
                 lock, ui, hostOpen, closed, closing>>

HostCloses ==
  /\ "host" \in Surroundings
  /\ Launched /\ hostOpen
  /\ hostOpen' = FALSE
  /\ UNCHANGED <<storeVars, pc, connVars, humanVars, commitVars, reply,
                 lock, ui, interactive, closed, closing>>

TimePasses ==
  /\ Tick
  /\ UNCHANGED <<pc, connVars, humanVars, commitVars, reply, sharedVars>>

(* Every connection of this instance was served, or will never be accepted.*)
Terminated ==
  /\ \A w \in Workers : At(w, "done") \/ (At(w, "idle") /\ closing = "closed")
  /\ UNCHANGED vars

(* The steps a worker thread takes by itself.                              *)
WorkerStep(w) ==
  \/ Admit(w) \/ Drop(w) \/ Control(w) \/ Gate(w) \/ Proposal(w) \/ Classify(w)
  \/ TakeDesk(w) \/ LeaveQueue(w) \/ DeskGivesUp(w)
  \/ AnswerQuestion(w) \/ Decide(w) \/ Notice(w) \/ StopNotice(w)
  \/ BeginReply(w) \/ CommitApprove(w) \/ CommitConsume(w) \/ Send(w) \/ Finalize(w)
  \/ Finish(w) \/ AfterReply(w)

Next ==
  \/ \E w \in Workers :
       Accept(w) \/ WorkerStep(w) \/ HumanAnswers(w) \/ DeskCancels(w) \/ DeskFails(w)
         \/ Expire(w)
  \/ CloseByOwner \/ CloseRevokes \/ CloseServer
  \/ DeskRevokes \/ TerminalLost \/ HostCloses \/ TimePasses
  \/ Terminated

Spec == Init /\ [][Next]_vars
=============================================================================
