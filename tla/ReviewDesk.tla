------------------------------ MODULE ReviewDesk ------------------------------
(***************************************************************************)
(* The watcher with its real review desk: PermissionReview, whose desk     *)
(* answers out of thin air, with scope.review_tui.ReviewUI in its place.   *)
(*                                                                         *)
(* A worker that holds ui_lock hands its Ticket to the interface's event   *)
(* loop (call_soon_threadsafe) and polls the ticket's result and its own   *)
(* context.  The loop is one thread: each of its callbacks is a step.  The *)
(* ticket of a worker is the worker.  The human types keys into the        *)
(* terminal; the loop reads them later, and _drain_keys throws away those  *)
(* it has not read.                                                        *)
(*                                                                         *)
(* A form is its list of buttons, the first of which has the focus (fields *)
(* take no part: Enter in one answers nothing).  The question, prediction, *)
(* probe and next-step forms are one form whose "send" may be refused by   *)
(* its validation.  A screen is drawn in the step that changes it.  The    *)
(* numbers of _epoch are left out: a button captures the epoch of its form *)
(* and only the form on display has focus, so _current comes down to the   *)
(* ticket, its result and its context.                                     *)
(***************************************************************************)
EXTENDS PermissionReviewProps, SequencesExt

CONSTANTS
  MAX_PENDING,  (* Tickets that may wait.                                  *)
  MaxKeys,      (* Bound: keys typed and not yet read.                     *)
  Scenarios     (* Bound: who connects in a behavior, with what messages,  *)
                (* what happens to them, and the keys the human uses.      *)

AllKeys == {"enter", "tab", "page", "f2", "f3", "escape", "ctrl-r", "ctrl-c"}

ASSUME KeyboardAssumption ==
  /\ MAX_PENDING \in Nat \ {0} /\ MaxKeys \in Nat
  /\ Scenarios \subseteq [workers : SUBSET Workers, messages : SUBSET Messages,
                           events : SUBSET {"expire", "fail", "close"}, keyboard : SUBSET AllKeys]

VARIABLES
  scenario,   (* Bound: the scenario of this behavior (never changes).     *)
  app,        (* Where ReviewUI.run stands.                                *)
  calls,      (* The callbacks the loop has been handed: <<what, worker>>. *)
  given,      (* The workers that handed over their ticket.                *)
  result,     (* The result of each ticket: Unset, NoAnswer or an answer.  *)
  queue,      (* _pending.                                                 *)
  active,     (* _active: the worker whose form is open, or None.          *)
  editing,    (* _editing: the form is the scope editor.                   *)
  focus,      (* Which button of the form has the focus.                   *)
  scrolled,   (* _manual_scroll: the focused button may be out of view.    *)
  keys,       (* The keys typed and not read.  History of each: it is here *)
              (* while the form, or the inbox, it was typed at is still on *)
              (* display, and inView when its button was in view then.     *)
  task        (* Where the coroutine _revoke stands.                       *)

ticketVars == <<calls, given, result, queue>>
formVars == <<active, editing, focus, scrolled, keys>>
deskVars == <<scenario, app, ticketVars, formVars, task>>

Unset == [action |-> "unset", card |-> None]
KeyPress == [key : AllKeys, here : BOOLEAN, inView : BOOLEAN]

DeskTypeOK ==
  /\ TypeOK /\ scenario \in Scenarios
  /\ app \in {"starting", "running", "exiting", "ended"}
  /\ calls \in Seq({"enqueue", "cancel"} \X Workers)
  /\ given \subseteq Workers
  /\ result \in [Workers -> AnyAnswer \cup {Unset}]
  /\ queue \in Seq(Workers) /\ Len(queue) <= MAX_PENDING
  /\ active \in Workers \cup {None}
  /\ editing \in BOOLEAN /\ scrolled \in BOOLEAN /\ focus \in 1..5
  /\ keys \in Seq(KeyPress) /\ Len(keys) <= MaxKeys
  /\ task \in {"none", "asked", "thread", "back"}

DeskInit ==
  /\ Init /\ scenario \in Scenarios
  /\ app = "starting"
  /\ calls = <<>>
  /\ given = {}
  /\ result = [w \in Workers |-> Unset]
  /\ queue = <<>>
  /\ active = None
  /\ editing = FALSE
  /\ focus = 1
  /\ scrolled = FALSE
  /\ keys = <<>>
  /\ task = "none"

Undecided(w) == result[w] = Unset

(* The tickets the interface still has, on display or waiting.             *)
Tickets == ToSet(queue) \cup ({active} \ {None})

-----------------------------------------------------------------------------
(* Mutants used by PROJECT.json: plausible bugs in the code below.         *)

MutDrainedKeepsKeys(rest) == rest

MutRevokeStoreTakesNoLock ==
  /\ task = "thread"
  /\ Revoke
  /\ task' = "back"
  /\ UNCHANGED <<pc, connVars, humanVars, commitVars, reply, sharedVars, scenario, app, ticketVars, formVars>>

-----------------------------------------------------------------------------
(* Pieces of ReviewUI.                                                     *)

(* _drain_keys.                                                            *)
Drained(rest) == <<>>

(* History: what is on display is another form, or the inbox; the keys     *)
(* that are still there were not typed at it.                              *)
TypedElsewhere(rest) == [i \in DOMAIN rest |-> [rest[i] EXCEPT !.here = FALSE]]

(* The buttons of _form.                                                   *)
Buttons(w) ==
  IF msg[w].kind = "question" THEN <<"send", "skip">>
  ELSE IF editing THEN <<"approve", "back">>
  ELSE IF shown[w] # None THEN <<"abstain", "once", "grant", "edit", "deny">>
  ELSE <<"abstain", "once", "deny">>

(* _focus: the first control has the focus and is in view.                 *)
Focus == focus' = 1 /\ scrolled' = FALSE

(* _form: a fresh form of the active ticket.                               *)
Form(edit) ==
  /\ editing' = edit
  /\ Focus
  /\ keys' = TypedElsewhere(Drained(Tail(keys)))

(* _back_to_inbox, and a step after which the form stays as it is.         *)
BackToInbox(rest) ==
  /\ active' = None /\ editing' = FALSE
  /\ Focus
  /\ keys' = TypedElsewhere(Drained(rest))
SameForm(rest) == UNCHANGED <<active, editing, focus, scrolled>> /\ keys' = rest

(* A mutant of BeginRevoke below.                                          *)
MutBeginRevokeForgetsTickets ==
  /\ app \in {"running", "exiting"} /\ task = "asked"
  /\ task' = "thread"
  /\ queue' = <<>>
  /\ BackToInbox(keys)
  /\ UNCHANGED <<vars, scenario, app, calls, given, result>>

(* The tickets of a queue, in their order, without those of ws.            *)
Without(tickets, ws) ==
  LET kept[i \in 0..Len(tickets)] ==
        IF i = 0 THEN <<>>
        ELSE IF tickets[i] \in ws THEN kept[i - 1] ELSE Append(kept[i - 1], tickets[i])
  IN  kept[Len(tickets)]

(* _cancel of some tickets.                                                *)
Cancel(ws, rest) ==
  /\ result' = [w \in Workers |-> IF w \in ws /\ Undecided(w) THEN NoAnswer ELSE result[w]]
  /\ queue' = Without(queue, ws)
  /\ IF active \in ws THEN BackToInbox(rest) ELSE SameForm(rest)

-----------------------------------------------------------------------------
(* The workers: Watcher._ask and ReviewUI._wait.                           *)

(* _wait, once the interface runs, hands the ticket over.                  *)
HandOver(w) ==
  /\ At(w, "human") /\ w \notin given
  /\ app \in {"running", "exiting"}
  /\ given' = given \cup {w}
  /\ calls' = Append(calls, <<"enqueue", w>>)
  /\ UNCHANGED <<vars, scenario, app, result, queue, formVars, task>>

(* _wait gives up before: the context or the interface has ended.          *)
LeaveEarly(w) ==
  /\ w \notin given
  /\ ~ReviewActive(w) \/ app = "ended"
  /\ DeskCancels(w)
  /\ UNCHANGED deskVars

(* A presentation is refused, or the loop closes under call_soon.          *)
FailEarly(w) ==
  /\ w \notin given /\ "fail" \in scenario.events
  /\ DeskFails(w)
  /\ UNCHANGED deskVars

(* _wait reads the result; one that comes too late is no answer.           *)
ReadResult(w) ==
  /\ w \in given /\ ~Undecided(w)
  /\ IF result[w] # NoAnswer /\ ReviewActive(w)
     THEN HumanAnswers(w) /\ answer'[w] = result[w]
     ELSE DeskCancels(w)
  /\ UNCHANGED deskVars

(* _wait finds the context, or the interface, ended.                       *)
StopWaiting(w) ==
  /\ w \in given
  /\ ~ReviewActive(w) \/ app = "ended"
  /\ DeskCancels(w)
  /\ calls' = IF app = "ended" THEN calls ELSE Append(calls, <<"cancel", w>>)
  /\ UNCHANGED <<scenario, app, given, result, queue, formVars, task>>

-----------------------------------------------------------------------------
(* The event loop.                                                         *)

Start ==
  /\ app = "starting"
  /\ app' = "running"
  /\ UNCHANGED <<vars, scenario, ticketVars, formVars, task>>

(* _enqueue and _cancel, in the order they were handed over.               *)
RunCall ==
  /\ app \in {"running", "exiting"} /\ calls # <<>>
  /\ calls' = Tail(calls)
  /\ LET w == Head(calls)[2] IN
     \/ /\ Head(calls)[1] = "enqueue"
        /\ IF Undecided(w) /\ ReviewActive(w) /\ Len(queue) < MAX_PENDING
           THEN queue' = Append(queue, w) /\ UNCHANGED result
           ELSE /\ result' = [result EXCEPT ![w] = IF @ = Unset THEN NoAnswer ELSE @]
                /\ UNCHANGED queue
        /\ UNCHANGED formVars
     \/ Head(calls)[1] = "cancel" /\ Cancel({w}, keys)
  /\ UNCHANGED <<vars, scenario, app, given, task>>

(* _refresh: every 50 ms.                                                  *)
Refresh ==
  LET over == {w \in Tickets : ~ReviewActive(w)} IN
  /\ app = "running" /\ (over # {} \/ closed)
  /\ Cancel(over, keys)
  /\ app' = IF closed THEN "exiting" ELSE app
  /\ UNCHANGED <<vars, scenario, calls, given, task>>

(* run: the application has exited, or raised; nobody waits in vain.       *)
End ==
  /\ app = "exiting" \/ (app = "running" /\ "fail" \in scenario.events)
  /\ app' = "ended"
  /\ calls' = <<>> /\ keys' = <<>>
  /\ result' = [w \in Workers |-> IF w \in Tickets /\ Undecided(w) THEN NoAnswer ELSE result[w]]
  /\ UNCHANGED <<vars, scenario, given, queue, active, editing, focus, scrolled, task>>

(* _revoke: every ticket is cancelled, then a thread revokes.              *)
BeginRevoke ==
  /\ app \in {"running", "exiting"} /\ task = "asked"
  /\ task' = "thread"
  /\ Cancel(Tickets, keys)
  /\ UNCHANGED <<vars, scenario, app, calls, given>>

RevokeStore ==
  /\ task = "thread"
  /\ DeskRevokes
  /\ task' = "back"
  /\ UNCHANGED <<scenario, app, ticketVars, formVars>>

EndRevoke ==
  /\ task = "back"
  /\ task' = "none"
  /\ UNCHANGED <<vars, scenario, app, ticketVars, formVars>>

-----------------------------------------------------------------------------
(* The keys.                                                               *)

(* The human types, at what is on display.  An Enter typed after a scroll, *)
(* with no Tab before it, is typed with its button out of view.  Bound:    *)
(* one Ctrl-R, and only Enter is typed ahead.                              *)
Type(k) ==
  /\ app = "running" /\ Len(keys) < MaxKeys /\ (keys # <<>> => k = "enter")
  /\ k = "ctrl-r" => generation = 0 /\ task = "none"
  /\ keys' = Append(keys, [key |-> k, here |-> TRUE,
       inView |-> ~(k = "enter" /\ scrolled /\ \A i \in DOMAIN keys : keys[i].key # "tab")])
  /\ UNCHANGED <<vars, scenario, app, ticketVars, active, editing, focus, scrolled, task>>

NextKey(k) == app = "running" /\ keys # <<>> /\ Head(keys).key = k

(* _open_next: the first ticket that is still wanted; the ones before it   *)
(* end.                                                                    *)
PressF2 ==
  LET wanted(w) == Undecided(w) /\ ReviewActive(w)
      first == SelectInSeq(queue, wanted)
      skipped == IF first = 0 THEN ToSet(queue) ELSE ToSet(SubSeq(queue, 1, first - 1))
  IN /\ NextKey("f2")
     /\ IF active # None \/ task \in {"thread", "back"}
        THEN SameForm(Tail(keys)) /\ UNCHANGED <<queue, result>>
        ELSE /\ result' = [w \in Workers |-> IF w \in skipped /\ Undecided(w) THEN NoAnswer ELSE result[w]]
             /\ queue' = IF first = 0 THEN <<>> ELSE SubSeq(queue, first + 1, Len(queue))
             /\ IF first = 0 THEN SameForm(Tail(keys)) ELSE active' = queue[first] /\ Form(FALSE)
     /\ UNCHANGED <<vars, scenario, app, calls, given, task>>

(* F3 shows or hides the details: the form is built again.                 *)
PressF3 ==
  /\ NextKey("f3")
  /\ IF active = None THEN SameForm(Tail(keys)) ELSE Form(editing) /\ UNCHANGED active
  /\ UNCHANGED <<vars, scenario, app, ticketVars, task>>

PressTab ==
  /\ NextKey("tab")
  /\ focus' = IF active = None THEN focus ELSE (focus % Len(Buttons(active))) + 1
  /\ scrolled' = (scrolled /\ active = None)
  /\ keys' = Tail(keys)
  /\ UNCHANGED <<vars, scenario, app, ticketVars, active, editing, task>>

PressPage ==
  /\ NextKey("page")
  /\ scrolled' = TRUE
  /\ keys' = Tail(keys)
  /\ UNCHANGED <<vars, scenario, app, ticketVars, active, editing, focus, task>>

PressEscape ==
  /\ NextKey("escape")
  /\ Cancel({active} \ {None}, Tail(keys))
  /\ UNCHANGED <<vars, scenario, app, calls, given, task>>

PressCtrlR ==
  /\ NextKey("ctrl-r")
  /\ task' = IF task = "none" THEN "asked" ELSE task
  /\ keys' = Tail(keys)
  /\ UNCHANGED <<vars, scenario, app, ticketVars, active, editing, focus, scrolled>>

PressCtrlC ==
  /\ NextKey("ctrl-c")
  /\ IF closed THEN UNCHANGED vars ELSE CloseByOwner
  /\ app' = "exiting"
  /\ keys' = Tail(keys)
  /\ UNCHANGED <<scenario, ticketVars, active, editing, focus, scrolled, task>>

(* What a button answers.                                                  *)
Answer(b) ==
  CASE b = "send" -> {[action |-> "text", card |-> None]}
    [] b = "skip" -> {NoAnswer}
    [] b = "approve" -> [action : {"grant"}, card : Cards]
    [] OTHER -> {[action |-> b, card |-> None]}

(* Enter on a button: nothing in the inbox or for a ticket that has ended  *)
(* meanwhile; after a scroll it only brings the button back into view;     *)
(* "edit" and "back" change the form, a refused field keeps it, and any    *)
(* other button decides (_resolve).                                        *)
PressEnter ==
  LET w == active
      b == Buttons(w)[focus]
      current == active # None /\ Undecided(active) /\ ReviewActive(active)
  IN /\ NextKey("enter")
     /\ CASE ~current -> SameForm(Tail(keys)) /\ UNCHANGED <<result, queue>>
          [] current /\ scrolled ->
               /\ scrolled' = FALSE /\ keys' = Drained(Tail(keys))
               /\ UNCHANGED <<active, editing, focus, result, queue>>
          [] current /\ ~scrolled /\ b \in {"edit", "back"} ->
               Form(b = "edit") /\ UNCHANGED <<active, result, queue>>
          [] OTHER ->
               \/ /\ \E a \in Answer(b) : result' = [result EXCEPT ![w] = a]
                  /\ BackToInbox(Tail(keys))
                  /\ UNCHANGED queue
               \/ /\ b \in {"send", "approve"}
                  /\ SameForm(Tail(keys)) /\ UNCHANGED <<result, queue>>
     /\ UNCHANGED <<vars, scenario, app, calls, given, task>>

-----------------------------------------------------------------------------
(* The rest of the watcher goes on as it is.                               *)
WorkerElsewhere(w) ==
  \/ Admit(w) \/ Drop(w) \/ Control(w) \/ Gate(w) \/ Proposal(w) \/ Classify(w)
  \/ TakeDesk(w) \/ LeaveQueue(w) \/ AnswerQuestion(w) \/ Decide(w) \/ Notice(w) \/ StopNotice(w)
  \/ BeginReply(w) \/ CommitApprove(w) \/ CommitConsume(w) \/ Send(w) \/ Finalize(w)
  \/ Finish(w) \/ AfterReply(w)

(* _tick: the owner's tick, which the interface runs in a thread, may      *)
(* close the watcher or fail, which closes it too.                         *)
OwnerTick == "close" \in scenario.events /\ CloseByOwner

(* Every connection of this behavior was served, or never will be.         *)
Quiet ==
  /\ \A w \in scenario.workers : At(w, "done") \/ (At(w, "idle") /\ closing = "closed")
  /\ UNCHANGED vars

Elsewhere ==
  /\ \/ \E w \in scenario.workers :
          \/ Accept(w) /\ msg'[w] \in scenario.messages
          \/ WorkerElsewhere(w)
          \/ "expire" \in scenario.events /\ Expire(w)
     \/ OwnerTick
     \/ CloseRevokes \/ CloseServer
     \/ Quiet
  /\ UNCHANGED deskVars

DeskWorker(w) == HandOver(w) \/ LeaveEarly(w) \/ FailEarly(w) \/ ReadResult(w) \/ StopWaiting(w)

Press ==
  PressF2 \/ PressF3 \/ PressTab \/ PressPage \/ PressEscape \/ PressCtrlR \/ PressCtrlC \/ PressEnter

DeskNext ==
  \/ Elsewhere
  \/ \E w \in scenario.workers : DeskWorker(w)
  \/ Start \/ RunCall \/ Refresh \/ Press \/ End
  \/ BeginRevoke \/ RevokeStore \/ EndRevoke
  \/ \E k \in scenario.keyboard : Type(k)

allVars == <<vars, deskVars>>
DeskSpec == DeskInit /\ [][DeskNext]_allVars

(* Threads are scheduled, the event loop runs its callbacks and close()    *)
(* runs to its end; nothing is assumed of the human, the clients, the      *)
(* deadlines or the host.                                                  *)
FairDeskSpec ==
  /\ DeskSpec
  /\ \A w \in Workers :
       /\ WF_allVars(WorkerElsewhere(w) /\ UNCHANGED deskVars)
       /\ WF_allVars(DeskWorker(w))
  /\ WF_allVars((CloseRevokes \/ CloseServer) /\ UNCHANGED deskVars)
  /\ WF_allVars(Start) /\ WF_allVars(RunCall) /\ WF_allVars(Refresh) /\ WF_allVars(Press)

-----------------------------------------------------------------------------
(* A request is decided by a key that was typed at the very form on        *)
(* display, with the button in view, while its client still waits; keys    *)
(* typed at another form, at the inbox or before the form was rebuilt      *)
(* never answer it, and no answer replaces another                         *)
(* (review_tui.py:159-167, 189-210, 244-256).                              *)
AnswerWasSeen ==
  [][\A w \in Workers :
       result'[w] # result[w] =>
         /\ Undecided(w)
         /\ result'[w] # NoAnswer =>
              active = w /\ ReviewActive(w) /\ Head(keys).here /\ Head(keys).inView]_allVars

(* No request waits for a prompt that the interface has lost: as long as   *)
(* the interface runs, a waiting ticket is on display, in the queue or on  *)
(* its way there, whatever was cancelled, revoked or closed before it      *)
(* (review_tui.py:120-143, 174-222, 468-481).                              *)
WaitingIsReachable ==
  \A w \in given :
    At(w, "human") /\ Undecided(w) /\ app # "ended" =>
      w \in Tickets \/ <<"enqueue", w>> \in ToSet(calls)

(* The watcher with this desk is the watcher of PermissionReview: the desk *)
(* never does to a request what PermissionReview does not allow, so its    *)
(* safety properties hold of the watcher with the interface.               *)
ImplementsWatcher == Spec

-----------------------------------------------------------------------------
(* Facts the proofs rest on.  A worker hands its ticket over once it has   *)
(* the desk, and never goes back; only such tickets are in the interface,  *)
(* and the focus is on a button of the form.                               *)
BeforeDesk == {"idle", "dispatch", "handle", "classify", "propose", "notice", "stop", "ask"}

TicketsInHand ==
  /\ given \subseteq Workers /\ \A w \in given : pc[w] \notin BeforeDesk
  /\ queue \in Seq(Workers) /\ ToSet(queue) \subseteq given
  /\ calls \in Seq({"enqueue", "cancel"} \X Workers)
  /\ \A i \in DOMAIN calls : calls[i][2] \in given
  /\ active \in given \cup {None}
  /\ DOMAIN result = Workers

FocusOnButton == active # None => focus \in 1..Len(Buttons(active))

(* A ticket that was handed over is decided or still in the interface,     *)
(* whether its worker waits for it or not.                                 *)
TicketsAreKept ==
  \A w \in given :
    Undecided(w) /\ app # "ended" => w \in Tickets \/ <<"enqueue", w>> \in ToSet(calls)

DeskInv == TicketsInHand /\ FocusOnButton /\ TicketsAreKept
=============================================================================
