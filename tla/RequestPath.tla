----------------------------- MODULE RequestPath -----------------------------
(***************************************************************************)
(* One permission request from end to end: scope.hook.main, which the host *)
(* runs once per request, ipc.exchange, ipc.Server._dispatch, the          *)
(* permission events of the watcher, the session log, and the receipt that *)
(* is projected from it.                                                   *)
(*                                                                         *)
(* A hook is one process and one request id; the nonce of its exchange is  *)
(* the hook.  A copy of its frame is <<hook, "sent">>, or <<hook, "again">>*)
(* when the same frame reaches a server a second time.  The watcher's      *)
(* handler is reduced to what it records and answers: PermissionReview has *)
(* the store, the desk and revocation, Mailbox has the mailbox.  The smoke *)
(* fixture of the hook (SCOPE_SMOKE) is left out.                          *)
(***************************************************************************)
EXTENDS Endpoint

CONSTANTS
  Hooks,      (* The hook processes.                                       *)
  Verdicts,   (* What the commands come to: Judge of each [cmd, shell].    *)
  Root,       (* The working directory of the requests, an absolute path.  *)
  MaxSeen,    (* MAX_SEEN_NONCES.                                          *)
  Scenarios   (* Bound: who takes part in a behavior, the verdicts on      *)
              (* their commands, and the faults, of "kill", "again",       *)
              (* "torn", "crash".                                          *)

INSTANCE CommandEffects
INSTANCE Receipt WITH Requests <- Hooks

(* The dialects a command of a shell may be read in.                       *)
Dialects(shell) ==
  CASE shell = "posix" -> {FALSE} [] shell = "powershell" -> {TRUE} [] OTHER -> BOOLEAN

(* What a command of a shell comes to: what the classifier makes of it,    *)
(* what the reference says it can do, and whether a hazardous one makes    *)
(* only moves that the classifier claims to follow.                        *)
Judge(c) ==
  LET result == Classify(c.cmd, Root, c.shell)
      hazardous == c.cmd # None /\ \E ps \in Dialects(c.shell) : Hazardous(c.cmd, Root, ps)
  IN [tier |-> result.tier, valid |-> ValidTier[result],
      routine |-> c.shell # "other" /\ Routine(c.cmd, Root, c.shell = "powershell"),
      hazardous |-> hazardous,
      followed |-> hazardous => \A ps \in Dialects(c.shell) : Followed(c.cmd, ps)]

Copies == Hooks \X {"sent", "again"}
HookOf(c) == c[1]

ASSUME HooksAssumption ==
  /\ IsFiniteSet(Hooks) /\ None \notin Hooks /\ MaxSeen \in Nat \ {0}
  /\ Verdicts \subseteq [tier : 1..3, valid : BOOLEAN, routine : BOOLEAN, hazardous : BOOLEAN,
                       followed : BOOLEAN]
  /\ Scenarios \subseteq [hooks : SUBSET Hooks, servers : SUBSET Servers, verdicts : SUBSET Verdicts,
                            faults : SUBSET {"kill", "again", "torn", "crash"}]

(* A field that a log line does not have has no value.                     *)
ASSUME NoFieldAssumption ==
  /\ None \notin {"allow", "deny", "null", "auto_allow", "allowed_once", "scope_allow", "denied",
                  "abstained", "cancelled"}
  /\ None \notin 1..3 /\ None \notin BOOLEAN

VARIABLES
  scenario, (* Bound: the scenario of this behavior (never changes).       *)
  hook,     (* Where each hook stands.                                     *)
  verdict,  (* What the command of its request comes to.                   *)
  target,   (* The server whose endpoint it read (the token it sends).     *)
  settled,  (* The behavior it will report: "allow", "deny", "null".       *)
  host,     (* What the host read from its output: "nothing" or behavior.  *)
  copy,     (* Where each copy of its frame stands.                        *)
  at,       (* The server that the copy reached, or None.                  *)
  answer,   (* The watcher's answer to the copy.                           *)
  seen,     (* Server._seen_nonces of each server.                         *)
  log,      (* The whole events of the session log.                        *)
  torn,     (* The log ends in a line that was cut short.                  *)
  broken,   (* It holds a complete line that does not parse.               *)
  handled,  (* History: which server handled which copy.                   *)
  decided   (* History: what the watcher decided for each request.         *)

hookVars == <<hook, verdict, target, settled, host>>
copyVars == <<copy, at, answer, seen, handled, decided>>
logVars == <<log, torn, broken>>
vars == <<endpointVars, scenario, hookVars, copyVars, logVars>>

HookStages ==
  {"start", "judged", "exchange", "connect", "waiting", "settle", "print", "done", "silent"}
CopyStages == {"none", "wire", "admitted", "asking", "reply", "commit", "minted", "unsent", "send", "sent", "over"}
Answers == {"none", "allow", "deny", "null", "grant", "error"}

TypeOK ==
  /\ EndpointTypeOK /\ scenario \in Scenarios
  /\ hook \in [Hooks -> HookStages]
  /\ \A h \in scenario.hooks : verdict[h].tier \in 1..3 /\ verdict[h].valid \in BOOLEAN
  /\ target \in [Hooks -> Servers \cup {None}]
  /\ settled \in [Hooks -> {"allow", "deny", "null"}]
  /\ host \in [Hooks -> {"nothing", "allow", "deny"}]
  /\ copy \in [Copies -> CopyStages]
  /\ at \in [Copies -> Servers \cup {None}]
  /\ answer \in [Copies -> Answers]
  /\ seen \in [Servers -> SUBSET Hooks]
  /\ \A s \in Servers : Cardinality(seen[s]) <= MaxSeen
  /\ log \subseteq Event /\ torn \in BOOLEAN /\ broken \in BOOLEAN
  /\ handled \subseteq Copies \X Servers
  /\ decided \in [Hooks -> SUBSET {"allow", "deny"}]

Init ==
  /\ EndpointInit
  /\ scenario \in Scenarios
  /\ verdict \in [scenario.hooks -> scenario.verdicts]
  /\ hook = [h \in Hooks |-> "start"]
  /\ target = [h \in Hooks |-> None]
  /\ settled = [h \in Hooks |-> "null"]
  /\ host = [h \in Hooks |-> "nothing"]
  /\ copy = [c \in Copies |-> "none"]
  /\ at = [c \in Copies |-> None]
  /\ answer = [c \in Copies |-> "none"]
  /\ seen = [s \in Servers |-> {}]
  /\ log = {} /\ torn = FALSE /\ broken = FALSE
  /\ handled = {}
  /\ decided = [h \in Hooks |-> {}]

HookTo(h, stage) == hook' = [hook EXCEPT ![h] = stage]
CopyTo(c, stage) == copy' = [copy EXCEPT ![c] = stage]

-----------------------------------------------------------------------------
(* The session log.                                                        *)

Record(event, h) ==
  [event |-> event, id |-> h, tier |-> None, behavior |-> None, action |-> None, delivered |-> None]

(* log.append: the whole line, a part of it (the disk is full, or the      *)
(* process dies in the write), or nothing; the last two raise.  A line     *)
(* that follows a torn one is lost with it, and append does not notice.    *)
LogAppend(event, raises) ==
  \/ /\ ~raises
     /\ log' = IF torn THEN log ELSE log \cup {event}
     /\ broken' = (broken \/ torn)
     /\ torn' = FALSE
  \/ /\ raises /\ "torn" \in scenario.faults
     /\ torn' \in {torn, TRUE}
     /\ UNCHANGED <<log, broken>>

(* read_events: the receipt counts malformed lines.                        *)
Malformed == torn \/ broken

-----------------------------------------------------------------------------
(* Mutants used by PROJECT.json: plausible bugs in the code below.         *)

MutAdmitForgetsNonces(c) ==
  /\ copy[c] = "wire" /\ phase[at[c]] = "open"
  /\ target[HookOf(c)] = at[c]
  /\ CopyTo(c, "admitted")
  /\ handled' = handled \cup {<<c, at[c]>>}
  /\ UNCHANGED <<endpointVars, scenario, hookVars, at, answer, seen, decided, logVars>>

MutAcceptedDefaultsToAllow(c) == IF answer[c] = "deny" THEN "deny" ELSE "allow"

MutPrintBeforeRecord(h) ==
  /\ hook[h] = "settle"
  /\ HookTo(h, "print")
  /\ UNCHANGED <<endpointVars, scenario, verdict, target, settled, host, copyVars, logVars>>

-----------------------------------------------------------------------------
(* hook.main and ipc.exchange.                                             *)

(* The request is read and classified; anything malformed ends in silence. *)
ReadRequest(h) ==
  /\ hook[h] = "start"
  /\ HookTo(h, IF verdict[h].valid THEN "judged" ELSE "silent")
  /\ UNCHANGED <<endpointVars, scenario, verdict, target, settled, host, copyVars, logVars>>

(* The request is recorded, or the hook gives up.  T1 is allowed here, T2  *)
(* goes to the watcher, T3 stays with the host.                            *)
RecordRequest(h) ==
  LET tier == verdict[h].tier IN
  /\ hook[h] = "judged"
  /\ \E raises \in BOOLEAN :
       /\ LogAppend([Record("permission_request", h) EXCEPT !.tier = tier], raises)
       /\ HookTo(h, IF raises THEN "silent" ELSE IF tier = 2 THEN "exchange" ELSE "settle")
       /\ settled' = [settled EXCEPT ![h] = IF ~raises /\ tier = 1 THEN "allow" ELSE "null"]
  /\ UNCHANGED <<endpointVars, scenario, verdict, target, host, copyVars>>

(* exchange: read the endpoint; without one there is no answer.            *)
ReadEndpoint(h) ==
  /\ hook[h] = "exchange"
  /\ target' = [target EXCEPT ![h] = endpoint]
  /\ HookTo(h, IF endpoint = None THEN "settle" ELSE "connect")
  /\ UNCHANGED <<endpointVars, scenario, verdict, settled, host, copyVars, logVars>>

(* exchange: connect and send once.  The port may by now belong to another *)
(* server.  From here on nothing is sent again.                            *)
SendByTcp(h) ==
  /\ hook[h] = "connect" /\ listens[target[h]]
  /\ \E s \in Servers :
       /\ phase[s] = "open" /\ listens[s]
       /\ at' = [at EXCEPT ![<<h, "sent">>] = s]
  /\ CopyTo(<<h, "sent">>, "wire")
  /\ HookTo(h, "waiting")
  /\ UNCHANGED <<endpointVars, scenario, verdict, target, settled, host, answer, seen, handled, decided, logVars>>

(* exchange: no connection.  In a launch the frame goes to the mailbox of  *)
(* the server that the endpoint names, which may be gone; otherwise there  *)
(* is no answer.                                                           *)
CannotConnect(h) ==
  /\ hook[h] = "connect"
  /\ IF launched
     THEN /\ HookTo(h, "waiting")
          /\ at' = [at EXCEPT ![<<h, "sent">>] = target[h]]
          /\ CopyTo(<<h, "sent">>, "wire")
     ELSE HookTo(h, "settle") /\ UNCHANGED <<at, copy>>
  /\ UNCHANGED <<endpointVars, scenario, verdict, target, settled, host, answer, seen, handled, decided, logVars>>

(* exchange: a reply counts if it has the token and the nonce of this      *)
(* exchange, and main takes only the three behaviors.                      *)
Accepted(c) ==
  IF at[c] # target[HookOf(c)] THEN "null"
  ELSE CASE answer[c] = "grant" -> "allow"
         [] answer[c] \in {"allow", "deny"} -> answer[c]
         [] OTHER -> "null"

Receive(h) ==
  /\ hook[h] = "waiting" /\ copy[<<h, "sent">>] = "sent"
  /\ settled' = [settled EXCEPT ![h] = Accepted(<<h, "sent">>)]
  /\ HookTo(h, "settle")
  /\ UNCHANGED <<endpointVars, scenario, verdict, target, host, copyVars, logVars>>

(* exchange: the deadline, a disconnect or an unreadable reply.            *)
GiveUp(h) ==
  /\ hook[h] = "waiting"
  /\ HookTo(h, "settle")
  /\ UNCHANGED <<endpointVars, scenario, verdict, target, settled, host, copyVars, logVars>>

(* The decision is recorded before the host can read it.                   *)
RecordDecision(h) ==
  /\ hook[h] = "settle"
  /\ \E raises \in BOOLEAN :
       /\ LogAppend([Record("permission_decision", h) EXCEPT
                     !.tier = verdict[h].tier, !.behavior = settled[h]], raises)
       /\ HookTo(h, IF raises THEN "silent" ELSE "print")
  /\ UNCHANGED <<endpointVars, scenario, verdict, target, settled, host, copyVars>>

(* An abstention prints nothing; a write can fail.                         *)
PrintDecision(h) ==
  /\ hook[h] = "print"
  /\ \E written \in BOOLEAN :
       /\ HookTo(h, IF written THEN "done" ELSE "silent")
       /\ host' = [host EXCEPT ![h] =
                     IF written /\ settled[h] # "null" THEN settled[h] ELSE "nothing"]
  /\ UNCHANGED <<endpointVars, scenario, verdict, target, settled, copyVars, logVars>>

(* The host kills the hook, or it fails anywhere: it prints nothing.       *)
KillHook(h) ==
  /\ "kill" \in scenario.faults /\ hook[h] \notin {"done", "silent"}
  /\ HookTo(h, "silent")
  /\ UNCHANGED <<endpointVars, scenario, verdict, target, settled, host, copyVars, logVars>>

-----------------------------------------------------------------------------
(* ipc.Server._dispatch, and the records of watch._request.                *)

(* The frame reaches a server a second time.                               *)
DeliverAgain(h) ==
  /\ "again" \in scenario.faults /\ copy[<<h, "sent">>] # "none" /\ copy[<<h, "again">>] = "none"
  /\ \E s \in Servers :
       /\ phase[s] = "open"
       /\ at' = [at EXCEPT ![<<h, "again">>] = s]
  /\ CopyTo(<<h, "again">>, "wire")
  /\ UNCHANGED <<endpointVars, scenario, hookVars, answer, seen, handled, decided, logVars>>

(* Context.active: the server is up and the client still waits.            *)
Active(c) ==
  /\ phase[at[c]] = "open"
  /\ c[2] = "sent" => hook[HookOf(c)] = "waiting"

(* _dispatch: authentic, active, and a nonce never seen before; a full set *)
(* of nonces admits nothing.                                               *)
Admit(c) ==
  LET h == HookOf(c) s == at[c] IN
  /\ copy[c] = "wire" /\ Active(c)
  /\ target[h] = s
  /\ h \notin seen[s] /\ Cardinality(seen[s]) < MaxSeen
  /\ seen' = [seen EXCEPT ![s] = @ \cup {h}]
  /\ handled' = handled \cup {<<c, s>>}
  /\ CopyTo(c, "admitted")
  /\ UNCHANGED <<endpointVars, scenario, hookVars, at, answer, decided, logVars>>

(* _dispatch drops the connection: the frame is not authentic, was seen,   *)
(* or finds the set full; or the context has ended, at any stage but the   *)
(* human's, which is ended by Decide.                                      *)
Drop(c) ==
  /\ \/ copy[c] = "wire" /\ phase[at[c]] = "open"
        /\ \/ target[HookOf(c)] # at[c]
           \/ HookOf(c) \in seen[at[c]]
           \/ Cardinality(seen[at[c]]) >= MaxSeen
     \/ copy[c] \in {"wire", "admitted", "reply"} /\ ~Active(c)
     \/ copy[c] \in {"asking", "commit", "minted", "unsent", "send"} /\ phase[at[c]] = "dead"
  /\ CopyTo(c, "over")
  /\ UNCHANGED <<endpointVars, scenario, hookVars, at, answer, seen, handled, decided, logVars>>

(* _request: the review is recorded before anyone is asked; a log that     *)
(* fails makes the reply an error.                                         *)
RecordReview(c) ==
  LET h == HookOf(c) IN
  /\ copy[c] = "admitted" /\ Active(c)
  /\ \E raises \in BOOLEAN :
       /\ LogAppend([Record("permission_review", h) EXCEPT !.tier = verdict[h].tier], raises)
       /\ CopyTo(c, IF raises THEN "reply" ELSE "asking")
       /\ answer' = [answer EXCEPT ![c] = IF raises THEN "error" ELSE @]
  /\ UNCHANGED <<endpointVars, scenario, hookVars, at, seen, handled, decided>>

(* _request: what the human, or a live grant, makes of it, recorded at     *)
(* once; a new grant is recorded when its reply is committed.  A context   *)
(* that has ended is recorded as such.                                     *)
Outcomes(c) ==
  IF ~Active(c) THEN {[answer |-> "null", action |-> "cancelled"]}
  ELSE {[answer |-> "allow", action |-> "allowed_once"], [answer |-> "allow", action |-> "scope_allow"],
        [answer |-> "deny", action |-> "denied"], [answer |-> "null", action |-> "abstained"]}

Decide(c) ==
  LET h == HookOf(c) IN
  /\ copy[c] = "asking" /\ phase[at[c]] # "dead"
  /\ \E o \in Outcomes(c), raises \in BOOLEAN :
       /\ LogAppend([Record("permission_review_decision", h) EXCEPT
                     !.behavior = o.answer, !.action = o.action], raises)
       /\ answer' = [answer EXCEPT ![c] = IF raises THEN "error" ELSE o.answer]
       /\ decided' = [decided EXCEPT ![h] =
                        IF raises THEN @ ELSE @ \cup ({o.answer} \ {"null"})]
  /\ CopyTo(c, "reply")
  /\ UNCHANGED <<endpointVars, scenario, hookVars, at, seen, handled>>

ChooseGrant(c) ==
  /\ copy[c] = "asking" /\ Active(c)
  /\ answer' = [answer EXCEPT ![c] = "grant"]
  /\ CopyTo(c, "commit")
  /\ UNCHANGED <<endpointVars, scenario, hookVars, at, seen, handled, decided, logVars>>

(* before_reply of a grant, under the reply lock: the grant is minted and  *)
(* recorded, unless the store is full, ...                                 *)
RecordGrant(c) ==
  /\ copy[c] = "commit" /\ Active(c)
  /\ \/ \E raises \in BOOLEAN :
          /\ LogAppend(Record("grant_created", HookOf(c)), raises)
          /\ CopyTo(c, IF raises THEN "unsent" ELSE "minted")
     \/ CopyTo(c, "unsent") /\ UNCHANGED logVars
  /\ UNCHANGED <<endpointVars, scenario, hookVars, at, answer, seen, handled, decided>>

(* ... then consumed, unless it has expired, and the decision is recorded. *)
Commit(c) ==
  LET h == HookOf(c) IN
  /\ copy[c] = "minted" /\ phase[at[c]] # "dead"
  /\ \/ \E raises \in BOOLEAN :
          /\ LogAppend([Record("permission_review_decision", h) EXCEPT
                        !.behavior = "allow", !.action = "scope_allow"], raises)
          /\ CopyTo(c, IF raises THEN "unsent" ELSE "send")
          /\ decided' = [decided EXCEPT ![h] = IF raises THEN @ ELSE @ \cup {"allow"}]
     \/ CopyTo(c, "unsent") /\ UNCHANGED <<decided, logVars>>
  /\ UNCHANGED <<endpointVars, scenario, hookVars, at, answer, seen, handled>>

(* The reply of any other answer is sent as it is.                         *)
Send(c) ==
  /\ copy[c] = "reply" /\ Active(c)
  /\ \E sent \in BOOLEAN : CopyTo(c, IF sent THEN "sent" ELSE "over")
  /\ UNCHANGED <<endpointVars, scenario, hookVars, at, answer, seen, handled, decided, logVars>>

(* The send of a grant and its reply_finalize: a commit that failed, or a  *)
(* context that ended, sends nothing; delivery is recorded when the log    *)
(* takes it.                                                               *)
SendGrant(c) ==
  /\ copy[c] \in {"commit", "unsent", "send"} /\ phase[at[c]] # "dead"
  /\ copy[c] = "commit" => ~Active(c)
  /\ \E sent \in BOOLEAN, raises \in BOOLEAN :
       /\ sent => copy[c] = "send" /\ Active(c)
       /\ CopyTo(c, IF sent THEN "sent" ELSE "over")
       /\ LogAppend([Record("permission_review_delivery", HookOf(c)) EXCEPT !.delivered = sent], raises)
  /\ UNCHANGED <<endpointVars, scenario, hookVars, at, answer, seen, handled, decided>>

-----------------------------------------------------------------------------
(* Every hook has ended: the servers may go on, or not.                    *)
Quiet ==
  /\ \A h \in scenario.hooks : hook[h] \in {"done", "silent"}
  /\ UNCHANGED vars

Next ==
  \/ \E s \in scenario.servers :
       /\ ServerStep(s)
       /\ phase'[s] = "dead" => "crash" \in scenario.faults
       /\ UNCHANGED <<scenario, hookVars, copyVars, logVars>>
  \/ \E h \in scenario.hooks :
       \/ ReadRequest(h) \/ RecordRequest(h) \/ ReadEndpoint(h) \/ SendByTcp(h)
       \/ CannotConnect(h) \/ Receive(h) \/ GiveUp(h) \/ RecordDecision(h)
       \/ PrintDecision(h) \/ KillHook(h) \/ DeliverAgain(h)
  \/ \E c \in Copies :
       \/ Admit(c) \/ Drop(c) \/ RecordReview(c) \/ Decide(c) \/ ChooseGrant(c)
       \/ RecordGrant(c) \/ Commit(c) \/ Send(c) \/ SendGrant(c)
  \/ Quiet

Spec == Init /\ [][Next]_vars

-----------------------------------------------------------------------------
(* A frame is handled at most once, whichever way and however often it     *)
(* arrives, and only by the server whose endpoint the client had read      *)
(* (ipc.py:442-461; INTERFACES.md:145-148: a retry could repeat a question *)
(* or spend a grant twice).                                                *)
HandledOnce ==
  /\ \A d, e \in handled : HookOf(d[1]) = HookOf(e[1]) => d = e
  /\ \A d \in handled : d[2] = target[HookOf(d[1])]

(* The host reads "allow" only for a routine command that does no harm, or *)
(* when the watcher decided to allow this request; it reads "deny" only    *)
(* when the watcher denied it; and what the reference calls hazardous      *)
(* never reaches the watcher or an answer, unless the command moves the    *)
(* shell in a way the classifier does not follow (hook.py:88-101,          *)
(* tiers.py:490-541).                                                      *)
OnlyRoutineOrAnswered ==
  \A h \in scenario.hooks :
    LET v == verdict[h] IN
    /\ host[h] = "allow" => "allow" \in decided[h] \/ (v.routine /\ ~v.hazardous)
    /\ host[h] = "deny" => "deny" \in decided[h]
    /\ v.hazardous /\ v.followed =>
         host[h] = "nothing" /\ \A c \in Copies : HookOf(c) = h => copy[c] = "none"

(* The receipt never tells another story than what happened, at any moment *)
(* and with any line lost: what it has from the hook is what the hook      *)
(* settled, what it has from the watcher alone was decided there, and      *)
(* unless it reports a malformed line it has every answer that the host    *)
(* read, counts it as what it was, and counts the scope behind it; a scope *)
(* it counts was minted (receipt.py:127-208, hook.py:98-103,               *)
(* watch.py:304-326).                                                      *)
ReceiptTellsTheTruth ==
  \A h \in Hooks :
    LET told == Decision(log, h) IN
    /\ told # "unknown" /\ Source(log, h) = "hook" => told = settled[h]
    /\ told # "unknown" /\ Source(log, h) = "watcher" => told \in decided[h]
    /\ h \in HardAsks(log) => verdict[h].tier = 3 /\ told = "unknown"
    /\ h \in ScopesGranted(log) =>
         \E c \in Copies : HookOf(c) = h /\ answer[c] = "grant" /\ copy[c] # "commit"
    /\ host[h] # "nothing" /\ ~Malformed =>
         /\ h \in Reported(log) /\ told = host[h] /\ Source(log, h) = "hook"
         /\ answer[<<h, "sent">>] = "grant" => h \in ScopesGranted(log)
         /\ Category(log, h) \in (IF host[h] = "allow" THEN {"auto_allowed", "allowed_once"} ELSE {"denied"})
=============================================================================
