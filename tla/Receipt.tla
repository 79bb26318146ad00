------------------------------- MODULE Receipt -------------------------------
(***************************************************************************)
(* scope.receipt: the projection of a session log into what became of each *)
(* request.                                                                *)
(*                                                                         *)
(* A log is the set of its whole events: project reads an event by its     *)
(* request and its name, and a repeated equal one changes nothing.  An     *)
(* event is a record whose fields are None where the log line has none of  *)
(* that key ("null" is JSON null).  Fields that no decision depends on     *)
(* (command, cwd, shell, agent, launch events, texts) are left out.        *)
(***************************************************************************)
EXTENDS Naturals, FiniteSets

CONSTANTS
  Requests,  (* Internal request ids.                                      *)
  None

EventNames ==
  {"permission_request", "permission_review", "permission_review_decision",
   "permission_review_delivery", "permission_decision", "grant_created"}
Event ==
  [event : EventNames, id : Requests, tier : 1..3 \cup {None},
   behavior : {"allow", "deny", "null", None},
   action : {"auto_allow", "allowed_once", "scope_allow", "denied", "abstained", "cancelled", None},
   delivered : BOOLEAN \cup {None}]

(* The events of a request under a name, and _one and _conflicting.        *)
Group(log, id, name) == {e \in log : e.id = id /\ e.event = name}
Values(records, key) == {e[key] : e \in records} \ {None}
One(records, key) ==
  LET values == Values(records, key)
  IN IF Cardinality(values) = 1 THEN CHOOSE v \in values : TRUE ELSE None
Conflicting(records, key) == Cardinality(Values(records, key)) > 1

FailedDelivery(log, id) ==
  \E e \in Group(log, id, "permission_review_delivery") : e.delivered = FALSE

(* project: a request counts when either end recorded it.                  *)
Contexts(log, id) == Group(log, id, "permission_request") \cup Group(log, id, "permission_review")
Reported(log) == {id \in Requests : Contexts(log, id) # {}}

-----------------------------------------------------------------------------
(* Mutants used by PROJECT.json.                                           *)

MutDecisionsPreferReviews(log, id) ==
  LET reviews == Group(log, id, "permission_review_decision")
  IN IF reviews # {} THEN reviews ELSE Group(log, id, "permission_decision")

-----------------------------------------------------------------------------
(* project: what the hook recorded is canonical; the watcher's own record  *)
(* stands in only when the hook left none.                                 *)
Decisions(log, id) ==
  LET canonical == Group(log, id, "permission_decision")
  IN IF canonical # {} THEN canonical ELSE Group(log, id, "permission_review_decision")

Source(log, id) ==
  IF Group(log, id, "permission_decision") # {} THEN "hook"
  ELSE IF Group(log, id, "permission_review_decision") # {} THEN "watcher"
  ELSE "unknown"

Decision(log, id) ==
  LET behavior == One(Decisions(log, id), "behavior")
  IN IF \/ behavior \notin {"allow", "deny"}
        \/ Conflicting(Contexts(log, id), "tier")
        \/ Source(log, id) # "hook" /\ FailedDelivery(log, id)
     THEN "unknown" ELSE behavior

(* project: the tier of a request, from the hook if it recorded one.       *)
RequestTier(log, id) ==
  LET requests == Group(log, id, "permission_request")
  IN One(IF requests # {} THEN requests ELSE Group(log, id, "permission_review"), "tier")

(* project: the category under which a request is counted.                 *)
Category(log, id) ==
  LET tier == RequestTier(log, id)
      action == One(Group(log, id, "permission_review_decision"), "action")
      behavior == Decision(log, id)
  IN IF behavior = "allow" /\ action = "allowed_once" THEN "allowed_once"
     ELSE IF behavior = "allow" /\ (tier = 1 \/ action = "scope_allow") THEN "auto_allowed"
     ELSE IF behavior = "deny" THEN "denied"
     ELSE IF tier = 3 THEN "hard_ask" ELSE "unknown"

(* project: the requests behind the counts of hard asks and of granted     *)
(* scopes.                                                                 *)
HardAsks(log) == {id \in Reported(log) : RequestTier(log, id) = 3}
ScopesGranted(log) ==
  {id \in Requests : Group(log, id, "grant_created") # {} /\ ~FailedDelivery(log, id)}
=============================================================================
