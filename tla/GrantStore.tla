----------------------------- MODULE GrantStore -----------------------------
(***************************************************************************)
(* scope.grants.Store: the in-memory authority of one watcher.             *)
(*                                                                         *)
(* The store keeps at most one grant per grant key (session, agent,        *)
(* working directory, shell) and at most one proposal card per proposal    *)
(* key (the same without the shell).  A grant carries a budget of          *)
(* commands and an expiry time; consuming it spends one unit.  Every       *)
(* method holds Store.lock throughout, so each is one step here.           *)
(*                                                                         *)
(* What is abstracted: a command is its class (what card patterns and the  *)
(* tier classifier tell apart), a card is the set of classes its patterns  *)
(* and domains match together with its budget, the uuid of a grant is a    *)
(* number never used before.                                               *)
(***************************************************************************)
EXTENDS Integers, FiniteSets

CONSTANTS
  Bases,         (* Proposal keys: (session, agent, normalized cwd).       *)
  Shells,        (* Normalized shells: "bash", "powershell".               *)
  Commands,      (* Classes of commands.                                   *)
  Cards,         (* Valid cards: [covers: SUBSET Commands, budget: Nat].   *)
  TierOf,        (* The tier classify() gives each class.                  *)
  SessionOf,     (* The session of each proposal key.                      *)
  LIFETIME,      (* LIFETIME_SECONDS, in clock ticks.                      *)
  MAX_BINDINGS,  (* Cap on grants and on proposals.                        *)
  MaxNow,        (* Bound: the clock stops here.                           *)
  MaxGeneration, (* Bound: last generation a revoke may create.            *)
  MaxGrants,     (* Bound: how many grants are ever minted.                *)
  None

Tiers == {"T1", "T2", "T3"}

ASSUME CardsAssumption ==
  \A c \in Cards : c.covers \subseteq Commands /\ c.budget \in Nat \ {0}

ASSUME TierAssumption == TierOf \in [Commands -> Tiers]

ASSUME BoundsAssumption ==
  /\ LIFETIME \in Nat \ {0}
  /\ MAX_BINDINGS \in Nat \ {0}
  /\ MaxNow \in Nat
  /\ MaxGeneration \in Nat
  /\ MaxGrants \in Nat

VARIABLES
  grants,      (* Store._grants: the live grant of each key, or None.      *)
  proposals,   (* Store._proposals: the pending card of each base, or None *)
  generation,  (* Store.generation.                                        *)
  now,         (* The monotonic clock.                                     *)
  issued,      (* History: how many grants were minted; ids are 1..issued. *)
  terms,       (* History: what each minted grant was approved for.        *)
  spent        (* History: how often each minted grant was consumed.       *)

storeVars == <<grants, proposals, generation, now, issued, terms, spent>>

Keys == [base : Bases, shell : Shells]
Requests == [base : Bases, shell : Shells, command : Commands]
Ids == 1..MaxGrants
Term == [key : Keys, card : Cards, expires : Nat]

(* A live grant; a used-up one is never kept.                              *)
Grant == [id : Ids, remaining : Nat \ {0}, card : Cards, expires : Nat]

ASSUME NoneAssumption == None \notin Cards /\ None \notin Grant /\ None \notin Term

KeyOf(request) == [base |-> request.base, shell |-> request.shell]

(* _classification: only a cleanly classified T1 or T2 may use a grant.    *)
Grantable(request) == TierOf[request.command] \in {"T1", "T2"}

(* _classification followed by _matches.                                   *)
Matches(card, request) == Grantable(request) /\ request.command \in card.covers

Bound(f) == {k \in DOMAIN f : f[k] # None}

-----------------------------------------------------------------------------
(* Mutants used by PROJECT.json: plausible bugs in the code below.         *)

MutPrunedKeepsExpired == grants

MutChargedForgets(grant) == grant

MutFitsOneTooMany(bindings, key) ==
  bindings[key] # None \/ Cardinality(Bound(bindings)) <= MAX_BINDINGS

-----------------------------------------------------------------------------
(* Pieces shared by the methods.                                           *)

Expired(grant) == now >= grant.expires \/ grant.remaining <= 0

(* _prune: drop every grant that has expired or is used up.                *)
Pruned ==
  [k \in Keys |->
     IF grants[k] = None THEN None
     ELSE IF Expired(grants[k]) THEN None ELSE grants[k]]

(* The capacity test of propose and approve: an existing key may always be *)
(* overwritten.                                                            *)
Fits(bindings, key) ==
  bindings[key] # None \/ Cardinality(Bound(bindings)) < MAX_BINDINGS

(* A fresh uuid4.                                                          *)
NextId == issued + 1

(* What consume leaves of a grant: one unit less, or nothing.              *)
Charged(grant) ==
  IF grant.remaining = 1 THEN None ELSE [grant EXCEPT !.remaining = @ - 1]

-----------------------------------------------------------------------------
StoreInit ==
  /\ grants = [k \in Keys |-> None]
  /\ proposals = [b \in Bases |-> None]
  /\ generation = 0
  /\ now = 0
  /\ issued = 0
  /\ terms = [i \in Ids |-> None]
  /\ spent = [i \in Ids |-> 0]

Propose(base, card) ==
  /\ Fits(proposals, base)
  /\ proposals' = [proposals EXCEPT ![base] = card]
  /\ UNCHANGED <<grants, generation, now, issued, terms, spent>>

(* approve: prune, then mint a fresh grant that replaces any other one of  *)
(* the same key.                                                           *)
Approve(request, card) ==
  LET key == KeyOf(request) IN
  /\ Matches(card, request)
  /\ Fits(Pruned, key)
  /\ issued < MaxGrants
  /\ grants' = [Pruned EXCEPT ![key] =
                  [id |-> NextId, remaining |-> card.budget, card |-> card,
                   expires |-> now + LIFETIME]]
  /\ issued' = issued + 1
  /\ terms' = [terms EXCEPT ![NextId] =
                 [key |-> key, card |-> card, expires |-> now + LIFETIME]]
  /\ UNCHANGED <<proposals, generation, now, spent>>

(* approve at the cap: it raises, after pruning.                           *)
ApproveFull(request, card) ==
  /\ Matches(card, request)
  /\ ~Fits(Pruned, KeyOf(request))
  /\ grants' = Pruned
  /\ UNCHANGED <<proposals, generation, now, issued, terms, spent>>

(* The grant consume would spend for this request, if there is one.        *)
Spendable(request) ==
  LET grant == Pruned[KeyOf(request)] IN
  grant # None /\ Matches(grant.card, request)

Consume(request) ==
  LET key == KeyOf(request)
      grant == Pruned[key] IN
  /\ Spendable(request)
  /\ grants' = [Pruned EXCEPT ![key] = Charged(grant)]
  /\ spent' = [spent EXCEPT ![grant.id] = @ + 1]
  /\ UNCHANGED <<proposals, generation, now, issued, terms>>

(* consume returning None: a request that cannot use any grant changes     *)
(* nothing, any other one still prunes.                                    *)
ConsumeNothing(request) ==
  /\ ~Spendable(request)
  /\ grants' = IF Grantable(request) THEN Pruned ELSE grants
  /\ UNCHANGED <<proposals, generation, now, issued, terms, spent>>

Revoke ==
  /\ generation < MaxGeneration
  /\ generation' = generation + 1
  /\ grants' = [k \in Keys |-> None]
  /\ proposals' = [b \in Bases |-> None]
  /\ UNCHANGED <<now, issued, terms, spent>>

(* discard_grant: roll back an approval that was never delivered.          *)
Discard(id) ==
  /\ grants' = [k \in Keys |->
                  IF grants[k] = None THEN None
                  ELSE IF grants[k].id = id THEN None ELSE grants[k]]
  /\ UNCHANGED <<proposals, generation, now, issued, terms, spent>>

ClearSession(session) ==
  /\ generation < MaxGeneration
  /\ generation' = generation + 1
  /\ grants' = [k \in Keys |-> IF SessionOf[k.base] = session THEN None ELSE grants[k]]
  /\ proposals' = [b \in Bases |-> IF SessionOf[b] = session THEN None ELSE proposals[b]]
  /\ UNCHANGED <<now, issued, terms, spent>>

(* Time passes.                                                            *)
Tick ==
  /\ now < MaxNow
  /\ now' = now + 1
  /\ UNCHANGED <<grants, proposals, generation, issued, terms, spent>>

StoreNext ==
  \/ \E b \in Bases, c \in Cards : Propose(b, c)
  \/ \E r \in Requests, c \in Cards : Approve(r, c)
  \/ \E r \in Requests, c \in Cards : ApproveFull(r, c)
  \/ \E r \in Requests : Consume(r)
  \/ \E r \in Requests : ConsumeNothing(r)
  \/ Revoke
  \/ \E i \in Ids : Discard(i)
  \/ \E b \in Bases : ClearSession(SessionOf[b])
  \/ Tick

StoreSpec == StoreInit /\ [][StoreNext]_storeVars

-----------------------------------------------------------------------------
(* The store's variables have their types; in particular a used-up grant   *)
(* is never kept (consume deletes it at zero).                             *)
StoreTypeOK ==
  /\ grants \in [Keys -> Grant \cup {None}]
  /\ proposals \in [Bases -> Cards \cup {None}]
  /\ generation \in Nat
  /\ now \in Nat
  /\ issued \in 0..MaxGrants
  /\ terms \in [Ids -> Term \cup {None}]
  /\ spent \in [Ids -> Nat]

(* A live grant is still the one that was approved: same key, same card,   *)
(* same expiry, and every unit is either spent or left (Store.consume and  *)
(* Store.approve work on immutable copies that must be written back).      *)
LiveGrantsKeepTheirTerms ==
  \A k \in Bound(grants) :
    LET g == grants[k] IN
    /\ g.id <= issued
    /\ terms[g.id] = [key |-> k, card |-> g.card, expires |-> g.expires]
    /\ spent[g.id] + g.remaining = g.card.budget

(* No grant, live or gone, was ever consumed more often than its card      *)
(* allows, whatever was approved, replaced, discarded or revoked meanwhile.*)
BudgetNeverExceeded ==
  \A i \in 1..issued : terms[i] # None /\ spent[i] <= terms[i].card.budget

(* An id not issued yet has not been spent.                                *)
UnissuedUnspent == \A i \in Ids : i > issued => spent[i] = 0

(* The store's invariant: its types, the terms of what is live, the budget *)
(* of what was ever minted, and fresh ids (grants.py:312-346).             *)
StoreInv ==
  StoreTypeOK /\ LiveGrantsKeepTheirTerms /\ BudgetNeverExceeded /\ UnissuedUnspent

(* The caps on live grants and on pending proposals hold (MAX_BINDINGS),   *)
(* also when an approval replaces or prunes grants at the cap.             *)
WithinCaps ==
  /\ Cardinality(Bound(grants)) <= MAX_BINDINGS
  /\ Cardinality(Bound(proposals)) <= MAX_BINDINGS

(* The store is safe: a live grant is still the one approved, none was ever*)
(* consumed beyond its budget, and neither grants nor proposals exceed the *)
(* cap, whatever was approved, replaced, pruned, discarded or revoked.     *)
StoreSafe == StoreInv /\ WithinCaps

(* The ids bound to some key.                                              *)
LiveIds(f) == {f[k].id : k \in Bound(f)}

(* Once a minted grant is gone - used up, replaced, expired, discarded or  *)
(* revoked - no later call brings it back, and it is never consumed again. *)
Gone(i) == i <= issued /\ i \notin LiveIds(grants)

GoneStaysGone ==
  [][\A i \in Ids : Gone(i) => Gone(i)' /\ spent'[i] = spent[i]]_storeVars

(* A unit is only spent before the expiry fixed at approval: no pruning    *)
(* order, replacement or repeated consumption lets a late request through. *)
SpentBeforeExpiry ==
  [][\A i \in Ids : spent'[i] # spent[i] => now < terms[i].expires]_storeVars

(* A step of the store respects both.                                      *)
SpendsOnlyLive(i) ==
  /\ Gone(i) => Gone(i)'
  /\ spent'[i] # spent[i] => ~Gone(i) /\ now < terms[i].expires

(* Only a live grant is spent: never one that was used up, replaced,       *)
(* expired, discarded or revoked, which no later call brings back either,  *)
(* and never at or after the expiry fixed at approval (_prune in consume). *)
OnlyLiveIsSpent == [][\A i \in Ids : SpendsOnlyLive(i)]_storeVars
=============================================================================
