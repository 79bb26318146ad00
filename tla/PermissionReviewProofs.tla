------------------------ MODULE PermissionReviewProofs ------------------------
(***************************************************************************)
(* Proofs about the watcher, for every number of connections, every set of *)
(* keys, cards, commands and messages, every scenario and every bound.     *)
(*                                                                         *)
(* First the store alone (GrantStore).  Then the watcher that uses it      *)
(* (PermissionReview): it calls the store only as GrantStore allows,       *)
(* authority does not cross a revoke or a close, every grant is one a      *)
(* human saw and a client was told of, and every answer is one that the    *)
(* abstract Authority permits.  Last the watcher behind its interface      *)
(* (ReviewDesk), which is that watcher: no unseen key answers a request,   *)
(* and no request waits for a ticket that the interface has lost.          *)
(***************************************************************************)
EXTENDS ReviewDesk, FiniteSetTheorems, SequenceTheorems, WellFoundedInduction, TLAPS

-----------------------------------------------------------------------------
(* What the pieces shared by the methods do.                               *)

(* Pruning keeps a grant as it is or drops it, and keeps only grants that  *)
(* may still be spent.                                                     *)
LEMMA PruneKeeps ==
  ASSUME StoreTypeOK
  PROVE  /\ Pruned \in [Keys -> Grant \cup {None}]
         /\ \A k \in Keys : Pruned[k] # None =>
              /\ Pruned[k] = grants[k]
              /\ grants[k] \in Grant
              /\ now < grants[k].expires
<1>1. ASSUME NEW k \in Keys
      PROVE  /\ Pruned[k] \in Grant \cup {None}
             /\ Pruned[k] # None =>
                  /\ Pruned[k] = grants[k] /\ grants[k] \in Grant /\ now < grants[k].expires
  <2>1. grants[k] \in Grant \cup {None}
    BY DEF StoreTypeOK
  <2>2. Pruned[k] = IF grants[k] = None THEN None
                    ELSE IF Expired(grants[k]) THEN None ELSE grants[k]
    BY DEF Pruned
  <2>3. CASE grants[k] = None
    BY <2>2, <2>3
  <2>4. CASE grants[k] # None
    <3>1. grants[k] \in Grant
      BY <2>1, <2>4
    <3>2. now \in Nat /\ grants[k].expires \in Nat
      BY <3>1 DEF StoreTypeOK, Grant
    <3>3. CASE Expired(grants[k])
      BY <2>2, <2>4, <3>3
    <3>4. CASE ~Expired(grants[k])
      BY <2>2, <2>4, <3>1, <3>2, <3>4 DEF Expired
    <3> QED
      BY <3>3, <3>4
  <2> QED
    BY <2>3, <2>4
<1>2. Pruned = [k \in Keys |-> Pruned[k]]
  BY DEF Pruned
<1> QED
  BY <1>1, <1>2

(* The grant key of a request is a key.                                    *)
LEMMA KeyOfType == \A r \in Requests : KeyOf(r) \in Keys
  BY DEF Requests, Keys, KeyOf

(* Charging takes exactly one unit and drops a grant it empties.           *)
LEMMA ChargeTakesOne ==
  ASSUME NEW g \in Grant
  PROVE  /\ Charged(g) \in Grant \cup {None}
         /\ Charged(g) # None =>
              /\ Charged(g).id = g.id /\ Charged(g).card = g.card
              /\ Charged(g).expires = g.expires
              /\ Charged(g).remaining = g.remaining - 1
<1>1. g.remaining \in Nat \ {0}
  BY DEF Grant
<1>2. CASE g.remaining = 1
  BY <1>2 DEF Charged
<1>3. CASE g.remaining # 1
  <2>1. Charged(g) = [g EXCEPT !.remaining = g.remaining - 1]
    BY <1>3 DEF Charged
  <2>2. g.remaining - 1 \in Nat \ {0}
    BY <1>1, <1>3
  <2> QED
    BY <2>1, <2>2 DEF Grant
<1> QED
  BY <1>2, <1>3

-----------------------------------------------------------------------------
(* Type correctness.                                                       *)

(* The empty store is well typed.                                          *)
LEMMA InitType == StoreInit => StoreTypeOK
BY BoundsAssumption DEF StoreInit, StoreTypeOK, Ids

(* Every method keeps the types.                                           *)
LEMMA NextType == StoreTypeOK /\ [StoreNext]_storeVars => StoreTypeOK'
<1> SUFFICES ASSUME StoreTypeOK, [StoreNext]_storeVars
             PROVE  StoreTypeOK'
  OBVIOUS
<1> USE DEF StoreTypeOK
<1>1. ASSUME NEW b \in Bases, NEW c \in Cards, Propose(b, c)
      PROVE  StoreTypeOK'
  BY <1>1 DEF Propose
<1>2. ASSUME NEW r \in Requests, NEW c \in Cards, Approve(r, c)
      PROVE  StoreTypeOK'
  <2>1. KeyOf(r) \in Keys /\ Pruned \in [Keys -> Grant \cup {None}]
    BY KeyOfType, PruneKeeps
  <2>2. issued + 1 \in Ids /\ issued' = issued + 1
    BY <1>2, BoundsAssumption DEF Approve, Ids
  <2>3. now + LIFETIME \in Nat /\ c.budget \in Nat \ {0}
    BY BoundsAssumption, CardsAssumption
  <2>4. [id |-> issued + 1, remaining |-> c.budget, card |-> c, expires |-> now + LIFETIME]
          \in Grant
    BY <2>2, <2>3 DEF Grant
  <2>5. [key |-> KeyOf(r), card |-> c, expires |-> now + LIFETIME] \in Term
    BY <2>1, <2>3 DEF Term
  <2>6. grants' \in [Keys -> Grant \cup {None}]
    BY <1>2, <2>1, <2>4 DEF Approve, NextId
  <2>7. terms' \in [Ids -> Term \cup {None}]
    BY <1>2, <2>5 DEF Approve, NextId
  <2>8. issued' \in 0..MaxGrants
    BY <2>2, BoundsAssumption DEF Ids
  <2> QED
    BY <1>2, <2>6, <2>7, <2>8 DEF Approve
<1>3. ASSUME NEW r \in Requests, NEW c \in Cards, ApproveFull(r, c)
      PROVE  StoreTypeOK'
  BY <1>3, PruneKeeps DEF ApproveFull
<1>4. ASSUME NEW r \in Requests, Consume(r)
      PROVE  StoreTypeOK'
  <2> DEFINE key == KeyOf(r)
             g == Pruned[key]
  <2>1. key \in Keys /\ Pruned \in [Keys -> Grant \cup {None}]
    BY KeyOfType, PruneKeeps
  <2>2. g # None /\ g \in Grant
    BY <1>4, <2>1 DEF Consume, Spendable
  <2>3. Charged(g) \in Grant \cup {None}
    BY <2>2, ChargeTakesOne
  <2>4. grants' = [Pruned EXCEPT ![key] = Charged(g)]
    BY <1>4 DEF Consume
  <2>5. grants' \in [Keys -> Grant \cup {None}]
    BY <2>1, <2>3, <2>4
  <2>6. g.id \in Ids
    BY <2>2 DEF Grant
  <2>7. spent' = [spent EXCEPT ![g.id] = spent[g.id] + 1]
    BY <1>4 DEF Consume
  <2>8. spent' \in [Ids -> Nat]
    BY <2>6, <2>7
  <2> QED
    BY <1>4, <2>5, <2>8 DEF Consume
<1>5. ASSUME NEW r \in Requests, ConsumeNothing(r)
      PROVE  StoreTypeOK'
  BY <1>5, PruneKeeps DEF ConsumeNothing
<1>6. CASE Revoke
  BY <1>6 DEF Revoke
<1>7. ASSUME NEW i \in Ids, Discard(i)
      PROVE  StoreTypeOK'
  BY <1>7 DEF Discard
<1>8. ASSUME NEW b \in Bases, ClearSession(SessionOf[b])
      PROVE  StoreTypeOK'
  BY <1>8 DEF ClearSession
<1>9. CASE Tick
  BY <1>9 DEF Tick
<1>10. CASE UNCHANGED storeVars
  BY <1>10 DEF storeVars
<1> QED
  BY <1>1, <1>2, <1>3, <1>4, <1>5, <1>6, <1>7, <1>8, <1>9, <1>10 DEF StoreNext

(* The store keeps its types in every execution: no method writes back a   *)
(* grant without units, an id never issued, or a card nobody validated.    *)
THEOREM TypeCorrect == StoreSpec => []StoreTypeOK
<1>1. StoreInit => StoreTypeOK
  BY InitType
<1>2. StoreTypeOK /\ [StoreNext]_storeVars => StoreTypeOK'
  BY NextType
<1> QED
  BY <1>1, <1>2, PTL DEF StoreSpec

-----------------------------------------------------------------------------
(* Budgets.                                                                *)

(* A step that mints and spends nothing keeps or drops each grant.         *)
KeepsOrDrops ==
  /\ \A k \in Keys : grants'[k] # None => grants'[k] = grants[k]
  /\ UNCHANGED <<issued, terms, spent>>

(* A step that only keeps or drops grants keeps the invariant.             *)
LEMMA KeepsOrDropsInv ==
  ASSUME StoreInv, StoreTypeOK', KeepsOrDrops
  PROVE  StoreInv'
<1>1. DOMAIN grants = Keys /\ DOMAIN grants' = Keys
  BY DEF StoreInv, StoreTypeOK
<1>2. LiveGrantsKeepTheirTerms'
  <2> SUFFICES ASSUME NEW k \in Bound(grants)'
               PROVE  /\ grants'[k].id <= issued'
                      /\ terms'[grants'[k].id] =
                           [key |-> k, card |-> grants'[k].card, expires |-> grants'[k].expires]
                      /\ spent'[grants'[k].id] + grants'[k].remaining = grants'[k].card.budget
    BY DEF LiveGrantsKeepTheirTerms
  <2>1. k \in Bound(grants) /\ grants'[k] = grants[k]
    BY <1>1 DEF Bound, KeepsOrDrops
  <2> QED
    BY <2>1 DEF KeepsOrDrops, StoreInv, LiveGrantsKeepTheirTerms
<1>3. BudgetNeverExceeded' /\ UnissuedUnspent'
  BY DEF KeepsOrDrops, StoreInv, BudgetNeverExceeded, UnissuedUnspent
<1> QED
  BY <1>2, <1>3 DEF StoreInv

(* Minting a grant records its terms under an id that was never used.      *)
LEMMA ApproveInv ==
  ASSUME StoreInv, StoreTypeOK', NEW r \in Requests, NEW c \in Cards, Approve(r, c)
  PROVE  StoreInv'
<1> DEFINE key == KeyOf(r)
           n == issued + 1
           fresh == [id |-> n, remaining |-> c.budget, card |-> c, expires |-> now + LIFETIME]
           term == [key |-> key, card |-> c, expires |-> now + LIFETIME]
<1>1. /\ key \in Keys /\ n \in Ids /\ issued \in Nat /\ c.budget \in Nat
      /\ Ids = 1..MaxGrants
  BY KeyOfType, BoundsAssumption, CardsAssumption
     DEF Approve, StoreInv, StoreTypeOK, Ids
<1>2. /\ Pruned \in [Keys -> Grant \cup {None}]
      /\ \A k \in Keys : Pruned[k] # None => Pruned[k] = grants[k]
  BY PruneKeeps DEF StoreInv
<1>3. /\ grants' = [Pruned EXCEPT ![key] = fresh]
      /\ issued' = n /\ spent' = spent
      /\ terms' = [terms EXCEPT ![n] = term]
  BY DEF Approve, NextId
<1>4. DOMAIN grants = Keys /\ DOMAIN grants' = Keys /\ DOMAIN terms = Ids
  BY DEF StoreInv, StoreTypeOK
<1>5. /\ terms'[n] = term
      /\ \A i \in Ids : i # n => terms'[i] = terms[i]
  BY <1>1, <1>3, <1>4
<1>6. spent[n] = 0
  BY <1>1 DEF StoreInv, UnissuedUnspent
<1>7. LiveGrantsKeepTheirTerms'
  <2> SUFFICES ASSUME NEW k \in Bound(grants)'
               PROVE  /\ grants'[k].id <= issued'
                      /\ terms'[grants'[k].id] =
                           [key |-> k, card |-> grants'[k].card, expires |-> grants'[k].expires]
                      /\ spent'[grants'[k].id] + grants'[k].remaining = grants'[k].card.budget
    BY DEF LiveGrantsKeepTheirTerms
  <2>1. k \in Keys /\ grants'[k] # None
    BY <1>4 DEF Bound
  <2>2. CASE k = key
    <3>1. grants'[k] = fresh
      BY <2>1, <2>2, <1>2, <1>3
    <3> QED
      BY <3>1, <2>2, <1>1, <1>3, <1>5, <1>6
  <2>3. CASE k # key
    <3>1. grants'[k] = Pruned[k]
      BY <2>1, <2>3, <1>2, <1>3
    <3>2. grants'[k] = grants[k] /\ k \in Bound(grants)
      BY <3>1, <2>1, <1>2, <1>4 DEF Bound
    <3>3. grants[k].id \in Ids
      BY <3>2, <2>1 DEF StoreInv, StoreTypeOK, Grant
    <3>4. /\ grants[k].id <= issued
          /\ terms[grants[k].id] =
               [key |-> k, card |-> grants[k].card, expires |-> grants[k].expires]
          /\ spent[grants[k].id] + grants[k].remaining = grants[k].card.budget
      BY <3>2 DEF StoreInv, LiveGrantsKeepTheirTerms
    <3>5. grants[k].id # n /\ grants[k].id <= n
      BY <3>3, <3>4, <1>1
    <3> QED
      BY <3>2, <3>3, <3>4, <3>5, <1>3, <1>5
  <2> QED
    BY <2>2, <2>3
<1>8. BudgetNeverExceeded'
  <2> SUFFICES ASSUME NEW i \in 1..n
               PROVE  terms'[i] # None /\ spent[i] <= terms'[i].card.budget
    BY <1>3 DEF BudgetNeverExceeded
  <2>1. CASE i = n
    <3>1. term \in Term
      BY <1>1, BoundsAssumption DEF Term, StoreInv, StoreTypeOK
    <3> QED
      BY <2>1, <3>1, <1>1, <1>5, <1>6, NoneAssumption
  <2>2. CASE i # n
    <3>1. i \in 1..issued /\ i \in Ids
      BY <2>2, <1>1, BoundsAssumption
    <3>2. terms[i] # None /\ spent[i] <= terms[i].card.budget
      BY <3>1 DEF StoreInv, BudgetNeverExceeded
    <3> QED
      BY <3>1, <3>2, <2>2, <1>5
  <2> QED
    BY <2>1, <2>2
<1>9. UnissuedUnspent'
  BY <1>1, <1>3 DEF StoreInv, UnissuedUnspent
<1> QED
  BY <1>7, <1>8, <1>9 DEF StoreInv

(* Consuming moves one unit from what is left to what is spent.            *)
LEMMA ConsumeInv ==
  ASSUME StoreInv, StoreTypeOK', NEW r \in Requests, Consume(r)
  PROVE  StoreInv'
<1> DEFINE key == KeyOf(r)
           g == Pruned[key]
<1>1. /\ key \in Keys
      /\ Pruned \in [Keys -> Grant \cup {None}]
      /\ \A k \in Keys : Pruned[k] # None => Pruned[k] = grants[k]
  BY KeyOfType, PruneKeeps DEF StoreInv
<1>2. g # None /\ g = grants[key] /\ g \in Grant
  BY <1>1 DEF Consume, Spendable
<1>3. /\ grants' = [Pruned EXCEPT ![key] = Charged(g)]
      /\ spent' = [spent EXCEPT ![g.id] = spent[g.id] + 1]
      /\ issued' = issued /\ terms' = terms
  BY DEF Consume
<1>4. /\ DOMAIN grants = Keys /\ DOMAIN grants' = Keys
      /\ spent \in [Ids -> Nat] /\ issued \in Nat
  BY DEF StoreInv, StoreTypeOK
<1>5. g.id \in Ids /\ g.id \in Nat /\ g.remaining \in Nat \ {0} /\ g.card.budget \in Nat
  BY <1>2, CardsAssumption, BoundsAssumption DEF Grant, Ids
<1>6. /\ g.id <= issued
      /\ terms[g.id] = [key |-> key, card |-> g.card, expires |-> g.expires]
      /\ spent[g.id] + g.remaining = g.card.budget
  BY <1>1, <1>2, <1>4 DEF StoreInv, LiveGrantsKeepTheirTerms, Bound
<1>7. /\ spent'[g.id] = spent[g.id] + 1
      /\ \A i \in Ids : i # g.id => spent'[i] = spent[i]
  BY <1>3, <1>4, <1>5
<1>8. LiveGrantsKeepTheirTerms'
  <2> SUFFICES ASSUME NEW k \in Bound(grants)'
               PROVE  /\ grants'[k].id <= issued'
                      /\ terms'[grants'[k].id] =
                           [key |-> k, card |-> grants'[k].card, expires |-> grants'[k].expires]
                      /\ spent'[grants'[k].id] + grants'[k].remaining = grants'[k].card.budget
    BY DEF LiveGrantsKeepTheirTerms
  <2>1. k \in Keys /\ grants'[k] # None
    BY <1>4 DEF Bound
  <2>2. CASE k = key
    <3>1. grants'[k] = Charged(g)
      BY <2>2, <1>1, <1>3
    <3>2. /\ grants'[k].id = g.id /\ grants'[k].card = g.card
          /\ grants'[k].expires = g.expires
          /\ grants'[k].remaining = g.remaining - 1
      BY <3>1, <2>1, <1>2, ChargeTakesOne
    <3>3. spent[g.id] \in Nat
      BY <1>4, <1>5
    <3> QED
      BY <3>2, <3>3, <2>2, <1>3, <1>5, <1>6, <1>7
  <2>3. CASE k # key
    <3>1. grants'[k] = Pruned[k]
      BY <2>1, <2>3, <1>1, <1>3
    <3>2. grants'[k] = grants[k] /\ k \in Bound(grants)
      BY <3>1, <2>1, <1>1, <1>4 DEF Bound
    <3>3. /\ grants[k].id <= issued
          /\ terms[grants[k].id] =
               [key |-> k, card |-> grants[k].card, expires |-> grants[k].expires]
          /\ spent[grants[k].id] + grants[k].remaining = grants[k].card.budget
      BY <3>2 DEF StoreInv, LiveGrantsKeepTheirTerms
    <3>4. grants[k].id \in Ids
      BY <3>2, <2>1 DEF StoreInv, StoreTypeOK, Grant
    <3>5. grants[k].id # g.id
      BY <3>3, <1>6, <2>3
    <3> QED
      BY <3>2, <3>3, <3>4, <3>5, <1>3, <1>7
  <2> QED
    BY <2>2, <2>3
<1>9. BudgetNeverExceeded'
  <2> SUFFICES ASSUME NEW i \in 1..issued
               PROVE  terms[i] # None /\ spent'[i] <= terms[i].card.budget
    BY <1>3 DEF BudgetNeverExceeded
  <2>1. terms[i] # None /\ spent[i] <= terms[i].card.budget
    BY DEF StoreInv, BudgetNeverExceeded
  <2>2. i \in Ids
    BY BoundsAssumption DEF StoreInv, StoreTypeOK, Ids
  <2>3. CASE i = g.id
    <3>1. terms[i].card = g.card /\ spent[i] \in Nat
      BY <2>3, <2>2, <1>4, <1>6
    <3> QED
      BY <2>1, <2>3, <3>1, <1>5, <1>6, <1>7
  <2>4. CASE i # g.id
    BY <2>1, <2>2, <2>4, <1>7
  <2> QED
    BY <2>3, <2>4
<1>10. UnissuedUnspent'
  BY <1>3, <1>4, <1>5, <1>6, <1>7 DEF StoreInv, UnissuedUnspent
<1> QED
  BY <1>8, <1>9, <1>10 DEF StoreInv

(* The invariant holds of the empty store,                                 *)
LEMMA InitInv == StoreInit => StoreInv
BY InitType, BoundsAssumption
   DEF StoreInit, StoreInv, LiveGrantsKeepTheirTerms, BudgetNeverExceeded, UnissuedUnspent,
       Bound, Ids

(* and every method keeps it.                                              *)
LEMMA NextInv == StoreInv /\ [StoreNext]_storeVars => StoreInv'
<1> SUFFICES ASSUME StoreInv, [StoreNext]_storeVars
             PROVE  StoreInv'
  OBVIOUS
<1> StoreTypeOK /\ StoreTypeOK'
  BY NextType DEF StoreInv
<1>0. \A k \in Keys : Pruned[k] # None => Pruned[k] = grants[k]
  BY PruneKeeps
<1>1. ASSUME NEW b \in Bases, NEW c \in Cards, Propose(b, c)
      PROVE  StoreInv'
  BY <1>1, KeepsOrDropsInv DEF Propose, KeepsOrDrops
<1>2. ASSUME NEW r \in Requests, NEW c \in Cards, Approve(r, c)
      PROVE  StoreInv'
  BY <1>2, ApproveInv
<1>3. ASSUME NEW r \in Requests, NEW c \in Cards, ApproveFull(r, c)
      PROVE  StoreInv'
  BY <1>0, <1>3, KeepsOrDropsInv DEF ApproveFull, KeepsOrDrops
<1>4. ASSUME NEW r \in Requests, Consume(r)
      PROVE  StoreInv'
  BY <1>4, ConsumeInv
<1>5. ASSUME NEW r \in Requests, ConsumeNothing(r)
      PROVE  StoreInv'
  BY <1>0, <1>5, KeepsOrDropsInv DEF ConsumeNothing, KeepsOrDrops
<1>6. CASE Revoke
  BY <1>6, KeepsOrDropsInv DEF Revoke, KeepsOrDrops
<1>7. ASSUME NEW i \in Ids, Discard(i)
      PROVE  StoreInv'
  BY <1>7, KeepsOrDropsInv DEF Discard, KeepsOrDrops
<1>8. ASSUME NEW b \in Bases, ClearSession(SessionOf[b])
      PROVE  StoreInv'
  BY <1>8, KeepsOrDropsInv DEF ClearSession, KeepsOrDrops
<1>9. CASE Tick
  BY <1>9, KeepsOrDropsInv DEF Tick, KeepsOrDrops
<1>10. CASE UNCHANGED storeVars
  BY <1>10, KeepsOrDropsInv DEF storeVars, KeepsOrDrops
<1> QED
  BY <1>1, <1>2, <1>3, <1>4, <1>5, <1>6, <1>7, <1>8, <1>9, <1>10 DEF StoreNext

(* The store's invariant: a live grant is the one that was approved, with  *)
(* every unit either spent or left, and no grant was ever consumed beyond  *)
(* its budget.                                                             *)
THEOREM GrantsAndBudgets == StoreSpec => []StoreInv
<1>1. StoreInit => StoreInv
  BY InitInv
<1>2. StoreInv /\ [StoreNext]_storeVars => StoreInv'
  BY NextInv
<1> QED
  BY <1>1, <1>2, PTL DEF StoreSpec

-----------------------------------------------------------------------------
(* What no step may do.                                                    *)

SpentInTime(i) == spent'[i] # spent[i] => now < terms[i].expires

(* What consume spends has survived _prune in the same call.               *)
LEMMA StepSpendsInTime ==
  ASSUME StoreInv, [StoreNext]_storeVars, NEW i \in Ids
  PROVE  SpentInTime(i)
<1>1. ASSUME NEW r \in Requests, Consume(r)
      PROVE  SpentInTime(i)
  <2> DEFINE key == KeyOf(r)
             g == Pruned[key]
  <2>1. key \in Keys /\ g # None
    BY <1>1, KeyOfType DEF Consume, Spendable
  <2>2. g = grants[key] /\ g \in Grant /\ now < g.expires
    BY <2>1, PruneKeeps DEF StoreInv
  <2>3. key \in Bound(grants)
    BY <2>1, <2>2 DEF StoreInv, StoreTypeOK, Bound
  <2>4. terms[g.id].expires = g.expires
    <3> HIDE DEF key, g
    <3>1. terms[grants[key].id] =
            [key |-> key, card |-> grants[key].card, expires |-> grants[key].expires]
      BY <2>3 DEF StoreInv, LiveGrantsKeepTheirTerms
    <3> QED
      BY <2>2, <3>1
  <2>5. spent' = [spent EXCEPT ![g.id] = spent[g.id] + 1]
    BY <1>1 DEF Consume
  <2>6. spent'[i] # spent[i] => i = g.id
    BY <2>5 DEF StoreInv, StoreTypeOK
  <2> QED
    BY <2>2, <2>4, <2>6 DEF SpentInTime
<1>2. CASE spent' = spent
  BY <1>2 DEF SpentInTime
<1>3. (\E r \in Requests : Consume(r)) \/ spent' = spent
  BY DEF StoreNext, storeVars, Propose, Approve, ApproveFull, ConsumeNothing, Revoke,
         Discard, ClearSession, Tick
<1> QED
  BY <1>1, <1>2, <1>3

(* No unit of a grant is spent at or after the expiry fixed at approval.   *)
THEOREM NeverSpentLate == StoreSpec => SpentBeforeExpiry
<1>1. StoreInit => StoreInv
  BY InitInv
<1>2. StoreInv /\ [StoreNext]_storeVars => StoreInv'
  BY NextInv
<1>3. StoreInv /\ [StoreNext]_storeVars
        => [\A i \in Ids : spent'[i] # spent[i] => now < terms[i].expires]_storeVars
  BY StepSpendsInTime DEF SpentInTime
<1> QED
  BY <1>1, <1>2, <1>3, PTL DEF StoreSpec, SpentBeforeExpiry

(* A step leaves only ids that were live, or one never issued before; and  *)
(* it spends from a live grant or from none.                               *)
LEMMA StepKeepsGone ==
  ASSUME StoreInv, [StoreNext]_storeVars, NEW i \in Ids, Gone(i)
  PROVE  Gone(i)' /\ spent'[i] = spent[i]
<1>1. /\ DOMAIN grants = Keys /\ issued \in Nat /\ i <= issued /\ i \in Nat
      /\ \A k \in Keys : grants[k] # None => grants[k].id # i
  BY BoundsAssumption DEF Gone, LiveIds, Bound, StoreInv, StoreTypeOK, Ids
<1>2. DOMAIN grants' = Keys
  BY NextType DEF StoreInv, StoreTypeOK
<1>3. /\ Pruned \in [Keys -> Grant \cup {None}]
      /\ \A k \in Keys : Pruned[k] # None => Pruned[k] = grants[k] /\ grants[k] \in Grant
  BY PruneKeeps DEF StoreInv
<1> DEFINE Kept == /\ \A k \in Keys : grants'[k] # None => grants'[k].id # i
                   /\ issued <= issued'
                   /\ spent'[i] = spent[i]
<1>4. SUFFICES Kept
  <2>1. i <= issued' /\ issued' \in Nat
    <3>1. issued' \in Nat
      BY NextType, BoundsAssumption DEF StoreInv, StoreTypeOK
    <3> QED
      BY <1>1, <1>4, <3>1
  <2> QED
    BY <1>2, <1>4, <2>1 DEF Gone, LiveIds, Bound
<1>5. ASSUME NEW r \in Requests, NEW c \in Cards, Approve(r, c)
      PROVE  Kept
  <2> DEFINE fresh == [id |-> issued + 1, remaining |-> c.budget, card |-> c,
                       expires |-> now + LIFETIME]
  <2>1. /\ grants' = [Pruned EXCEPT ![KeyOf(r)] = fresh]
        /\ issued' = issued + 1 /\ spent' = spent
    BY <1>5 DEF Approve, NextId
  <2>2. fresh.id # i
    BY <1>1
  <2>3. ASSUME NEW k \in Keys, grants'[k] # None
        PROVE  grants'[k].id # i
    <3>1. CASE k = KeyOf(r)
      BY <2>1, <2>2, <3>1, <1>3, KeyOfType
    <3>2. CASE k # KeyOf(r)
      BY <2>1, <2>3, <3>2, <1>1, <1>3
    <3> QED
      BY <3>1, <3>2
  <2> QED
    BY <2>1, <2>3, <1>1
<1>6. ASSUME NEW r \in Requests, Consume(r)
      PROVE  Kept
  <2> DEFINE key == KeyOf(r)
             g == Pruned[key]
  <2>1. key \in Keys /\ g # None
    BY <1>6, KeyOfType DEF Consume, Spendable
  <2>2. g = grants[key] /\ g \in Grant /\ g.id # i
    BY <2>1, <1>1, <1>3
  <2>3. /\ grants' = [Pruned EXCEPT ![key] = Charged(g)] /\ issued' = issued
        /\ spent' = [spent EXCEPT ![g.id] = spent[g.id] + 1]
    BY <1>6 DEF Consume
  <2>4. spent'[i] = spent[i]
    BY <2>2, <2>3 DEF StoreInv, StoreTypeOK
  <2>5. ASSUME NEW k \in Keys, grants'[k] # None
        PROVE  grants'[k].id # i
    <3>1. CASE k = key
      <4>1. grants'[k] = Charged(g)
        BY <2>3, <3>1, <1>3
      <4> QED
        BY <4>1, <2>2, <2>5, ChargeTakesOne
    <3>2. CASE k # key
      BY <2>3, <2>5, <3>2, <1>1, <1>3
    <3> QED
      BY <3>1, <3>2
  <2> QED
    BY <2>3, <2>4, <2>5, <1>1
<1>7. CASE KeepsOrDrops
  BY <1>1, <1>7 DEF KeepsOrDrops
<1>8. \/ \E r \in Requests, c \in Cards : Approve(r, c)
      \/ \E r \in Requests : Consume(r)
      \/ KeepsOrDrops
  BY <1>3 DEF StoreNext, storeVars, KeepsOrDrops, Propose, ApproveFull, ConsumeNothing,
              Revoke, Discard, ClearSession, Tick
<1> QED
  BY <1>5, <1>6, <1>7, <1>8

(* A grant that was used up, replaced, expired, discarded or revoked never *)
(* returns and is never consumed again.                                    *)
THEOREM LostGrantsStayLost == StoreSpec => GoneStaysGone
<1>1. StoreInit => StoreInv
  BY InitInv
<1>2. StoreInv /\ [StoreNext]_storeVars => StoreInv'
  BY NextInv
<1>3. StoreInv /\ [StoreNext]_storeVars
        => [\A i \in Ids : Gone(i) => Gone(i)' /\ spent'[i] = spent[i]]_storeVars
  BY StepKeepsGone
<1> QED
  BY <1>1, <1>2, <1>3, PTL DEF StoreSpec, GoneStaysGone

-----------------------------------------------------------------------------
(* The caps, for keys of which there may be infinitely many.               *)

FewBound(f) == IsFiniteSet(Bound(f)) /\ Cardinality(Bound(f)) <= MAX_BINDINGS

CapsInv == StoreTypeOK /\ FewBound(grants) /\ FewBound(proposals)

(* Dropping bindings keeps them few.                                       *)
LEMMA FewerBound ==
  ASSUME NEW f, NEW g, FewBound(f), Bound(g) \subseteq Bound(f)
  PROVE  FewBound(g)
<1>1. /\ IsFiniteSet(Bound(g)) /\ Cardinality(Bound(g)) <= Cardinality(Bound(f))
      /\ Cardinality(Bound(g)) \in Nat /\ Cardinality(Bound(f)) \in Nat
  BY FS_Subset, FS_CardinalityType DEF FewBound
<1> QED
  BY <1>1, BoundsAssumption DEF FewBound

(* So does setting one that Fits.                                          *)
LEMMA FitsKeepsFew ==
  ASSUME NEW S, NEW f, f = [k \in S |-> f[k]], NEW key \in S, NEW v,
         FewBound(f), Fits(f, key)
  PROVE  FewBound([f EXCEPT ![key] = v])
<1> DEFINE g == [f EXCEPT ![key] = v]
<1>1. Bound(g) \subseteq Bound(f) \cup {key}
  BY DEF Bound
<1>2. IsFiniteSet(Bound(f)) /\ Cardinality(Bound(f)) \in Nat
  BY FS_CardinalityType DEF FewBound
<1>3. CASE f[key] # None
  <2>1. key \in Bound(f)
    BY <1>3 DEF Bound
  <2>2. Bound(g) \subseteq Bound(f)
    BY <1>1, <2>1
  <2> QED
    BY <2>2, FewerBound
<1>4. CASE Cardinality(Bound(f)) < MAX_BINDINGS
  <2>1. /\ IsFiniteSet(Bound(f) \cup {key})
        /\ Cardinality(Bound(f) \cup {key}) <= Cardinality(Bound(f)) + 1
        /\ Cardinality(Bound(f) \cup {key}) \in Nat
    BY <1>2, FS_AddElement, FS_CardinalityType
  <2>2. /\ IsFiniteSet(Bound(g))
        /\ Cardinality(Bound(g)) <= Cardinality(Bound(f) \cup {key})
        /\ Cardinality(Bound(g)) \in Nat
    BY <1>1, <2>1, FS_Subset, FS_CardinalityType
  <2>3. Cardinality(Bound(g)) <= MAX_BINDINGS
    BY <1>2, <1>4, <2>1, <2>2, BoundsAssumption
  <2> QED
    BY <2>2, <2>3 DEF FewBound
<1> QED
  BY <1>3, <1>4 DEF Fits

(* Pruning adds no binding.                                                *)
LEMMA PrunedIsFewer == StoreTypeOK => Bound(Pruned) \subseteq Bound(grants)
BY PruneKeeps DEF Bound, StoreTypeOK

(* Every method keeps both caps.                                           *)
LEMMA NextCaps == CapsInv /\ [StoreNext]_storeVars => CapsInv'
<1> SUFFICES ASSUME CapsInv, [StoreNext]_storeVars
             PROVE  FewBound(grants)' /\ FewBound(proposals)'
  BY NextType DEF CapsInv
<1>1. /\ DOMAIN grants = Keys /\ DOMAIN proposals = Bases
      /\ DOMAIN grants' = Keys /\ DOMAIN proposals' = Bases
      /\ grants = [k \in Keys |-> grants[k]] /\ proposals = [b \in Bases |-> proposals[b]]
  BY NextType DEF CapsInv, StoreTypeOK
<1>2. FewBound(Pruned) /\ Pruned = [k \in Keys |-> Pruned[k]]
  BY FewerBound, PrunedIsFewer, PruneKeeps DEF CapsInv
<1>3. ASSUME NEW b \in Bases, NEW c \in Cards, Propose(b, c)
      PROVE  FewBound(grants') /\ FewBound(proposals')
  BY <1>1, <1>3, FitsKeepsFew DEF Propose, CapsInv
<1>4. ASSUME NEW r \in Requests, NEW c \in Cards, Approve(r, c)
      PROVE  FewBound(grants') /\ FewBound(proposals')
  BY <1>2, <1>4, KeyOfType, FitsKeepsFew DEF Approve, CapsInv
<1>5. ASSUME NEW r \in Requests, Consume(r)
      PROVE  FewBound(grants') /\ FewBound(proposals')
  <2> DEFINE key == KeyOf(r)
  <2>1. key \in Keys /\ Pruned[key] # None
    BY <1>5, KeyOfType DEF Consume, Spendable
  <2>2. \A k \in Keys : grants'[k] # None => Pruned[k] # None
    BY <1>2, <1>5, <2>1 DEF Consume
  <2>3. Bound(grants') \subseteq Bound(Pruned)
    BY <1>1, <1>2, <2>2 DEF Bound
  <2> QED
    BY <1>2, <1>5, <2>3, FewerBound DEF Consume, CapsInv
<1>6. CASE /\ \A k \in Keys : grants'[k] # None => grants[k] # None
           /\ \A b \in Bases : proposals'[b] # None => proposals[b] # None
  <2>1. Bound(grants') \subseteq Bound(grants) /\ Bound(proposals') \subseteq Bound(proposals)
    BY <1>1, <1>6 DEF Bound
  <2> QED
    BY <2>1, FewerBound DEF CapsInv
<1>7. \/ \E b \in Bases, c \in Cards : Propose(b, c)
      \/ \E r \in Requests, c \in Cards : Approve(r, c)
      \/ \E r \in Requests : Consume(r)
      \/ /\ \A k \in Keys : grants'[k] # None => grants[k] # None
         /\ \A b \in Bases : proposals'[b] # None => proposals[b] # None
  BY PruneKeeps DEF StoreNext, storeVars, CapsInv, ApproveFull, ConsumeNothing, Revoke,
                    Discard, ClearSession, Tick
<1> QED
  BY <1>3, <1>4, <1>5, <1>6, <1>7

(* The store never holds more grants or proposals than MAX_BINDINGS.       *)
THEOREM CapsHold == StoreSpec => []WithinCaps
<1>1. StoreInit => CapsInv
  <2> SUFFICES ASSUME StoreInit PROVE CapsInv
    OBVIOUS
  <2>1. Bound(grants) = {} /\ Bound(proposals) = {}
    BY DEF StoreInit, Bound
  <2>2. FewBound(grants) /\ FewBound(proposals)
    BY <2>1, FS_EmptySet, BoundsAssumption DEF FewBound
  <2> QED
    BY <2>2, InitType DEF CapsInv
<1>2. CapsInv /\ [StoreNext]_storeVars => CapsInv'
  BY NextCaps
<1>3. CapsInv => WithinCaps
  BY DEF CapsInv, FewBound, WithinCaps
<1> QED
  BY <1>1, <1>2, <1>3, PTL DEF StoreSpec
-----------------------------------------------------------------------------
(* Together.                                                               *)

(* The store is safe, whatever is called: terms, budgets and caps.         *)
THEOREM StoreIsSafe == StoreSpec => []StoreSafe
<1>1. StoreInv /\ WithinCaps => StoreSafe
  BY DEF StoreSafe
<1> QED
  BY <1>1, GrantsAndBudgets, CapsHold, PTL

(* Only a live grant is ever spent, in time, and a lost one stays lost.    *)
THEOREM OnlyLiveGrantsAreSpent == StoreSpec => OnlyLiveIsSpent
<1>1. StoreInv /\ [StoreNext]_storeVars => [\A i \in Ids : SpendsOnlyLive(i)]_storeVars
  BY StepKeepsGone, StepSpendsInTime DEF SpentInTime, SpendsOnlyLive
<1> QED
  BY <1>1, GrantsAndBudgets, PTL DEF StoreSpec, OnlyLiveIsSpent

-----------------------------------------------------------------------------
(* The watcher changes the store only by calls of the store.               *)

(* A message that was accepted carries a request the store knows.         *)
LEMMA CarriedRequest ==
  ASSUME NEW w \in Workers, msg[w] \in Messages
  PROVE  /\ RequestOf(w) \in Requests
         /\ msg[w].base \in Bases
         /\ msg[w].kind = "proposal" => msg[w].card \in Cards
BY MessagesAssumption DEF Message, RequestOf, Requests

(* Every step of the watcher is a call of the store or leaves it alone.    *)
LEMMA StepUsesStore == ReviewTypeInv /\ [Next]_vars => [StoreNext]_storeVars
<1> SUFFICES ASSUME ReviewTypeInv, [Next]_vars
             PROVE  StoreNext \/ UNCHANGED storeVars
  OBVIOUS
<1>1. ASSUME NEW w \in Workers, Control(w)
      PROVE  StoreNext
  BY <1>1 DEF Control, StoreNext
<1>2. ASSUME NEW w \in Workers, Proposal(w)
      PROVE  StoreNext \/ UNCHANGED storeVars
  <2>1. msg[w].base \in Bases /\ msg[w].card \in Cards
    BY <1>2, CarriedRequest DEF Proposal, At, ReviewTypeInv, WatchInv, CarriesMessage,
       ProposesAtPropose
  <2> QED
    BY <1>2, <2>1 DEF Proposal, StoreNext
<1>3. ASSUME NEW w \in Workers, Classify(w)
      PROVE  StoreNext \/ UNCHANGED storeVars
  <2>1. RequestOf(w) \in Requests
    BY <1>3, CarriedRequest DEF Classify, At, ReviewTypeInv, WatchInv, CarriesMessage
  <2> QED
    BY <1>3, <2>1 DEF Classify, StoreNext
<1>4. ASSUME NEW w \in Workers, Decide(w)
      PROVE  StoreNext \/ UNCHANGED storeVars
  BY <1>4 DEF Decide, Verdict, StoreNext
<1>5. ASSUME NEW w \in Workers, CommitApprove(w)
      PROVE  StoreNext \/ UNCHANGED storeVars
  <2>1. RequestOf(w) \in Requests /\ pending[w] \in Cards
    BY <1>5, CarriedRequest DEF CommitApprove, At, ReviewTypeInv, WatchInv, CarriesMessage,
       CommitsACard
  <2> QED
    BY <1>5, <2>1 DEF CommitApprove, StoreNext
<1>6. ASSUME NEW w \in Workers, CommitConsume(w)
      PROVE  StoreNext \/ UNCHANGED storeVars
  <2>1. RequestOf(w) \in Requests
    BY <1>6, CarriedRequest DEF CommitConsume, At, ReviewTypeInv, WatchInv, CarriesMessage
  <2> QED
    BY <1>6, <2>1 DEF CommitConsume, StoreNext
<1>7. ASSUME NEW w \in Workers, Finalize(w)
      PROVE  StoreNext \/ UNCHANGED storeVars
  <2>1. CASE UndeliveredMint(w)
    <3>1. minted[w] \in Ids
      BY <2>1 DEF UndeliveredMint, ReviewTypeInv, WatchInv, WorkersTypeOK
    <3> QED
      BY <1>7, <2>1, <3>1 DEF Finalize, StoreNext
  <2>2. CASE ~UndeliveredMint(w)
    BY <1>7, <2>2 DEF Finalize
  <2> QED
    BY <2>1, <2>2
<1>8. CASE CloseRevokes \/ DeskRevokes
  BY <1>8 DEF CloseRevokes, DeskRevokes, StoreNext
<1>9. CASE TimePasses
  BY <1>9 DEF TimePasses, StoreNext
<1>10. ASSUME NEW w \in Workers,
              \/ Accept(w) \/ Admit(w) \/ Drop(w) \/ Gate(w) \/ TakeDesk(w) \/ LeaveQueue(w)
              \/ HumanAnswers(w) \/ DeskGivesUp(w) \/ DeskCancels(w) \/ DeskFails(w)
              \/ AnswerQuestion(w) \/ Notice(w) \/ StopNotice(w) \/ BeginReply(w) \/ Send(w)
              \/ Finish(w) \/ AfterReply(w) \/ Expire(w)
       PROVE  UNCHANGED storeVars
  BY <1>10 DEF Accept, Admit, Drop, Gate, TakeDesk, LeaveQueue, HumanAnswers, DeskGivesUp,
               DeskCancels, DeskFails, AnswerQuestion, Notice, StopNotice, BeginReply, Send,
               Finish, AfterReply, Expire
<1>11. CASE \/ CloseByOwner \/ CloseServer \/ TerminalLost \/ HostCloses \/ Terminated
            \/ UNCHANGED vars
  BY <1>11 DEF CloseByOwner, CloseServer, TerminalLost, HostCloses, Terminated, vars
<1> QED
  BY <1>1, <1>2, <1>3, <1>4, <1>5, <1>6, <1>7, <1>8, <1>9, <1>10, <1>11 DEF Next, WorkerStep

-----------------------------------------------------------------------------
(* Types.                                                                  *)

(* The watcher starts well typed.                                          *)
LEMMA InitTypes == Init => ReviewTypeInv
<1> SUFFICES ASSUME Init
             PROVE  ReviewTypeInv
  OBVIOUS
<1>1. StoreTypeOK
  BY InitType DEF Init
<1>2. WorkersTypeOK
  BY DEF Init, WorkersTypeOK, Stages, Replies, NoAnswer, AnyAnswer
<1>3. SharedTypeOK
  BY DEF Init, SharedTypeOK
<1>4. Holders /\ CarriesMessage /\ ProposesAtPropose /\ CommitsACard
  BY WorkersAssumption DEF Init, Holders, CarriesMessage, ProposesAtPropose, CommitsACard,
     LockedStages
<1> QED
  BY <1>1, <1>2, <1>3, <1>4 DEF ReviewTypeInv, WatchInv

(* A worker that moves between stages that hold the same locks.            *)
LEMMA HoldersStay ==
  ASSUME WatchInv, NEW w \in Workers, NEW stage \in Stages, Goto(w, stage), UNCHANGED <<lock, ui>>,
         stage \in LockedStages <=> pc[w] \in LockedStages,
         stage = "human" <=> pc[w] = "human"
  PROVE  Holders'
<1> SUFFICES ASSUME NEW v \in Workers
             PROVE  (lock' = v <=> pc'[v] \in LockedStages) /\ (ui' = v <=> pc'[v] = "human")
  BY DEF Holders
<1>1. CASE v = w
  BY <1>1 DEF Goto, WatchInv, Holders, WorkersTypeOK
<1>2. CASE v # w
  BY <1>2 DEF Goto, WatchInv, Holders, WorkersTypeOK
<1> QED
  BY <1>1, <1>2

(* A worker that keeps its message moves to a stage nothing is known of.   *)
LEMMA FactsStay ==
  ASSUME WatchInv, NEW w \in Workers, pc[w] # "idle", NEW stage \in Stages \ {"propose", "commit"},
         Goto(w, stage), msg' = msg,
         \A v \in Workers : v # w => pending'[v] = pending[v]
  PROVE  CarriesMessage' /\ ProposesAtPropose' /\ CommitsACard'
<1> SUFFICES ASSUME NEW v \in Workers
             PROVE  /\ pc'[v] # "idle" => msg'[v] \in Messages
                    /\ pc'[v] = "propose" => msg'[v].kind = "proposal"
                    /\ pc'[v] = "commit" => pending'[v] \in Cards
  BY DEF CarriesMessage, ProposesAtPropose, CommitsACard
<1>1. CASE v = w
  BY <1>1 DEF Goto, WatchInv, CarriesMessage, WorkersTypeOK
<1>2. CASE v # w
  BY <1>2 DEF Goto, WatchInv, CarriesMessage, ProposesAtPropose, CommitsACard, WorkersTypeOK
<1> QED
  BY <1>1, <1>2

(* Every step keeps the types and locks, given that the store keeps its own.*)
LEMMA StepKeepsTypes == ReviewTypeInv /\ [Next]_vars => WatchInv'
<1> SUFFICES ASSUME ReviewTypeInv, [Next]_vars
             PROVE  WatchInv'
  OBVIOUS
<1>a. generation \in Nat /\ generation' \in Nat
  BY StepUsesStore, NextType DEF StoreTypeOK, ReviewTypeInv
<1>b. ASSUME NEW r \in Requests
      PROVE  Consume(r) => Pruned[KeyOf(r)].id \in Ids
  BY PruneKeeps, KeyOfType DEF Consume, Spendable, Grant, ReviewTypeInv
<1>c. ASSUME NEW r \in Requests, NEW c \in Cards, Approve(r, c)
      PROVE  issued' \in Ids
  BY <1>c, BoundsAssumption DEF Approve, Ids, ReviewTypeInv, StoreTypeOK
<1>d. ASSUME NEW w \in Workers, pc[w] # "idle"
      PROVE  RequestOf(w) \in Requests /\ msg[w].base \in Bases /\ msg[w].kind \in Kinds
  BY <1>d, CarriedRequest, MessagesAssumption DEF ReviewTypeInv, WatchInv, CarriesMessage, Message
<1>e. ASSUME NEW w \in Workers, CommitApprove(w)
      PROVE  \/ minted' = minted
             \/ Approve(RequestOf(w), pending[w]) /\ minted' = [minted EXCEPT ![w] = issued']
  BY <1>e DEF CommitApprove
<1>f. proposals \in [Bases -> Cards \cup {None}]
  BY DEF ReviewTypeInv, StoreTypeOK
<1> USE WorkersAssumption DEF ReviewTypeInv, WatchInv, WorkersTypeOK, SharedTypeOK, Holders,
        CarriesMessage, ProposesAtPropose, CommitsACard, connVars, humanVars, commitVars,
        sharedVars, At, Goto, Stages, LockedStages, Replies
<1>1. ASSUME NEW w \in Workers, Accept(w)
      PROVE  WatchInv'
  <2>1. \E stage \in {"dispatch", "done"} : Goto(w, stage)
    BY <1>1 DEF Accept
  <2>2. msg' \in [Workers -> Messages \cup {None}] /\ msg'[w] \in Messages
        /\ \A v \in Workers : v # w => msg'[v] = msg[v]
    BY <1>1 DEF Accept
  <2>3. slot' \in [Workers -> {"none", "normal", "control"}] /\ live' \in [Workers -> BOOLEAN]
    BY <1>1 DEF Accept
  <2>4. At(w, "idle") /\ UNCHANGED <<bound, gen, humanVars, commitVars, reply, sharedVars>>
    BY <1>1 DEF Accept
  <2>9. pc' \in [Workers -> Stages] /\ pc'[w] \in {"dispatch", "done"}
        /\ \A v \in Workers : v # w => pc'[v] = pc[v]
    BY <2>1
  <2>10. WorkersTypeOK' /\ SharedTypeOK'
    BY <2>9, <2>2, <2>3, <2>4
  <2>11. Holders'
    BY <2>1, <2>4, HoldersStay
  <2>12. CarriesMessage' /\ ProposesAtPropose' /\ CommitsACard'
    BY <2>9, <2>2, <2>4
  <2> QED
    BY <2>10, <2>11, <2>12
<1>2. ASSUME NEW w \in Workers, Admit(w)
      PROVE  WatchInv'
  BY <1>2, <1>a DEF Admit, LockFree
<1>3. ASSUME NEW w \in Workers, Drop(w)
      PROVE  WatchInv'
  BY <1>3 DEF Drop
<1>4. ASSUME NEW w \in Workers, Control(w)
      PROVE  WatchInv'
  BY <1>4, <1>a DEF Control, Return, LogOutcomes, ControlKinds
<1>5. ASSUME NEW w \in Workers, Gate(w)
      PROVE  WatchInv'
  <2>1. \/ Return(w, "error") \/ Return(w, "ready")
        \/ /\ msg[w].kind \in {"request", "proposal", "question", "notice", "stop"}
           /\ Goto(w, StageOf[msg[w].kind]) /\ reply' = reply
    <3>1. pc[w] # "idle"
      BY <1>5 DEF Gate
    <3>2. msg[w].kind \in Kinds
      BY <3>1, <1>d
    <3> QED
      BY <1>5, <3>2 DEF Gate, Refused, Kinds, ControlKinds, BoundKinds
  <2>2. bound' \in [Workers -> BOOLEAN]
    BY <1>5 DEF Gate
  <2>3. At(w, "handle") /\ UNCHANGED <<msg, slot, live, gen, humanVars, commitVars, sharedVars>>
    BY <1>5 DEF Gate
  <2>4. CASE Return(w, "error") \/ Return(w, "ready")
    BY <2>2, <2>3, <2>4 DEF Return
  <2>5. CASE /\ msg[w].kind \in {"request", "proposal", "question", "notice", "stop"}
            /\ Goto(w, StageOf[msg[w].kind]) /\ reply' = reply
    <3>1. StageOf[msg[w].kind] \in {"classify", "propose", "ask", "notice", "stop"}
          /\ (StageOf[msg[w].kind] = "propose" => msg[w].kind = "proposal")
      BY <2>5 DEF StageOf
    <3> QED
      BY <2>2, <2>3, <2>5, <3>1
  <2> QED
    BY <2>1, <2>4, <2>5
<1>6. ASSUME NEW w \in Workers, Proposal(w)
      PROVE  WatchInv'
  <2>1. \E stage \in {"reply"} : Goto(w, stage)
    BY <1>6 DEF Proposal, Return, LogOutcomes
  <2>2. reply' \in [Workers -> Replies]
    BY <1>6 DEF Proposal, Return, LogOutcomes
  <2>3. At(w, "propose") /\ UNCHANGED <<connVars, humanVars, commitVars, sharedVars>>
    BY <1>6 DEF Proposal
  <2>9. pc' \in [Workers -> Stages]
    BY <2>1
  <2>10. WorkersTypeOK' /\ SharedTypeOK'
    BY <2>9, <2>2, <2>3
  <2>11. Holders'
    BY <2>1, <2>2, <2>3, HoldersStay
  <2>12. CarriesMessage' /\ ProposesAtPropose' /\ CommitsACard'
    BY <2>1, <2>2, <2>3, FactsStay
  <2> QED
    BY <2>10, <2>11, <2>12
<1>7. ASSUME NEW w \in Workers, Classify(w)
      PROVE  WatchInv'
  <2>1. \E stage \in {"ask", "reply"} : Goto(w, stage)
    BY <1>7 DEF Classify, Return, Conclude, LogOutcomes
  <2>2. reply' \in [Workers -> Replies]
    BY <1>7 DEF Classify, Return, Conclude, LogOutcomes
  <2>3. used' \in [Workers -> Ids \cup {None}]
    BY <1>7, <1>b, <1>d DEF Classify
  <2>4. shown' \in [Workers -> Cards \cup {None}]
    BY <1>7, <1>d, <1>f DEF Classify
  <2>5. At(w, "classify") /\ UNCHANGED <<connVars, answer, pending, minted, outcome, sharedVars>>
    BY <1>7 DEF Classify
  <2>9. pc' \in [Workers -> Stages]
    BY <2>1
  <2>10. WorkersTypeOK' /\ SharedTypeOK'
    BY <2>9, <2>2, <2>3, <2>4, <2>5
  <2>11. Holders'
    BY <2>1, <2>2, <2>3, <2>4, <2>5, HoldersStay
  <2>12. CarriesMessage' /\ ProposesAtPropose' /\ CommitsACard'
    BY <2>1, <2>2, <2>3, <2>4, <2>5, FactsStay
  <2> QED
    BY <2>10, <2>11, <2>12
<1>8. ASSUME NEW w \in Workers, TakeDesk(w)
      PROVE  WatchInv'
  BY <1>8 DEF TakeDesk, DeskFree
<1>9. ASSUME NEW w \in Workers, LeaveQueue(w)
      PROVE  WatchInv'
  BY <1>9 DEF LeaveQueue
<1>10. ASSUME NEW w \in Workers, HumanAnswers(w)
      PROVE  WatchInv'
  <2>1. PICK a \in Answers(msg[w].kind) : answer' = [answer EXCEPT ![w] = a]
    BY <1>10 DEF HumanAnswers
  <2>2. a \in AnyAnswer
    BY DEF Answers, AnyAnswer
  <2>3. At(w, "human") /\ Goto(w, "decide") /\ ui' = None
        /\ UNCHANGED <<connVars, shown, commitVars, reply, lock, interactive, hostOpen,
                       closed, closing>>
    BY <1>10 DEF HumanAnswers
  <2> QED
    BY <2>1, <2>2, <2>3
<1>11. ASSUME NEW w \in Workers, DeskGivesUp(w)
      PROVE  WatchInv'
  BY <1>11 DEF DeskGivesUp
<1>12. ASSUME NEW w \in Workers, DeskCancels(w)
      PROVE  WatchInv'
  BY <1>12 DEF DeskCancels
<1>13. ASSUME NEW w \in Workers, DeskFails(w)
      PROVE  WatchInv'
  BY <1>13 DEF DeskFails, Return
<1>14. ASSUME NEW w \in Workers, AnswerQuestion(w)
      PROVE  WatchInv'
  BY <1>14 DEF AnswerQuestion, Return
<1>15. ASSUME NEW w \in Workers, Decide(w)
      PROVE  WatchInv'
  <2>1. Goto(w, "reply") /\ reply' \in [Workers -> Replies]
    BY <1>15 DEF Decide, Return, Conclude, LogOutcomes, Verdict
  <2>2. /\ pending' \in [Workers -> Cards \cup {None}]
        /\ \A v \in Workers : v # w => pending'[v] = pending[v]
    BY <1>15 DEF Decide, Verdict, SelectedCard, AnyAnswer
  <2>3. At(w, "decide") /\ UNCHANGED <<connVars, humanVars, minted, outcome, used, sharedVars>>
    BY <1>15 DEF Decide
  <2>9. pc' \in [Workers -> Stages]
    BY <2>1
  <2>10. WorkersTypeOK' /\ SharedTypeOK'
    BY <2>1, <2>9, <2>2, <2>3
  <2>11. Holders'
    BY <2>1, <2>2, <2>3, HoldersStay
  <2>12. CarriesMessage' /\ ProposesAtPropose' /\ CommitsACard'
    BY <2>1, <2>2, <2>3, FactsStay
  <2> QED
    BY <2>10, <2>11, <2>12
<1>16. ASSUME NEW w \in Workers, Notice(w)
      PROVE  WatchInv'
  BY <1>16 DEF Notice, Return
<1>17. ASSUME NEW w \in Workers, StopNotice(w)
      PROVE  WatchInv'
  BY <1>17 DEF StopNotice, Return, LogOutcomes
<1>18. ASSUME NEW w \in Workers, BeginReply(w)
      PROVE  WatchInv'
  BY <1>18 DEF BeginReply, LockFree
<1>19. ASSUME NEW w \in Workers, CommitApprove(w)
      PROVE  WatchInv'
  <2>1. \E stage \in {"consume", "finalize"} : Goto(w, stage)
    BY <1>19, <1>c, <1>d DEF CommitApprove, LogOutcomes
  <2>2. minted' \in [Workers -> Ids \cup {None}]
    <3>1. RequestOf(w) \in Requests /\ pending[w] \in Cards
      BY <1>19, <1>d DEF CommitApprove
    <3>2. Approve(RequestOf(w), pending[w]) => issued' \in Ids
      BY <3>1, <1>c
    <3> QED
      BY <1>19, <1>e, <3>2
  <2>3. At(w, "commit")
        /\ UNCHANGED <<connVars, humanVars, pending, used, outcome, reply, sharedVars>>
    BY <1>19 DEF CommitApprove
  <2>9. pc' \in [Workers -> Stages]
    BY <2>1
  <2>10. WorkersTypeOK' /\ SharedTypeOK'
    BY <2>9, <2>2, <2>3
  <2>11. Holders'
    BY <2>1, <2>2, <2>3, HoldersStay
  <2>12. CarriesMessage' /\ ProposesAtPropose' /\ CommitsACard'
    BY <2>1, <2>2, <2>3, FactsStay
  <2> QED
    BY <2>10, <2>11, <2>12
<1>20. ASSUME NEW w \in Workers, CommitConsume(w)
      PROVE  WatchInv'
  <2>1. \E stage \in {"send", "finalize"} : Goto(w, stage)
    BY <1>20, <1>b, <1>d DEF CommitConsume, LogOutcomes
  <2>2. used' \in [Workers -> Ids \cup {None}]
    BY <1>20, <1>b, <1>d DEF CommitConsume, LogOutcomes
  <2>3. At(w, "consume")
        /\ UNCHANGED <<connVars, humanVars, pending, minted, outcome, reply, sharedVars>>
    BY <1>20 DEF CommitConsume
  <2>9. pc' \in [Workers -> Stages]
    BY <2>1
  <2>10. WorkersTypeOK' /\ SharedTypeOK'
    BY <2>9, <2>2, <2>3
  <2>11. Holders'
    BY <2>1, <2>2, <2>3, HoldersStay
  <2>12. CarriesMessage' /\ ProposesAtPropose' /\ CommitsACard'
    BY <2>1, <2>2, <2>3, FactsStay
  <2> QED
    BY <2>10, <2>11, <2>12
<1>21. ASSUME NEW w \in Workers, Send(w)
      PROVE  WatchInv'
  BY <1>21 DEF Send
<1>22. ASSUME NEW w \in Workers, Finalize(w)
      PROVE  WatchInv'
  BY <1>22 DEF Finalize
<1>23. ASSUME NEW w \in Workers, Finish(w)
      PROVE  WatchInv'
  BY <1>23 DEF Finish
<1>24. ASSUME NEW w \in Workers, AfterReply(w)
      PROVE  WatchInv'
  BY <1>24 DEF AfterReply, MarkClosed
<1>25. ASSUME NEW w \in Workers, Expire(w)
      PROVE  WatchInv'
  BY <1>25 DEF Expire
<1>26. CASE \/ CloseByOwner \/ CloseRevokes \/ CloseServer \/ DeskRevokes \/ TerminalLost
            \/ HostCloses \/ TimePasses
  <2>1. CASE CloseByOwner
    BY <2>1 DEF CloseByOwner, MarkClosed
  <2>2. CASE CloseServer
    BY <2>2 DEF CloseServer
  <2>3. CASE CloseRevokes
    BY <2>3 DEF CloseRevokes
  <2>4. CASE DeskRevokes
    BY <2>4 DEF DeskRevokes
  <2>5. CASE TimePasses
    BY <2>5 DEF TimePasses
  <2>6. CASE TerminalLost
    BY <2>6 DEF TerminalLost
  <2>7. CASE HostCloses
    BY <2>7 DEF HostCloses
  <2> QED
    BY <1>26, <2>1, <2>2, <2>3, <2>4, <2>5, <2>6, <2>7
<1>27. CASE Terminated \/ UNCHANGED vars
  BY <1>27 DEF Terminated, vars
<1> QED
  BY <1>1, <1>2, <1>3, <1>4, <1>5, <1>6, <1>7, <1>8, <1>9, <1>10, <1>11, <1>12, <1>13, <1>14,
     <1>15, <1>16, <1>17, <1>18, <1>19, <1>20, <1>21, <1>22, <1>23, <1>24, <1>25, <1>26, <1>27 DEF
     Next, WorkerStep

(* Types and locks are inductive.                                          *)
LEMMA NextTypes == ReviewTypeInv /\ [Next]_vars => ReviewTypeInv'
BY StepKeepsTypes, StepUsesStore, NextType DEF ReviewTypeInv

(* Type correctness, and the discipline of the two locks: at most one      *)
(* worker holds the reply lock, at most one has its prompt on screen, and  *)
(* those are the ones whose stage says so.                                 *)
THEOREM ReviewTypes == Spec => []TypeOK
<1>1. ReviewTypeInv => TypeOK
  BY DEF ReviewTypeInv, WatchInv, TypeOK
<1> QED
  BY <1>1, InitTypes, NextTypes, PTL DEF Spec

(* The watcher implements the store: whatever its threads, the human, the  *)
(* operator and the clock do, the store changes only as GrantStore says,   *)
(* so everything proved of GrantStore holds of the watcher's store.        *)
THEOREM UsesStore == Spec => StoreSpec
<1>1. Init => StoreInit
  BY DEF Init
<1> QED
  BY <1>1, InitTypes, NextTypes, StepUsesStore, PTL DEF Spec, StoreSpec

(* No grant of the watcher is consumed more often than its card allows, a  *)
(* live one has exactly the units left that were not spent, and the caps   *)
(* hold.                                                                   *)
THEOREM WatcherKeepsBudgets == Spec => []StoreSafe
BY UsesStore, StoreIsSafe, PTL

(* Nor does the watcher ever spend a grant that is lost or expired.        *)
THEOREM WatcherSpendsOnlyLive == Spec => OnlyLiveIsSpent
BY UsesStore, OnlyLiveGrantsAreSpent, PTL

-----------------------------------------------------------------------------
(* A revoke never happens under the reply lock, so a worker that holds it  *)
(* keeps the generation it checked.                                        *)

(* The generation only moves while no worker is under the reply lock.      *)
LEMMA GenerationMovesUnlocked ==
  ReviewTypeInv /\ [Next]_vars =>
    generation' = generation \/ \A v \in Workers : pc[v] \notin LockedStages
<1> SUFFICES ASSUME ReviewTypeInv, [Next]_vars, generation' # generation
             PROVE  \A v \in Workers : pc[v] \notin LockedStages
  OBVIOUS
<1>1. LockFree
  <2>1. ASSUME NEW w \in Workers, Control(w) \/ Decide(w)
        PROVE  LockFree
    BY <2>1 DEF Control, Decide
  <2>2. CASE CloseRevokes \/ DeskRevokes
    BY <2>2 DEF CloseRevokes, DeskRevokes
  <2>3. ASSUME NEW w \in Workers,
               Proposal(w) \/ Classify(w) \/ CommitApprove(w) \/ CommitConsume(w) \/ Finalize(w)
        PROVE  FALSE
    BY <2>3 DEF Proposal, Classify, CommitApprove, CommitConsume, Finalize, Propose, Approve,
                ApproveFull, Consume, ConsumeNothing, Discard, storeVars
  <2>4. ASSUME NEW w \in Workers,
               \/ Accept(w) \/ Admit(w) \/ Drop(w) \/ Gate(w) \/ TakeDesk(w) \/ LeaveQueue(w)
               \/ HumanAnswers(w) \/ DeskGivesUp(w) \/ DeskCancels(w) \/ DeskFails(w)
               \/ AnswerQuestion(w) \/ Notice(w) \/ StopNotice(w) \/ BeginReply(w) \/ Send(w)
               \/ Finish(w) \/ AfterReply(w) \/ Expire(w)
        PROVE  FALSE
    BY <2>4 DEF Accept, Admit, Drop, Gate, TakeDesk, LeaveQueue, HumanAnswers, DeskGivesUp,
                DeskCancels, DeskFails, AnswerQuestion, Notice, StopNotice, BeginReply, Send,
                Finish, AfterReply, Expire, storeVars
  <2>5. CASE \/ CloseByOwner \/ CloseServer \/ TerminalLost \/ HostCloses \/ TimePasses
             \/ Terminated \/ UNCHANGED vars
    BY <2>5 DEF CloseByOwner, CloseServer, TerminalLost, HostCloses, TimePasses, Tick, Terminated,
                vars, storeVars
  <2> QED
    BY <2>1, <2>2, <2>3, <2>4, <2>5 DEF Next, WorkerStep
<1> QED
  BY <1>1, WorkersAssumption DEF LockFree, ReviewTypeInv, WatchInv, Holders

(* A worker under the reply lock was let in by BeginReply in its own       *)
(* generation, or stood there already; its generation is then fixed.       *)
LEMMA LockedWorkerWasCurrent ==
  ASSUME ReviewTypeInv, [Next]_vars, NEW v \in Workers, pc'[v] \in {"commit", "consume", "send"}
  PROVE  /\ gen'[v] = gen[v]
         /\ \/ pc[v] \in {"commit", "consume", "send"}
            \/ gen[v] = generation /\ generation' = generation
<1> USE DEF ReviewTypeInv, WatchInv, WorkersTypeOK, At, Goto, connVars
<1>1. ASSUME NEW w \in Workers, BeginReply(w)
      PROVE  /\ gen'[v] = gen[v]
             /\ \/ pc[v] \in {"commit", "consume", "send"}
                \/ gen[v] = generation /\ generation' = generation
  BY <1>1 DEF BeginReply, ReplyValid, storeVars
<1>2. ASSUME NEW w \in Workers, CommitApprove(w) \/ CommitConsume(w) \/ Send(w) \/ Finalize(w)
      PROVE  gen'[v] = gen[v] /\ pc[v] \in {"commit", "consume", "send"}
  BY <1>2 DEF CommitApprove, CommitConsume, Send, Finalize
<1>3. ASSUME NEW w \in Workers, Accept(w) \/ Admit(w) \/ Drop(w) \/ Control(w)
      PROVE  gen'[v] = gen[v] /\ pc[v] \in {"commit", "consume", "send"}
  BY <1>3 DEF Accept, Admit, Drop, Control, Return
<1>4. ASSUME NEW w \in Workers, Gate(w)
      PROVE  gen'[v] = gen[v] /\ pc[v] \in {"commit", "consume", "send"}
  <2>1. v # w
    <3>1. \E stage \in {"reply", "classify", "propose", "ask", "notice", "stop"} : Goto(w, stage)
      BY <1>4, CarriedRequest, MessagesAssumption
         DEF Gate, Return, Refused, StageOf, Kinds, ControlKinds, BoundKinds, CarriesMessage,
            Message
    <3> QED
      BY <3>1
  <2>2. gen' = gen /\ pc'[v] = pc[v]
    BY <1>4, <2>1 DEF Gate, Return
  <2> QED
    BY <2>2
<1>5. ASSUME NEW w \in Workers, Proposal(w) \/ Classify(w) \/ Decide(w) \/ AnswerQuestion(w)
                                  \/ Notice(w) \/ StopNotice(w) \/ DeskFails(w)
      PROVE  gen'[v] = gen[v] /\ pc[v] \in {"commit", "consume", "send"}
  BY <1>5 DEF Proposal, Classify, Decide, AnswerQuestion, Notice, StopNotice, DeskFails, Return,
              Conclude, Verdict
<1>6. ASSUME NEW w \in Workers, TakeDesk(w) \/ LeaveQueue(w) \/ HumanAnswers(w) \/ DeskGivesUp(w)
                                  \/ DeskCancels(w) \/ Finish(w) \/ AfterReply(w) \/ Expire(w)
      PROVE  gen'[v] = gen[v] /\ pc[v] \in {"commit", "consume", "send"}
  BY <1>6 DEF TakeDesk, LeaveQueue, HumanAnswers, DeskGivesUp, DeskCancels, Finish, AfterReply,
     Expire
<1>7. CASE \/ CloseByOwner \/ CloseRevokes \/ CloseServer \/ DeskRevokes \/ TerminalLost
           \/ HostCloses \/ TimePasses \/ Terminated \/ UNCHANGED vars
  BY <1>7 DEF CloseByOwner, CloseRevokes, CloseServer, DeskRevokes, TerminalLost, HostCloses,
              TimePasses, Terminated, vars
<1> QED
  BY <1>1, <1>2, <1>3, <1>4, <1>5, <1>6, <1>7 DEF Next, WorkerStep

(* CurrentUnderLock is inductive.                                          *)
LEMMA NextCurrent == ReviewTypeInv /\ CurrentUnderLock /\ [Next]_vars => CurrentUnderLock'
<1> SUFFICES ASSUME ReviewTypeInv, CurrentUnderLock, [Next]_vars, NEW v \in Workers,
                    pc'[v] \in {"commit", "consume", "send"}
             PROVE  gen'[v] = generation'
  BY DEF CurrentUnderLock
<1>1. CASE pc[v] \in {"commit", "consume", "send"}
  BY <1>1, LockedWorkerWasCurrent, GenerationMovesUnlocked DEF CurrentUnderLock, LockedStages
<1>2. CASE pc[v] \notin {"commit", "consume", "send"}
  BY <1>2, LockedWorkerWasCurrent
<1> QED
  BY <1>1, <1>2

(* A reply is only sent by Send, so by a worker under the lock.            *)
LEMMA RepliesAreSent ==
  ASSUME ReviewTypeInv, [Next]_vars, NEW v \in Workers, outcome'[v] # outcome[v]
  PROVE  Send(v)
<1>1. ASSUME NEW w \in Workers, Send(w)
      PROVE  v = w
  BY <1>1 DEF Send, ReviewTypeInv, WatchInv, WorkersTypeOK
<1>2. ASSUME NEW w \in Workers,
             \/ Accept(w) \/ Admit(w) \/ Drop(w) \/ Control(w) \/ Gate(w) \/ Proposal(w)
             \/ Classify(w) \/ TakeDesk(w) \/ LeaveQueue(w) \/ HumanAnswers(w) \/ DeskGivesUp(w)
             \/ DeskCancels(w) \/ DeskFails(w) \/ AnswerQuestion(w) \/ Decide(w) \/ Notice(w)
             \/ StopNotice(w) \/ BeginReply(w) \/ CommitApprove(w) \/ CommitConsume(w)
             \/ Finalize(w) \/ Finish(w) \/ AfterReply(w) \/ Expire(w)
      PROVE  FALSE
  BY <1>2 DEF Accept, Admit, Drop, Control, Gate, Proposal, Classify, TakeDesk, LeaveQueue,
              HumanAnswers, DeskGivesUp, DeskCancels, DeskFails, AnswerQuestion, Decide, Notice,
              StopNotice, BeginReply, CommitApprove, CommitConsume, Finalize, Finish, AfterReply,
              Expire, commitVars
<1>3. CASE \/ CloseByOwner \/ CloseRevokes \/ CloseServer \/ DeskRevokes \/ TerminalLost
           \/ HostCloses \/ TimePasses \/ Terminated \/ UNCHANGED vars
  BY <1>3 DEF CloseByOwner, CloseRevokes, CloseServer, DeskRevokes, TerminalLost, HostCloses,
              TimePasses, Terminated, vars, commitVars
<1> QED
  BY <1>1, <1>2, <1>3 DEF Next, WorkerStep

(* No reply, an allow or an answer the human typed, is sent to a request   *)
(* that was admitted before a revoke.                                      *)
THEOREM RepliesAreCurrent == Spec => NoReplyAcrossRevoke
<1>1. Init => CurrentUnderLock
  BY DEF Init, CurrentUnderLock
<1>2. ReviewTypeInv /\ CurrentUnderLock /\ [Next]_vars =>
        [\A w \in Workers :
           outcome'[w] # outcome[w] => gen[w] = generation /\ generation' = generation]_vars
  <2> SUFFICES ASSUME ReviewTypeInv, CurrentUnderLock, [Next]_vars, NEW v \in Workers,
                      outcome'[v] # outcome[v]
               PROVE  gen[v] = generation /\ generation' = generation
    OBVIOUS
  <2>1. Send(v)
    BY RepliesAreSent
  <2> QED
    BY <2>1 DEF Send, At, CurrentUnderLock, storeVars
<1>3. Spec => [](ReviewTypeInv /\ CurrentUnderLock)
  BY <1>1, InitTypes, NextTypes, NextCurrent, PTL DEF Spec
<1> QED
  BY <1>2, <1>3, PTL DEF Spec, NoReplyAcrossRevoke

-----------------------------------------------------------------------------
(* A closed watcher grants nothing.                                        *)

NothingBound == grants = [k \in Keys |-> None] /\ proposals = [b \in Bases |-> None]

(* NothingBound says with functions what the property says with sets.      *)
LEMMA EmptyMeansNothingBound ==
  StoreTypeOK => (Bound(grants) = {} /\ Bound(proposals) = {} <=> NothingBound)
<1> SUFFICES ASSUME StoreTypeOK
             PROVE  Bound(grants) = {} /\ Bound(proposals) = {} <=> NothingBound
  OBVIOUS
<1>1. Bound(grants) = {} <=> grants = [k \in Keys |-> None]
  BY DEF StoreTypeOK, Bound
<1>2. Bound(proposals) = {} <=> proposals = [b \in Bases |-> None]
  BY DEF StoreTypeOK, Bound
<1> QED
  BY <1>1, <1>2 DEF NothingBound

(* An empty store is left empty by everything but an active review.        *)
LEMMA ClosedStaysEmpty ==
  ReviewTypeInv /\ closed /\ NothingBound /\ [Next]_vars => NothingBound'
<1> SUFFICES ASSUME ReviewTypeInv, closed, NothingBound, [Next]_vars
             PROVE  NothingBound'
  OBVIOUS
<1>1. \A w \in Workers : ~ReviewActive(w)
  BY DEF ReviewActive
<1>2. Pruned = [k \in Keys |-> None]
  BY DEF NothingBound, Pruned
<1>3. CASE UNCHANGED storeVars
  BY <1>3 DEF storeVars, NothingBound
<1>4. CASE Revoke
  BY <1>4 DEF Revoke, NothingBound
<1>5. ASSUME NEW w \in Workers, Control(w) \/ Decide(w)
      PROVE  Revoke \/ UNCHANGED storeVars
  BY <1>5 DEF Control, Decide, Verdict
<1>6. ASSUME NEW w \in Workers, Proposal(w) \/ Classify(w) \/ CommitApprove(w)
      PROVE  UNCHANGED storeVars
  BY <1>1, <1>6 DEF Proposal, Classify, CommitApprove
<1>7. ASSUME NEW w \in Workers, CommitConsume(w)
      PROVE  NothingBound'
  <2>1. pc[w] # "idle"
    BY <1>7 DEF CommitConsume, At
  <2>2. KeyOf(RequestOf(w)) \in Keys
    BY <2>1, CarriedRequest, KeyOfType DEF ReviewTypeInv, WatchInv, CarriesMessage
  <2>3. ~Spendable(RequestOf(w))
    BY <1>2, <2>2 DEF Spendable
  <2> QED
    BY <1>2, <1>7, <2>3 DEF CommitConsume, Consume, ConsumeNothing, NothingBound
<1>8. ASSUME NEW w \in Workers, Finalize(w)
      PROVE  NothingBound'
  BY <1>8 DEF Finalize, Discard, NothingBound, storeVars
<1>9. CASE CloseRevokes \/ DeskRevokes
  BY <1>4, <1>9 DEF CloseRevokes, DeskRevokes
<1>10. CASE TimePasses
  BY <1>10 DEF TimePasses, Tick, NothingBound
<1>11. ASSUME NEW w \in Workers,
              \/ Accept(w) \/ Admit(w) \/ Drop(w) \/ Gate(w) \/ TakeDesk(w) \/ LeaveQueue(w)
              \/ HumanAnswers(w) \/ DeskGivesUp(w) \/ DeskCancels(w) \/ DeskFails(w)
              \/ AnswerQuestion(w) \/ Notice(w) \/ StopNotice(w) \/ BeginReply(w) \/ Send(w)
              \/ Finish(w) \/ AfterReply(w) \/ Expire(w)
       PROVE  UNCHANGED storeVars
  BY <1>11 DEF Accept, Admit, Drop, Gate, TakeDesk, LeaveQueue, HumanAnswers, DeskGivesUp,
               DeskCancels, DeskFails, AnswerQuestion, Notice, StopNotice, BeginReply, Send,
               Finish, AfterReply, Expire
<1>12. CASE \/ CloseByOwner \/ CloseServer \/ TerminalLost \/ HostCloses \/ Terminated
            \/ UNCHANGED vars
  <2>1. UNCHANGED storeVars
    BY <1>12 DEF CloseByOwner, CloseServer, TerminalLost, HostCloses, Terminated, vars
  <2> QED
    BY <1>3, <2>1
<1> QED
  BY <1>3, <1>4, <1>5, <1>6, <1>7, <1>8, <1>9, <1>10, <1>11, <1>12 DEF Next, WorkerStep

(* How close() advances: marked first, then revoked, then the server.      *)
LEMMA ClosingSteps ==
  ReviewTypeInv /\ [Next]_vars =>
    /\ closed => closed'
    /\ closing' = closing \/ closed'  \/ CloseRevokes \/ CloseServer
    /\ closing' \in {"revoked", "closed"} =>
         closing \in {"revoked", "closed"} \/ CloseRevokes
    /\ CloseRevokes \/ CloseServer => closed' = closed /\ closing # "no"
<1> SUFFICES ASSUME ReviewTypeInv, [Next]_vars
             PROVE  \/ UNCHANGED <<closed, closing>>
                    \/ MarkClosed \/ CloseRevokes \/ CloseServer
  BY DEF MarkClosed, CloseRevokes, CloseServer
<1>1. ASSUME NEW w \in Workers, AfterReply(w)
      PROVE  MarkClosed
  BY <1>1 DEF AfterReply
<1>2. CASE CloseByOwner
  BY <1>2 DEF CloseByOwner
<1>3. ASSUME NEW w \in Workers,
             \/ Accept(w) \/ Admit(w) \/ Drop(w) \/ Control(w) \/ Gate(w) \/ Proposal(w)
             \/ Classify(w) \/ TakeDesk(w) \/ LeaveQueue(w) \/ HumanAnswers(w) \/ DeskGivesUp(w)
             \/ DeskCancels(w) \/ DeskFails(w) \/ AnswerQuestion(w) \/ Decide(w) \/ Notice(w)
             \/ StopNotice(w) \/ BeginReply(w) \/ CommitApprove(w) \/ CommitConsume(w) \/ Send(w)
             \/ Finalize(w) \/ Finish(w) \/ Expire(w)
      PROVE  UNCHANGED <<closed, closing>>
  BY <1>3 DEF Accept, Admit, Drop, Control, Gate, Proposal, Classify, TakeDesk, LeaveQueue,
              HumanAnswers, DeskGivesUp, DeskCancels, DeskFails, AnswerQuestion, Decide, Notice,
              StopNotice, BeginReply, CommitApprove, CommitConsume, Send, Finalize, Finish, Expire,
              sharedVars
<1>4. CASE \/ DeskRevokes \/ TerminalLost \/ HostCloses \/ TimePasses \/ Terminated
           \/ UNCHANGED vars
  BY <1>4 DEF DeskRevokes, TerminalLost, HostCloses, TimePasses, Terminated, vars, sharedVars
<1> QED
  BY <1>1, <1>2, <1>3, <1>4 DEF Next, WorkerStep

(* Once close() has revoked, the store is empty for good, whatever the     *)
(* workers still running and the clients still connecting do.              *)
THEOREM ClosedMeansEmpty == Spec => []ClosedStoreIsEmpty
<1>1. Init => ReviewInv
  BY InitTypes DEF Init, ReviewInv, CurrentUnderLock, ClosingMeansClosed, ClosedStoreIsEmpty
<1>2. ReviewInv /\ [Next]_vars => ReviewInv'
  <2> SUFFICES ASSUME ReviewInv, [Next]_vars
               PROVE  ReviewInv'
    OBVIOUS
  <2>1. ReviewTypeInv' /\ CurrentUnderLock'
    BY NextTypes, NextCurrent DEF ReviewInv
  <2>2. ClosingMeansClosed'
    BY ClosingSteps DEF ReviewInv, ClosingMeansClosed
  <2>3. ASSUME closing' \in {"revoked", "closed"}
        PROVE  NothingBound'
    <3>1. CASE CloseRevokes
      BY <3>1 DEF CloseRevokes, Revoke, NothingBound
    <3>2. CASE closing \in {"revoked", "closed"}
      BY <3>2, ClosedStaysEmpty, EmptyMeansNothingBound
         DEF ReviewInv, ReviewTypeInv, ClosingMeansClosed, ClosedStoreIsEmpty
    <3> QED
      BY <2>3, <3>1, <3>2, ClosingSteps DEF ReviewInv
  <2>4. NothingBound' => Bound(grants)' = {} /\ Bound(proposals)' = {}
    BY DEF NothingBound, Bound
  <2> QED
    BY <2>1, <2>2, <2>3, <2>4 DEF ReviewInv, ClosedStoreIsEmpty
<1>3. ReviewInv => ClosedStoreIsEmpty
  BY DEF ReviewInv
<1> QED
  BY <1>1, <1>2, <1>3, PTL DEF Spec

-----------------------------------------------------------------------------
(* What a worker does to reach its client.                                 *)

(* What a step of another worker, of the human or of the clock leaves      *)
(* alone.                                                                  *)
Untouched(v) ==
  /\ pc'[v] = pc[v] /\ msg'[v] = msg[v] /\ gen'[v] = gen[v]
  /\ shown'[v] = shown[v] /\ answer'[v] = answer[v] /\ pending'[v] = pending[v]
  /\ minted'[v] = minted[v] /\ used'[v] = used[v]
  /\ outcome'[v] = outcome[v] /\ reply'[v] = reply[v]

Moves(v) == Accept(v) \/ WorkerStep(v) \/ HumanAnswers(v) \/ DeskCancels(v) \/ DeskFails(v)

(* A step touches the worker that takes it and no other.                   *)
LEMMA OthersStay ==
  ASSUME ReviewTypeInv, [Next]_vars, NEW v \in Workers
  PROVE  Moves(v) \/ Untouched(v)
<1> USE DEF ReviewTypeInv, WatchInv, WorkersTypeOK, At, Goto, Return, connVars, humanVars, commitVars,
        Untouched
<1>1. ASSUME NEW w \in Workers, w # v,
             Accept(w) \/ Admit(w) \/ Drop(w) \/ Control(w) \/ Gate(w) \/ Proposal(w)
      PROVE  Untouched(v)
  BY <1>1 DEF Accept, Admit, Drop, Control, Gate, Proposal
<1>2. ASSUME NEW w \in Workers, w # v,
             Classify(w) \/ AnswerQuestion(w) \/ Decide(w) \/ Notice(w) \/ StopNotice(w)
      PROVE  Untouched(v)
  BY <1>2 DEF Classify, AnswerQuestion, Decide, Notice, StopNotice, Conclude, Verdict
<1>3. ASSUME NEW w \in Workers, w # v,
             \/ TakeDesk(w) \/ LeaveQueue(w) \/ HumanAnswers(w) \/ DeskGivesUp(w)
             \/ DeskCancels(w) \/ DeskFails(w)
      PROVE  Untouched(v)
  BY <1>3 DEF TakeDesk, LeaveQueue, HumanAnswers, DeskGivesUp, DeskCancels, DeskFails
<1>4. ASSUME NEW w \in Workers, w # v,
             \/ BeginReply(w) \/ CommitApprove(w) \/ CommitConsume(w) \/ Send(w) \/ Finalize(w)
             \/ Finish(w) \/ AfterReply(w)
      PROVE  Untouched(v)
  BY <1>4 DEF BeginReply, CommitApprove, CommitConsume, Send, Finalize, Finish, AfterReply
<1>5. ASSUME NEW w \in Workers, Expire(w)
      PROVE  Untouched(v)
  BY <1>5 DEF Expire
<1>6. CASE \/ CloseByOwner \/ CloseRevokes \/ CloseServer \/ DeskRevokes \/ TerminalLost
           \/ HostCloses \/ TimePasses \/ Terminated \/ UNCHANGED vars
  BY <1>6 DEF CloseByOwner, CloseRevokes, CloseServer, DeskRevokes, TerminalLost, HostCloses,
              TimePasses, Terminated, vars
<1> QED
  BY <1>1, <1>2, <1>3, <1>4, <1>5, <1>6 DEF Next, WorkerStep, Moves

(* Nothing is None but None.                                               *)
LEMMA NothingIsNothing ==
  ASSUME ReviewTypeInv
  PROVE  /\ generation # None
         /\ \A m \in Messages : m # None
         /\ \A c \in Cards : c # None
         /\ \A i \in Ids : i # None
BY NothingAssumption, NoneAssumption, BoundsAssumption DEF ReviewTypeInv, StoreTypeOK, Ids

(* What consume spends has an id.                                          *)
LEMMA SpentIsAnId ==
  ASSUME ReviewTypeInv, NEW r \in Requests, Consume(r)
  PROVE  Pruned[KeyOf(r)].id \in Ids
BY PruneKeeps, KeyOfType DEF Consume, Spendable, Grant, ReviewTypeInv

(* Every worker stays on its path.                                         *)
LEMMA NextPath == ReviewTypeInv /\ PathInv /\ [Next]_vars => PathInv'
<1> SUFFICES ASSUME ReviewTypeInv, PathInv, [Next]_vars, NEW v \in Workers
             PROVE  FollowsPath(v)'
  BY DEF PathInv
<1>a. FollowsPath(v)
  BY DEF PathInv
<1>b. /\ \A m \in Messages : m # None /\ m.kind \in Kinds
      /\ \A c \in Cards : c # None
      /\ \A i \in Ids : i # None
      /\ generation \in Nat /\ None \notin Nat
  BY NothingIsNothing, MessagesAssumption, NothingAssumption
     DEF ReviewTypeInv, StoreTypeOK, Message
<1>t. WatchInv
  BY DEF ReviewTypeInv
<1> USE DEF At, Goto, Return, connVars, humanVars, commitVars
<1>c. v \in Workers /\ WorkersTypeOK
  BY <1>t DEF WatchInv
<1>1. CASE Untouched(v)
  BY <1>1, <1>a DEF Untouched, FollowsPath, SetInOrder, ServesItsKind, PendingIsAccepted,
     AllowHasACause, Asks, Tier, AcceptedCard
<1> USE DEF FollowsPath, SetInOrder, ServesItsKind, PendingIsAccepted, AllowHasACause,
        Asks, BeforeReply, BeforeAnswer, Unadmitted, Replying, WorkersTypeOK
<1>2. CASE Accept(v)
  BY <1>2, <1>a, <1>b, <1>c DEF Accept
<1>3. CASE Admit(v) \/ Drop(v)
  BY <1>3, <1>a, <1>b, <1>c DEF Admit, Drop
<1>4. CASE Control(v)
  BY <1>4, <1>a, <1>b, <1>c DEF Control, Revoke, ControlKinds
<1>5. CASE Gate(v)
  <2>1. msg[v].kind \in Kinds
    BY <1>5, <1>b, <1>t DEF Gate, WatchInv, CarriesMessage
  <2>2. \/ Return(v, "error") \/ (Return(v, "ready") /\ msg[v].kind = "ping")
        \/ /\ msg[v].kind \in {"request", "proposal", "question", "notice", "stop"} /\ reply' = reply
           /\ pc' = [pc EXCEPT ![v] = StageOf[msg[v].kind]]
    <3> HIDE DEF Return, Goto
    <3>1. \/ msg[v].kind \in {"invalid", "ping"}
          \/ msg[v].kind \in {"request", "proposal", "question", "notice", "stop"}
      BY <1>5, <2>1 DEF Gate, Kinds, BoundKinds, ControlKinds
    <3>2. \/ Return(v, "error") \/ (Return(v, "ready") /\ msg[v].kind = "ping")
          \/ /\ msg[v].kind \notin {"invalid", "ping"}
             /\ Goto(v, StageOf[msg[v].kind]) /\ reply' = reply
      BY <1>5 DEF Gate, Refused
    <3> QED
      BY <3>1, <3>2 DEF Goto
  <2>3. At(v, "handle") /\ UNCHANGED <<msg, gen, humanVars, commitVars>>
    BY <1>5 DEF Gate
  <2>4. CASE Return(v, "error") \/ (Return(v, "ready") /\ msg[v].kind = "ping")
    BY <2>3, <2>4, <1>a, <1>b, <1>c
  <2>5. CASE /\ msg[v].kind \in {"request", "proposal", "question", "notice", "stop"} /\ reply' = reply
            /\ pc' = [pc EXCEPT ![v] = StageOf[msg[v].kind]]
    <3>1. /\ StageOf[msg[v].kind] \in {"classify", "propose", "ask", "notice", "stop"}
          /\ StageOf[msg[v].kind] = "classify" => msg[v].kind = "request"
          /\ StageOf[msg[v].kind] \in {"notice", "stop"} => msg[v].kind # "request"
          /\ StageOf[msg[v].kind] = "ask" => msg[v].kind = "question"
      BY <2>5 DEF StageOf
    <3>2. msg[v] # None
      BY <2>3, <1>b, <1>t DEF WatchInv, CarriesMessage
    <3> QED
      BY <2>3, <2>5, <3>1, <3>2, <1>a, <1>b, <1>c
  <2> QED
    BY <2>2, <2>4, <2>5
<1>6. CASE Proposal(v)
  BY <1>6, <1>a, <1>b, <1>c, <1>t DEF Proposal, WatchInv, ProposesAtPropose
<1>7. CASE Classify(v)
  <2>1. Asks(v) /\ At(v, "classify") /\ RequestOf(v) \in Requests
        /\ UNCHANGED <<msg, gen, answer, pending, minted, outcome>>
    BY <1>7, <1>a, <1>b, <1>t, CarriedRequest DEF Classify, WatchInv, CarriesMessage
  <2>2. CASE used' = used
    <3>1. \/ Return(v, "abstain") \/ Return(v, "error")
          \/ Return(v, "allow") /\ Tier(v) = "T1"
          \/ Goto(v, "ask") /\ Tier(v) = "T2" /\ reply' = reply
          \/ Consume(RequestOf(v)) /\ used' = [used EXCEPT ![v] = Pruned[KeyOf(RequestOf(v))].id]
      BY <1>7 DEF Classify, Conclude
    <3>2. ~(Consume(RequestOf(v)) /\ used' = [used EXCEPT ![v] = Pruned[KeyOf(RequestOf(v))].id])
      BY <2>1, <2>2, <1>a, <1>b, <1>c, SpentIsAnId
    <3> QED
      BY <2>1, <2>2, <3>1, <3>2, <1>a, <1>b, <1>c DEF Tier
  <2>3. CASE used' # used
    <3>1. Consume(RequestOf(v)) /\ used' = [used EXCEPT ![v] = Pruned[KeyOf(RequestOf(v))].id]
          /\ (Return(v, "allow") \/ Return(v, "error"))
      BY <1>7, <2>3 DEF Classify, Conclude
    <3>2. used'[v] # None
      BY <2>1, <3>1, <1>b, <1>c, SpentIsAnId
    <3> QED
      BY <2>1, <3>1, <3>2, <1>a, <1>b, <1>c
  <2> QED
    BY <2>2, <2>3
<1>8. CASE TakeDesk(v) \/ LeaveQueue(v) \/ DeskGivesUp(v) \/ DeskCancels(v)
  BY <1>8, <1>a, <1>b, <1>c DEF TakeDesk, LeaveQueue, DeskGivesUp, DeskCancels, Tier
<1>9. CASE HumanAnswers(v)
  BY <1>9, <1>a, <1>b, <1>c DEF HumanAnswers, Tier
<1>10. CASE DeskFails(v)
  BY <1>10, <1>a, <1>b, <1>c DEF DeskFails
<1>11. CASE AnswerQuestion(v) \/ Notice(v) \/ StopNotice(v)
  BY <1>11, <1>a, <1>b, <1>c DEF AnswerQuestion, Notice, StopNotice
<1>12. CASE Decide(v)
  <2>1. At(v, "decide") /\ UNCHANGED <<msg, gen, shown, answer, minted, outcome, used>>
    BY <1>12 DEF Decide
  <2>2. \/ /\ pending' = pending
           /\ \/ Return(v, "abstain") \/ Return(v, "deny") \/ Return(v, "error")
              \/ Return(v, "allow") /\ answer[v].action = "once"
        \/ /\ answer[v].action = "grant" /\ SelectedCard(v) # None /\ Return(v, "allow")
           /\ pending' = [pending EXCEPT ![v] = SelectedCard(v)]
    BY <1>12 DEF Decide, Conclude, Verdict
  <2>3. Asks(v)
    BY <1>12, <1>b, <1>t DEF Decide, WatchInv, CarriesMessage
  <2> QED
    <3>1. CASE pending' = pending
      BY <2>1, <2>2, <2>3, <3>1, <1>a, <1>b, <1>c DEF Tier
    <3>2. CASE pending' # pending
      <4>1. /\ answer[v].action = "grant" /\ SelectedCard(v) # None /\ Return(v, "allow")
            /\ pending' = [pending EXCEPT ![v] = SelectedCard(v)]
        BY <2>2, <3>2
      <4>2. pending'[v] = AcceptedCard(v) /\ pending'[v] # None
        BY <4>1, <1>c DEF AcceptedCard, SelectedCard
      <4>3. AcceptedCard(v)' = AcceptedCard(v)
        BY <2>1 DEF AcceptedCard
      <4> QED
        BY <2>1, <2>3, <4>1, <4>2, <4>3, <1>a, <1>b, <1>c
    <3> QED
      BY <3>1, <3>2
<1>13. CASE BeginReply(v)
  BY <1>13, <1>a, <1>b, <1>c DEF BeginReply, Tier, AcceptedCard
<1>14. CASE CommitApprove(v)
  BY <1>14, <1>a, <1>b, <1>c DEF CommitApprove, Tier, AcceptedCard
<1>15. CASE CommitConsume(v)
  <2>1. At(v, "consume") /\ RequestOf(v) \in Requests
        /\ UNCHANGED <<msg, gen, shown, answer, reply, pending, minted, outcome>>
    BY <1>15, <1>t, CarriedRequest DEF CommitConsume, WatchInv, CarriesMessage
  <2>2. \/ /\ Consume(RequestOf(v))
           /\ used' = [used EXCEPT ![v] = Pruned[KeyOf(RequestOf(v))].id]
           /\ \E stage \in {"send", "finalize"} : Goto(v, stage)
        \/ used' = used /\ Goto(v, "finalize")
    BY <1>15 DEF CommitConsume
  <2>3. Consume(RequestOf(v)) => Pruned[KeyOf(RequestOf(v))].id # None
    BY <2>1, <1>b, SpentIsAnId
  <2> QED
    BY <2>1, <2>2, <2>3, <1>a, <1>b, <1>c DEF Tier, AcceptedCard
<1>16. CASE Send(v)
  BY <1>16, <1>a, <1>b, <1>c DEF Send, Tier, AcceptedCard
<1>17. CASE Finalize(v) \/ Finish(v) \/ AfterReply(v)
  BY <1>17, <1>a, <1>b, <1>c DEF Finalize, Finish, AfterReply, AcceptedCard
<1> QED
  BY <1>1, <1>2, <1>3, <1>4, <1>5, <1>6, <1>7, <1>8, <1>9, <1>10, <1>11, <1>12, <1>13, <1>14, <1>15,
     <1>16, <1>17, OthersStay DEF Moves, WorkerStep

-----------------------------------------------------------------------------
(* The grants a worker mints and spends.                                   *)

Mints(w) ==
  /\ pc[w] = "commit" /\ Approve(RequestOf(w), pending[w])
  /\ minted' = [minted EXCEPT ![w] = issued']
  /\ UNCHANGED <<msg, gen, pending, used, outcome, lock>>

Spends(w) ==
  /\ pc[w] \in {"classify", "consume"} /\ gen[w] = generation
  /\ Consume(RequestOf(w))
  /\ used' = [used EXCEPT ![w] = Pruned[KeyOf(RequestOf(w))].id]
  /\ UNCHANGED <<msg, gen, pending, minted, outcome, lock>>

(* Any other step mints and spends nothing.                                *)
OnlyKeeps == KeepsOrDrops /\ UNCHANGED <<minted, used>>

LEMMA LedgerSteps ==
  ASSUME ReviewTypeInv, CurrentUnderLock, [Next]_vars
  PROVE  (\E w \in Workers : Mints(w) \/ Spends(w)) \/ OnlyKeeps
<1>1. StoreTypeOK /\ \A k \in Keys : Pruned[k] # None => Pruned[k] = grants[k]
  BY PruneKeeps DEF ReviewTypeInv
<1>2. UNCHANGED storeVars => KeepsOrDrops
  BY DEF storeVars, KeepsOrDrops
<1>3. Revoke => KeepsOrDrops
  BY DEF Revoke, KeepsOrDrops
<1>4. ASSUME NEW r, ConsumeNothing(r)
      PROVE  KeepsOrDrops
  BY <1>1, <1>4 DEF ConsumeNothing, KeepsOrDrops
<1>5. ASSUME NEW w \in Workers, Control(w) \/ Decide(w)
      PROVE  OnlyKeeps
  BY <1>2, <1>3, <1>5 DEF Control, Decide, Verdict, OnlyKeeps, commitVars
<1>6. ASSUME NEW w \in Workers, Proposal(w)
      PROVE  OnlyKeeps
  BY <1>2, <1>6 DEF Proposal, Propose, OnlyKeeps, KeepsOrDrops, commitVars
<1>7. ASSUME NEW w \in Workers, Classify(w)
      PROVE  Spends(w) \/ OnlyKeeps
  BY <1>2, <1>4, <1>7 DEF Classify, At, ReviewActive, Spends, OnlyKeeps, connVars, sharedVars
<1>8. ASSUME NEW w \in Workers, CommitApprove(w)
      PROVE  Mints(w) \/ OnlyKeeps
  <2>1. ApproveFull(RequestOf(w), pending[w]) => KeepsOrDrops
    BY <1>1 DEF ApproveFull, KeepsOrDrops
  <2> QED
    BY <1>2, <1>8, <2>1 DEF CommitApprove, At, Mints, OnlyKeeps, connVars, sharedVars
<1>9. ASSUME NEW w \in Workers, CommitConsume(w)
      PROVE  Spends(w) \/ OnlyKeeps
  <2>1. gen[w] = generation
    BY <1>9 DEF CommitConsume, At, CurrentUnderLock
  <2> QED
    BY <1>4, <1>9, <2>1 DEF CommitConsume, At, Spends, OnlyKeeps, connVars, sharedVars
<1>10. ASSUME NEW w \in Workers, Finalize(w)
       PROVE  OnlyKeeps
  BY <1>2, <1>10 DEF Finalize, Discard, KeepsOrDrops, OnlyKeeps, commitVars
<1>11. ASSUME NEW w \in Workers,
              \/ Accept(w) \/ Admit(w) \/ Drop(w) \/ Gate(w) \/ TakeDesk(w) \/ LeaveQueue(w)
              \/ HumanAnswers(w) \/ DeskGivesUp(w) \/ DeskCancels(w) \/ DeskFails(w)
              \/ AnswerQuestion(w) \/ Notice(w) \/ StopNotice(w) \/ BeginReply(w) \/ Send(w)
              \/ Finish(w) \/ AfterReply(w) \/ Expire(w)
       PROVE  OnlyKeeps
  BY <1>2, <1>11
     DEF Accept, Admit, Drop, Gate, TakeDesk, LeaveQueue, HumanAnswers, DeskGivesUp, DeskCancels,
         DeskFails, AnswerQuestion, Notice, StopNotice, BeginReply, Send, Finish, AfterReply, Expire,
         OnlyKeeps, commitVars
<1>12. CASE \/ CloseByOwner \/ CloseRevokes \/ CloseServer \/ DeskRevokes \/ TerminalLost
            \/ HostCloses \/ TimePasses \/ Terminated \/ UNCHANGED vars
  <2>1. Tick => KeepsOrDrops
    BY DEF Tick, KeepsOrDrops
  <2> QED
    BY <1>2, <1>3, <1>12, <2>1
       DEF CloseByOwner, CloseRevokes, CloseServer, DeskRevokes, TerminalLost, HostCloses, TimePasses,
           Terminated, vars, OnlyKeeps, commitVars
<1> QED
  BY <1>5, <1>6, <1>7, <1>8, <1>9, <1>10, <1>11, <1>12 DEF Next, WorkerStep

(* Once decided, a worker's request, generation and card are fixed.        *)
LEMMA DecidedStays ==
  ASSUME ReviewTypeInv, [Next]_vars, NEW w \in Workers, pc[w] \notin BeforeReply
  PROVE  /\ msg'[w] = msg[w] /\ gen'[w] = gen[w] /\ pending'[w] = pending[w]
         /\ shown'[w] = shown[w] /\ answer'[w] = answer[w]
<1> USE DEF At, BeforeReply, BeforeAnswer, Unadmitted, connVars, humanVars, commitVars
<1>1. CASE Untouched(w)
  BY <1>1 DEF Untouched
<1>2. CASE BeginReply(w) \/ CommitApprove(w) \/ CommitConsume(w) \/ Send(w) \/ Finalize(w)
             \/ Finish(w) \/ AfterReply(w)
  BY <1>2 DEF BeginReply, CommitApprove, CommitConsume, Send, Finalize, Finish, AfterReply
<1>3. CASE \/ Accept(w) \/ Admit(w) \/ Drop(w) \/ Control(w) \/ Gate(w) \/ Proposal(w)
           \/ Classify(w) \/ TakeDesk(w) \/ LeaveQueue(w) \/ HumanAnswers(w) \/ DeskGivesUp(w)
           \/ DeskCancels(w) \/ DeskFails(w) \/ AnswerQuestion(w) \/ Decide(w) \/ Notice(w)
           \/ StopNotice(w)
  BY <1>3 DEF Accept, Admit, Drop, Control, Gate, Proposal, Classify, TakeDesk, LeaveQueue,
              HumanAnswers, DeskGivesUp, DeskCancels, DeskFails, AnswerQuestion, Decide, Notice,
              StopNotice
<1> QED
  BY <1>1, <1>2, <1>3, OthersStay DEF Moves, WorkerStep

(* So a worker that minted or spent keeps its request and its generation.  *)
LEMMA SettledStays ==
  ASSUME ReviewTypeInv, PathInv, [Next]_vars, NEW w \in Workers, minted[w] # None \/ used[w] # None
  PROVE  /\ msg'[w] = msg[w] /\ gen'[w] = gen[w] /\ pending'[w] = pending[w]
         /\ RequestOf(w)' = RequestOf(w) /\ Asks(w)' = Asks(w)
<1>1. pc[w] \notin BeforeReply
  BY DEF PathInv, FollowsPath, SetInOrder
<1> QED
  BY <1>1, DecidedStays DEF RequestOf, Asks

(* The generation only moves by a revoke.                                  *)
LEMMA GenerationMovesByRevoke ==
  ASSUME ReviewTypeInv, [Next]_vars
  PROVE  generation' = generation \/ Revoke
<1>1. ASSUME NEW w \in Workers, Control(w) \/ Decide(w)
      PROVE  generation' = generation \/ Revoke
  BY <1>1 DEF Control, Decide, Verdict, storeVars
<1>2. CASE CloseRevokes \/ DeskRevokes
  BY <1>2 DEF CloseRevokes, DeskRevokes
<1>3. ASSUME NEW w \in Workers,
             Proposal(w) \/ Classify(w) \/ CommitApprove(w) \/ CommitConsume(w) \/ Finalize(w)
      PROVE  generation' = generation
  BY <1>3 DEF Proposal, Classify, CommitApprove, CommitConsume, Finalize, Propose, Approve,
              ApproveFull, Consume, ConsumeNothing, Discard, storeVars
<1>4. ASSUME NEW w \in Workers,
             \/ Accept(w) \/ Admit(w) \/ Drop(w) \/ Gate(w) \/ TakeDesk(w) \/ LeaveQueue(w)
             \/ HumanAnswers(w) \/ DeskGivesUp(w) \/ DeskCancels(w) \/ DeskFails(w)
             \/ AnswerQuestion(w) \/ Notice(w) \/ StopNotice(w) \/ BeginReply(w) \/ Send(w)
             \/ Finish(w) \/ AfterReply(w) \/ Expire(w)
      PROVE  generation' = generation
  BY <1>4 DEF Accept, Admit, Drop, Gate, TakeDesk, LeaveQueue, HumanAnswers, DeskGivesUp,
              DeskCancels, DeskFails, AnswerQuestion, Notice, StopNotice, BeginReply, Send,
              Finish, AfterReply, Expire, storeVars
<1>5. CASE \/ CloseByOwner \/ CloseServer \/ TerminalLost \/ HostCloses \/ TimePasses
           \/ Terminated \/ UNCHANGED vars
  BY <1>5 DEF CloseByOwner, CloseServer, TerminalLost, HostCloses, TimePasses, Tick, Terminated,
              vars, storeVars
<1> QED
  BY <1>1, <1>2, <1>3, <1>4, <1>5 DEF Next, WorkerStep

(* What minting does to the ledger.                                        *)
LEMMA MintKeepsLedger ==
  ASSUME StoreInv, StoreTypeOK', WatchInv, PathInv, MintedOnce, SpentAsApproved, SpendersAreCounted,
         [Next]_vars, NEW w \in Workers, Mints(w)
  PROVE  MintedOnce' /\ SpentAsApproved' /\ SpendersAreCounted'
<1> DEFINE n == issued + 1
<1>1. /\ ReviewTypeInv /\ issued \in Nat /\ Ids = 1..MaxGrants /\ MaxGrants \in Nat
      /\ n \in Ids /\ issued' = n /\ None \notin Ids
      /\ minted \in [Workers -> Ids \cup {None}] /\ used \in [Workers -> Ids \cup {None}]
      /\ DOMAIN terms = Ids
  <2>1. ReviewTypeInv /\ StoreTypeOK /\ WorkersTypeOK
    BY DEF StoreInv, ReviewTypeInv, WatchInv
  <2>2. /\ MaxGrants \in Nat /\ Ids = 1..MaxGrants /\ DOMAIN terms = Ids
        /\ issued \in 0..MaxGrants /\ issued' \in 0..MaxGrants
        /\ minted \in [Workers -> Ids \cup {None}] /\ used \in [Workers -> Ids \cup {None}]
    BY <2>1, BoundsAssumption DEF StoreTypeOK, WorkersTypeOK, Ids
  <2>3. issued' = n
    BY DEF Mints, Approve
  <2>4. \A i \in Ids : i # None
    BY <2>1, NothingIsNothing
  <2>5. issued \in Nat /\ n \in Ids
    BY <2>2, <2>3
  <2> QED
    BY <2>1, <2>2, <2>3, <2>4, <2>5
<1>2. /\ minted' = [minted EXCEPT ![w] = n] /\ used' = used /\ spent' = spent
      /\ terms'[n].key = KeyOf(RequestOf(w)) /\ terms'[n].card = pending[w]
      /\ \A i \in Ids : i # n => terms'[i] = terms[i]
  BY <1>1 DEF Mints, Approve, NextId
<1>3. pending[w] # None
  BY NoneAssumption DEF WatchInv, CommitsACard, Mints
<1>4. /\ \A v \in Workers : minted[v] # None => minted[v] # n /\ minted[v] \in Ids
      /\ \A v \in Workers : used[v] # None => used[v] # n /\ used[v] \in Ids
  BY <1>1 DEF MintedOnce, SpentAsApproved
<1>5. /\ \A v \in Workers : RequestOf(v)' = RequestOf(v) /\ Asks(v)' = Asks(v)
      /\ gen' = gen /\ pending' = pending
  BY DEF Mints, RequestOf, Asks
<1>6. MintedOnce'
  <2>1. ASSUME NEW v \in Workers, minted'[v] # None
        PROVE  /\ minted'[v] <= issued'
               /\ pending'[v] # None
               /\ terms'[minted'[v]].key = KeyOf(RequestOf(v)')
               /\ terms'[minted'[v]].card = pending'[v]
    <3>1. CASE v = w
      BY <1>1, <1>2, <1>3, <1>5, <3>1
    <3>2. CASE v # w
      <4>1. minted'[v] = minted[v]
        BY <1>1, <1>2, <3>2
      <4> QED
        BY <1>1, <1>2, <1>4, <1>5, <2>1, <4>1 DEF MintedOnce
    <3> QED
      BY <3>1, <3>2
  <2>2. ASSUME NEW u \in Workers, NEW v \in Workers, minted'[u] = minted'[v], minted'[u] # None
        PROVE  u = v
    BY <1>1, <1>2, <1>4, <2>2 DEF MintedOnce
  <2>3. ASSUME NEW i \in 1..n
        PROVE  \E v \in Workers : minted'[v] = i
    <3>1. CASE i = n
      BY <1>1, <1>2, <3>1
    <3>2. CASE i # n
      <4>1. PICK v \in Workers : minted[v] = i
        BY <1>1, <3>2 DEF MintedOnce
      <4>2. v # w
        BY <1>1, <1>2, <4>1 DEF Mints, PathInv, FollowsPath, SetInOrder
      <4> QED
        BY <1>1, <1>2, <4>1, <4>2
    <3> QED
      BY <3>1, <3>2
  <2> QED
    BY <1>1, <2>1, <2>2, <2>3 DEF MintedOnce
<1>7. SpentAsApproved'
  <2> SUFFICES ASSUME NEW v \in Workers, used[v] # None
               PROVE  /\ used[v] <= n
                      /\ Asks(v)
                      /\ terms'[used[v]].key = KeyOf(RequestOf(v))
                      /\ Matches(terms'[used[v]].card, RequestOf(v))
                      /\ \A u \in Workers : minted'[u] = used[v] => gen[u] = gen[v]
    BY <1>1, <1>2, <1>5 DEF SpentAsApproved
  <2>1. used[v] \in Ids /\ used[v] # n /\ terms'[used[v]] = terms[used[v]]
    BY <1>2, <1>4
  <2> QED
    BY <1>1, <1>2, <2>1 DEF SpentAsApproved
<1>8. SpendersAreCounted'
  BY <1>2 DEF SpendersAreCounted, Spenders
<1> QED
  BY <1>6, <1>7, <1>8

(* What spending does: the spender is counted with the unit it spends.     *)
LEMMA SpendKeepsLedger ==
  ASSUME StoreInv, StoreTypeOK', WatchInv, PathInv, LedgerInv,
         [Next]_vars, NEW w \in Workers, Spends(w)
  PROVE  MintedOnce' /\ SpentAsApproved' /\ SpendersAreCounted'
<1> DEFINE r == RequestOf(w)
           key == KeyOf(r)
           g == grants[key]
<1>1. ReviewTypeInv
  BY DEF StoreInv, ReviewTypeInv
<1>2. Asks(w) /\ r \in Requests /\ key \in Keys /\ used[w] = None /\ gen[w] = generation
  BY CarriedRequest, KeyOfType
     DEF Spends, WatchInv, CarriesMessage, PathInv, FollowsPath, ServesItsKind, SetInOrder,
         BeforeReply, BeforeAnswer
<1>3. /\ Pruned[key] = g /\ g # None /\ g \in Grant /\ Matches(g.card, r)
      /\ used' = [used EXCEPT ![w] = g.id]
      /\ spent' = [spent EXCEPT ![g.id] = spent[g.id] + 1]
      /\ UNCHANGED <<issued, terms>>
  BY <1>1, <1>2, PruneKeeps DEF Spends, Consume, Spendable, ReviewTypeInv
<1>4. /\ issued \in Nat /\ g.id \in Ids /\ None \notin Ids /\ used \in [Workers -> Ids \cup {None}]
      /\ spent \in [Ids -> Nat] /\ Ids \subseteq Int
  BY <1>1, <1>3, NothingIsNothing, BoundsAssumption
     DEF StoreInv, StoreTypeOK, WatchInv, WorkersTypeOK, Grant, Ids
<1>5. /\ g.id <= issued /\ terms[g.id].key = key /\ terms[g.id].card = g.card
      /\ \A u \in Workers : minted[u] = g.id => gen[u] = generation
  <2>1. key \in Bound(grants)
    BY <1>2, <1>3 DEF Bound, StoreInv, StoreTypeOK
  <2> HIDE DEF key
  <2>2. /\ g.id <= issued
        /\ terms[g.id] = [key |-> key, card |-> g.card, expires |-> g.expires]
    BY <2>1 DEF StoreInv, LiveGrantsKeepTheirTerms
  <2>3. \A u \in Workers : minted[u] = g.id => gen[u] = generation
    BY <2>1 DEF LedgerInv, LiveIsCurrent, MintedBy
  <2> QED
    BY <2>2, <2>3
<1>6. /\ \A v \in Workers : RequestOf(v)' = RequestOf(v) /\ Asks(v)' = Asks(v)
      /\ gen' = gen /\ pending' = pending /\ minted' = minted
  BY DEF Spends, RequestOf, Asks
<1> HIDE DEF r, key, g
<1>7. MintedOnce'
  BY <1>3, <1>6 DEF LedgerInv, MintedOnce
<1>8. SpentAsApproved'
  <2> SUFFICES ASSUME NEW v \in Workers, used'[v] # None
               PROVE  /\ used'[v] <= issued
                      /\ Asks(v)
                      /\ terms[used'[v]].key = KeyOf(RequestOf(v))
                      /\ Matches(terms[used'[v]].card, RequestOf(v))
                      /\ \A u \in Workers : minted[u] = used'[v] => gen[u] = gen[v]
    BY <1>3, <1>6 DEF SpentAsApproved
  <2>1. CASE v = w
    <3>1. used'[v] = g.id
      BY <1>3, <1>4, <2>1
    <3> QED
      BY <1>2, <1>3, <1>5, <2>1, <3>1 DEF r, key
  <2>2. CASE v # w
    BY <1>3, <1>4, <2>2 DEF LedgerInv, SpentAsApproved
  <2> QED
    BY <2>1, <2>2
<1>9. SpendersAreCounted'
  <2> SUFFICES ASSUME NEW i \in Ids
               PROVE  Cardinality(Spenders(i)') <= spent'[i]
    BY DEF SpendersAreCounted
  <2>1. IsFiniteSet(Spenders(i)) /\ Cardinality(Spenders(i)) <= spent[i]
    BY WorkersAssumption, FS_Subset DEF Spenders, LedgerInv, SpendersAreCounted
  <2>2. CASE i = g.id
    <3>1. Spenders(i)' = Spenders(i) \cup {w} /\ w \notin Spenders(i)
      BY <1>2, <1>3, <1>4, <2>2 DEF Spenders
    <3>2. Cardinality(Spenders(i)') = Cardinality(Spenders(i)) + 1
      BY <2>1, <3>1, FS_AddElement
    <3>3. Cardinality(Spenders(i)) \in Nat /\ spent[i] \in Nat /\ spent'[i] = spent[i] + 1
      BY <1>3, <1>4, <2>1, <2>2, FS_CardinalityType
    <3> QED
      BY <2>1, <3>2, <3>3
  <2>3. CASE i # g.id
    <3>1. Spenders(i)' = Spenders(i)
      BY <1>2, <1>3, <1>4, <2>3 DEF Spenders
    <3> QED
      BY <1>3, <1>4, <2>1, <2>3, <3>1
  <2> QED
    BY <2>2, <2>3
<1> QED
  BY <1>7, <1>8, <1>9

(* Every other step only drops grants, and who minted and spent stays.     *)
LEMMA KeepingKeepsLedger ==
  ASSUME ReviewTypeInv, PathInv, MintedOnce, SpentAsApproved, SpendersAreCounted,
         [Next]_vars, OnlyKeeps
  PROVE  MintedOnce' /\ SpentAsApproved' /\ SpendersAreCounted'
<1>1. UNCHANGED <<issued, terms, spent, minted, used>>
  BY DEF OnlyKeeps, KeepsOrDrops
<1>2. ASSUME NEW w \in Workers, minted[w] # None \/ used[w] # None
      PROVE  /\ gen'[w] = gen[w] /\ pending'[w] = pending[w]
             /\ RequestOf(w)' = RequestOf(w) /\ Asks(w)' = Asks(w)
  BY <1>2, SettledStays
<1>3. MintedOnce'
  BY <1>1, <1>2 DEF MintedOnce
<1>4. SpentAsApproved'
  <2> SUFFICES ASSUME NEW v \in Workers, used[v] # None
               PROVE  /\ used[v] <= issued
                      /\ Asks(v)'
                      /\ terms[used[v]].key = KeyOf(RequestOf(v)')
                      /\ Matches(terms[used[v]].card, RequestOf(v)')
                      /\ \A u \in Workers : minted[u] = used[v] => gen'[u] = gen'[v]
    BY <1>1 DEF SpentAsApproved
  <2>1. Asks(v) /\ Asks(v)' = Asks(v) /\ RequestOf(v)' = RequestOf(v) /\ gen'[v] = gen[v]
    BY <1>2 DEF SpentAsApproved
  <2>2. ASSUME NEW u \in Workers, minted[u] = used[v]
        PROVE  gen'[u] = gen'[v]
    BY <1>2, <2>1, <2>2 DEF SpentAsApproved
  <2> QED
    BY <2>1, <2>2 DEF SpentAsApproved
<1>5. SpendersAreCounted'
  BY <1>1 DEF SpendersAreCounted, Spenders
<1> QED
  BY <1>3, <1>4, <1>5

(* A worker leaves the locked part of the reply path only by Finalize.     *)
LEMMA LockIsKept ==
  ASSUME ReviewTypeInv, [Next]_vars, NEW w \in Workers, pc[w] \in LockedStages
  PROVE  pc'[w] \in LockedStages \/ Finalize(w)
<1> USE DEF At, Goto, LockedStages, ReviewTypeInv, WatchInv, WorkersTypeOK
<1>1. CASE Untouched(w)
  BY <1>1 DEF Untouched
<1>2. CASE CommitApprove(w) \/ CommitConsume(w) \/ Send(w)
  BY <1>2 DEF CommitApprove, CommitConsume, Send
<1>3. CASE \/ Accept(w) \/ Admit(w) \/ Drop(w) \/ Control(w) \/ Gate(w) \/ Proposal(w)
           \/ Classify(w) \/ TakeDesk(w) \/ LeaveQueue(w) \/ HumanAnswers(w) \/ DeskGivesUp(w)
           \/ DeskCancels(w) \/ DeskFails(w) \/ AnswerQuestion(w) \/ Decide(w) \/ Notice(w)
           \/ StopNotice(w) \/ BeginReply(w) \/ Finish(w) \/ AfterReply(w)
  BY <1>3 DEF Accept, Admit, Drop, Control, Gate, Proposal, Classify, TakeDesk, LeaveQueue,
              HumanAnswers, DeskGivesUp, DeskCancels, DeskFails, AnswerQuestion, Decide, Notice,
              StopNotice, BeginReply, Finish, AfterReply
<1> QED
  BY <1>1, <1>2, <1>3, OthersStay DEF Moves, WorkerStep

(* Whoever minted a live grant stays current and stays answered, or keeps  *)
(* the lock; when it gives the lock back, its grant was delivered or goes. *)
LEMMA KeepingKeepsCurrent ==
  ASSUME ReviewTypeInv, WatchInv', PathInv, MintedOnce, LiveIsCurrent, [Next]_vars,
         NEW k \in Bound(grants), NEW w \in Workers, MintedBy(w, grants[k]),
         grants'[k] = grants[k], minted'[w] = minted[w], k \in Keys
  PROVE  gen'[w] = generation' /\ (outcome'[w] = "allow" \/ lock' = w)
<1>1. minted[w] # None /\ pending[w] # None /\ grants[k] # None /\ grants[k].id = minted[w]
  BY NothingIsNothing DEF Bound, MintedBy, Grant, ReviewTypeInv, StoreTypeOK, MintedOnce
<1>2. gen[w] = generation /\ (outcome[w] = "allow" \/ lock = w)
  BY DEF LiveIsCurrent
<1>3. gen'[w] = generation'
  <2>1. ~Revoke
    BY <1>1 DEF Revoke
  <2> QED
    BY <1>1, <1>2, <2>1, SettledStays, GenerationMovesByRevoke
<1>4. CASE outcome[w] = "allow"
  <2>1. ~Send(w)
    BY <1>4 DEF Send, At, PathInv, FollowsPath, SetInOrder, Replying
  <2> QED
    BY <1>3, <1>4, <2>1, RepliesAreSent
<1>5. CASE lock = w /\ Finalize(w)
  <2>1. ~UndeliveredMint(w)
    BY <1>1, <1>5 DEF Finalize, Discard
  <2>2. outcome[w] = "allow"
    BY <1>1, <2>1 DEF UndeliveredMint, PathInv, FollowsPath, PendingIsAccepted
  <2> QED
    BY <1>4, <2>2
<1>6. CASE lock = w /\ ~Finalize(w)
  BY <1>3, <1>6, LockIsKept DEF ReviewTypeInv, WatchInv, Holders
<1> QED
  BY <1>2, <1>4, <1>5, <1>6

LEMMA NextLiveIsCurrent ==
  ASSUME StoreInv, StoreTypeOK', WatchInv, WatchInv', CurrentUnderLock, PathInv, MintedOnce,
         LiveIsCurrent, [Next]_vars
  PROVE  LiveIsCurrent'
<1>1. /\ ReviewTypeInv /\ DOMAIN grants = Keys /\ DOMAIN grants' = Keys
      /\ \A k \in Keys : Pruned[k] # None => Pruned[k] = grants[k] /\ grants[k] \in Grant
      /\ Pruned \in [Keys -> Grant \cup {None}]
  BY PruneKeeps DEF StoreInv, StoreTypeOK, ReviewTypeInv
<1> SUFFICES ASSUME NEW k \in Keys, grants'[k] # None, NEW w \in Workers,
                    minted'[w] = grants'[k].id
             PROVE  gen'[w] = generation' /\ (outcome'[w] = "allow" \/ lock' = w)
  BY <1>1 DEF LiveIsCurrent, Bound, MintedBy
<1>2. CASE OnlyKeeps
  <2>1. grants'[k] = grants[k] /\ k \in Bound(grants) /\ minted' = minted
    BY <1>1, <1>2 DEF OnlyKeeps, KeepsOrDrops, Bound
  <2> QED
    BY <1>1, <2>1, KeepingKeepsCurrent DEF MintedBy
<1>3. ASSUME NEW v \in Workers, Spends(v)
      PROVE  gen'[w] = generation' /\ (outcome'[w] = "allow" \/ lock' = w)
  <2> DEFINE key == KeyOf(RequestOf(v))
             g == grants[key]
  <2>1. key \in Keys /\ Pruned[key] # None
    BY <1>3, CarriedRequest, KeyOfType
       DEF Spends, Consume, Spendable, WatchInv, CarriesMessage
  <2>2. g # None /\ g \in Grant /\ Pruned[key] = g
        /\ grants' = [Pruned EXCEPT ![key] = Charged(g)]
    BY <1>1, <1>3, <2>1 DEF Spends, Consume
  <2>3. grants[k] # None /\ grants'[k].id = grants[k].id
    <3>1. CASE k = key
      <4>1. grants'[k] = Charged(g)
        BY <1>1, <2>1, <2>2, <3>1
      <4> QED
        BY <2>2, <3>1, <4>1, ChargeTakesOne
    <3>2. CASE k # key
      <4>1. grants'[k] = Pruned[k]
        BY <1>1, <2>1, <2>2, <3>2
      <4> QED
        BY <1>1, <4>1
    <3> QED
      BY <3>1, <3>2
  <2>4. MintedBy(w, grants[k]) /\ k \in Bound(grants)
    BY <1>1, <1>3, <2>3 DEF Spends, MintedBy, Bound
  <2>5. UNCHANGED <<gen, outcome, lock, generation>>
    BY <1>3 DEF Spends, Consume
  <2> QED
    BY <2>4, <2>5 DEF LiveIsCurrent
<1>4. ASSUME NEW v \in Workers, Mints(v)
      PROVE  gen'[w] = generation' /\ (outcome'[w] = "allow" \/ lock' = w)
  <2> DEFINE key == KeyOf(RequestOf(v))
             n == issued + 1
             fresh == [id |-> n, remaining |-> pending[v].budget, card |-> pending[v],
                       expires |-> now + LIFETIME]
  <2>1. key \in Keys
    BY <1>4, CarriedRequest, KeyOfType DEF Mints, WatchInv, CarriesMessage
  <2>2. /\ grants' = [Pruned EXCEPT ![key] = fresh]
        /\ minted' = [minted EXCEPT ![v] = n] /\ issued \in Nat
        /\ UNCHANGED <<gen, outcome, lock, generation>>
        /\ minted \in [Workers -> Ids \cup {None}]
    BY <1>4, BoundsAssumption
       DEF Mints, Approve, NextId, StoreInv, StoreTypeOK, WatchInv, WorkersTypeOK
  <2>3. gen[v] = generation /\ lock = v
    BY <1>4 DEF Mints, CurrentUnderLock, WatchInv, Holders, LockedStages
  <2>4. CASE w = v
    BY <2>2, <2>3, <2>4
  <2>5. CASE w # v
    <3>1. minted'[w] = minted[w]
      BY <2>2, <2>5
    <3>2. n \in Ids /\ grants'[k].id \in Ids
      BY <1>4 DEF Mints, Approve, StoreTypeOK, Grant, StoreInv, Ids
    <3>3. minted[w] # n
      BY <2>2, <3>1, <3>2, <1>1, NothingIsNothing, BoundsAssumption DEF MintedOnce, Ids
    <3>4. k # key
      <4>1. fresh.id = n
        OBVIOUS
      <4> HIDE DEF fresh
      <4> QED
        BY <1>1, <2>1, <2>2, <3>1, <3>3, <4>1
    <3>5. grants'[k] = Pruned[k]
      BY <1>1, <2>1, <2>2, <3>4
    <3>6. MintedBy(w, grants[k]) /\ k \in Bound(grants)
      BY <1>1, <3>1, <3>5 DEF MintedBy, Bound
    <3> QED
      BY <2>2, <3>6 DEF LiveIsCurrent
  <2> QED
    BY <2>4, <2>5
<1> QED
  BY <1>1, <1>2, <1>3, <1>4, LedgerSteps

(* What a step does to the pending proposals.                              *)
LEMMA ProposalSteps ==
  ASSUME ReviewTypeInv, [Next]_vars
  PROVE  \/ proposals' = proposals \/ Revoke
         \/ \E w \in Workers :
              /\ pc[w] = "propose" /\ gen[w] = generation
              /\ Propose(msg[w].base, msg[w].card) /\ UNCHANGED <<msg, gen>>
<1>1. ASSUME NEW w \in Workers, Proposal(w)
      PROVE  \/ proposals' = proposals
             \/ /\ pc[w] = "propose" /\ gen[w] = generation
                /\ Propose(msg[w].base, msg[w].card) /\ UNCHANGED <<msg, gen>>
  BY <1>1 DEF Proposal, At, ReviewActive, connVars, storeVars
<1>2. ASSUME NEW w \in Workers, Control(w) \/ Decide(w)
      PROVE  proposals' = proposals \/ Revoke
  BY <1>2 DEF Control, Decide, Verdict, storeVars
<1>3. ASSUME NEW w \in Workers,
             Classify(w) \/ CommitApprove(w) \/ CommitConsume(w) \/ Finalize(w)
      PROVE  proposals' = proposals
  BY <1>3 DEF Classify, CommitApprove, CommitConsume, Finalize, Approve, ApproveFull, Consume,
              ConsumeNothing, Discard, storeVars
<1>4. ASSUME NEW w \in Workers,
             \/ Accept(w) \/ Admit(w) \/ Drop(w) \/ Gate(w) \/ TakeDesk(w) \/ LeaveQueue(w)
             \/ HumanAnswers(w) \/ DeskGivesUp(w) \/ DeskCancels(w) \/ DeskFails(w)
             \/ AnswerQuestion(w) \/ Notice(w) \/ StopNotice(w) \/ BeginReply(w) \/ Send(w)
             \/ Finish(w) \/ AfterReply(w) \/ Expire(w)
      PROVE  proposals' = proposals
  BY <1>4 DEF Accept, Admit, Drop, Gate, TakeDesk, LeaveQueue, HumanAnswers, DeskGivesUp,
              DeskCancels, DeskFails, AnswerQuestion, Notice, StopNotice, BeginReply, Send,
              Finish, AfterReply, Expire, storeVars
<1>5. CASE \/ CloseByOwner \/ CloseRevokes \/ CloseServer \/ DeskRevokes \/ TerminalLost
           \/ HostCloses \/ TimePasses \/ Terminated \/ UNCHANGED vars
  BY <1>5 DEF CloseByOwner, CloseRevokes, CloseServer, DeskRevokes, TerminalLost, HostCloses,
              TimePasses, Tick, Terminated, vars, storeVars
<1> QED
  BY <1>1, <1>2, <1>3, <1>4, <1>5 DEF Next, WorkerStep

(* A message and the generation it was admitted in stay, but for a control *)
(* request, which moves to the generation it makes.                        *)
LEMMA AdmittedStays ==
  ASSUME ReviewTypeInv, PathInv, [Next]_vars, NEW w \in Workers, gen[w] # None
  PROVE  Control(w) \/ (msg'[w] = msg[w] /\ gen'[w] = gen[w])
<1> USE DEF At, connVars, PathInv, FollowsPath, SetInOrder, Unadmitted
<1>1. CASE Untouched(w)
  BY <1>1 DEF Untouched
<1>2. CASE Accept(w) \/ Admit(w)
  BY <1>2 DEF Accept, Admit
<1>3. CASE \/ Drop(w) \/ Gate(w) \/ Proposal(w)
           \/ Classify(w) \/ TakeDesk(w) \/ LeaveQueue(w) \/ HumanAnswers(w) \/ DeskGivesUp(w)
           \/ DeskCancels(w) \/ DeskFails(w) \/ AnswerQuestion(w) \/ Decide(w) \/ Notice(w)
           \/ StopNotice(w) \/ BeginReply(w) \/ CommitApprove(w) \/ CommitConsume(w) \/ Send(w)
           \/ Finalize(w) \/ Finish(w) \/ AfterReply(w)
  BY <1>3 DEF Drop, Gate, Proposal, Classify, TakeDesk, LeaveQueue, HumanAnswers, DeskGivesUp,
              DeskCancels, DeskFails, AnswerQuestion, Decide, Notice, StopNotice, BeginReply,
              CommitApprove, CommitConsume, Send, Finalize, Finish, AfterReply
<1> QED
  BY <1>1, <1>2, <1>3, OthersStay DEF Moves, WorkerStep

(* Every pending proposal was made in the present generation.              *)
LEMMA NextProposals ==
  ASSUME ReviewTypeInv, StoreTypeOK', PathInv, ProposalsAreCurrent, [Next]_vars
  PROVE  ProposalsAreCurrent'
<1>1. DOMAIN proposals = Bases /\ DOMAIN proposals' = Bases
  BY DEF ReviewTypeInv, StoreTypeOK
<1> SUFFICES ASSUME NEW b \in Bases, proposals'[b] # None
             PROVE  \E w \in Workers :
                      /\ msg'[w] # None
                      /\ msg'[w].kind = "proposal" /\ msg'[w].base = b
                      /\ msg'[w].card = proposals'[b] /\ gen'[w] = generation'
  BY <1>1 DEF ProposalsAreCurrent, Bound, ProposedBy
<1>2. ~Revoke
  BY DEF Revoke
<1>3. generation' = generation /\ generation # None
  BY <1>2, GenerationMovesByRevoke, NothingIsNothing
<1>4. CASE proposals'[b] = proposals[b]
  <2>1. PICK w \in Workers : ProposedBy(w, b) /\ gen[w] = generation
    BY <1>1, <1>4 DEF ProposalsAreCurrent, Bound
  <2>2. ~Control(w)
    BY <1>2 DEF Control
  <2>3. msg'[w] = msg[w] /\ gen'[w] = gen[w]
    BY <1>3, <2>1, <2>2, AdmittedStays
  <2> QED
    BY <1>3, <1>4, <2>1, <2>3 DEF ProposedBy
<1>5. ASSUME NEW w \in Workers, pc[w] = "propose", gen[w] = generation,
             Propose(msg[w].base, msg[w].card), UNCHANGED <<msg, gen>>
      PROVE  \/ proposals'[b] = proposals[b]
             \/ /\ msg'[w] # None
                /\ msg'[w].kind = "proposal" /\ msg'[w].base = b
                /\ msg'[w].card = proposals'[b] /\ gen'[w] = generation'
  <2>1. msg[w] # None /\ msg[w].kind = "proposal"
    BY <1>5, NothingIsNothing DEF ReviewTypeInv, WatchInv, CarriesMessage, ProposesAtPropose
  <2>2. proposals' = [proposals EXCEPT ![msg[w].base] = msg[w].card]
    BY <1>5 DEF Propose
  <2> QED
    BY <1>1, <1>3, <1>5, <2>1, <2>2
<1> QED
  BY <1>2, <1>4, <1>5, ProposalSteps

-----------------------------------------------------------------------------
(* Authority comes from a human's word, and does not outlive it.           *)

LEMMA AuthorityStarts == Init => AuthorityInv
<1> SUFFICES ASSUME Init
             PROVE  AuthorityInv
  OBVIOUS
<1>1. StoreInv /\ WatchInv /\ CurrentUnderLock
  BY InitInv, InitTypes DEF Init, ReviewTypeInv, CurrentUnderLock
<1>2. PathInv
  BY DEF Init, PathInv, FollowsPath, SetInOrder, ServesItsKind, PendingIsAccepted, AllowHasACause,
         Unadmitted, BeforeAnswer, BeforeReply, Replying
<1>3. Bound(grants) = {} /\ Bound(proposals) = {} /\ issued = 0 /\ spent = [i \in Ids |-> 0]
  BY DEF Init, StoreInit, Bound
<1>4. MintedOnce /\ LiveIsCurrent /\ SpentAsApproved /\ ProposalsAreCurrent
  BY <1>3 DEF Init, MintedOnce, LiveIsCurrent, SpentAsApproved, ProposalsAreCurrent
<1>5. SpendersAreCounted
  <2> SUFFICES ASSUME NEW i \in Ids
               PROVE  Cardinality(Spenders(i)) <= 0
    BY <1>3 DEF SpendersAreCounted
  <2>1. i # None
    BY <1>1, NothingIsNothing DEF StoreInv, ReviewTypeInv
  <2>2. Spenders(i) = {}
    BY <2>1 DEF Init, Spenders
  <2> QED
    BY <2>2, FS_EmptySet
<1> QED
  BY <1>1, <1>2, <1>4, <1>5 DEF AuthorityInv, LedgerInv

LEMMA NextAuthority == AuthorityInv /\ [Next]_vars => AuthorityInv'
<1> SUFFICES ASSUME AuthorityInv, [Next]_vars
             PROVE  AuthorityInv'
  OBVIOUS
<1>1. ReviewTypeInv /\ ReviewTypeInv'
  BY NextTypes DEF AuthorityInv, StoreInv, ReviewTypeInv
<1>2. StoreInv' /\ WatchInv' /\ CurrentUnderLock' /\ PathInv' /\ StoreTypeOK'
  BY <1>1, StepUsesStore, NextInv, NextCurrent, NextPath DEF AuthorityInv, ReviewTypeInv
<1>3. MintedOnce' /\ SpentAsApproved' /\ SpendersAreCounted'
  BY <1>1, <1>2, LedgerSteps, MintKeepsLedger, SpendKeepsLedger, KeepingKeepsLedger
     DEF AuthorityInv, LedgerInv
<1>4. LiveIsCurrent' /\ ProposalsAreCurrent'
  BY <1>1, <1>2, NextLiveIsCurrent, NextProposals DEF AuthorityInv, LedgerInv
<1> QED
  BY <1>2, <1>3, <1>4 DEF AuthorityInv, LedgerInv

(* What follows a permission from the human's answer to the client.        *)
THEOREM AuthorityIsTraced == Spec => []AuthorityInv
BY AuthorityStarts, NextAuthority, PTL DEF Spec

(* Every live grant has a minter, whose card and key it carries.           *)
LEMMA LiveHasMinter ==
  ASSUME AuthorityInv, NEW k \in Bound(grants)
  PROVE  /\ \E w \in Workers : MintedBy(w, grants[k])
         /\ \A w \in Workers : MintedBy(w, grants[k]) =>
              /\ k = KeyOf(RequestOf(w)) /\ grants[k].card = pending[w] /\ pending[w] # None
<1>1. /\ grants[k].id <= issued /\ grants[k].id \in Ids /\ grants[k].id # None
      /\ terms[grants[k].id] = [key |-> k, card |-> grants[k].card, expires |-> grants[k].expires]
  BY NothingIsNothing
     DEF AuthorityInv, StoreInv, StoreTypeOK, LiveGrantsKeepTheirTerms, Bound, Grant, ReviewTypeInv
<1>2. grants[k].id \in 1..issued
  BY <1>1, BoundsAssumption DEF Ids, AuthorityInv, StoreInv, StoreTypeOK
<1> QED
  BY <1>1, <1>2 DEF AuthorityInv, LedgerInv, MintedOnce, MintedBy

(* Whenever the lock is free, every live grant's approval was delivered.   *)
THEOREM GrantsAreDelivered == Spec => []OnlyDeliveredGrants
<1>1. AuthorityInv => OnlyDeliveredGrants
  BY LiveHasMinter, WorkersAssumption
     DEF AuthorityInv, LedgerInv, LiveIsCurrent, OnlyDeliveredGrants, LockFree
<1> QED
  BY <1>1, AuthorityIsTraced, PTL

(* A live grant is the card its human saw or edited, for that request.     *)
THEOREM HumanSawTheGrant == Spec => []GrantIsWhatTheHumanSaw
<1>1. AuthorityInv => GrantIsWhatTheHumanSaw
  BY LiveHasMinter
     DEF AuthorityInv, PathInv, FollowsPath, PendingIsAccepted, GrantIsWhatTheHumanSaw
<1> QED
  BY <1>1, AuthorityIsTraced, PTL

(* No grant or proposal of a request admitted before a revoke is left.     *)
THEOREM RevokeIsFinal == Spec => []NothingOutlivesRevoke
<1>1. AuthorityInv => NothingOutlivesRevoke
  BY LiveHasMinter
     DEF AuthorityInv, LedgerInv, LiveIsCurrent, ProposalsAreCurrent, NothingOutlivesRevoke
<1> QED
  BY <1>1, AuthorityIsTraced, PTL

-----------------------------------------------------------------------------
(* The refinement of Authority: what a step does to each of its variables. *)

(* A worker that no step touches keeps its ask, its word and its answer.   *)
LEMMA UntouchedKeepsWord ==
  ASSUME NEW v \in Workers, Untouched(v)
  PROVE  /\ Asked'[v] = Asked[v] /\ Words'[v] = Words[v] /\ AnswerSent'[v] = AnswerSent[v]
         /\ ApprovesCard(v)' = ApprovesCard(v) /\ AcceptedCard(v)' = AcceptedCard(v)
<1>1. /\ Asks(v)' = Asks(v) /\ Admitted(v)' = Admitted(v) /\ RequestOf(v)' = RequestOf(v)
      /\ ApprovesCard(v)' = ApprovesCard(v) /\ AcceptedCard(v)' = AcceptedCard(v)
  BY DEF Untouched, Asks, Admitted, RequestOf, ApprovesCard, AcceptedCard
<1>2. Word(v)' = Word(v)
  BY <1>1 DEF Untouched, Word
<1> QED
  BY <1>1, <1>2 DEF Untouched, Asked, Words, AnswerSent

(* Only admission makes an ask.                                            *)
LEMMA AskedSteps ==
  ASSUME AuthorityInv, [Next]_vars, NEW v \in Workers, ~(Admit(v) /\ Asks(v))
  PROVE  Asked'[v] = Asked[v]
<1>a. ReviewTypeInv /\ PathInv /\ gen \in [Workers -> Nat \cup {None}]
      /\ msg \in [Workers -> Messages \cup {None}]
  BY DEF AuthorityInv, StoreInv, ReviewTypeInv, WatchInv, WorkersTypeOK
<1>1. CASE Untouched(v)
  BY <1>1, UntouchedKeepsWord
<1>2. CASE gen[v] # None
  <2>1. CASE Control(v)
    <3>1. ~Asks(v) /\ msg' = msg
      BY <2>1 DEF Control, ControlKinds, Asks
    <3> QED
      BY <3>1 DEF Asked, Admitted, Asks
  <2>2. CASE msg'[v] = msg[v] /\ gen'[v] = gen[v]
    BY <2>2 DEF Asked, Admitted, Asks, RequestOf
  <2> QED
    BY <1>2, <1>a, <2>1, <2>2, AdmittedStays
<1>3. CASE gen[v] = None /\ Moves(v)
  <2>1. SUFFICES ~Admitted(v)'
    BY <1>3 DEF Asked, Admitted
  <2>2. pc[v] \notin {"handle", "classify", "propose", "ask", "human", "decide", "notice", "stop",
                      "reply", "commit", "consume", "send"}
    BY <1>3, <1>a DEF PathInv, FollowsPath, ServesItsKind, BeforeReply, BeforeAnswer, Unadmitted,
       Replying
  <2>3. CASE Admit(v)
    <3>1. ~Asks(v) /\ msg' = msg
      BY <2>3 DEF Admit
    <3> QED
      BY <3>1 DEF Admitted, Asks
  <2>4. CASE Accept(v) \/ Drop(v) \/ Finalize(v) \/ Finish(v) \/ AfterReply(v)
    BY <1>3, <2>4 DEF Accept, Drop, Finalize, Finish, AfterReply, connVars, Admitted
  <2> QED
    BY <1>3, <2>2, <2>3, <2>4
       DEF Moves, WorkerStep, Control, Gate, Proposal, Classify, TakeDesk, LeaveQueue, DeskGivesUp,
           AnswerQuestion, Decide, Notice, StopNotice, BeginReply, CommitApprove, CommitConsume, Send,
           HumanAnswers, DeskCancels, DeskFails, At
<1> QED
  BY <1>1, <1>2, <1>3, <1>a, OthersStay

(* Only the human gives a word.                                            *)
LEMMA WordSteps ==
  ASSUME AuthorityInv, [Next]_vars, NEW v \in Workers, ~HumanAnswers(v)
  PROVE  /\ Words'[v] = Words[v]
         /\ ApprovesCard(v)' = ApprovesCard(v)
         /\ ApprovesCard(v) => AcceptedCard(v)' = AcceptedCard(v)
<1>a. ReviewTypeInv /\ PathInv
  BY DEF AuthorityInv, StoreInv, ReviewTypeInv
<1>1. CASE answer'[v] = answer[v] /\ shown'[v] = shown[v]
  BY <1>1 DEF Words, Word, ApprovesCard, AcceptedCard
<1>2. CASE answer'[v] = answer[v] /\ answer[v] = NoAnswer
  BY <1>2 DEF Words, Word, ApprovesCard, AcceptedCard, NoAnswer
<1>3. CASE Classify(v)
  BY <1>2, <1>3, <1>a DEF Classify, At, PathInv, FollowsPath, SetInOrder, BeforeAnswer, Unadmitted
<1>4. CASE \/ Accept(v) \/ Admit(v) \/ Drop(v) \/ Control(v) \/ Gate(v) \/ Proposal(v)
           \/ TakeDesk(v) \/ LeaveQueue(v) \/ DeskGivesUp(v) \/ DeskCancels(v) \/ DeskFails(v)
           \/ AnswerQuestion(v) \/ Decide(v) \/ Notice(v) \/ StopNotice(v) \/ BeginReply(v)
           \/ CommitApprove(v) \/ CommitConsume(v) \/ Send(v) \/ Finalize(v) \/ Finish(v)
           \/ AfterReply(v) \/ Untouched(v)
  BY <1>1, <1>4
     DEF Accept, Admit, Drop, Control, Gate, Proposal, TakeDesk, LeaveQueue, DeskGivesUp,
         DeskCancels, DeskFails, AnswerQuestion, Decide, Notice, StopNotice, BeginReply,
         CommitApprove, CommitConsume, Send, Finalize, Finish, AfterReply, Untouched, humanVars
<1> QED
  BY <1>3, <1>4, <1>a, OthersStay DEF Moves, WorkerStep

(* Only a reply that is sent answers.                                      *)
LEMMA AnsweredSteps ==
  ASSUME AuthorityInv, [Next]_vars, NEW v \in Workers, ~Send(v)
  PROVE  AnswerSent'[v] = AnswerSent[v]
<1>a. ReviewTypeInv /\ PathInv /\ msg \in [Workers -> Messages \cup {None}]
  BY DEF AuthorityInv, StoreInv, ReviewTypeInv, WatchInv, WorkersTypeOK
<1>1. outcome'[v] = outcome[v]
  BY <1>a, RepliesAreSent
<1>2. CASE msg'[v] = msg[v]
  BY <1>1, <1>2 DEF AnswerSent, Asks
<1>3. CASE Accept(v)
  <2>1. outcome[v] = "none"
    BY <1>3, <1>a DEF Accept, At, PathInv, FollowsPath, SetInOrder, BeforeReply, BeforeAnswer,
       Unadmitted
  <2> QED
    BY <1>1, <2>1 DEF AnswerSent
<1>4. CASE gen[v] # None
  BY <1>2, <1>4, <1>a, AdmittedStays DEF Control
<1>5. CASE \/ Admit(v) \/ Drop(v) \/ Control(v) \/ Gate(v) \/ Proposal(v) \/ Classify(v)
           \/ TakeDesk(v) \/ LeaveQueue(v) \/ HumanAnswers(v) \/ DeskGivesUp(v)
           \/ DeskCancels(v) \/ DeskFails(v) \/ AnswerQuestion(v) \/ Decide(v) \/ Notice(v)
           \/ StopNotice(v) \/ BeginReply(v) \/ CommitApprove(v) \/ CommitConsume(v)
           \/ Finalize(v) \/ Finish(v) \/ AfterReply(v) \/ Untouched(v)
  BY <1>2, <1>5
     DEF Admit, Drop, Control, Gate, Proposal, Classify, TakeDesk, LeaveQueue, HumanAnswers,
         DeskGivesUp, DeskCancels, DeskFails, AnswerQuestion, Decide, Notice, StopNotice, BeginReply,
         CommitApprove, CommitConsume, Finalize, Finish, AfterReply, Untouched, connVars
<1> QED
  BY <1>3, <1>5, <1>a, OthersStay DEF Moves, WorkerStep

Delivered(v) == {u \in Workers : outcome[u] = "allow" /\ used[u] # None /\ used[u] = minted[v]}

(* Minting and spending deliver no unit.                                   *)
LEMMA DeliveredSteps ==
  ASSUME AuthorityInv, [Next]_vars, NEW v \in Workers, outcome' = outcome
  PROVE  Delivered(v)' = Delivered(v)
<1>a. /\ ReviewTypeInv /\ PathInv /\ LedgerInv /\ CurrentUnderLock
      /\ minted \in [Workers -> Ids \cup {None}] /\ used \in [Workers -> Ids \cup {None}]
      /\ issued \in Nat
  BY BoundsAssumption
     DEF AuthorityInv, StoreInv, StoreTypeOK, ReviewTypeInv, WatchInv, WorkersTypeOK
<1>1. ASSUME NEW w \in Workers, Mints(w)
      PROVE  Delivered(v)' = Delivered(v)
  <2>1. used' = used /\ minted' = [minted EXCEPT ![w] = issued + 1]
    BY <1>1 DEF Mints, Approve
  <2>2. minted[w] = None
    BY <1>1, <1>a DEF Mints, PathInv, FollowsPath, SetInOrder
  <2>3. \A u \in Workers : used[u] # None => used[u] # issued + 1
    BY <1>a, BoundsAssumption DEF LedgerInv, SpentAsApproved, Ids
  <2> QED
    BY <1>a, <2>1, <2>2, <2>3 DEF Delivered
<1>2. ASSUME NEW w \in Workers, Spends(w)
      PROVE  Delivered(v)' = Delivered(v)
  <2>1. outcome[w] = "none"
    BY <1>2, <1>a DEF Spends, PathInv, FollowsPath, SetInOrder, BeforeReply, BeforeAnswer, Replying
  <2>2. minted' = minted /\ \A u \in Workers : u # w => used'[u] = used[u]
    BY <1>2, <1>a DEF Spends
  <2> QED
    BY <2>1, <2>2 DEF Delivered
<1>3. CASE OnlyKeeps
  BY <1>3 DEF OnlyKeeps, Delivered
<1> QED
  BY <1>1, <1>2, <1>3, <1>a, LedgerSteps

(* The mapped variables are functions of the clients.                      *)
LEMMA MappedFunctions ==
  /\ (\A v \in Workers : Asked'[v] = Asked[v]) => Asked' = Asked
  /\ (\A v \in Workers : Words'[v] = Words[v]) => Words' = Words
  /\ (\A v \in Workers : Credit'[v] = Credit[v]) => Credit' = Credit
  /\ (\A v \in Workers : AnswerSent'[v] = AnswerSent[v]) => AnswerSent' = AnswerSent
  /\ \A w \in Workers :
       /\ (\A v \in Workers \ {w} : Asked'[v] = Asked[v]) => Asked' = [Asked EXCEPT ![w] = Asked'[w]]
       /\ (\A v \in Workers \ {w} : Words'[v] = Words[v]) => Words' = [Words EXCEPT ![w] = Words'[w]]
       /\ (\A v \in Workers \ {w} : Credit'[v] = Credit[v])
            => Credit' = [Credit EXCEPT ![w] = Credit'[w]]
       /\ (\A v \in Workers \ {w} : AnswerSent'[v] = AnswerSent[v])
            => AnswerSent' = [AnswerSent EXCEPT ![w] = AnswerSent'[w]]
<1>1. /\ (\A v \in Workers : Asked'[v] = Asked[v]) => Asked' = Asked
      /\ \A w \in Workers :
           (\A v \in Workers \ {w} : Asked'[v] = Asked[v]) => Asked' = [Asked EXCEPT ![w] = Asked'[w]]
  BY DEF Asked
<1>2. /\ (\A v \in Workers : Words'[v] = Words[v]) => Words' = Words
      /\ \A w \in Workers :
           (\A v \in Workers \ {w} : Words'[v] = Words[v]) => Words' = [Words EXCEPT ![w] = Words'[w]]
  BY DEF Words
<1>3. /\ (\A v \in Workers : Credit'[v] = Credit[v]) => Credit' = Credit
      /\ \A w \in Workers :
           (\A v \in Workers \ {w} : Credit'[v] = Credit[v])
             => Credit' = [Credit EXCEPT ![w] = Credit'[w]]
  BY DEF Credit
<1>4. /\ (\A v \in Workers : AnswerSent'[v] = AnswerSent[v]) => AnswerSent' = AnswerSent
      /\ \A w \in Workers :
           (\A v \in Workers \ {w} : AnswerSent'[v] = AnswerSent[v])
             => AnswerSent' = [AnswerSent EXCEPT ![w] = AnswerSent'[w]]
  BY DEF AnswerSent
<1> QED
  BY <1>1, <1>2, <1>3, <1>4

(* Asking, the human's word and the reply are never the same step.         *)
LEMMA StepsApart ==
  ASSUME ReviewTypeInv, NEW v \in Workers, NEW w \in Workers
  PROVE  /\ ~(Admit(v) /\ HumanAnswers(w)) /\ ~(Admit(v) /\ Send(w)) /\ ~(HumanAnswers(v) /\ Send(w))
         /\ v # w => ~(Admit(v) /\ Admit(w)) /\ ~(HumanAnswers(v) /\ HumanAnswers(w))
                       /\ ~(Send(v) /\ Send(w))
<1>1. pc \in [Workers -> Stages]
  BY DEF ReviewTypeInv, WatchInv, WorkersTypeOK
<1> QED
  BY <1>1 DEF Admit, HumanAnswers, Send, At, Goto

(* What a client asked is not None.                                        *)
LEMMA AskedIs ==
  ASSUME ReviewTypeInv, NEW w \in Workers
  PROVE  /\ Admitted(w) =>
              /\ Asked[w] # None /\ Asked[w].epoch = gen[w]
              /\ Asked[w].key = KeyOf(RequestOf(w)) /\ Asked[w].command = msg[w].command
         /\ ~Admitted(w) => Asked[w] = None
         /\ Asks(w) => /\ KeyOf(RequestOf(w)) \in Keys /\ msg[w].command \in Commands
<1>1. Asks(w) => KeyOf(RequestOf(w)) \in Keys /\ msg[w].command \in Commands
  BY MessagesAssumption
     DEF Asks, ReviewTypeInv, WatchInv, WorkersTypeOK, Message, RequestOf, KeyOf, Keys
<1>2. gen[w] # None => gen[w] \in Nat
  BY DEF ReviewTypeInv, WatchInv, WorkersTypeOK
<1>3. Admitted(w) =>
        [epoch |-> gen[w], key |-> KeyOf(RequestOf(w)), command |-> msg[w].command]
          \in [epoch : Nat, key : Keys, command : Commands]
  BY <1>1, <1>2 DEF Admitted
<1> QED
  BY <1>1, <1>3, NothingAssumption DEF Asked

(* A step that neither asks, speaks nor replies is none of the promise.    *)
LEMMA CreditSteps ==
  ASSUME AuthorityInv, [Next]_vars, NEW v \in Workers, ~HumanAnswers(v),
         Delivered(v)' = Delivered(v)
  PROVE  Credit'[v] = Credit[v]
<1>1. UnitsDelivered(v) = Cardinality(Delivered(v)) /\ UnitsDelivered(v)' = Cardinality(Delivered(v)')
  BY DEF UnitsDelivered, Delivered
<1>2. ApprovesCard(v)' = ApprovesCard(v) /\ (ApprovesCard(v) => AcceptedCard(v)' = AcceptedCard(v))
  BY WordSteps
<1> QED
  BY <1>1, <1>2 DEF Credit

LEMMA OutcomeStays ==
  ASSUME AuthorityInv, [Next]_vars, \A v \in Workers : ~Send(v)
  PROVE  outcome' = outcome
<1>1. ReviewTypeInv /\ ReviewTypeInv'
  BY NextTypes DEF AuthorityInv, StoreInv, ReviewTypeInv
<1>2. \A v \in Workers : outcome'[v] = outcome[v]
  BY <1>1, RepliesAreSent
<1> QED
  BY <1>1, <1>2 DEF ReviewTypeInv, WatchInv, WorkersTypeOK

LEMMA AdmitAsks ==
  ASSUME AuthorityInv, [Next]_vars, NEW w \in Workers, Admit(w), Asks(w)
  PROVE  Promise!Ask(w)
<1>1. ReviewTypeInv /\ ReviewTypeInv' /\ PathInv
  BY NextTypes DEF AuthorityInv, StoreInv, ReviewTypeInv
<1>2. \A v \in Workers : ~HumanAnswers(v) /\ ~Send(v) /\ (v # w => ~Admit(v))
  BY <1>1, StepsApart
<1>3. outcome' = outcome
  BY <1>2, OutcomeStays
<1>4. Words' = Words /\ Credit' = Credit /\ AnswerSent' = AnswerSent
  BY <1>2, <1>3, WordSteps, AnsweredSteps, DeliveredSteps, CreditSteps, MappedFunctions
<1>5. generation' = generation /\ gen'[w] = generation /\ msg'[w] = msg[w] /\ generation # None
  BY <1>1, NothingIsNothing DEF Admit, storeVars, ReviewTypeInv, WatchInv, WorkersTypeOK
<1>6. Asked[w] = None
  BY <1>1 DEF Admit, At, PathInv, FollowsPath, SetInOrder, Unadmitted, Asked, Admitted
<1>7. /\ Asked'[w] = [epoch |-> generation, key |-> KeyOf(RequestOf(w)), command |-> msg[w].command]
      /\ KeyOf(RequestOf(w)) \in Keys /\ msg[w].command \in Commands
  BY <1>1, <1>5, AskedIs DEF Asked, Admitted, Asks, RequestOf
<1>8. Asked' = [Asked EXCEPT ![w] = Asked'[w]]
  BY <1>2, AskedSteps, MappedFunctions
<1> QED
  BY <1>4, <1>5, <1>6, <1>7, <1>8 DEF Promise!Ask

(* The human's answer is one word on the request it answers, or nothing.   *)
LEMMA HumanSpeaks ==
  ASSUME AuthorityInv, [Next]_vars, NEW w \in Workers, HumanAnswers(w)
  PROVE  Promise!SayOnce(w) \/ Promise!ApproveCard(w) \/ UNCHANGED Promise!vars
<1>1. /\ ReviewTypeInv /\ ReviewTypeInv' /\ PathInv /\ WorkersTypeOK /\ WorkersTypeOK'
      /\ pc[w] = "human" /\ generation' = generation
  BY NextTypes
     DEF AuthorityInv, StoreInv, ReviewTypeInv, WatchInv, HumanAnswers, At, storeVars
<1>2. \A v \in Workers : ~Admit(v) /\ ~Send(v) /\ (v # w => ~HumanAnswers(v))
  BY <1>1, StepsApart
<1>3. outcome' = outcome
  BY <1>2, OutcomeStays
<1>4. Asked' = Asked /\ AnswerSent' = AnswerSent
  BY <1>2, AskedSteps, AnsweredSteps, MappedFunctions
<1>5. \A v \in Workers \ {w} : Words'[v] = Words[v] /\ Credit'[v] = Credit[v]
  BY <1>2, <1>3, WordSteps, DeliveredSteps, CreditSteps
<1>6. /\ Words' = [Words EXCEPT ![w] = Words'[w]]
      /\ Credit' = [Credit EXCEPT ![w] = Credit'[w]]
  BY <1>5, MappedFunctions
<1>7. answer[w] = NoAnswer /\ minted[w] = None /\ gen[w] # None
  BY <1>1 DEF PathInv, FollowsPath, SetInOrder, ServesItsKind, BeforeReply, BeforeAnswer, Unadmitted
<1>8. Words[w] = [says |-> "nothing", card |-> None] /\ Credit[w] = 0
  BY <1>7 DEF Words, Word, Credit, ApprovesCard, NoAnswer
<1>9. Words'[w] = Word(w)'
  BY DEF Words
<1>10. answer'[w] \in Answers(msg[w].kind)
  BY <1>1 DEF HumanAnswers, WorkersTypeOK
<1>11. CASE ~Asks(w)
  <2>1. answer'[w].action = "text"
    <3>1. msg[w].kind = "question"
      BY <1>1, <1>11, NothingIsNothing
         DEF PathInv, FollowsPath, ServesItsKind, Asks, ReviewTypeInv, WatchInv, CarriesMessage
    <3> QED
      BY <1>10, <3>1 DEF Answers
  <2>2. ~ApprovesCard(w)' /\ Words'[w] = Words[w]
    BY <1>8, <1>9, <2>1 DEF Word, ApprovesCard
  <2>3. Credit'[w] = Credit[w]
    BY <1>8, <2>2 DEF Credit
  <2> QED
    BY <1>1, <1>4, <1>5, <2>2, <2>3, MappedFunctions DEF Promise!vars
<1>12. CASE Asks(w)
  <2>1. Asked[w] # None
    BY <1>1, <1>7, <1>12, AskedIs DEF Admitted
  <2>2. CASE answer'[w].action = "once"
    <3>1. ~ApprovesCard(w)' /\ Words'[w] = [says |-> "once", card |-> None]
      BY <1>9, <2>2 DEF Word, ApprovesCard
    <3>2. Credit'[w] = Credit[w]
      BY <1>8, <3>1 DEF Credit
    <3>3. Credit' = Credit
      BY <1>5, <3>2, MappedFunctions
    <3> QED
      BY <1>1, <1>4, <1>6, <1>8, <2>1, <3>1, <3>3
         DEF Promise!SayOnce, Promise!Silent, Promise!Once
  <2>3. CASE ApprovesCard(w)'
    <3>1. Words'[w] = [says |-> "card", card |-> AcceptedCard(w)']
      BY <1>9, <2>3 DEF Word, ApprovesCard
    <3>2. AcceptedCard(w)' \in Cards
      BY <1>1, <2>3 DEF ApprovesCard, AcceptedCard, WorkersTypeOK, AnyAnswer
    <3>3. Delivered(w) = {} /\ Delivered(w)' = Delivered(w)
      BY <1>3, <1>7, DeliveredSteps DEF Delivered
    <3>4. UnitsDelivered(w)' = 0
      BY <3>3, FS_EmptySet DEF UnitsDelivered, Delivered
    <3>5. Credit'[w] = AcceptedCard(w)'.budget
      BY <2>3, <3>2, <3>4, CardsAssumption DEF Credit
    <3> QED
      BY <1>1, <1>4, <1>6, <1>8, <2>1, <3>1, <3>2, <3>5
         DEF Promise!ApproveCard, Promise!Silent, Promise!Approving
  <2>4. CASE answer'[w].action # "once" /\ ~ApprovesCard(w)'
    <3>1. Words'[w] = Words[w]
      BY <1>8, <1>9, <2>4 DEF Word
    <3>2. Credit'[w] = Credit[w]
      BY <1>8, <2>4 DEF Credit
    <3> QED
      BY <1>1, <1>4, <1>5, <3>1, <3>2, MappedFunctions DEF Promise!vars
  <2> QED
    BY <2>2, <2>3, <2>4
<1> QED
  BY <1>11, <1>12

(* A reply that is sent is an allow the promise permits, or a refusal, or  *)
(* it answers no request.                                                  *)
LEMMA SendAnswers ==
  ASSUME AuthorityInv, [Next]_vars, NEW w \in Workers, Send(w)
  PROVE  Promise!Allow(w) \/ Promise!Decline(w) \/ UNCHANGED Promise!vars
<1>1. /\ ReviewTypeInv /\ ReviewTypeInv' /\ PathInv /\ LedgerInv /\ WorkersTypeOK
      /\ FollowsPath(w) /\ pc[w] = "send" /\ gen[w] = generation /\ generation' = generation
  BY NextTypes
     DEF AuthorityInv, StoreInv, ReviewTypeInv, WatchInv, Send, At, storeVars, PathInv,
         CurrentUnderLock
<1>2. \A v \in Workers : ~Admit(v) /\ ~HumanAnswers(v) /\ (v # w => ~Send(v))
  BY <1>1, StepsApart
<1>3. /\ UNCHANGED <<msg, gen, minted, used>>
      /\ outcome' = outcome \/ outcome' = [outcome EXCEPT ![w] = reply[w]]
  BY DEF Send, connVars
<1>4. Asked' = Asked /\ Words' = Words
  BY <1>2, AskedSteps, WordSteps, MappedFunctions
<1>5. AnswerSent' = [AnswerSent EXCEPT ![w] = AnswerSent'[w]]
  BY <1>2, AnsweredSteps, MappedFunctions
<1>6. outcome[w] = "none" /\ (Asks(w) => Admitted(w))
  BY <1>1, NothingIsNothing DEF FollowsPath, SetInOrder, Replying, Admitted
<1>7. ASSUME \A v \in Workers : Delivered(v)' = Delivered(v)
      PROVE  Credit' = Credit
  BY <1>2, <1>7, CreditSteps, MappedFunctions
<1>8. used[w] = None \/ reply[w] # "allow" => \A v \in Workers : Delivered(v)' = Delivered(v)
  BY <1>1, <1>3, <1>6 DEF Delivered, WorkersTypeOK
<1>9. CASE outcome' = outcome
  <2>1. AnswerSent' = AnswerSent
    BY <1>3, <1>9 DEF AnswerSent, Asks
  <2>2. Credit' = Credit
    BY <1>7, <1>9, DeliveredSteps
  <2> QED
    BY <1>1, <1>4, <2>1, <2>2 DEF Promise!vars
<1>10. CASE ~Asks(w)
  <2>1. AnswerSent'[w] = AnswerSent[w]
    BY <1>3, <1>10 DEF AnswerSent, Asks
  <2>2. AnswerSent' = AnswerSent
    BY <1>2, <2>1, AnsweredSteps, MappedFunctions
  <2>3. used[w] = None
    BY <1>1, <1>10 DEF LedgerInv, SpentAsApproved
  <2>4. Credit' = Credit
    BY <1>7, <1>8, <2>3
  <2> QED
    BY <1>1, <1>4, <2>2, <2>4 DEF Promise!vars
<1>11. CASE Asks(w) /\ outcome' = [outcome EXCEPT ![w] = reply[w]]
  <2>1. /\ AnswerSent[w] = "none"
        /\ AnswerSent' = [AnswerSent EXCEPT ![w] = reply[w]]
        /\ reply[w] \in {"allow", "deny", "abstain", "error"}
    <3>1. AnswerSent[w] = "none" /\ reply[w] \in {"allow", "deny", "abstain", "error"}
      BY <1>1, <1>6, <1>11 DEF AnswerSent, FollowsPath, AllowHasACause, Replying
    <3>2. AnswerSent'[w] = reply[w]
      BY <1>1, <1>3, <1>11 DEF AnswerSent, Asks, WorkersTypeOK
    <3> QED
      BY <1>5, <3>1, <3>2
  <2>2. Promise!Current(w)
    BY <1>1, <1>6, <1>11, <2>1, AskedIs DEF Promise!Current
  <2>3. CASE reply[w] # "allow"
    <3>1. Credit' = Credit
      BY <1>7, <1>8, <2>3
    <3> QED
      BY <1>1, <1>4, <2>1, <2>2, <2>3, <3>1 DEF Promise!Decline
  <2>4. CASE reply[w] = "allow" /\ used[w] = None
    <3>1. Credit' = Credit
      BY <1>7, <1>8, <2>4
    <3>2. \/ TierOf[Asked[w].command] = "T1"
          \/ Words[w] = [says |-> "once", card |-> None] /\ TierOf[Asked[w].command] = "T2"
      BY <1>1, <1>6, <1>11, <2>4, AskedIs
         DEF FollowsPath, AllowHasACause, Replying, Tier, Words, Word
    <3> QED
      BY <1>1, <1>4, <2>1, <2>2, <2>4, <3>1, <3>2 DEF Promise!Allow, Promise!Once
  <2>5. CASE reply[w] = "allow" /\ used[w] # None
    <3>1. PICK d \in Workers : minted[d] = used[w]
      BY <1>1, <2>5, BoundsAssumption DEF LedgerInv, SpentAsApproved, MintedOnce, WorkersTypeOK, Ids
    <3>2. /\ used[w] \in 1..issued /\ used[w] \in Ids
          /\ minted[d] # None /\ gen[d] = generation /\ pending[d] # None
          /\ terms[used[w]].card = pending[d]
          /\ KeyOf(RequestOf(d)) = KeyOf(RequestOf(w)) /\ Matches(pending[d], RequestOf(w))
      BY <1>1, <2>5, <3>1, BoundsAssumption
         DEF LedgerInv, SpentAsApproved, MintedOnce, WorkersTypeOK, Ids
    <3>3. /\ ApprovesCard(d) /\ AcceptedCard(d) = pending[d] /\ Admitted(d)
          /\ pending[d] \in Cards
      BY <1>1, <3>2
         DEF PathInv, FollowsPath, PendingIsAccepted, ApprovesCard, Admitted, WorkersTypeOK
    <3>4. Promise!Covers(d, w)
      <4>1. Words[d] = [says |-> "card", card |-> pending[d]]
        BY <3>3 DEF Words, Word, ApprovesCard
      <4> QED
        BY <1>1, <1>6, <1>11, <3>2, <3>3, <4>1, AskedIs
           DEF Promise!Covers, Matches, Grantable, RequestOf
    <3>5. Cardinality(Delivered(d)) \in Nat /\ Cardinality(Delivered(d)) < pending[d].budget
      <4>1. w \notin Delivered(d) /\ Delivered(d) \cup {w} \subseteq Spenders(used[w])
        BY <1>6, <3>1 DEF Delivered, Spenders
      <4>2. IsFiniteSet(Spenders(used[w])) /\ IsFiniteSet(Delivered(d))
        BY WorkersAssumption, FS_Subset DEF Delivered, Spenders
      <4>3. /\ Cardinality(Delivered(d) \cup {w}) = Cardinality(Delivered(d)) + 1
            /\ Cardinality(Delivered(d) \cup {w}) <= Cardinality(Spenders(used[w]))
            /\ Cardinality(Delivered(d)) \in Nat /\ Cardinality(Spenders(used[w])) \in Nat
        BY <4>1, <4>2, FS_Subset, FS_AddElement, FS_CardinalityType
      <4>4. /\ Cardinality(Spenders(used[w])) <= spent[used[w]]
            /\ spent[used[w]] <= pending[d].budget /\ spent[used[w]] \in Nat
        BY <1>1, <3>2
           DEF LedgerInv, SpendersAreCounted, AuthorityInv, StoreInv, StoreTypeOK, BudgetNeverExceeded
      <4> QED
        BY <3>3, <4>3, <4>4, CardsAssumption
    <3>6. Credit[d] = pending[d].budget - Cardinality(Delivered(d))
      BY <3>3 DEF Credit, UnitsDelivered, Delivered
    <3>7. Delivered(d)' = Delivered(d) \cup {w}
      BY <1>1, <1>3, <1>11, <2>5, <3>1 DEF Delivered, WorkersTypeOK
    <3>8. Cardinality(Delivered(d) \cup {w}) = Cardinality(Delivered(d)) + 1
      <4>1. IsFiniteSet(Delivered(d)) /\ w \notin Delivered(d)
        BY <1>6, WorkersAssumption, FS_Subset DEF Delivered
      <4> QED
        BY <4>1, FS_AddElement
    <3>9. Credit'[d] = Credit[d] - 1
      <4>1. ApprovesCard(d)' /\ AcceptedCard(d)' = pending[d]
        BY <1>2, <3>3, WordSteps
      <4>2. Credit'[d] = pending[d].budget - Cardinality(Delivered(d)')
        BY <4>1 DEF Credit, UnitsDelivered, Delivered
      <4> QED
        BY <3>3, <3>5, <3>6, <3>7, <3>8, <4>2, CardsAssumption
    <3>10. \A v \in Workers \ {d} : Credit'[v] = Credit[v]
      <4>1. \A v \in Workers \ {d} : minted[v] # used[w]
        BY <1>1, <2>5, <3>1 DEF LedgerInv, MintedOnce
      <4>2. \A v \in Workers \ {d} : Delivered(v)' = Delivered(v)
        BY <1>1, <1>3, <1>11, <4>1 DEF Delivered, WorkersTypeOK
      <4> QED
        BY <1>2, <4>2, CreditSteps
    <3>11. Credit' = [Credit EXCEPT ![d] = @ - 1]
      BY <3>9, <3>10, MappedFunctions
    <3>12. Credit[d] > 0
      BY <3>3, <3>5, <3>6, CardsAssumption
    <3> QED
      BY <1>1, <1>4, <2>1, <2>2, <2>5, <3>4, <3>11, <3>12 DEF Promise!Allow
  <2> QED
    BY <2>3, <2>4, <2>5
<1> QED
  BY <1>3, <1>9, <1>10, <1>11

(* Every step of the watcher is a step the promise allows.                 *)
LEMMA PromiseStep == AuthorityInv /\ [Next]_vars => [Promise!Next]_(Promise!vars)
<1> SUFFICES ASSUME AuthorityInv, [Next]_vars
             PROVE  Promise!Next \/ UNCHANGED Promise!vars
  OBVIOUS
<1>1. ASSUME NEW w \in Workers, Admit(w) /\ Asks(w)
      PROVE  Promise!Next
  BY <1>1, AdmitAsks DEF Promise!Next
<1>2. ASSUME NEW w \in Workers, HumanAnswers(w)
      PROVE  Promise!Next \/ UNCHANGED Promise!vars
  BY <1>2, HumanSpeaks DEF Promise!Next
<1>3. ASSUME NEW w \in Workers, Send(w)
      PROVE  Promise!Next \/ UNCHANGED Promise!vars
  BY <1>3, SendAnswers DEF Promise!Next
<1>4. CASE \A w \in Workers : ~(Admit(w) /\ Asks(w)) /\ ~HumanAnswers(w) /\ ~Send(w)
  <2>1. outcome' = outcome
    BY <1>4, OutcomeStays
  <2>2. Asked' = Asked /\ Words' = Words /\ AnswerSent' = AnswerSent /\ Credit' = Credit
    BY <1>4, <2>1, AskedSteps, WordSteps, AnsweredSteps, DeliveredSteps, CreditSteps,
       MappedFunctions
  <2>3. generation' = generation \/ generation' = generation + 1
    BY GenerationMovesByRevoke DEF AuthorityInv, StoreInv, ReviewTypeInv, Revoke
  <2> QED
    BY <2>2, <2>3 DEF Promise!Next, Promise!RevokeAll, Promise!vars
<1> QED
  BY <1>1, <1>2, <1>3, <1>4

LEMMA PromiseStarts == Init => Promise!Init
<1> SUFFICES ASSUME Init
             PROVE  Promise!Init
  OBVIOUS
<1>1. generation = 0
  BY DEF Init, StoreInit
<1>2. Asked = [c \in Workers |-> None] /\ AnswerSent = [c \in Workers |-> "none"]
  BY DEF Init, Asked, Admitted, Asks, AnswerSent
<1>3. \A w \in Workers : answer[w] = NoAnswer
  BY DEF Init
<1>4. Words = [c \in Workers |-> [says |-> "nothing", card |-> None]]
  BY <1>3 DEF Words, Word, ApprovesCard, NoAnswer
<1>5. Credit = [c \in Workers |-> 0]
  BY <1>3 DEF Credit, ApprovesCard, NoAnswer
<1> QED
  BY <1>1, <1>2, <1>4, <1>5 DEF Promise!Init, Promise!Silent

(* The watcher keeps the promise of Authority: an allow that leaves it is  *)
(* T1, or the human's own word on that request, or a unit of a card the    *)
(* human approved since the last revoke.                                   *)
THEOREM WatcherKeepsPromise == Spec => KeepsPromise
<1>1. Spec => Promise!Init /\ [][Promise!Next]_(Promise!vars)
  BY PromiseStarts, PromiseStep, AuthorityIsTraced, PTL DEF Spec
<1> QED
  BY <1>1 DEF KeepsPromise, Promise!Spec

-----------------------------------------------------------------------------
(* The watcher with the interface is the watcher.                          *)

Cast == scenario \in Scenarios

LEMMA CastIsDeclared == Cast => scenario.workers \subseteq Workers
BY KeyboardAssumption DEF Cast

(* The interface never changes what belongs to the watcher but by its      *)
(* three calls.                                                            *)
LEMMA LoopIsWatcher ==
  ASSUME Start \/ RunCall \/ Refresh \/ Press \/ End \/ BeginRevoke \/ RevokeStore \/ EndRevoke
           \/ \E k \in scenario.keyboard : Type(k)
  PROVE  (DeskRevokes \/ CloseByOwner \/ UNCHANGED vars) /\ UNCHANGED scenario
<1>1. CASE Press
  BY <1>1 DEF Press, PressF2, PressF3, PressTab, PressPage, PressEscape, PressCtrlR, PressCtrlC,
     PressEnter
<1>2. CASE Start \/ RunCall \/ Refresh \/ End \/ BeginRevoke \/ RevokeStore \/ EndRevoke
  BY <1>2 DEF Start, RunCall, Refresh, End, BeginRevoke, RevokeStore, EndRevoke
<1>3. CASE \E k \in scenario.keyboard : Type(k)
  BY <1>3 DEF Type
<1> QED
  BY <1>1, <1>2, <1>3

LEMMA WorkerIsWatcher ==
  ASSUME NEW w, DeskWorker(w)
  PROVE  /\ HumanAnswers(w) \/ DeskCancels(w) \/ DeskFails(w) \/ UNCHANGED vars
         /\ UNCHANGED scenario
BY DEF DeskWorker, HandOver, LeaveEarly, FailEarly, ReadResult, StopWaiting, deskVars

LEMMA ElsewhereIsWatcher ==
  ASSUME Cast, Elsewhere
  PROVE  (Next \/ UNCHANGED vars) /\ UNCHANGED deskVars
<1>1. ASSUME NEW w \in scenario.workers, Accept(w) \/ WorkerElsewhere(w) \/ Expire(w)
      PROVE  Next
  BY <1>1, CastIsDeclared DEF Next, WorkerElsewhere, WorkerStep
<1>2. CloseByOwner \/ CloseRevokes \/ CloseServer => Next
  BY DEF Next
<1> QED
  BY <1>1, <1>2 DEF Elsewhere, OwnerTick, Quiet

LEMMA DeskStepIsWatchers == Cast /\ [DeskNext]_allVars => Cast' /\ [Next]_vars
<1> SUFFICES ASSUME Cast, [DeskNext]_allVars
             PROVE  UNCHANGED scenario /\ (Next \/ UNCHANGED vars)
  BY DEF Cast
<1>1. CASE Elsewhere
  BY <1>1, ElsewhereIsWatcher DEF deskVars
<1>2. ASSUME NEW w \in scenario.workers, DeskWorker(w)
      PROVE  UNCHANGED scenario /\ (Next \/ UNCHANGED vars)
  BY <1>2, WorkerIsWatcher, CastIsDeclared DEF Next
<1>3. CASE Start \/ RunCall \/ Refresh \/ Press \/ End \/ BeginRevoke \/ RevokeStore \/ EndRevoke
             \/ \E k \in scenario.keyboard : Type(k)
  BY <1>3, LoopIsWatcher DEF Next
<1>4. CASE UNCHANGED allVars
  BY <1>4 DEF allVars, deskVars
<1> QED
  BY <1>1, <1>2, <1>3, <1>4 DEF DeskNext

(* Whatever the interface, its event loop and its keys do, the watcher     *)
(* stays the watcher of PermissionReview.                                  *)
THEOREM DeskIsWatcher == DeskSpec => ImplementsWatcher
<1>1. DeskInit => Init /\ Cast
  BY DEF DeskInit, Cast
<1> QED
  BY <1>1, DeskStepIsWatchers, PTL DEF DeskSpec, Spec, ImplementsWatcher

(* So what is proved of the watcher holds of the watcher with its          *)
(* interface: budgets and caps are kept, no reply crosses a revoke, a      *)
(* closed store stays empty, every live grant is one its human saw, its    *)
(* client was told of and no revoke ended, and every answer is one that    *)
(* Authority permits.                                                      *)
THEOREM DeskKeepsAuthority ==
  DeskSpec => /\ []StoreSafe /\ NoReplyAcrossRevoke /\ []ClosedStoreIsEmpty
              /\ []OnlyDeliveredGrants /\ []GrantIsWhatTheHumanSaw /\ []NothingOutlivesRevoke
              /\ KeepsPromise
BY DeskIsWatcher, WatcherKeepsBudgets, RepliesAreCurrent, ClosedMeansEmpty, GrantsAreDelivered,
   HumanSawTheGrant, RevokeIsFinal, WatcherKeepsPromise, PTL
   DEF ImplementsWatcher

-----------------------------------------------------------------------------
(* Only a key typed at the form on display, in view, answers.              *)

(* Every key that waits was typed at what is on display, and an Enter      *)
(* typed out of view waits behind no Tab, at a scrolled form.              *)
UnseenIsHarmless ==
  /\ keys \in Seq(KeyPress)
  /\ \A i \in DOMAIN keys :
       /\ keys[i].here
       /\ ~keys[i].inView => scrolled /\ \A j \in 1..i : keys[j].key # "tab"

SeenInv == UnseenIsHarmless /\ DOMAIN result = Workers

LEMMA SeenStarts == DeskInit => SeenInv
BY DEF DeskInit, SeenInv, UnseenIsHarmless

LEMMA TailKeepsUnseen ==
  ASSUME UnseenIsHarmless, keys # <<>>, keys' = Tail(keys),
         scrolled => scrolled' \/ Head(keys).key = "tab"
  PROVE  UnseenIsHarmless'
<1>1. keys' \in Seq(KeyPress) /\ Len(keys) >= 1 /\ DOMAIN keys = 1..Len(keys)
  BY DEF UnseenIsHarmless
<1>2. DOMAIN keys' = 1..(Len(keys) - 1) /\ \A i \in 1..(Len(keys) - 1) : keys'[i] = keys[i + 1]
  BY <1>1
<1>3. ASSUME NEW i \in DOMAIN keys'
      PROVE  keys'[i].here
  BY <1>1, <1>2 DEF UnseenIsHarmless
<1>4. ASSUME NEW i \in DOMAIN keys', ~keys'[i].inView
      PROVE  scrolled' /\ \A j \in 1..i : keys'[j].key # "tab"
  <2>1. i \in 1..(Len(keys) - 1) /\ i + 1 \in DOMAIN keys /\ ~keys[i + 1].inView
    BY <1>1, <1>2, <1>4
  <2>2. scrolled /\ \A j \in 1..(i + 1) : keys[j].key # "tab"
    BY <2>1 DEF UnseenIsHarmless
  <2>3. Head(keys).key # "tab"
    BY <1>1, <2>1, <2>2
  <2>4. ASSUME NEW j \in 1..i
        PROVE  keys'[j].key # "tab"
    BY <1>1, <1>2, <2>1, <2>2
  <2> QED
    BY <2>2, <2>3, <2>4
<1> QED
  BY <1>1, <1>3, <1>4 DEF UnseenIsHarmless

(* What is drained leaves no key behind.                                   *)
LEMMA NothingDrained == ASSUME NEW rest PROVE TypedElsewhere(Drained(rest)) = <<>>
BY DEF TypedElsewhere, Drained

LEMMA NoKeysNoneUnseen == keys' = <<>> => UnseenIsHarmless'
BY DEF UnseenIsHarmless

LEMMA TypedIsMarked ==
  ASSUME UnseenIsHarmless, NEW k \in AllKeys, Type(k)
  PROVE  UnseenIsHarmless'
<1> DEFINE unseen == k = "enter" /\ scrolled /\ \A i \in DOMAIN keys : keys[i].key # "tab"
           press == [key |-> k, here |-> TRUE, inView |-> ~unseen]
<1>1. keys' = Append(keys, press) /\ scrolled' = scrolled /\ press \in KeyPress
  BY DEF Type, KeyPress
<1>2. keys \in Seq(KeyPress) /\ DOMAIN keys = 1..Len(keys)
  BY DEF UnseenIsHarmless
<1>3. /\ keys' \in Seq(KeyPress) /\ DOMAIN keys' = 1..(Len(keys) + 1)
      /\ \A i \in DOMAIN keys : keys'[i] = keys[i]
      /\ keys'[Len(keys) + 1] = press
  <2> HIDE DEF press
  <2> QED
    BY <1>1, <1>2
<1>5. ASSUME NEW i \in DOMAIN keys'
      PROVE  keys'[i].here
  <2>1. press.here
    OBVIOUS
  <2> HIDE DEF press
  <2> QED
    BY <1>2, <1>3, <2>1 DEF UnseenIsHarmless
<1>4. ASSUME NEW i \in DOMAIN keys', ~keys'[i].inView
      PROVE  scrolled' /\ \A j \in 1..i : keys'[j].key # "tab"
  <2>1. CASE i \in DOMAIN keys
    BY <1>1, <1>2, <1>3, <1>4, <2>1 DEF UnseenIsHarmless
  <2>2. CASE i = Len(keys) + 1
    <3>1. ~press.inView /\ keys'[i] = press
      <4> HIDE DEF press
      <4> QED
        BY <1>3, <1>4, <2>2
    <3>2. press.inView = ~unseen /\ press.key = k
      OBVIOUS
    <3>3. unseen
      BY <3>1, <3>2, Zenon
    <3>4. keys'[i].key = "enter"
      BY <3>1, <3>2, <3>3, Zenon
    <3>5. scrolled /\ \A j \in DOMAIN keys : keys'[j].key # "tab"
      <4> HIDE DEF press
      <4> QED
        BY <1>3, <3>3
    <3> HIDE DEF press, unseen
    <3> QED
      BY <1>1, <1>2, <2>2, <3>4, <3>5
  <2> QED
    BY <1>2, <1>3, <1>4, <2>1, <2>2
<1> QED
  BY <1>3, <1>4, <1>5 DEF UnseenIsHarmless

(* What a step may do to keys and results.                                 *)
Marked == UnseenIsHarmless' /\ DOMAIN result' = Workers
Answered(w) ==
  result'[w] # result[w] =>
    /\ Undecided(w)
    /\ result'[w] # NoAnswer =>
         active = w /\ ReviewActive(w) /\ Head(keys).here /\ Head(keys).inView

(* Ending tickets answers nothing.                                         *)
LEMMA CancelAnswersNothing ==
  ASSUME SeenInv, NEW ws, NEW rest, Cancel(ws, rest),
         rest = keys \/ (NextKey("escape") /\ rest = Tail(keys))
  PROVE  Marked /\ \A w \in Workers : Answered(w)
<1>1. DOMAIN result' = Workers /\ \A w \in Workers : Answered(w)
  BY DEF Cancel, Answered, Undecided
<1>2. CASE BackToInbox(rest)
  BY <1>1, <1>2, NoKeysNoneUnseen, NothingDrained DEF BackToInbox, Marked
<1>3. CASE SameForm(rest)
  <2>1. UnseenIsHarmless /\ keys' = rest /\ scrolled' = scrolled
    BY <1>3 DEF SameForm, SeenInv
  <2>2. ASSUME rest = keys
        PROVE  UnseenIsHarmless'
    BY <2>1, <2>2 DEF UnseenIsHarmless
  <2>3. ASSUME NextKey("escape"), rest = Tail(keys)
        PROVE  UnseenIsHarmless'
    BY <2>1, <2>3, TailKeepsUnseen DEF NextKey
  <2> QED
    BY <1>1, <2>2, <2>3 DEF Marked
<1> QED
  BY <1>1, <1>2, <1>3 DEF Cancel

(* A step that leaves the form, or draws a fresh one.                      *)
LEMMA FormMarks ==
  ASSUME SeenInv, SameForm(keys) \/ keys' = <<>>, DOMAIN result' = Workers
  PROVE  Marked
<1>1. SameForm(keys) => UnseenIsHarmless'
  BY DEF SeenInv, UnseenIsHarmless, SameForm
<1> QED
  BY <1>1, NoKeysNoneUnseen DEF Marked

(* A key is read and does not answer.                                      *)
LEMMA ReadMarks ==
  ASSUME SeenInv, NEW k, NextKey(k), DOMAIN result' = Workers,
         \/ keys' = <<>>
         \/ keys' = Tail(keys) /\ (scrolled => scrolled' \/ k = "tab")
  PROVE  Marked
BY TailKeepsUnseen, NoKeysNoneUnseen DEF SeenInv, Marked, NextKey

(* No step but a key answers, and none of them does.                       *)
LEMMA StepMarks ==
  ASSUME SeenInv, Cast,
         Elsewhere \/ (\E w \in scenario.workers : DeskWorker(w)) \/ Start \/ RunCall \/ Refresh
           \/ End \/ BeginRevoke \/ RevokeStore \/ EndRevoke \/ UNCHANGED allVars
  PROVE  Marked /\ \A w \in Workers : Answered(w)
<1>1. ASSUME UNCHANGED <<keys, scrolled, result>>
      PROVE  Marked /\ \A w \in Workers : Answered(w)
  BY <1>1 DEF SeenInv, UnseenIsHarmless, Marked, Answered
<1>2. CASE Elsewhere \/ (\E w \in scenario.workers : DeskWorker(w)) \/ Start \/ RevokeStore
             \/ EndRevoke \/ UNCHANGED allVars
  BY <1>1, <1>2 DEF Elsewhere, DeskWorker, HandOver, LeaveEarly, FailEarly, ReadResult,
     StopWaiting, Start, RevokeStore, EndRevoke, allVars, deskVars, formVars, ticketVars
<1>3. CASE RunCall
  <2> DEFINE v == Head(calls)[2]
  <2>1. CASE Cancel({v}, keys)
    BY <2>1, CancelAnswersNothing
  <2>2. CASE /\ UNCHANGED formVars
             /\ \/ UNCHANGED result
                \/ result' = [result EXCEPT ![v] = IF @ = Unset THEN NoAnswer ELSE @]
    <3>1. Marked
      BY <2>2 DEF SeenInv, UnseenIsHarmless, Marked, formVars
    <3>2. ASSUME NEW w \in Workers
          PROVE  Answered(w)
      BY <2>2 DEF Answered, Undecided, SeenInv
    <3> QED
      BY <3>1, <3>2
  <2> QED
    BY <1>3, <2>1, <2>2 DEF RunCall
<1>4. CASE Refresh \/ BeginRevoke
  BY <1>4, CancelAnswersNothing DEF Refresh, BeginRevoke
<1>5. CASE End
  BY <1>5, NoKeysNoneUnseen DEF End, Marked, Answered, Undecided
<1> QED
  BY <1>2, <1>3, <1>4, <1>5

(* An Enter that answers was typed at the form on display, in view.        *)
LEMMA EnterWasSeen ==
  ASSUME SeenInv, NextKey("enter"), ~scrolled
  PROVE  Head(keys).here /\ Head(keys).inView
<1>1. keys \in Seq(KeyPress) /\ keys # <<>>
  BY DEF SeenInv, UnseenIsHarmless, NextKey
<1>2. 1 \in DOMAIN keys /\ Head(keys) = keys[1]
  BY <1>1
<1>3. keys[1].here /\ (~keys[1].inView => scrolled)
  BY <1>2 DEF SeenInv, UnseenIsHarmless
<1> QED
  BY <1>2, <1>3, Zenon

LEMMA EnterMarks ==
  ASSUME SeenInv, PressEnter
  PROVE  Marked /\ \A w \in Workers : Answered(w)
<1> DEFINE b == Buttons(active)[focus]
           current == active # None /\ Undecided(active) /\ ReviewActive(active)
<1>1. NextKey("enter")
  BY DEF PressEnter
<1>2. CASE UNCHANGED result
  <2>1. keys' = <<>> \/ (keys' = Tail(keys) /\ scrolled' = scrolled)
    BY <1>2, NothingDrained DEF PressEnter, SameForm, BackToInbox, Form, Drained
  <2> QED
    BY <1>1, <1>2, <2>1, ReadMarks DEF Answered, SeenInv
<1>3. CASE /\ current /\ ~scrolled
           /\ \E a : result' = [result EXCEPT ![active] = a]
           /\ BackToInbox(Tail(keys))
  <2>1. Marked
    BY <1>3, NoKeysNoneUnseen, NothingDrained DEF BackToInbox, Marked, SeenInv
  <2>2. ASSUME NEW w \in Workers, result'[w] # result[w]
        PROVE  active = w /\ Undecided(w) /\ ReviewActive(w)
    BY <1>3, <2>2 DEF SeenInv
  <2>3. Head(keys).here /\ Head(keys).inView
    BY <1>1, <1>3, EnterWasSeen
  <2> QED
    BY <2>1, <2>2, <2>3 DEF Answered
<1>4. UNCHANGED result \/ (current /\ ~scrolled /\ BackToInbox(Tail(keys))
                            /\ \E a : result' = [result EXCEPT ![active] = a])
  BY DEF PressEnter
<1> QED
  BY <1>2, <1>3, <1>4

LEMMA KeyMarks ==
  ASSUME SeenInv, Press
  PROVE  Marked /\ \A w \in Workers : Answered(w)
<1>1. CASE PressF2
  <2>1. /\ NextKey("f2") /\ DOMAIN result' = Workers
        /\ keys' = <<>> \/ (keys' = Tail(keys) /\ scrolled' = scrolled)
    BY <1>1, NothingDrained DEF PressF2, SameForm, Form, SeenInv
  <2>2. \A w \in Workers : Answered(w)
    BY <1>1 DEF PressF2, Answered, Undecided
  <2> QED
    BY <2>1, <2>2, ReadMarks
<1>2. CASE PressF3 \/ PressTab \/ PressPage \/ PressCtrlR \/ PressCtrlC
  <2>1. UNCHANGED result
    BY <1>2 DEF PressF3, PressTab, PressPage, PressCtrlR, PressCtrlC, ticketVars
  <2>2. \A w \in Workers : Answered(w)
    BY <2>1 DEF Answered
  <2>3. PICK k : /\ NextKey(k)
                 /\ \/ keys' = <<>>
                    \/ keys' = Tail(keys) /\ (scrolled => scrolled' \/ k = "tab")
    BY <1>2, NothingDrained DEF PressF3, PressTab, PressPage, PressCtrlR, PressCtrlC, SameForm, Form
  <2> QED
    BY <2>1, <2>2, <2>3, ReadMarks DEF SeenInv
<1>3. CASE PressEscape
  BY <1>3, CancelAnswersNothing DEF PressEscape
<1>4. CASE PressEnter
  BY <1>4, EnterMarks
<1> QED
  BY <1>1, <1>2, <1>3, <1>4 DEF Press

LEMMA NextMarks ==
  ASSUME SeenInv, Cast, [DeskNext]_allVars
  PROVE  SeenInv' /\ \A w \in Workers : Answered(w)
<1>1. ASSUME NEW k \in scenario.keyboard, Type(k)
      PROVE  Marked /\ \A w \in Workers : Answered(w)
  <2>1. k \in AllKeys
    BY KeyboardAssumption DEF Cast
  <2> QED
    BY <1>1, <2>1, TypedIsMarked DEF SeenInv, Marked, Answered, Type, ticketVars
<1>2. Marked /\ \A w \in Workers : Answered(w)
  BY <1>1, StepMarks, KeyMarks DEF DeskNext
<1> QED
  BY <1>2 DEF Marked, SeenInv

(* Whatever is typed ahead, cancelled, revoked or drawn anew meanwhile,    *)
(* only a key that was typed at the form on display answers a request.     *)
THEOREM OnlySeenKeysAnswer == DeskSpec => AnswerWasSeen
<1>1. DeskInit => Cast /\ SeenInv
  BY SeenStarts DEF DeskInit, Cast
<1>2. Cast /\ SeenInv /\ [DeskNext]_allVars => Cast' /\ SeenInv'
  BY DeskStepIsWatchers, NextMarks
<1>3. Cast /\ SeenInv /\ [DeskNext]_allVars =>
        [\A w \in Workers :
           result'[w] # result[w] =>
             /\ Undecided(w)
             /\ result'[w] # NoAnswer =>
                  active = w /\ ReviewActive(w) /\ Head(keys).here /\ Head(keys).inView]_allVars
  BY NextMarks DEF Answered
<1> QED
  BY <1>1, <1>2, <1>3, PTL DEF DeskSpec, AnswerWasSeen

-----------------------------------------------------------------------------
(* Sequences of tickets.                                                   *)

(* A set of numbers that is not empty has a least one.                     *)
LEMMA LeastNumber ==
  ASSUME NEW S, S \subseteq Nat, S # {}
  PROVE  \E n \in S : \A m \in S : n <= m
<1> DEFINE R == {ss \in Nat \X Nat : ss[1] < ss[2]}
<1>1. IsWellFoundedOn(R, Nat)
  BY NatLessThanWellFounded DEF OpToRel
<1>2. PICK n \in S : \A m \in S : ~(<<m, n>> \in R)
  <2> HIDE DEF R
  <2> QED
    BY <1>1, WFMin
<1>3. ASSUME NEW m \in S
      PROVE  n <= m
  <2>1. n \in Nat /\ m \in Nat /\ ~(<<m, n>> \in R)
    BY <1>2
  <2> QED
    BY <2>1
<1> QED
  BY <1>3

LEMMA ToSetAppend ==
  ASSUME NEW S, NEW s \in Seq(S), NEW x \in S
  PROVE  ToSet(Append(s, x)) = ToSet(s) \cup {x}
<1>1. /\ DOMAIN s = 1..Len(s) /\ Len(s) \in Nat
      /\ DOMAIN Append(s, x) = 1..(Len(s) + 1)
      /\ \A k \in 1..Len(s) : Append(s, x)[k] = s[k]
      /\ Append(s, x)[Len(s) + 1] = x
  BY AppendProperties
<1>2. 1..(Len(s) + 1) = 1..Len(s) \cup {Len(s) + 1}
  BY <1>1
<1> HIDE DEF ToSet
<1>3. DOMAIN Append(s, x) = DOMAIN s \cup {Len(s) + 1}
  BY <1>1, <1>2
<1> QED
  BY <1>1, <1>3 DEF ToSet

LEMMA ToSetTail ==
  ASSUME NEW S, NEW s \in Seq(S), s # <<>>
  PROVE  /\ Tail(s) \in Seq(S) /\ Head(s) \in ToSet(s)
         /\ ToSet(s) = {Head(s)} \cup ToSet(Tail(s))
<1>1. /\ Tail(s) \in Seq(S) /\ Len(s) \in Nat \ {0} /\ Head(s) = s[1]
      /\ DOMAIN s = 1..Len(s) /\ DOMAIN Tail(s) = 1..(Len(s) - 1)
      /\ \A k \in 1..(Len(s) - 1) : Tail(s)[k] = s[k + 1]
  OBVIOUS
<1>2. ASSUME NEW k \in DOMAIN s
      PROVE  s[k] \in {Head(s)} \cup ToSet(Tail(s))
  <2>1. CASE k = 1
    BY <1>1, <2>1
  <2>2. CASE k # 1
    <3>1. k - 1 \in DOMAIN Tail(s) /\ Tail(s)[k - 1] = s[k]
      BY <1>1, <2>2
    <3> QED
      BY <3>1 DEF ToSet
  <2> QED
    BY <2>1, <2>2
<1>3. ASSUME NEW k \in DOMAIN Tail(s)
      PROVE  Tail(s)[k] \in ToSet(s)
  <2>1. k + 1 \in DOMAIN s /\ Tail(s)[k] = s[k + 1]
    BY <1>1
  <2> QED
    BY <2>1 DEF ToSet
<1>4. 1 \in DOMAIN s
  BY <1>1
<1> QED
  BY <1>1, <1>2, <1>3, <1>4 DEF ToSet

(* A sequence without its i-th entry: what stands before it and after it.  *)
LEMMA ToSetSplit ==
  ASSUME NEW S, NEW s \in Seq(S), NEW i \in DOMAIN s
  PROVE  /\ SubSeq(s, i + 1, Len(s)) \in Seq(S)
         /\ ToSet(s) = ToSet(SubSeq(s, 1, i - 1)) \cup {s[i]} \cup ToSet(SubSeq(s, i + 1, Len(s)))
<1> DEFINE l == SubSeq(s, 1, i - 1)
           r == SubSeq(s, i + 1, Len(s))
<1>1. Len(s) \in Nat /\ DOMAIN s = 1..Len(s) /\ i \in 1..Len(s)
  OBVIOUS
<1>2. /\ l \in Seq(S) /\ DOMAIN l = 1..(i - 1)
      /\ \A k \in 1..(i - 1) : l[k] = s[k]
  BY <1>1, SubSeqProperties
<1>3. /\ r \in Seq(S) /\ DOMAIN r = 1..(Len(s) - i)
      /\ \A k \in 1..(Len(s) - i) : r[k] = s[i + k]
  BY <1>1, SubSeqProperties
<1> HIDE DEF l, r
<1>4. ASSUME NEW k \in DOMAIN s
      PROVE  s[k] \in ToSet(l) \cup {s[i]} \cup ToSet(r)
  <2>1. CASE k \in 1..(i - 1)
    BY <1>2, <2>1 DEF ToSet
  <2>2. CASE k = i
    BY <2>2
  <2>3. CASE k - i \in 1..(Len(s) - i)
    <3> DEFINE j == k - i
    <3>a. j \in 1..(Len(s) - i) /\ i + j = k
      BY <1>1, <2>3
    <3> HIDE DEF j
    <3>1. r[j] = s[k] /\ j \in DOMAIN r
      BY <1>3, <3>a
    <3> QED
      BY <3>1 DEF ToSet
  <2> QED
    BY <1>1, <2>1, <2>2, <2>3
<1>5. ASSUME NEW k \in DOMAIN l
      PROVE  l[k] \in ToSet(s)
  <2>1. k \in DOMAIN s
    BY <1>1, <1>2
  <2> QED
    BY <1>2, <2>1 DEF ToSet
<1>6. ASSUME NEW k \in DOMAIN r
      PROVE  r[k] \in ToSet(s)
  <2>1. i + k \in DOMAIN s
    BY <1>1, <1>3
  <2> QED
    BY <1>3, <2>1 DEF ToSet
<1> QED
  BY <1>3, <1>4, <1>5, <1>6 DEF ToSet, l, r

(* _cancel takes the tickets of ws from the queue, and no other.           *)
LEMMA WithoutLeavesOthers ==
  ASSUME NEW S, NEW s \in Seq(S), NEW ws
  PROVE  Without(s, ws) \in Seq(S) /\ ToSet(Without(s, ws)) = ToSet(s) \ ws
<1> DEFINE Rule(f, n) ==
             f = [i \in 0..n |-> IF i = 0 THEN <<>>
                                 ELSE IF s[i] \in ws THEN f[i - 1] ELSE Append(f[i - 1], s[i])]
<1>1. Len(s) \in Nat /\ DOMAIN s = 1..Len(s) /\ \A i \in 1..Len(s) : s[i] \in S
  OBVIOUS
<1>2. \E f : Rule(f, Len(s))
  <2> DEFINE bad == {n \in 0..Len(s) : ~\E f : Rule(f, n)}
  <2>1. SUFFICES ASSUME bad # {}
                 PROVE  FALSE
    BY <1>1
  <2>2. PICK n \in bad : \A m \in bad : n <= m
    <3>1. bad \subseteq Nat
      BY <1>1
    <3> HIDE DEF bad
    <3> QED
      BY <2>1, <3>1, LeastNumber
  <2>3. CASE n = 0
    <3> DEFINE g == [i \in 0..0 |-> <<>>]
    <3>1. Rule(g, 0)
      OBVIOUS
    <3> QED
      BY <2>2, <2>3, <3>1
  <2>4. CASE n # 0
    <3>1. n \in 1..Len(s) /\ n - 1 \in 0..Len(s) /\ ~(n <= n - 1)
      BY <1>1, <2>2, <2>4
    <3>2. n - 1 \notin bad
      <4> HIDE DEF bad
      <4> QED
        BY <2>2, <3>1
    <3>3. PICK f : Rule(f, n - 1)
      <4> HIDE DEF Rule
      <4> QED
        BY <3>1, <3>2
    <3>4. \A i \in 0..(n - 1) : f[i] = IF i = 0 THEN <<>>
                                       ELSE IF s[i] \in ws THEN f[i - 1] ELSE Append(f[i - 1], s[i])
      BY <3>3
    <3> DEFINE g == [i \in 0..n |-> IF i # n THEN f[i]
                                    ELSE IF s[n] \in ws THEN f[n - 1] ELSE Append(f[n - 1], s[n])]
    <3>5. ASSUME NEW i \in 0..n
          PROVE  g[i] = IF i = 0 THEN <<>>
                        ELSE IF s[i] \in ws THEN g[i - 1] ELSE Append(g[i - 1], s[i])
      <4>1. i = 0 \/ (i - 1 \in 0..n /\ i - 1 # n /\ g[i - 1] = f[i - 1])
        BY <3>1
      <4>2. CASE i # n
        <5>1. i \in 0..(n - 1) /\ g[i] = f[i]
          BY <3>1, <4>2
        <5> HIDE DEF g
        <5> QED
          BY <3>4, <4>1, <5>1
      <4>3. CASE i = n
        BY <3>1, <4>1, <4>3
      <4> QED
        BY <4>2, <4>3
    <3>6. g = [i \in 0..n |-> g[i]]
      OBVIOUS
    <3>7. Rule(g, n)
      <4> HIDE DEF g
      <4> QED
        BY <3>5, <3>6
    <3> QED
      BY <2>2, <3>7
  <2> QED
    BY <2>3, <2>4
<1> DEFINE kept == CHOOSE f : Rule(f, Len(s))
<1>3. Rule(kept, Len(s))
  <2> HIDE DEF Rule
  <2> QED
    BY <1>2
<1>4. Without(s, ws) = kept[Len(s)]
  BY DEF Without
<1> HIDE DEF kept
<1>5. \A i \in 0..Len(s) : kept[i] = IF i = 0 THEN <<>>
                                     ELSE IF s[i] \in ws THEN kept[i - 1] ELSE Append(kept[i - 1], s[i])
  BY <1>3
<1> HIDE DEF Rule
<1> DEFINE Good(i) == kept[i] \in Seq(S) /\ ToSet(kept[i]) = {s[j] : j \in 1..i} \ ws
           bad == {i \in 0..Len(s) : ~Good(i)}
<1>6. bad = {}
  <2>1. SUFFICES ASSUME bad # {}
                 PROVE  FALSE
    OBVIOUS
  <2>2. PICK i \in bad : \A m \in bad : i <= m
    <3>1. bad \subseteq Nat
      BY <1>1
    <3> HIDE DEF bad
    <3> QED
      BY <2>1, <3>1, LeastNumber
  <2>3. i \in 0..Len(s) /\ ~Good(i)
    BY <2>2
  <2>4. CASE i = 0
    <3>1. kept[i] = <<>> /\ 1..i = {}
      BY <1>1, <1>5, <2>4
    <3>2. <<>> \in Seq(S) /\ DOMAIN <<>> = {}
      OBVIOUS
    <3> QED
      BY <2>3, <3>1, <3>2 DEF ToSet
  <2>5. CASE i # 0
    <3>1. i \in 1..Len(s) /\ i - 1 \in 0..Len(s) /\ ~(i <= i - 1)
      BY <1>1, <2>3, <2>5
    <3>2. Good(i - 1)
      <4>1. i - 1 \notin bad
        <5> HIDE DEF bad
        <5> QED
          BY <2>2, <3>1
      <4> HIDE DEF Good
      <4> QED
        BY <3>1, <4>1
    <3>3. 1..i = 1..(i - 1) \cup {i} /\ s[i] \in S
      BY <1>1, <3>1
    <3>4. {s[j] : j \in 1..i} = {s[j] : j \in 1..(i - 1)} \cup {s[i]}
      BY <3>3
    <3>5. CASE s[i] \in ws
      <4>1. kept[i] = kept[i - 1]
        BY <1>5, <2>3, <2>5, <3>5
      <4> QED
        BY <2>3, <3>2, <3>4, <3>5, <4>1
    <3>6. CASE s[i] \notin ws
      <4>1. kept[i] = Append(kept[i - 1], s[i])
        BY <1>5, <2>3, <2>5, <3>6
      <4>2. kept[i] \in Seq(S) /\ ToSet(kept[i]) = ToSet(kept[i - 1]) \cup {s[i]}
        BY <3>2, <3>3, <4>1, ToSetAppend, AppendProperties
      <4> QED
        BY <2>3, <3>2, <3>4, <3>6, <4>2
    <3> QED
      BY <3>5, <3>6
  <2> QED
    BY <2>4, <2>5
<1>7. Good(Len(s))
  <2> HIDE DEF Good
  <2> QED
    BY <1>1, <1>6
<1> QED
  BY <1>1, <1>4, <1>7 DEF ToSet

-----------------------------------------------------------------------------
(* No ticket is lost.                                                      *)

(* A worker that had the desk goes on, with the message and the card that  *)
(* its review showed.                                                      *)
LEMMA NeverBackToDesk ==
  ASSUME ReviewTypeInv, [Next]_vars, NEW w \in Workers, pc[w] \notin BeforeDesk
  PROVE  pc'[w] \notin BeforeDesk /\ msg'[w] = msg[w] /\ shown'[w] = shown[w]
<1> USE DEF BeforeDesk, At, Goto, Return, connVars, humanVars, commitVars
<1>1. CASE Untouched(w)
  BY <1>1 DEF Untouched
<1>2. WorkersTypeOK
  BY DEF ReviewTypeInv, WatchInv
<1>3. CASE HumanAnswers(w) \/ DeskGivesUp(w) \/ DeskCancels(w) \/ DeskFails(w)
  BY <1>2, <1>3 DEF HumanAnswers, DeskGivesUp, DeskCancels, DeskFails, WorkersTypeOK
<1>4. CASE AnswerQuestion(w) \/ Decide(w)
  BY <1>2, <1>4 DEF AnswerQuestion, Decide, Verdict, Conclude, WorkersTypeOK
<1>5. CASE BeginReply(w) \/ CommitApprove(w) \/ CommitConsume(w) \/ Send(w) \/ Finalize(w)
             \/ Finish(w) \/ AfterReply(w)
  BY <1>2, <1>5 DEF BeginReply, CommitApprove, CommitConsume, Send, Finalize, Finish, AfterReply,
                    WorkersTypeOK
<1>6. ~(\/ Accept(w) \/ Admit(w) \/ Drop(w) \/ Control(w) \/ Gate(w) \/ Proposal(w) \/ Classify(w)
        \/ Notice(w) \/ StopNotice(w) \/ TakeDesk(w) \/ LeaveQueue(w))
  BY DEF Accept, Admit, Drop, Control, Gate, Proposal, Classify, Notice, StopNotice, TakeDesk,
         LeaveQueue
<1> QED
  BY <1>1, <1>3, <1>4, <1>5, <1>6, OthersStay DEF Moves, WorkerStep

LEMMA ButtonsOfAForm ==
  ASSUME NEW w
  PROVE  /\ Len(Buttons(w)) \in 2..5
         /\ \A k \in 1..Len(Buttons(w)) : Buttons(w)[k] \in
              {"send", "skip", "approve", "back", "abstain", "once", "grant", "edit", "deny"}
BY DEF Buttons

(* A button that answers decides the ticket.                               *)
LEMMA AnswersDecide ==
  ASSUME NEW b \in {"send", "skip", "approve", "abstain", "once", "grant", "deny"}, NEW a \in Answer(b)
  PROVE  a # Unset
<1>1. a.action \in {"text", "none", "grant", "abstain", "once", "deny"}
  BY DEF Answer, NoAnswer
<1> QED
  BY <1>1 DEF Unset

(* The interface's tickets while the watcher moves.                        *)
LEMMA TicketsOutlastSteps ==
  ASSUME ReviewTypeInv, DeskInv, [Next]_vars
  PROVE  /\ \A w \in given : pc'[w] \notin BeforeDesk
         /\ active # None => msg'[active] = msg[active] /\ shown'[active] = shown[active]
BY NeverBackToDesk DEF DeskInv, TicketsInHand

(* A step that leaves the interface alone.                                 *)
LEMMA DeskStays ==
  ASSUME ReviewTypeInv, DeskInv, [Next]_vars, UNCHANGED <<given, queue, active, editing, focus, result>>,
         calls' = calls, app' = app \/ app # "ended"
  PROVE  DeskInv'
<1>1. TicketsInHand'
  BY TicketsOutlastSteps DEF DeskInv, TicketsInHand
<1>2. FocusOnButton'
  BY TicketsOutlastSteps DEF DeskInv, FocusOnButton, Buttons
<1>3. TicketsAreKept'
  BY DEF DeskInv, TicketsAreKept, Tickets, Undecided
<1> QED
  BY <1>1, <1>2, <1>3 DEF DeskInv

Callbacks == {"enqueue", "cancel"} \X Workers

(* What the interface does, its watcher at rest: with these facts about    *)
(* the step the invariant holds again.                                     *)
LEMMA DeskMoves ==
  ASSUME DeskInv, UNCHANGED <<pc, msg, shown, given>>,
         queue' \in Seq(Workers), ToSet(queue') \subseteq given,
         calls' \in Seq(Callbacks), \A i \in DOMAIN calls' : calls'[i][2] \in given,
         active' \in given \cup {None}, DOMAIN result' = Workers,
         FocusOnButton',
         \A w \in given : result'[w] = Unset /\ app' # "ended" =>
           w \in ToSet(queue') \/ w = active' \/ <<"enqueue", w>> \in ToSet(calls')
  PROVE  DeskInv'
<1>1. None \notin given
  BY WorkersAssumption DEF DeskInv, TicketsInHand
<1>2. TicketsInHand'
  BY DEF DeskInv, TicketsInHand, Callbacks
<1>3. TicketsAreKept'
  BY <1>1 DEF TicketsAreKept, Tickets, Undecided
<1> QED
  BY <1>2, <1>3 DEF DeskInv

(* The facts about the state that these steps start from.                  *)
LEMMA DeskKnows ==
  ASSUME DeskInv
  PROVE  /\ given \subseteq Workers /\ queue \in Seq(Workers) /\ ToSet(queue) \subseteq given
         /\ calls \in Seq(Callbacks) /\ \A i \in DOMAIN calls : calls[i][2] \in given
         /\ active \in given \cup {None} /\ None \notin given /\ DOMAIN result = Workers
         /\ \A w \in given : result[w] = Unset /\ app # "ended" =>
              w \in ToSet(queue) \/ w = active \/ <<"enqueue", w>> \in ToSet(calls)
         /\ NoAnswer # Unset
<1>1. NoAnswer # Unset
  BY DEF NoAnswer, Unset
<1> QED
  BY <1>1, WorkersAssumption
     DEF DeskInv, TicketsInHand, TicketsAreKept, Tickets, Undecided, Callbacks

(* Tickets are cancelled (_cancel), by whom and why ever.                  *)
LEMMA CancelKeepsTickets ==
  ASSUME DeskInv, UNCHANGED <<pc, msg, shown, given>>, app' # "ended" => app # "ended",
         NEW ws, NEW rest, Cancel(ws, rest),
         calls' \in Seq(Callbacks), \A i \in DOMAIN calls' : calls'[i][2] \in given,
         \A w \in given : <<"enqueue", w>> \in ToSet(calls) => <<"enqueue", w>> \in ToSet(calls')
  PROVE  DeskInv'
<1> USE DeskKnows
<1>1. queue' \in Seq(Workers) /\ ToSet(queue') = ToSet(queue) \ ws
  BY WithoutLeavesOthers DEF Cancel
<1>2. /\ DOMAIN result' = Workers
      /\ \A w \in Workers : result'[w] = Unset => result[w] = Unset /\ w \notin ws
  BY DEF Cancel, Undecided
<1>3. \/ active' = None
      \/ active' = active /\ active \notin ws /\ UNCHANGED <<editing, focus>>
  BY DEF Cancel, BackToInbox, SameForm
<1>4. active \in ws \/ active' = active
  BY DEF Cancel, SameForm
<1>5. FocusOnButton'
  BY <1>3 DEF DeskInv, FocusOnButton, Buttons
<1>6. ASSUME NEW w \in given, result'[w] = Unset, app' # "ended"
      PROVE  w \in ToSet(queue') \/ w = active' \/ <<"enqueue", w>> \in ToSet(calls')
  BY <1>1, <1>2, <1>4, <1>6
<1> QED
  BY <1>1, <1>2, <1>3, <1>5, <1>6, DeskMoves

(* A callback is taken from the loop's list.                               *)
LEMMA CallTaken ==
  ASSUME DeskInv, calls # <<>>, calls' = Tail(calls)
  PROVE  /\ calls' \in Seq(Callbacks) /\ \A i \in DOMAIN calls' : calls'[i][2] \in given
         /\ Head(calls) \in Callbacks /\ Head(calls)[2] \in given
         /\ ToSet(calls) = {Head(calls)} \cup ToSet(calls')
<1>1. calls \in Seq(Callbacks) /\ \A c \in ToSet(calls) : c[2] \in given
  BY DeskKnows DEF ToSet
<1>2. /\ calls' \in Seq(Callbacks) /\ Head(calls) \in ToSet(calls)
      /\ ToSet(calls) = {Head(calls)} \cup ToSet(calls')
  BY <1>1, ToSetTail
<1>3. \A i \in DOMAIN calls' : calls'[i] \in ToSet(calls')
  BY DEF ToSet
<1>4. Head(calls) \in Callbacks
  BY <1>1
<1> QED
  BY <1>1, <1>2, <1>3, <1>4

(* A worker hands over its ticket, or asks to take it back.                *)
LEMMA CallAdded ==
  ASSUME DeskInv, NEW c \in Callbacks, c[2] \in given', given \subseteq given', calls' = Append(calls, c)
  PROVE  /\ calls' \in Seq(Callbacks) /\ \A i \in DOMAIN calls' : calls'[i][2] \in given'
         /\ ToSet(calls') = ToSet(calls) \cup {c}
<1>1. calls \in Seq(Callbacks) /\ \A x \in ToSet(calls) : x[2] \in given
  BY DeskKnows DEF ToSet
<1>2. calls' \in Seq(Callbacks) /\ ToSet(calls') = ToSet(calls) \cup {c}
  BY <1>1, ToSetAppend, AppendProperties
<1>3. \A i \in DOMAIN calls' : calls'[i] \in ToSet(calls')
  BY DEF ToSet
<1> QED
  BY <1>1, <1>2, <1>3

LEMMA RunCallKeepsTickets ==
  ASSUME DeskInv, RunCall
  PROVE  DeskInv'
<1> USE DeskKnows
<1> DEFINE w == Head(calls)[2]
<1>1. /\ UNCHANGED <<pc, msg, shown, given, app>> /\ app # "ended"
      /\ calls # <<>> /\ calls' = Tail(calls)
  BY DEF RunCall, vars, connVars, humanVars
<1>2. /\ calls' \in Seq(Callbacks) /\ \A i \in DOMAIN calls' : calls'[i][2] \in given
      /\ w \in given /\ Head(calls) = <<Head(calls)[1], w>>
      /\ ToSet(calls) = {Head(calls)} \cup ToSet(calls')
  BY <1>1, CallTaken DEF Callbacks
<1>3. CASE Head(calls)[1] = "cancel"
  <2>1. Cancel({w}, keys)
    BY <1>3 DEF RunCall
  <2>2. \A v \in given : <<"enqueue", v>> \in ToSet(calls) => <<"enqueue", v>> \in ToSet(calls')
    BY <1>2, <1>3
  <2> HIDE DEF w
  <2> QED
    BY <1>1, <1>2, <2>1, <2>2, CancelKeepsTickets
<1>4. CASE Head(calls)[1] = "enqueue"
  <2>1. /\ UNCHANGED formVars
        /\ \/ queue' = Append(queue, w) /\ UNCHANGED result
           \/ /\ UNCHANGED queue
              /\ result' = [result EXCEPT ![w] = IF @ = Unset THEN NoAnswer ELSE @]
    BY <1>4 DEF RunCall
  <2> HIDE DEF w
  <2>2. w \in Workers
    BY <1>2
  <2>3. \/ queue' \in Seq(Workers) /\ ToSet(queue') = ToSet(queue) \cup {w} /\ UNCHANGED result
        \/ UNCHANGED queue /\ DOMAIN result' = Workers /\ result'[w] # Unset
           /\ \A v \in Workers : v # w => result'[v] = result[v]
    <3>1. CASE queue' = Append(queue, w) /\ UNCHANGED result
      <4>1. queue' \in Seq(Workers) /\ ToSet(queue') = ToSet(queue) \cup {w}
        BY <2>2, <3>1, ToSetAppend, AppendProperties
      <4> QED
        BY <3>1, <4>1
    <3>2. CASE /\ UNCHANGED queue
               /\ result' = [result EXCEPT ![w] = IF @ = Unset THEN NoAnswer ELSE @]
      <4>1. DOMAIN result' = Workers /\ \A v \in Workers : v # w => result'[v] = result[v]
        BY <3>2
      <4>2. result'[w] # Unset
        BY <2>2, <3>2
      <4> QED
        BY <3>2, <4>1, <4>2
    <3> QED
      BY <2>1, <3>1, <3>2
  <2>4. FocusOnButton'
    BY <1>1, <2>1 DEF formVars, DeskInv, FocusOnButton, Buttons
  <2>5. ASSUME NEW v \in given, result'[v] = Unset, app' # "ended"
        PROVE  v \in ToSet(queue') \/ v = active' \/ <<"enqueue", v>> \in ToSet(calls')
    <3>1. CASE v = w
      BY <2>3, <2>5, <3>1
    <3>2. CASE v # w
      <4>1. result[v] = Unset /\ <<"enqueue", v>> # Head(calls)
        BY <1>2, <2>3, <2>5, <3>2
      <4> QED
        BY <1>1, <1>2, <2>1, <2>3, <4>1 DEF formVars
    <3> QED
      BY <3>1, <3>2
  <2>6. queue' \in Seq(Workers) /\ ToSet(queue') \subseteq given /\ DOMAIN result' = Workers
    BY <1>2, <2>3
  <2>7. active' \in given \cup {None}
    BY <2>1 DEF formVars
  <2> QED
    BY <1>1, <1>2, <2>4, <2>5, <2>6, <2>7, DeskMoves
<1> QED
  BY <1>3, <1>4 DEF RunCall

(* The loop's other steps.                                                 *)
LEMMA LoopKeepsTickets ==
  ASSUME DeskInv, Refresh \/ BeginRevoke \/ End
  PROVE  DeskInv'
<1> USE DeskKnows DEF vars, connVars, humanVars
<1>1. ASSUME NEW ws, Cancel(ws, keys), UNCHANGED <<pc, msg, shown, given, calls>>, app # "ended"
      PROVE  DeskInv'
  BY <1>1, CancelKeepsTickets
<1>2. CASE Refresh
  BY <1>1, <1>2 DEF Refresh
<1>3. CASE BeginRevoke
  BY <1>1, <1>3 DEF BeginRevoke
<1>4. CASE End
  <2>1. /\ app' = "ended" /\ calls' = <<>> /\ DOMAIN result' = Workers
        /\ UNCHANGED <<pc, msg, shown, given, queue, active, editing, focus>>
    BY <1>4 DEF End
  <2>2. FocusOnButton'
    BY <2>1 DEF DeskInv, FocusOnButton, Buttons
  <2>3. <<>> \in Seq(Callbacks) /\ DOMAIN <<>> = {}
    OBVIOUS
  <2> QED
    BY <2>1, <2>2, <2>3, DeskMoves
<1> QED
  BY <1>2, <1>3, <1>4

(* A key that changes the form alone.                                      *)
LEMMA FormKeepsTickets ==
  ASSUME DeskInv, UNCHANGED <<pc, msg, shown, given, calls, queue, result, active>>,
         app' # "ended" => app # "ended", FocusOnButton'
  PROVE  DeskInv'
BY DeskKnows, DeskMoves

LEMMA FirstOf ==
  ASSUME NEW n \in Nat, NEW I \in SUBSET (1..n)
  PROVE  IF I # {} THEN Min(I) \in I ELSE TRUE
<1>1. ASSUME I # {}
      PROVE  \E k \in I : \A m \in I : k <= m
  <2>1. I \subseteq Nat
    OBVIOUS
  <2> QED
    BY <1>1, <2>1, LeastNumber
<1> QED
  BY <1>1 DEF Min

(* F2 opens the first ticket that is wanted, and ends those before it.     *)
LEMMA OpenKeepsTickets ==
  ASSUME DeskInv, PressF2
  PROVE  DeskInv'
<1> USE DeskKnows
<1> DEFINE wanted(w) == Undecided(w) /\ ReviewActive(w)
           first == SelectInSeq(queue, wanted)
           skipped == IF first = 0 THEN ToSet(queue) ELSE ToSet(SubSeq(queue, 1, first - 1))
<1>1. /\ UNCHANGED <<pc, msg, shown, given, app, calls>> /\ app # "ended"
      /\ \/ SameForm(Tail(keys)) /\ UNCHANGED <<queue, result>>
         \/ /\ result' = [w \in Workers |->
                            IF w \in skipped /\ Undecided(w) THEN NoAnswer ELSE result[w]]
            /\ active = None
            /\ queue' = IF first = 0 THEN <<>> ELSE SubSeq(queue, first + 1, Len(queue))
            /\ IF first = 0 THEN SameForm(Tail(keys)) ELSE active' = queue[first] /\ Form(FALSE)
  BY DEF PressF2, NextKey, vars, connVars, humanVars
<1>2. first = 0 \/ first \in DOMAIN queue
  <2> DEFINE I == {i \in 1..Len(queue) : wanted(queue[i])}
  <2>1. first = IF I # {} THEN Min(I) ELSE 0
    BY DEF SelectInSeq
  <2>2. Len(queue) \in Nat /\ DOMAIN queue = 1..Len(queue) /\ I \in SUBSET (1..Len(queue))
    OBVIOUS
  <2> HIDE DEF I, first
  <2> QED
    BY <2>1, <2>2, FirstOf
<1> HIDE DEF first, wanted
<1>3. CASE SameForm(Tail(keys)) /\ UNCHANGED <<queue, result>>
  <2>1. FocusOnButton'
    BY <1>1, <1>3 DEF SameForm, DeskInv, FocusOnButton, Buttons
  <2> QED
    BY <1>1, <1>3, <2>1, FormKeepsTickets DEF SameForm
<1>4. ASSUME result' = [w \in Workers |->
                          IF w \in skipped /\ Undecided(w) THEN NoAnswer ELSE result[w]],
             active = None,
             queue' = IF first = 0 THEN <<>> ELSE SubSeq(queue, first + 1, Len(queue)),
             IF first = 0 THEN SameForm(Tail(keys)) ELSE active' = queue[first] /\ Form(FALSE)
      PROVE  DeskInv'
  <2>1. /\ DOMAIN result' = Workers
        /\ \A w \in Workers : result'[w] = Unset => result[w] = Unset /\ w \notin skipped
    BY <1>4 DEF Undecided
  <2>2. CASE first = 0
    <3>1. queue' = <<>> /\ active' = None
      BY <1>4, <2>2 DEF SameForm
    <3>2. <<>> \in Seq(Workers) /\ ToSet(<<>>) = {}
      BY DEF ToSet
    <3>3. FocusOnButton'
      BY <3>1 DEF FocusOnButton
    <3>4. skipped = ToSet(queue)
      BY <2>2
    <3> QED
      BY <1>1, <1>4, <2>1, <3>1, <3>2, <3>3, <3>4, DeskMoves
  <2>3. CASE first # 0
    <3>1. first \in DOMAIN queue
      BY <1>2, <2>3
    <3>2. /\ queue' \in Seq(Workers)
          /\ ToSet(queue) = skipped \cup {active'} \cup ToSet(queue')
      BY <1>4, <2>3, <3>1, ToSetSplit
    <3>3. focus' = 1
      BY <1>4, <2>3 DEF Form, Focus
    <3>4. FocusOnButton'
      BY <3>3 DEF FocusOnButton, Buttons
    <3> HIDE DEF skipped
    <3> QED
      BY <1>1, <1>4, <2>1, <3>2, <3>4, DeskMoves
  <2> QED
    BY <2>2, <2>3
<1> QED
  BY <1>1, <1>3, <1>4

(* Enter decides the ticket whose form it closes.                          *)
LEMMA EnterKeepsTickets ==
  ASSUME DeskInv, PressEnter
  PROVE  DeskInv'
<1> USE DeskKnows
<1> DEFINE b == Buttons(active)[focus]
           current == active # None /\ Undecided(active) /\ ReviewActive(active)
<1>1. UNCHANGED <<pc, msg, shown, given, app, calls, queue>> /\ app # "ended"
  BY DEF PressEnter, NextKey, vars, connVars, humanVars
<1>2. CASE UNCHANGED <<result, active>>
  <2>1. UNCHANGED <<editing, focus>> \/ focus' = 1
    BY <1>2 DEF PressEnter, SameForm, BackToInbox, Form, Focus
  <2>2. FocusOnButton'
    BY <1>1, <1>2, <2>1, ButtonsOfAForm DEF DeskInv, FocusOnButton, Buttons
  <2> QED
    BY <1>1, <1>2, <2>2, FormKeepsTickets
<1>3. ASSUME current, b \notin {"edit", "back"}, NEW a \in Answer(b),
             result' = [result EXCEPT ![active] = a], BackToInbox(Tail(keys))
      PROVE  DeskInv'
  <2>1. b \in {"send", "skip", "approve", "abstain", "once", "grant", "deny"}
    <3>1. focus \in 1..Len(Buttons(active))
      BY <1>3 DEF DeskInv, FocusOnButton
    <3> QED
      BY <1>3, <3>1, ButtonsOfAForm
  <2>2. a # Unset
    <3> HIDE DEF b
    <3> QED
      BY <1>3, <2>1, AnswersDecide
  <2>3. active \in Workers /\ active' = None
    BY <1>3 DEF BackToInbox
  <2> HIDE DEF b
  <2>4. /\ DOMAIN result' = Workers /\ result'[active] = a
        /\ \A w \in Workers : w # active => result'[w] = result[w]
    BY <1>3, <2>3
  <2>5. FocusOnButton'
    BY <2>3 DEF FocusOnButton
  <2> QED
    BY <1>1, <2>2, <2>3, <2>4, <2>5, DeskMoves
<1>4. \/ UNCHANGED <<result, active>>
      \/ /\ current /\ b \notin {"edit", "back"} /\ BackToInbox(Tail(keys))
         /\ \E a \in Answer(b) : result' = [result EXCEPT ![active] = a]
  BY DEF PressEnter, SameForm, Form
<1> HIDE DEF b, current
<1> QED
  BY <1>2, <1>3, <1>4

LEMMA KeyKeepsTickets ==
  ASSUME ReviewTypeInv, DeskInv, [Next]_vars, Press
  PROVE  DeskInv'
<1> USE DEF vars, connVars, humanVars
<1>1. CASE PressF2
  BY <1>1, OpenKeepsTickets
<1>2. CASE PressEnter
  BY <1>2, EnterKeepsTickets
<1>3. CASE PressEscape
  <2>1. /\ Cancel({active} \ {None}, Tail(keys)) /\ app # "ended"
        /\ UNCHANGED <<pc, msg, shown, given, calls>>
    BY <1>3 DEF PressEscape, NextKey
  <2> QED
    BY <2>1, DeskKnows, CancelKeepsTickets
<1>4. CASE PressF3
  <2>1. /\ app # "ended" /\ UNCHANGED <<pc, msg, shown, given, calls, queue, result, active>>
        /\ \/ UNCHANGED <<editing, focus>>
           \/ focus' = 1
    BY <1>4 DEF PressF3, NextKey, SameForm, Form, Focus, ticketVars
  <2>2. FocusOnButton'
    BY <2>1 DEF DeskInv, FocusOnButton, Buttons
  <2> QED
    BY <2>1, <2>2, FormKeepsTickets
<1>5. CASE PressTab
  <2>1. /\ app # "ended" /\ UNCHANGED <<pc, msg, shown, given, calls, queue, result, active, editing>>
        /\ active # None => focus' = (focus % Len(Buttons(active))) + 1
    BY <1>5 DEF PressTab, NextKey, ticketVars
  <2>2. active # None => focus' \in 1..Len(Buttons(active))
    BY <2>1, ButtonsOfAForm DEF DeskInv, FocusOnButton
  <2>3. FocusOnButton'
    BY <2>1, <2>2 DEF FocusOnButton, Buttons
  <2> QED
    BY <2>1, <2>3, FormKeepsTickets
<1>6. CASE PressPage \/ PressCtrlR \/ PressCtrlC
  BY <1>6, DeskStays DEF PressPage, PressCtrlR, PressCtrlC, NextKey, ticketVars
<1> QED
  BY <1>1, <1>2, <1>3, <1>4, <1>5, <1>6 DEF Press

LEMMA WorkerKeepsTickets ==
  ASSUME ReviewTypeInv, DeskInv, [Next]_vars, NEW w \in Workers, DeskWorker(w)
  PROVE  DeskInv'
<1>1. CASE HandOver(w)
  <2>1. /\ pc[w] = "human" /\ given' = given \cup {w} /\ calls' = Append(calls, <<"enqueue", w>>)
        /\ UNCHANGED <<pc, msg, shown, queue, result, active, editing, focus, app>>
    BY <1>1 DEF HandOver, At, vars, connVars, humanVars, formVars
  <2>2. /\ calls' \in Seq(Callbacks) /\ \A i \in DOMAIN calls' : calls'[i][2] \in given'
        /\ ToSet(calls') = ToSet(calls) \cup {<<"enqueue", w>>}
    BY <2>1, CallAdded DEF Callbacks
  <2>3. TicketsInHand'
    BY <2>1, <2>2 DEF DeskInv, TicketsInHand, Callbacks, BeforeDesk
  <2>4. FocusOnButton'
    BY <2>1 DEF DeskInv, FocusOnButton, Buttons
  <2>5. TicketsAreKept'
    BY <2>1, <2>2 DEF DeskInv, TicketsAreKept, Tickets, Undecided
  <2> QED
    BY <2>3, <2>4, <2>5 DEF DeskInv
<1>2. CASE LeaveEarly(w) \/ FailEarly(w) \/ ReadResult(w)
  BY <1>2, DeskStays DEF LeaveEarly, FailEarly, ReadResult, deskVars, ticketVars, formVars
<1>3. CASE StopWaiting(w)
  <2>1. /\ w \in given /\ UNCHANGED <<given, queue, result, active, editing, focus, app>>
        /\ calls' = calls \/ calls' = Append(calls, <<"cancel", w>>)
    BY <1>3 DEF StopWaiting, formVars
  <2>2. CASE calls' = calls
    BY <2>1, <2>2, DeskStays
  <2>3. CASE calls' = Append(calls, <<"cancel", w>>)
    <3>1. /\ calls' \in Seq(Callbacks) /\ \A i \in DOMAIN calls' : calls'[i][2] \in given'
          /\ ToSet(calls') = ToSet(calls) \cup {<<"cancel", w>>}
      BY <2>1, <2>3, CallAdded DEF Callbacks
    <3>2. TicketsInHand'
      BY <2>1, <3>1, TicketsOutlastSteps DEF DeskInv, TicketsInHand, Callbacks
    <3>3. FocusOnButton'
      BY <2>1, TicketsOutlastSteps DEF DeskInv, FocusOnButton, Buttons
    <3>4. TicketsAreKept'
      BY <2>1, <3>1 DEF DeskInv, TicketsAreKept, Tickets, Undecided
    <3> QED
      BY <3>2, <3>3, <3>4 DEF DeskInv
  <2> QED
    BY <2>1, <2>2, <2>3
<1> QED
  BY <1>1, <1>2, <1>3 DEF DeskWorker

LEMMA NextKeepsTickets ==
  ASSUME ReviewTypeInv, Cast, DeskInv, [DeskNext]_allVars
  PROVE  DeskInv'
<1>1. [Next]_vars
  BY DeskStepIsWatchers
<1>2. CASE Elsewhere \/ Start \/ RevokeStore \/ EndRevoke \/ UNCHANGED allVars
             \/ \E k \in scenario.keyboard : Type(k)
  <2>1. /\ UNCHANGED <<given, queue, active, editing, focus, result, calls>>
        /\ app' = app \/ app # "ended"
    BY <1>2 DEF Elsewhere, Start, RevokeStore, EndRevoke, Type, allVars, deskVars, ticketVars, formVars
  <2> QED
    BY <1>1, <2>1, DeskStays
<1>3. ASSUME NEW w \in scenario.workers, DeskWorker(w)
      PROVE  DeskInv'
  BY <1>1, <1>3, CastIsDeclared, WorkerKeepsTickets
<1>4. CASE RunCall
  BY <1>4, RunCallKeepsTickets
<1>5. CASE Refresh \/ BeginRevoke \/ End
  BY <1>5, LoopKeepsTickets
<1>6. CASE Press
  BY <1>1, <1>6, KeyKeepsTickets
<1> QED
  BY <1>2, <1>3, <1>4, <1>5, <1>6 DEF DeskNext

(* No request waits for a prompt that the interface has lost, whatever was *)
(* cancelled, revoked, closed or skipped before it: as long as the         *)
(* interface runs, the ticket is on display, in the queue or on its way    *)
(* (ReviewUI._enqueue, _cancel, _open_next, _refresh, _resolve).           *)
THEOREM NoTicketIsLost == DeskSpec => []WaitingIsReachable
<1>1. DeskInit => Cast /\ DeskInv
  <2> SUFFICES ASSUME DeskInit
               PROVE  Cast /\ DeskInv
    OBVIOUS
  <2>1. <<>> \in Seq(Workers) /\ <<>> \in Seq(Callbacks) /\ DOMAIN <<>> = {}
    OBVIOUS
  <2> QED
    BY <2>1 DEF DeskInit, Cast, DeskInv, TicketsInHand, FocusOnButton, TicketsAreKept, Callbacks, ToSet
<1>2. DeskSpec => []ReviewTypeInv
  <2>1. Spec => []ReviewTypeInv
    BY InitTypes, NextTypes, PTL DEF Spec
  <2> QED
    BY <2>1, DeskIsWatcher, PTL DEF ImplementsWatcher
<1>3. ReviewTypeInv /\ Cast /\ DeskInv /\ [DeskNext]_allVars => Cast' /\ DeskInv'
  BY DeskStepIsWatchers, NextKeepsTickets
<1>4. DeskInv => WaitingIsReachable
  BY DEF DeskInv, TicketsAreKept, WaitingIsReachable
<1> QED
  BY <1>1, <1>2, <1>3, <1>4, PTL DEF DeskSpec
=============================================================================
