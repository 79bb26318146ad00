------------------------------ MODULE Authority ------------------------------
(***************************************************************************)
(* What Scope promises about permissions, without threads, locks, slots or *)
(* a store: who may say yes, and what a yes is worth.                      *)
(*                                                                         *)
(* A client asks in some epoch.  The human may give one word on it: "once" *)
(* for this command, or a card, worth a number of commands of the same     *)
(* key that the card covers.  An allow answers a client only in the epoch  *)
(* it asked in, and only for a T1 command, on its own "once", or against   *)
(* a unit of a card approved in that epoch.  Revoking starts a new epoch.  *)
(* Silence, and any answer but allow, is always possible.                  *)
(***************************************************************************)
EXTENDS Integers

CONSTANTS Clients, Keys, Commands, Cards, TierOf, None

VARIABLES
  epoch,     (* How often authority was revoked.                           *)
  asked,     (* What each client asked and in which epoch, or None.        *)
  word,      (* The human's word on it: [says, card].                      *)
  credit,    (* The units left of the card approved on each client's ask.  *)
  answered   (* The answer each client received.                           *)

vars == <<epoch, asked, word, credit, answered>>

Silent == [says |-> "nothing", card |-> None]
Once == [says |-> "once", card |-> None]
Approving(card) == [says |-> "card", card |-> card]

Init ==
  /\ epoch = 0
  /\ asked = [c \in Clients |-> None]
  /\ word = [c \in Clients |-> Silent]
  /\ credit = [c \in Clients |-> 0]
  /\ answered = [c \in Clients |-> "none"]

Ask(c) ==
  /\ asked[c] = None
  /\ \E k \in Keys, cmd \in Commands :
       asked' = [asked EXCEPT ![c] = [epoch |-> epoch, key |-> k, command |-> cmd]]
  /\ UNCHANGED <<epoch, word, credit, answered>>

SayOnce(c) ==
  /\ asked[c] # None /\ word[c] = Silent
  /\ word' = [word EXCEPT ![c] = Once]
  /\ UNCHANGED <<epoch, asked, credit, answered>>

ApproveCard(c) ==
  /\ asked[c] # None /\ word[c] = Silent
  /\ \E card \in Cards :
       /\ word' = [word EXCEPT ![c] = Approving(card)]
       /\ credit' = [credit EXCEPT ![c] = card.budget]
  /\ UNCHANGED <<epoch, asked, answered>>

Current(c) == asked[c] # None /\ asked[c].epoch = epoch /\ answered[c] = "none"

(* The card approved on client d's ask covers what client c asks.          *)
Covers(d, c) ==
  /\ word[d].says = "card"
  /\ asked[d].epoch = epoch
  /\ asked[d].key = asked[c].key
  /\ asked[c].command \in word[d].card.covers
  /\ TierOf[asked[c].command] # "T3"

Allow(c) ==
  /\ Current(c)
  /\ answered' = [answered EXCEPT ![c] = "allow"]
  /\ \/ /\ \/ TierOf[asked[c].command] = "T1"
           \/ word[c] = Once /\ TierOf[asked[c].command] = "T2"
        /\ UNCHANGED credit
     \/ \E d \in Clients :
          /\ Covers(d, c)
          /\ credit[d] > 0
          /\ credit' = [credit EXCEPT ![d] = @ - 1]
  /\ UNCHANGED <<epoch, asked, word>>

Decline(c) ==
  /\ Current(c)
  /\ \E a \in {"deny", "abstain", "error"} : answered' = [answered EXCEPT ![c] = a]
  /\ UNCHANGED <<epoch, asked, word, credit>>

RevokeAll ==
  /\ epoch' = epoch + 1
  /\ UNCHANGED <<asked, word, credit, answered>>

Next ==
  \/ \E c \in Clients : Ask(c) \/ SayOnce(c) \/ ApproveCard(c) \/ Allow(c) \/ Decline(c)
  \/ RevokeAll

Spec == Init /\ [][Next]_vars
=============================================================================
