------------------------- MODULE MCPermissionReview -------------------------
(***************************************************************************)
(* Small instances of the watcher.  One shell; one proposal key, or two    *)
(* that compete for the one place MAX_BINDINGS = 1 leaves.  "test" and     *)
(* "commit" need review, "list" is T1 and "push" T3.                       *)
(***************************************************************************)
EXTENDS PermissionReviewProps, TLC

WorkerSymmetry == Permutations(Workers)

MCBases == {"b1"}
MCShells == {"bash"}
MCSessionOf == [b \in MCBases |-> "s1"]
MCTiers == [list |-> "T1", test |-> "T2", commit |-> "T2", push |-> "T3"]

Narrow == [covers |-> {"test"}, budget |-> 1]
Wide == [covers |-> {"test", "commit"}, budget |-> 2]

Plain(kind) ==
  [kind |-> kind, base |-> "b1", shell |-> "bash", command |-> "test", card |-> None]
Command(c) == [Plain("request") EXCEPT !.command = c]
Proposes(card) == [Plain("proposal") EXCEPT !.card = card]

(* Requests and proposals that race for one grant.                         *)
GrantCommands == {"test", "commit"}
GrantTiers == [c \in GrantCommands |-> MCTiers[c]]
GrantCards == {Narrow, Wide}
GrantMessages == {Command("test"), Proposes(Narrow), Proposes(Wide)}

(* Every kind of message.  The card's grant outlives its own commit, so    *)
(* the other base finds the store full, or prunes an expired grant first.  *)
TwoBases == {"b1", "b2"}
OneSession == [b \in TwoBases |-> "s1"]
AllCommands == {"list", "test", "commit", "push"}
AllTiers == [c \in AllCommands |-> MCTiers[c]]
Twice == [covers |-> {"test"}, budget |-> 2]
AllCards == {Twice}
AllMessages ==
  {Command(c) : c \in AllCommands} \cup {Proposes(Twice)}
    \cup {[m EXCEPT !.base = "b2"] : m \in {Command("test"), Proposes(Twice)}}
    \cup {Plain(k) : k \in {"question", "ping", "notice", "stop", "invalid", "revoke", "shutdown"}}
=============================================================================
