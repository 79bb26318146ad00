---------------------------- MODULE MCReviewDesk ----------------------------
(***************************************************************************)
(* A small instance of the watcher with its review desk.  One proposal key *)
(* and one shell, every command needs review.                              *)
(***************************************************************************)
EXTENDS ReviewDesk

CONSTANTS w1, w2

MCBases == {"b1"}
MCShells == {"bash"}
MCSessionOf == [b \in MCBases |-> "s1"]
MCCommands == {"test"}
MCCards == {[covers |-> {"test"}, budget |-> 1]}
MCTierOf == [c \in MCCommands |-> "T2"]

Plain(kind) ==
  [kind |-> kind, base |-> "b1", shell |-> "bash", command |-> "test", card |-> None]
Proposes == [Plain("proposal") EXCEPT !.card = CHOOSE card \in MCCards : TRUE]
MCMessages == {Plain(k) : k \in {"question", "request", "notice", "revoke", "shutdown"}} \cup {Proposes}

Scenario(workers, messages, events, keyboard) ==
  [workers |-> workers, messages |-> messages, events |-> events, keyboard |-> keyboard]
Both == {w1, w2}

(* Nobody at the desk: prompts, a revoke and a shutdown compete, deadlines *)
(* pass and the interface fails.                                           *)
Unattended == Scenario(Both, {Plain(k) : k \in {"question", "notice", "revoke", "shutdown"}},
                       {"expire", "fail"}, {})
(* A request and a proposal, answered; a key typed too early.              *)
Reviews == Scenario(Both, {Plain("request"), Proposes}, {}, {"enter", "tab", "page", "f2"})
(* Two prompts: one ends while the keys for it are on their way.           *)
TwoPrompts == Scenario(Both, {Plain("question")}, {"expire"}, {"enter", "f2", "escape"})
(* One prompt and every key.                                               *)
EveryKey == Scenario({w1}, {Plain("request")}, {"expire"}, AllKeys)
(* One prompt in an interface that is closed, or fails, under it.          *)
Closing == Scenario({w1}, {Plain("question")}, {"expire", "fail", "close"}, {"enter", "f2"})

MCScenarios == {Unattended, Reviews, TwoPrompts, EveryKey, Closing}
=============================================================================
