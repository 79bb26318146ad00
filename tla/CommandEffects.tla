--------------------------- MODULE CommandEffects ---------------------------
(***************************************************************************)
(* What a command can do, told without the classifier: the reference that  *)
(* its verdicts are compared with.  A shell that starts in the workspace   *)
(* runs the segments of a command in order; a plain `cd PATH` moves it,    *)
(* every program finds its paths from where it stands, and a path is       *)
(* walked step by step.  Every `cd` is taken to succeed and to move the    *)
(* shell itself (it is no part of a pipeline), and no link, variable or    *)
(* function gives a path or a name another meaning.                        *)
(***************************************************************************)
EXTENDS Classifier

(* The place a path leads to from a place; "*" may lead anywhere.          *)
Walk(path, from) ==
  LET place[i \in 0..Len(path)] ==
        IF i = 0 THEN from
        ELSE CASE path[i] = "/" -> <<>>
               [] path[i] = "." -> place[i - 1]
               [] path[i] = ".." -> SubSeq(place[i - 1], 1, Len(place[i - 1]) - 1)
               [] OTHER -> place[i - 1] \o <<path[i]>>
  IN place[Len(path)]

Stays(path, from, root) ==
  /\ from # None /\ path # <<>>
  /\ \A i \in DOMAIN path : path[i] # "*"
  /\ LET place == Walk(path, from)
     IN Len(place) >= Len(root) /\ SubSeq(place, 1, Len(root)) = root

(* The segment tries to move the shell.                                    *)
Moves(seg, ps) == Named(seg, ps) \in {"cd", "set-location", "pushd", "popd"}

(* Where the shell stands before each segment: a `cd` that names no        *)
(* literal directory, and any other way of moving, leaves it unknown.      *)
Stand(cmd, root, ps) ==
  LET stand[i \in 0..Len(cmd.segments)] ==
        IF i = 0 THEN root
        ELSE LET seg == cmd.segments[i]
                 literal == /\ seg.prefix = <<>> /\ Len(seg.args) = 1 /\ seg.redirects = <<>>
                            /\ seg.name # "popd" /\ seg.args[1].opt = ""
                            /\ \A j \in DOMAIN seg.args[1].value : seg.args[1].value[j] # "*"
             IN IF ~Moves(seg, ps) THEN stand[i - 1]
                ELSE IF literal /\ stand[i - 1] # None THEN Walk(seg.args[1].value, stand[i - 1])
                ELSE None
  IN stand

(* The classifier's claim to know where the shell stands covers these      *)
(* commands: what moves the shell is the first word of its segment or has  *)
(* a wrapper before it, its one other word, if it has just one, is the     *)
(* directory, and no other first word looks like a move.  Not covered are  *)
(* `A=1 cd ..`, `>a cd ..`, `cd -`, `cd -P`, `cd >a` and `>cd a`.          *)
Followed(cmd, ps) ==
  \A i \in DOMAIN cmd.segments :
    LET seg == cmd.segments[i]
        leading == {r \in ToSet(seg.redirects) : r.first}
        ahead == {r.target : r \in leading} \cup {w.value : w \in ToSet(seg.prefix)}
    IN /\ \A path \in ahead : path = <<>> \/ path[Len(path)] \notin {"cd", "sl", "set-location", "pushd", "popd"}
       /\ Moves(seg, ps) =>
            /\ leading = {}
            /\ IF seg.prefix # <<>> THEN seg.prefix[1].kind = "wrapper"
               ELSE Len(seg.args) + Len(seg.redirects) = 1 =>
                      \E a \in ToSet(seg.args) : a.opt = ""

(* The operands, and the files that an option of the program names.  The   *)
(* first operand of a search is a pattern.                                 *)
Operands(seg) == {seg.args[i].value : i \in {j \in DOMAIN seg.args : seg.args[j].opt = ""}}
Outputs(seg) ==
  LET names(i) == \/ /\ seg.args[i].opt = "--output"
                     /\ seg.name = "git" => \E k \in 1..(i - 1) : seg.args[k].opt = ""
                  \/ seg.args[i].opt = "-o" /\ seg.name \in {"sort", "curl"}
  IN {IF seg.args[i].value # <<>> THEN seg.args[i].value
      ELSE IF i < Len(seg.args) THEN Text(seg.args[i + 1])
      ELSE <<"*">> : i \in {k \in DOMAIN seg.args : names(k)}}
Read(seg) ==
  IF seg.name = "rg" /\ Option("--files") \notin ToSet(seg.args)
  THEN {seg.args[i].value : i \in {j \in DOMAIN seg.args : seg.args[j].opt = "" /\
          \E k \in 1..(j - 1) : seg.args[k].opt = ""}}
  ELSE Operands(seg)

(* The command of git: its first operand.                                  *)
GitCommand(seg) ==
  {seg.args[i].value : i \in {j \in DOMAIN seg.args :
     seg.args[j].opt = "" /\ \A k \in 1..(j - 1) : seg.args[k].opt # ""}}

(* Where a program works that its -C options lead away, each from where    *)
(* the one before it led.                                                  *)
Led(options, from) ==
  LET moving == SelectSeq(options, LAMBDA option : option.opt = "-C")
      place[i \in 0..Len(moving)] ==
        IF i = 0 \/ from = None THEN from
        ELSE IF place[i - 1] = None \/ moving[i].value = <<>> \/ "*" \in ToSet(moving[i].value)
        THEN None ELSE Walk(moving[i].value, place[i - 1])
  IN place[Len(moving)]

(* A program behind a wrapper, and git, whose own come before its command. *)
ProgramStands(seg, from) ==
  LET operands == {i \in DOMAIN seg.args : seg.args[i].opt = ""}
      globals == SelectSeq([i \in DOMAIN seg.args |-> i], LAMBDA i : \A k \in operands : i < k)
      own == [i \in DOMAIN globals |-> seg.args[globals[i]]]
  IN Led(IF seg.name = "git" THEN seg.prefix \o own ELSE seg.prefix, from)

(* A segment writes out of the workspace.  The shell opens what it is      *)
(* redirected to, the program the rest.                                    *)
WritesOutside(seg, from, root, ps) ==
  LET at == ProgramStands(seg, from)
  IN \/ \E r \in ToSet(seg.redirects) : r.op = ">" /\ ~Stays(r.target, from, root)
     \/ Named(seg, ps) \in {"touch", "set-content"} /\ \E path \in Operands(seg) : ~Stays(path, at, root)
     \/ \E path \in Outputs(seg) : ~Stays(path, at, root)

(* The command destroys, escalates, evaluates, sends, publishes, touches a *)
(* secret or writes out of the workspace: INTERFACES.md:103-106 has it T3. *)
Hazardous(cmd, root, ps) ==
  \E i \in DOMAIN cmd.segments :
    LET seg == cmd.segments[i] IN
    \/ Named(seg, ps) \in {"rm", "remove-item", "sudo", "bash", "ssh"}
    \/ seg.name = "git" /\ GitCommand(seg) = {<<"push">>}
    \/ seg.name \in {"python", "node"} /\ \E a \in ToSet(seg.args) : a.opt = "-c"
    \/ \E w \in ToSet(Words(seg)) : ".ssh" \in ToSet(w.value)
    \/ WritesOutside(seg, Stand(cmd, root, ps)[i - 1], root, ps)

(* The command only reads, or runs the tests of, the workspace: nothing    *)
(* wraps it, nothing is redirected, and all its paths stay inside.         *)
Routine(cmd, root, ps) ==
  /\ cmd # None /\ cmd.flags[ps] = {} /\ cmd.segments # <<>>
  /\ \A i \in DOMAIN cmd.segments :
       LET seg == cmd.segments[i] IN
       /\ seg.prefix = <<>> /\ seg.redirects = <<>> /\ seg.form = "plain"
       /\ \/ seg.name \in {"ls", "cat", "rg", "pytest"}
          \/ seg.name = "git" /\ GitCommand(seg) \in {{<<"status">>}, {<<"diff">>}}
          \/ seg.name \in {"python", "uv"} /\ <<"pytest">> \in Operands(seg)
       /\ \A a \in ToSet(seg.args) : a.opt \in {"", "--", "-l", "-n", "-q", "-m", "--short", "--stat", "--files"}
       /\ \A path \in Read(seg) : Stays(path, root, root)
=============================================================================
