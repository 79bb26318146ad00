----------------------------- MODULE Classifier -----------------------------
(***************************************************************************)
(* scope.tiers.classify: the lexical policy that gives a command its tier. *)
(*                                                                         *)
(* A command arrives here as _lex leaves it: a sequence of segments and a  *)
(* set of flags per dialect.  A segment is a record of                     *)
(*   prefix     the assignments and wrappers before the program,           *)
(*   name, form the program, and how its name was spelled,                 *)
(*   args       its arguments, each an option or an operand,               *)
(*   redirects  its redirections, each with whether it is the first        *)
(*              thing of the segment or comes after the arguments.         *)
(* A word is [opt, value]: an option has opt # "" and its glued value, an  *)
(* operand only a value.  A value is a path, the sequence of its steps; a  *)
(* word that is no path is a path of one step, and "*" is a step that no   *)
(* literal path has (a glob, "~", a drive or backslash that hides shell    *)
(* state).  The policy files are data: each list is represented by one or  *)
(* two of its members.  Tiers are their ranks, 1..3; rule names and texts  *)
(* are left out.                                                           *)
(***************************************************************************)
EXTENDS Naturals, Sequences, FiniteSets, SequencesExt

CONSTANT None

(* hard-ask.yaml and allow.yaml, by representatives.                       *)
Hard ==
  [destructive |-> {"rm", "remove-item"}, privileged |-> {"sudo"},
   evaluation |-> {"bash"}, network_write |-> {"ssh"}, network |-> {"curl"},
   git_dangerous |-> {"push", "config"}, secret_parts |-> {".ssh"}]
Allow ==
  [reads |-> [ls |-> {"-l"}, cat |-> {"-n"}, rg |-> {"-n", "--files"}],
   tests |-> {"-q"},
   git_reads |-> [status |-> {"--short"}, diff |-> {"--stat"}]]

Aliases == [del |-> "remove-item", sl |-> "set-location"]
Writers == {"touch", "set-content"}
Movers == {"cd", "set-location", "pushd", "popd"}
Wrappers == {"env"}
Packagers == {"npm", "uv"}
OutputFlags == {"--output"}
OutputLetterNames == {"curl", "sort", "touch"}
ControlWords == {"xargs"}
Interpreters == {"python", "node"}
Evaluators == {"-c", "--eval"}
ExecutionOptions == {"-exec", "--basetemp"}
HiddenSearch == {"--hidden"}
Publishing == {"publish", "install", "exec"}
NetworkReads == {"-s", "--head", "--output", "-o", "-X"}

Operand(path) == [opt |-> "", value |-> path]
Option(name) == [opt |-> name, value |-> <<>>]
IsOption(arg) == arg.opt # ""
IsOperand(arg) == arg.opt = ""

(* The word as text, where the code takes any next word for a target.      *)
Text(arg) == IF IsOption(arg) THEN <<arg.opt>> ELSE arg.value

Note(condition, rank) == IF condition THEN {rank} ELSE {}
Strictest[ranks \in SUBSET (1..3)] ==
  IF ranks = {} THEN 2 ELSE CHOOSE r \in ranks : \A q \in ranks : q <= r

-----------------------------------------------------------------------------
(* Paths.                                                                  *)

(* _absolute: the normal form of a literal path, or None.                  *)
Absolute(path, cwd) ==
  LET Step(at, step) ==
        CASE step \in {"/", "."} -> at
          [] step = ".." -> IF at = <<>> THEN at ELSE Front(at)
          [] OTHER -> Append(at, step)
  IN IF cwd = None \/ path = <<>> \/ "*" \in ToSet(path) THEN None
     ELSE FoldLeft(Step, IF Head(path) = "/" THEN <<>> ELSE cwd, path)

-----------------------------------------------------------------------------
(* Mutants used by PROJECT.json.                                           *)

MutInsideIgnoresParents(path, cwd, root) == Absolute(path, cwd) # None

-----------------------------------------------------------------------------
(* _inside.                                                                *)
Inside(path, cwd, root) ==
  LET at == Absolute(path, cwd) IN at # None /\ IsPrefix(root, at)

(* _secret, of a word.                                                     *)
Secret(arg) == ToSet(arg.value) \cap Hard.secret_parts # {}

(* An output path is T2 inside the workspace and T3 elsewhere.             *)
OutputRank(target, cwd, root) == IF Inside(target, cwd, root) THEN 2 ELSE 3

-----------------------------------------------------------------------------
(* The parts of _segment.                                                  *)

(* The words before the program: an assignment or a wrapper never leaves a *)
(* command routine, and a wrapper's options can change the directory that  *)
(* its paths are read from, write a file, or evaluate.                     *)
Unwrap(prefix, dir, root) ==
  LET Strip(state, word) ==
        CASE word.kind = "assign" -> [state EXCEPT !.ranks = @ \cup {2}]
          [] word.kind = "environ" -> [state EXCEPT !.ranks = @ \cup {3}]
          [] word.kind = "wrapper" -> [state EXCEPT !.ranks = @ \cup {2}]
          [] word.opt = "-C" -> [state EXCEPT !.dir = Absolute(word.value, state.dir)]
          [] word.opt = "-o" ->
               [state EXCEPT !.ranks = @ \cup Note(~Inside(word.value, state.dir, root), 3)]
          [] OTHER -> [state EXCEPT !.ranks = @ \cup {3}]
  IN FoldLeft(Strip, [dir |-> dir, ranks |-> {}], prefix)

RedirectRanks(redirects, dir, root) ==
  UNION {{2} \cup Note(r.op = ">" /\ ~Inside(r.target, dir, root), 3) : r \in ToSet(redirects)}

Named(seg, ps) == IF ps /\ seg.name \in DOMAIN Aliases THEN Aliases[seg.name] ELSE seg.name

(* The program after aliases, and after `python -m pytest`.                *)
Program(seg, ps) ==
  LET name == Named(seg, ps)
  IN IF name = "python" /\ Len(seg.args) >= 2
          /\ seg.args[1] = Option("-m") /\ seg.args[2] = Operand(<<"pytest">>)
     THEN [name |-> "pytest", args |-> SubSeq(seg.args, 3, Len(seg.args))]
     ELSE [name |-> name, args |-> seg.args]

NameRanks(seg, ps) ==
  LET name == Named(seg, ps)
  IN Note(seg.form = "dynamic", 3) \cup Note(seg.form = "custom", 2)
       \cup Note(seg.form = "cased" /\ ~ps, 2)
       \cup Note(\E c \in {"destructive", "privileged", "evaluation", "network_write"} :
                   name \in Hard[c], 3)
       \cup Note(name \in ControlWords, 3)
       \cup Note(name \in Interpreters /\ \E a \in ToSet(seg.args) : a.opt \in Evaluators, 3)
       \cup Note(name = "python" /\ Program(seg, ps).name = name
                   /\ \E a \in ToSet(seg.args) : a.opt = "-m", 3)

(* Options that run other code, search what is hidden or name an output.   *)
OptionRanks(name, args, dir, root) ==
  LET options == {a.opt : a \in ToSet(args)} \ {""}
      operands == SelectSeq(args, IsOperand)
      Target(i) == IF args[i].value # <<>> THEN args[i].value
                   ELSE IF i < Len(args) THEN Text(args[i + 1]) ELSE <<>>
      isOutput(i) == \/ args[i].opt \in OutputFlags
                     \/ args[i] = Option("-o") /\ name \in OutputLetterNames
                     \/ args[i].opt = "-o" /\ name = "sort"
  IN Note(options \cap ExecutionOptions # {}, 3)
       \cup Note(name = "find" /\ "-delete" \in options, 3)
       \cup Note(name = "rg" /\ options \cap HiddenSearch # {}, 3)
       \cup Note(name = "pytest" /\ options \cap {"-p", "-o"} # {}, 3)
       \cup (IF name = "uniq" /\ Len(operands) > 1
             THEN {OutputRank(Last(operands).value, dir, root)} ELSE {})
       \cup {OutputRank(Target(i), dir, root) :
               i \in {j \in DOMAIN args : isOutput(j) /\ name # "git"}}

(* git: global options may change the directory or the configuration, a    *)
(* recorded read with recorded options and inside paths is routine.        *)
GitRanks(args, dir, root) ==
  LET operands == {i \in DOMAIN args : IsOperand(args[i])}
      first == IF operands = {} THEN 0 ELSE Min(operands)
      globals == IF first = 0 THEN args ELSE SubSeq(args, 1, first - 1)
      rest == IF first = 0 THEN <<>> ELSE SubSeq(args, first, Len(args))
      Context(at, a) == IF a.opt = "-C" THEN Absolute(a.value, at) ELSE at
      cwd == FoldLeft(Context, dir, globals)
      sub == IF rest = <<>> THEN "" ELSE Head(rest).value[1]
      others == IF rest = <<>> THEN <<>> ELSE Tail(rest)
      Target(i) == IF rest[i].value # <<>> THEN rest[i].value
                   ELSE IF i < Len(rest) THEN Text(rest[i + 1]) ELSE <<>>
      identity == sub = "config" /\ Len(others) = 2 /\ others[1].value = <<"user.name">>
                    /\ IsOperand(others[2])
      known == sub \in DOMAIN Allow.git_reads
      Approved(a) == \/ a.value = <<>> /\ a.opt \in Allow.git_reads[sub] \cup {"--"}
                     \/ IsOperand(a) /\ Inside(a.value, cwd, root)
  IN Note(globals # <<>>, 2)
       \cup Note(\E a \in ToSet(globals) : a.opt = "-c", 3)
       \cup {OutputRank(Target(i), cwd, root) : i \in {j \in DOMAIN rest : rest[j].opt \in OutputFlags}}
       \cup Note(sub \in Hard.git_dangerous /\ ~identity, 3)
       \cup Note(sub = "branch" /\ \E a \in ToSet(others) : a.opt \in {"-D", "--force"}, 3)
       \cup {IF known /\ (\A a \in ToSet(others) : Approved(a)) /\ Inside(<<".">>, cwd, root)
             THEN 1 ELSE 2}
       \cup Note(~known /\ ~Inside(<<".">>, cwd, root), 3)

NetworkRanks(args) ==
  {2} \cup Note(\E a \in ToSet(args) : IsOption(a) /\ a.opt \notin NetworkReads, 3)
      \cup Note(\E i \in DOMAIN args : args[i].opt = "-X"
                  /\ ~(i < Len(args) /\ Text(args[i + 1]) = <<"GET">>), 3)

TestRanks(args, dir, root) ==
  LET Approved(a) == \/ a.value = <<>> /\ a.opt \in Allow.tests
                     \/ IsOperand(a) /\ Inside(a.value, dir, root)
  IN {IF (\A a \in ToSet(args) : Approved(a)) /\ Inside(<<".">>, dir, root) THEN 1 ELSE 2}

(* `uv run pytest` is judged as the test run it starts.                    *)
PackageRanks(name, args, dir, root) ==
  Note(\E a \in ToSet(args) : Text(a)[1] \in Publishing, 3)
    \cup (IF name = "uv" /\ Len(args) >= 2 /\ args[1] = Operand(<<"run">>)
               /\ args[2] = Operand(<<"pytest">>)
          THEN LET run == SubSeq(args, 3, Len(args))
               IN {Strictest[OptionRanks("pytest", run, dir, root) \cup TestRanks(run, dir, root)]}
          ELSE {2})

WriteRanks(args, dir, root) ==
  LET targets == {a \in ToSet(args) : IsOperand(a)}
  IN {IF targets # {} /\ \A a \in targets : Inside(a.value, dir, root) THEN 2 ELSE 3}

(* After "--" every word is an operand; a search's first operand is its    *)
(* pattern.                                                                *)
ReadRanks(name, args, dir, root) ==
  LET end == SelectInSeq(args, LAMBDA a : a = Option("--"))
      positionalAt(i) == IsOperand(args[i]) \/ (end # 0 /\ i > end)
      positional == SelectSeq([i \in DOMAIN args |-> i], positionalAt)
      search == name = "rg" /\ Option("--files") \notin ToSet(args)
      paths == IF search /\ positional # <<>> THEN Tail(positional) ELSE positional
      Approved(i) == positionalAt(i) \/ i = end \/ (args[i].value = <<>> /\ args[i].opt \in Allow.reads[name])
  IN {IF /\ \A i \in DOMAIN args : Approved(i)
         /\ \A i \in ToSet(paths) : Inside(Text(args[i]), dir, root)
         /\ Inside(<<".">>, dir, root)
      THEN 1 ELSE 2}

-----------------------------------------------------------------------------
(* The branch of _segment that knows the program.                          *)
ProgramRanks(name, args, dir, root) ==
  CASE name = "git" -> GitRanks(args, dir, root)
    [] name \in Hard.network -> NetworkRanks(args)
    [] name \in Packagers -> PackageRanks(name, args, dir, root)
    [] name \in Writers -> WriteRanks(args, dir, root)
    [] name = "pytest" -> TestRanks(args, dir, root)
    [] name \in DOMAIN Allow.reads -> ReadRanks(name, args, dir, root)
    [] OTHER -> {2}

(* All the words of a segment, in the order the directory tracking and the *)
(* secret test see them: what a redirection names is a word like others.   *)
Words(seg) ==
  LET Targets(first) ==
        LET some == SelectSeq(seg.redirects, LAMBDA r : r.first = first)
        IN [i \in DOMAIN some |-> Operand(some[i].target)]
  IN Targets(TRUE)
       \o [i \in DOMAIN seg.prefix |-> [opt |-> seg.prefix[i].opt, value |-> seg.prefix[i].value]]
       \o (IF seg.name = "" THEN <<>> ELSE <<Operand(<<seg.name>>)>>) \o seg.args
       \o Targets(FALSE)

(* A segment without its wrappers and aliases.                             *)
Bare(seg, dir, root, ps) ==
  LET unwrapped == Unwrap(seg.prefix, dir, root)
      program == Program(seg, ps)
  IN [name |-> program.name, args |-> program.args, dir |-> unwrapped.dir, ranks |-> unwrapped.ranks]

(* _segment: the strictest of everything noted.  A segment may have no     *)
(* program, only assignments or redirections.                              *)
SegmentRank(seg, dir, root, ps) ==
  Strictest[
    Note(\E w \in ToSet(Words(seg)) : Secret(w), 3)
      \cup RedirectRanks(seg.redirects, dir, root)
      \cup UNION {b.ranks \cup
                    (IF seg.name = "" THEN {}
                     ELSE NameRanks(seg, ps) \cup OptionRanks(b.name, b.args, b.dir, root)
                            \cup ProgramRanks(b.name, b.args, b.dir, root)) :
                  b \in {Bare(seg, dir, root, ps)}}]

-----------------------------------------------------------------------------
MutNextDirectoryStays(seg, dir, ps) == dir

-----------------------------------------------------------------------------
(* Where classify takes the next segment to run.  It looks at the first    *)
(* word of the segment: a `cd` with one other word is followed there, any  *)
(* other change of directory makes it unknown, and so does a wrapper with  *)
(* one behind it.                                                          *)
NextDirectory(seg, dir, ps) ==
  LET values == Words(seg)
      Word(i) == Last(Text(values[i]))
      Moves(name, aliases) == name \in Movers \/ (aliases /\ name \in DOMAIN Aliases /\ Aliases[name] \in Movers)
  IN CASE values # <<>> /\ Moves(Word(1), ps) ->
            IF Len(values) = 2 /\ Word(1) # "popd" THEN Absolute(Text(values[2]), dir) ELSE None
       [] values # <<>> /\ Word(1) \in Wrappers
            /\ (\E i \in 2..Len(values) : Moves(Word(i), TRUE)) -> None
       [] OTHER -> dir

(* The directories the segments of a command run in.                       *)
Directories(segments, root, ps) ==
  FoldLeft(LAMBDA dirs, seg : Append(dirs, NextDirectory(seg, Last(dirs), ps)), <<root>>, segments)

(* classify for one dialect: the findings, one per segment and per flag.   *)
Findings(cmd, root, ps) ==
  LET dirs == Directories(cmd.segments, root, ps)
  IN cmd.flags[ps] \cup
       {SegmentRank(cmd.segments[i], dirs[i], root, ps) : i \in DOMAIN cmd.segments}

(* classify: a malformed command, or one without findings, is T2 with no   *)
(* findings; an unknown shell is judged as the stricter dialect, never T1. *)
Tier == [tier : 1..3, findings : SUBSET (1..3)]
TierOf[found \in SUBSET (1..3)] == [tier |-> Strictest[found], findings |-> found]
Stricter[a, b \in Tier] == IF b.tier > a.tier THEN b ELSE a
Unsupported[t \in Tier] == IF t.tier = 3 THEN t ELSE [t EXCEPT !.tier = 2]

Classify(cmd, root, shell) ==
  CASE cmd = None -> TierOf[{}]
    [] shell = "posix" -> TierOf[Findings(cmd, root, FALSE)]
    [] shell = "powershell" -> TierOf[Findings(cmd, root, TRUE)]
    [] OTHER -> Unsupported[Stricter[TierOf[Findings(cmd, root, FALSE)], TierOf[Findings(cmd, root, TRUE)]]]

(* hook._valid_tier: only a result that agrees with its findings counts.   *)
ValidTier[result \in Tier] == result.findings # {} /\ result.tier = Strictest[result.findings]
=============================================================================
