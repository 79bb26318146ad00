--------------------------- MODULE MCRequestPath ---------------------------
(***************************************************************************)
(* A small instance of the request path: the workspace is /w, and the      *)
(* commands are every segment of a table of programs with up to two        *)
(* arguments, alone or after changes of directory of every kind.           *)
(***************************************************************************)
EXTENDS RequestPath

MCRoot == <<"w">>

In == <<"a">>
Out == <<"..", "b">>
Back == <<"a", "..", "..", "w", "a">>
Top == <<"/", "b">>
Glob == <<"a", "*">>
Key == <<".ssh", "a">>
Paths == {In, Out, Back, Top, Glob, Key, <<".">>}
PathArgs == {Operand(path) : path \in Paths}

Word(opt, value) == [opt |-> opt, value |-> value]
Sub(word) == Operand(<<word>>)

(* What each program is tried with.                                        *)
ArgsOf ==
  [ls |-> PathArgs \cup {Option("-l"), Option("--")},
   cat |-> {Operand(In), Operand(Back), Operand(Out), Option("-n"), Option("-z")},
   rg |-> {Operand(In), Operand(Out), Option("-n"), Option("--files"), Option("--hidden")},
   find |-> {Operand(In), Option("-delete"), Option("-exec")},
   sort |-> {Operand(In), Option("-o"), Word("-o", Out), Word("--output", In)},
   uniq |-> {Operand(In), Operand(Out)},
   python |-> {Option("-m"), Sub("pytest"), Option("-c"), Operand(In)},
   pytest |-> {Operand(In), Operand(Out), Option("-q"), Option("-p"), Option("--basetemp")},
   uv |-> {Sub("run"), Sub("pytest"), Sub("publish")},
   npm |-> {Sub("publish"), Operand(In)},
   curl |-> {Option("-s"), Option("-o"), Option("-X"), Sub("GET"), Sub("POST"), Option("-d"), Operand(Out)},
   git |-> {Sub("status"), Sub("push"), Sub("branch"), Sub("config"), Sub("user.name"), Option("--short"),
            Option("-D"), Option("-c"), Word("-C", In), Word("-C", Out), Word("--output", In),
            Word("--output", Out), Operand(In)},
   touch |-> PathArgs, del |-> {Operand(In)}, rm |-> {Operand(In)}, sudo |-> {Sub("ls")},
   bash |-> {Operand(In)}, ssh |-> {Sub("h")}, xargs |-> {Sub("ls")}, make |-> {Operand(In)},
   node |-> {Option("-c"), Operand(In)}]

ArgLists(name) ==
  {<<>>} \cup {<<a>> : a \in ArgsOf[name]} \cup {<<a, b>> : a \in ArgsOf[name], b \in ArgsOf[name]}

Plain(name, args) == [prefix |-> <<>>, name |-> name, form |-> "plain", args |-> args, redirects |-> <<>>]
Programs == UNION {{Plain(name, args) : args \in ArgLists(name)} : name \in DOMAIN ArgsOf}

Assign == [kind |-> "assign", opt |-> "", value |-> <<"A=1">>]
Environ == [kind |-> "environ", opt |-> "", value |-> <<"PATH=a">>]
Wrapper == [kind |-> "wrapper", opt |-> "", value |-> <<"env">>]
WrapperOption(opt, value) == [kind |-> "option", opt |-> opt, value |-> value]
Wrappings ==
  {<<Assign>>, <<Environ>>, <<Wrapper>>, <<Wrapper, WrapperOption("-C", Out)>>,
   <<Wrapper, WrapperOption("-C", In)>>, <<Wrapper, WrapperOption("-o", Out)>>, <<Wrapper, WrapperOption("-S", In)>>}
Redirects ==
  {<<[op |-> op, target |-> path, first |-> first]>> :
     op \in {">", "<"}, path \in {In, Out}, first \in BOOLEAN}

(* The programs that are also tried wrapped, redirected and respelled.     *)
Few == {Plain("ls", <<>>), Plain("cat", <<Operand(In)>>), Plain("touch", <<Operand(In)>>),
        Plain("touch", <<Operand(Out)>>), Plain("git", <<Sub("status")>>), Plain("pytest", <<>>)}
Dressed ==
  {[p EXCEPT !.prefix = x] : p \in Few, x \in Wrappings}
    \cup {[p EXCEPT !.redirects = x] : p \in Few, x \in Redirects}
    \cup {[p EXCEPT !.form = x] : p \in Few, x \in {"custom", "cased", "dynamic"}}
    \cup {[Plain("", <<>>) EXCEPT !.redirects = x] : x \in Redirects}

PlainMoves ==
  {Plain(name, <<Operand(path)>>) : name \in {"cd", "sl", "pushd"}, path \in {In, <<"..">>, Top, Glob}}
    \cup {Plain("cd", <<>>), Plain("popd", <<>>)}

(* PlainMoves behind assignments and wrappers, with options and redirections,   *)
(* and what only looks like a move: most of them are not Followed.         *)
OddMoves ==
  LET Written(path, first) == <<[op |-> ">", target |-> path, first |-> first]>>
  IN {[Plain("cd", <<Operand(path)>>) EXCEPT !.prefix = x] :
        path \in {In, <<"..">>}, x \in {<<Assign>>, <<Wrapper>>, <<Assign, Wrapper>>, <<Wrapper, Assign>>}}
       \cup {Plain(name, args) : name \in {"cd", "pushd"},
               args \in {<<Option("-")>>, <<Option("-P")>>, <<Option("-P"), Operand(<<"..">>)>>,
                         <<Operand(In), Operand(<<"..">>)>>}}
       \cup {[Plain("cd", args) EXCEPT !.redirects = Written(In, first)] :
               args \in {<<>>, <<Operand(<<"..">>)>>}, first \in BOOLEAN}
       \cup {[Plain("a", <<>>) EXCEPT !.redirects = Written(<<"cd">>, TRUE)],
             [Plain("touch", <<Operand(In)>>) EXCEPT !.prefix = <<[Assign EXCEPT !.value = <<"A=", "cd">>]>>]}

Cmd(segments) == [segments |-> segments, flags |-> [ps \in BOOLEAN |-> {}]]
Cmds ==
  {Cmd(<<p>>) : p \in Programs \cup Dressed \cup PlainMoves}
    \cup {Cmd(<<m, p>>) : m \in PlainMoves, p \in Few}
    \cup {Cmd(<<p, q>>) : p \in Few, q \in Few}
    \cup {Cmd(<<m, n, p>>) : m \in PlainMoves, n \in PlainMoves, p \in Few}
    \cup {Cmd(<<m, p>>) : m \in OddMoves, p \in Few}
    \cup {Cmd(<<m, n, p>>) : m \in PlainMoves, n \in OddMoves, p \in Few}
    \cup {Cmd(<<m, n, p>>) : m \in OddMoves, n \in PlainMoves, p \in Few}
    \cup {[Cmd(<<p>>) EXCEPT !.flags = [ps \in BOOLEAN |-> IF ps THEN {3} ELSE {2}]] : p \in Few}
    \cup {Cmd(<<>>)}

MCCommands ==
  {[cmd |-> c, shell |-> "posix"] : c \in Cmds \cup {None}}
    \cup {[cmd |-> Cmd(<<p>>), shell |-> shell] :
            p \in Few \cup PlainMoves \cup OddMoves \cup {Plain("del", <<Operand(In)>>)}, shell \in {"powershell", "other"}}
    \cup {[cmd |-> Cmd(<<m, p>>), shell |-> "powershell"] : m \in PlainMoves \cup OddMoves, p \in Few}
    \cup {[cmd |-> Cmd(<<m, p>>), shell |-> "other"] : m \in OddMoves, p \in Few}

MCVerdicts == {Judge(c) : c \in MCCommands}

(* One request with everything that can go wrong around it, and two that   *)
(* need review and share a server and a log: no harm done, or a move that  *)
(* the classifier missed.                                                  *)
MCScenarios ==
  {[hooks |-> {"h1"}, servers |-> {"s1", "s2"}, verdicts |-> MCVerdicts,
    faults |-> {"kill", "again", "torn", "crash"}],
   [hooks |-> {"h1", "h2"}, servers |-> {"s1"},
    verdicts |-> {v \in MCVerdicts : v.tier = 2 /\ v.valid /\ ~v.routine}, faults |-> {"torn"}]}
=============================================================================
