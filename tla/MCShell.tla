------------------------------ MODULE MCShell ------------------------------
(* A root with one directory, five programs and the lines of each run.     *)
EXTENDS Shell

Prog(echoes, copies, status) ==
  [echoes |-> echoes, copies |-> copies, status |-> status, rooted |-> FALSE]
MCPrograms ==
  ("/echo" :> [Prog(TRUE, FALSE, 0) EXCEPT !.rooted = TRUE]) @@
  [ok   |-> Prog(FALSE, FALSE, 0), fail |-> Prog(FALSE, FALSE, 1),
   echo |-> Prog(TRUE, FALSE, 0), cat  |-> Prog(FALSE, TRUE, 0)]

MCPathOf ==
  [root |-> <<"/">>, d |-> <<"d">>, slashd |-> <<"/", "d">>, f |-> <<"f">>, up |-> <<".", ".">>,
   upf |-> <<".", ".", "/", "f">>, round |-> <<"d", "/", "/", ".", ".", "/", ".", "/", "d", "/">>,
   over |-> <<"/", ".", ".", "/", "d">>, long |-> <<"d", "/", "e", "/", "f">>, name |-> <<"f", "f", "f">>,
   hid |-> <<".", "f">>, lost |-> <<"e", "/", "f">>, deep |-> <<"/", "d", "/", "d">>]
MCDirs == {<<"/">>, <<"/", "d">>, <<"/", "d", "/", "d">>}
MCProbes == Range(MCPathOf) \cup BoundedSeq({"/", ".", "d"}, 4)

One(stage) == <<Command(<<stage>>, "")>>
Two(s, op, t) == <<Command(<<s>>, op), Command(<<t>>, "")>>
Three(s, op, t, op2, u) == <<Command(<<s>>, op), Command(<<t>>, op2), Command(<<u>>, "")>>
Piped(pipeline) == <<Command(pipeline, "")>>
Sub(argv, pipeline) == [Stage(argv) EXCEPT !.sub = pipeline]
W(w) == Stage(<<w>>)
Echo(args) == Stage(<<"echo">> \o args)

ListLines ==
  {Three(W("ok"), "&&", W("fail"), "||", Echo(<<"a">>)),
   Three(W("fail"), "&&", W("ok"), "||", Echo(<<"b">>)),
   Three(W("ok"), "||", W("fail"), "&&", Echo(<<"c">>)),
   Three(W("fail"), "&&", Echo(<<"a">>), ";", W("nosuch")),
   Three(Stage(<<"declare", "ro">>), "||", Stage(<<"unset", "x">>), "&&", W("pwd")),
   Three(W("history"), "&&", W("ok"), ";", W("exit"))}

PipeLines ==
  {Piped(<<Echo(<<"a", "b">>), W("cat"), W("cat")>>),
   Piped(<<Echo(<<"a", "b", "c">>), W("fail")>>),
   Piped(<<W("ok"), W("nosuch")>>),
   Piped(<<W("nosuch"), W("ok")>>),
   Piped(<<Echo(<<"a", "b", "c">>), W("cat"), W("cat")>>),
   Piped(<<Echo(<<"a", "b", "c", "d">>), W("cat"), W("cat")>>),
   Piped(<<W("ok"), Echo(<<"a", "b", "c", "d", "e">>)>>),
   Piped(<<Stage(<<"/echo", "a", "b">>), W("cat")>>),
   Piped(<<[W("cat") EXCEPT !.from = "f"], W("ok")>>)}

FileLines ==
  {One([Echo(<<"a">>) EXCEPT !.to = "f"]),
   One([Stage(<<>>) EXCEPT !.to = "f"]),
   One([Echo(<<"b", "c">>) EXCEPT !.more = "f"]),
   Two([W("cat") EXCEPT !.from = "f"], "||", Echo(<<"b">>)),
   Two(Stage(<<"cd", "round">>), "&&", [Stage(<<"/echo", "a">>) EXCEPT !.more = "upf"]),
   Two(Stage(<<"cd", "up">>), ";", Stage(<<"cd", "f">>)),
   Two([W("ok") EXCEPT !.to = "long"], "||", [W("ok") EXCEPT !.to = "lost"]),
   Piped(<<Echo(<<"c">>), [W("cat") EXCEPT !.to = "f"]>>),
   One(Stage(<<"cd">>)), One(Stage(<<"cd", "d">>)), Two(Stage(<<"cd", "d", "d">>), "||", W("pwd"))}

SubLines ==
  {One(Echo(<<"tick", "a">>)),
   One(Sub(<<"echo">>, <<Echo(<<"a", "b", "c">>), W("cat")>>)),
   One(Sub(<<"echo", "a">>, <<W("nosuch")>>)),
   One(Sub(<<"echo", "a", "a", "a", "a", "a">>, <<Echo(<<"b", "c">>)>>)),
   Two(Sub(<<"echo", "a", "a", "a">>, <<Echo(<<"b", "c">>)>>), "||", Sub(<<"cd">>, <<Echo(<<"d", "d", "d", "d">>)>>)),
   Piped(<<Sub(<<"echo">>, <<Echo(<<"a">>)>>), Sub(<<"cat">>, <<W("ok")>>)>>),
   One(Sub(<<"echo">>, <<[Echo(<<"a", "b", "c">>) EXCEPT !.to = "f"], W("cat")>>)),
   One(Stage(<<"cd", "d", "d", "d", "d", "d">>)),
   Two(Stage(<<"cd", "d">>), "&&", Sub(<<"cd">>, <<W("pwd")>>))}

AllLines == ListLines \cup PipeLines \cup FileLines \cup SubLines

FailingLeft == {Piped(<<W("nosuch"), W("cat")>>)}
=============================================================================
