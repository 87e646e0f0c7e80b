-------------------------------- MODULE MCEd --------------------------------
(* Small editing sessions for the model checker. *)
EXTENDS Ed

num(k) == [t |-> "num", n |-> k]
tok(c) == [t |-> c]
find(dir, pat) == [t |-> dir, pat |-> pat]
mark(m) == [t |-> "'", m |-> m]

one(toks) == <<[t |-> toks, sep |-> ""]>>
two(t1, sep, t2) == <<[t |-> t1, sep |-> sep], [t |-> t2, sep |-> ""]>>
at(k) == one(<<num(k)>>)
all == two(<<num(1)>>, ",", <<tok("$")>>)

plain(c, addr) == [c |-> c, addr |-> addr]
name(c, addr, f) == plain(c, addr) @@ [f |-> f]
to(c, addr, toks) == plain(c, addr) @@ [to |-> toks]
sub(addr, pat, rhs) == plain("s", addr) @@ [pat |-> pat, rhs |-> rhs]
glb(c, addr, pat, cmd) == plain(c, addr) @@ [pat |-> pat, cmd |-> cmd]
text(c, addr, lines) == plain(c, addr) @@ [text |-> lines]
setk(addr, m) == plain("k", addr) @@ [m |-> m]

L1 == <<"a">>
L2 == <<"b", "a">>
L3 == <<"a", "b", "b", "a">>
L4 == <<>>
F == "f"

Load == {name("r", <<>>, F)}

Start(files, cmds, max, lines, most) ==
    [files |-> files, cmds |-> cmds, max |-> max, lines |-> lines, most |-> most]

\* The parts of the expressions, and the expressions of up to three parts.
Atoms == {<<"a">>, <<"b", "*">>, <<".">>, <<".", "*">>, <<"[", "b", "]", "*">>, <<"[", "^", "a", "]">>,
          <<"\\", "(", "a", "*", "\\", ")">>, <<"$">>}
Patterns == {p \o x \o y \o z \o <<"/">> : p \in {<<>>, <<"^">>}, x \in Atoms, y \in Atoms \cup {<<>>},
             z \in Atoms \cup {<<>>}}
BadPatterns == {<<>>, <<"*", "/">>, <<"\\", "(">>, <<"\\", ")", "/">>, <<"[", "a", "/">>, <<"a", "b", "a", "b", "a", "/">>,
                <<"\\">>, <<"/">>}
HasA == <<"a", "/">>

MCStarts ==
    { \* addresses, moves, copies, marks
      Start(F :> <<L1, L2, L3, L4>>,
            <<Load, {setk(at(2), "x"), setk(at(4), "x")},
              {to("m", at(i), <<num(j)>>) : i \in 1 .. 4, j \in {0, 2, 4}}
                \cup {to("t", two(<<num(2)>>, ",", <<num(3)>>), <<num(j)>>) : j \in {0, 3}}
                \cup {plain("d", two(<<num(i)>>, ",", <<num(j)>>)) : i \in 1 .. 3, j \in 2 .. 4},
              {plain("\n", one(<<mark("x")>>)), to("m", one(<<mark("x"), tok("-")>>), <<num(0)>>),
               plain("d", one(<<mark("x")>>)), plain("p", one(<<tok("."), tok("+")>>)),
               plain("c", one(<<tok("-"), num(2)>>)), plain("i", one(<<tok("$"), tok("-")>>)),
               plain("\n", <<>>), sub(all, HasA, <<"\n">>), plain("d", at(9)), plain("p", at(0)),
               plain("p", one(<<num(1), tok("$")>>)), plain("d", two(<<num(3)>>, ",", <<>>))}>>,
            4, {L2}, 6),
      \* text from the terminal, until the table or the file is full
      Start(F :> <<L3>>,
            <<{plain("a", <<>>)}, {plain("i", <<>>), plain("a", at(0)), plain("c", <<>>), plain("a", at(1))},
              {to("t", all, <<num(1)>>), name("r", <<>>, F), sub(all, <<"/">>, <<"b">>),
               sub(all, <<"a", "/">>, <<"&", "\n", "&", "\n", "b">>),
               sub(at(1), <<".", "*", "/">>, <<"&", "&">>)}>>,
            3, {L1, L3, <<"b", "b", "b", "b", "b", "b">>}, 6),
      \* global commands
      Start(F :> <<L1, L2, L4, L3>>,
            <<Load,
              {glb(c, <<>>, HasA, cmd) : c \in {"g", "v"},
                 cmd \in {plain("d", <<>>), to("m", <<>>, <<num(0)>>), to("t", <<>>, <<tok("$")>>),
                          text("a", <<>>, <<L1>>), text("c", <<>>, <<L1, L2>>), setk(<<>>, "x"),
                          sub(<<>>, <<"/">>, <<"\n", "a">>), sub(at(1), HasA, <<"a">>),
                          plain("d", one(<<tok("."), tok("-")>>)), plain("d", two(<<tok(".")>>, ",", <<tok("+")>>)),
                          to("m", one(<<tok("+")>>), <<tok("-")>>),
                          glb("g", <<>>, HasA, plain("d", <<>>))}},
              {glb("g", at(2), HasA, plain("p", <<>>)), glb("v", all, <<"b", "/">>, plain("d", at(1))),
               glb("g", <<>>, <<>>, plain("p", <<>>))}>>,
            3, {L1}, 6),
      \* searches and expressions
      Start(F :> <<L3, <<"b", "a", "a">>, <<"b">>, L4>>,
            <<Load, {plain("\n", one(<<find("/", p)>>)) : p \in Patterns \cup BadPatterns}>>, 2, {}, 0),
      Start(F :> <<L1, L3, <<"b">>>>,
            <<Load, {plain("p", two(<<find("/", <<"b", "/">>)>>, sep, <<find("/", <<"/">>), tok("+")>>)) : sep \in {",", ";"}}
                      \cup {plain("\n", one(<<find("?", <<"b", "*", "a", "?">>)>>)),
                            plain("\n", one(<<find("/", <<"[", "c", "]", "/">>)>>))},
              {plain("d", one(<<find("?", <<"?">>), tok("-")>>)), sub(<<>>, <<"/">>, <<"&", "\n">>),
               sub(all, <<"\\", "(", ".", "*", "\\", ")", "\\", "(", "b", "*", "\\", ")", "/">>, <<"\\2", "a", "\\1">>),
               to("t", one(<<find("/", <<"a", "$", "/">>)>>), <<find("?", <<"?">>)>>)}>>,
            3, {}, 0),
      \* files
      Start(F :> <<L1, L3, L3>> @@ "g" :> <<L2>>,
            <<{name("r", <<>>, F), name("w", <<>>, F), name("r", <<>>, "")},
              {name("e", <<>>, "g"), name("e", <<>>, "h"), name("e", at(1), F), name("e", <<>>, ""),
               name("f", <<>>, "h"), name("r", at(0), ""), setk(at(2), "x")},
              {name("w", two(<<num(2)>>, ",", <<tok("$")>>), "h"), name("w", <<>>, ""), name("f", at(1), ""),
               name("r", two(<<num(2)>>, ",", <<num(1)>>), F), name("e", <<>>, "g")},
              {name("r", <<>>, "h"), plain("d", one(<<mark("x")>>)), name("f", <<>>, ""), plain("a", <<>>)}>>,
            4, {L3}, 7) }
=============================================================================
