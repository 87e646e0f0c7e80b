-------------------------------- MODULE MCSh --------------------------------
(* Lines for the model checker. *)
EXTENDS Sh

progs == [x \in {"a", "b"} |-> "say"] @@ ("c" :> "copy" @@ "h" :> "head" @@ "y" :> "yes" @@ "t" :> "true")

Start(lines, max, slots) ==
    [lines |-> lines, max |-> max, slots |-> slots, prog |-> progs, files |-> "f" :> <<"b", "a">>]

\* Every line of up to four of these tokens.
Short == UNION {[1 .. k -> {"t", "|", "&", ";", "(", ")", ">"}] : k \in 1 .. 4}

MCStarts ==
    { Start({<<"a", ";", "b", "|", "c">>, <<"(", "a", "&", ";", "b", ")", "|", "c">>, <<"a", "|", "c", "|", "c">>, <<"exit">>,
             <<"(", "a", ";", "b", ")", "|", "c", ">", "g">>, <<"a", "<", "f", "|", "h">>, <<"y", "|", "h">>,
             <<"c", "<", "g">>, <<"(", "a", ";", "b", ")", "<", "f", ">", "g">>, <<"a", ">", "g", ">", "f">>,
             <<"x", "|", "c">>, <<"a", "+", "g">>, <<"y", "|", "t">>, <<"(", "a", "|", "c", ";", "b", ")", "+", "f">>,
             <<"c", "<", "x", "|", "c">>, <<"a", "a", "a">>, <<"a", "a", "a", "a">>}, 1, NPROC),
      Start({<<"a", ">", "g">>, <<"a", "|", "c", "+", "g">>, <<"b", "<", "g", "+", "g">>, <<"exit">>}, 2, NPROC),
      Start({<<"a", "&">>, <<"y", "|", "t", "&">>, <<"a", ";", "b">>}, 2, NPROC),
      Start({<<"a", ";", "b">>, <<"a", "|", "c">>, <<"(", "a", "|", "c", ";", "b", ")", "+", "f">>}, 2, 2),
      Start({<<"(", "a", ";", "b", ")", "|", "c">>, <<"y", "|", "h">>, <<"c", "<", "f", "&">>}, 2, 3),
      Start({<<"(", "a", ";", "b", ")", "|", "c">>, <<"y", "|", "h">>, <<"a", "|", "c", "|", "c">>, <<"a", "&">>}, 2, 4),
      Start(Short, 1, 1) }

\* Lines that read a file, for ShRead.cfg.
Reading == {Start({<<"c", "<", "f">>, <<"(", "h", ";", "c", ")", "<", "f", ">", "g">>}, 1, NPROC)}
=============================================================================
