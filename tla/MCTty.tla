-------------------------------- MODULE MCTty --------------------------------
EXTENDS Tty, TLC

CONSTANTS p1, p2

\* p1 makes the calls in C, the others those in D.
Start(C, D, keyset, n, echoes, delays) ==
    [ops |-> [p \in Proc |-> IF p = p1 THEN C ELSE D], keys |-> keyset,
     maxkeys |-> n, echo |-> echoes, delay |-> delays]

\* Two readers; all editing; all quoting; a reader with echo and delays; a
\* writer against a reader and his echo; writers with delays; stty against a
\* writer and interrupt keys, and against a reader.
Safe == {Start({"read"}, {"read"}, {"a", "nl"}, 4, FALSE, FALSE),
         Start({"read"}, {}, {"a", "nl", "#", "@", "eot"}, 4, FALSE, FALSE),
         Start({"read"}, {}, {"nl", "\\", "#", "eot"}, 4, FALSE, FALSE),
         Start({"read"}, {}, {"a", "nl"}, 3, TRUE, TRUE),
         Start({"write"}, {"read"}, {"a", "nl"}, 2, TRUE, FALSE),
         Start({"write"}, {"write", "close"}, {}, 0, FALSE, TRUE),
         Start({"write"}, {"stty"}, {"nl", "intr"}, 5, FALSE, FALSE),
         Start({"read"}, {"stty"}, {"a", "nl"}, 3, FALSE, FALSE)}

\* One reader.
Lines == {Start({"read"}, {}, {"a", "nl"}, 4, FALSE, FALSE)}

Writes == {<<"nl", "a">>, <<"nl", "nl", "a">>}
=============================================================================
