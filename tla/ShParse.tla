------------------------------- MODULE ShParse ------------------------------
(***************************************************************************)
(* The parser of usr/sh.c, over tokens: a line is a sequence of words and  *)
(* symbols, as gettoken gives them ("+" is >>).  The result is a tree of   *)
(* EXEC, REDIR, PIPE, LIST and BACK, or a panic.                           *)
(***************************************************************************)
EXTENDS Integers, Sequences, SequencesExt

CONSTANT MAXARGS        \* words of a command, and one

Symbols == {"|", "&", ";", "(", ")", "<", ">", "+"}

\* peek: is the next token one of these?
Peek(t, toks) == t # <<>> /\ Head(t) \in toks

\* gettoken gives 'a'.
IsWord(t) == t # <<>> /\ Head(t) \notin Symbols

ExecCmd(argv) == [type |-> "EXEC", argv |-> argv]
PipeCmd(l, r) == [type |-> "PIPE", left |-> l, right |-> r]
ListCmd(l, r) == [type |-> "LIST", left |-> l, right |-> r]
BackCmd(c) == [type |-> "BACK", cmd |-> c]
RedirCmd(c, x) == [type |-> "REDIR", cmd |-> c, file |-> x.file, mode |-> x.mode,
                   fd |-> IF x.mode = "<" THEN 0 ELSE 1]

\* What a procedure of the parser returns, and what is left of the line.
Parsed(c, t) == [ok |-> TRUE, cmd |-> c, rest |-> t]
Panic == [ok |-> FALSE]

\* Mutant: only one redirection behind a word.
ParseRedirsOnce(t, redirs) ==
    IF ~Peek(t, {"<", ">", "+"}) THEN [ok |-> TRUE, redirs |-> redirs, rest |-> t]
    ELSE IF ~IsWord(Tail(t)) THEN Panic
    ELSE [ok |-> TRUE, redirs |-> Append(redirs, [mode |-> t[1], file |-> t[2]]), rest |-> SubSeq(t, 3, Len(t))]

\* parseredirs: each redirection is put around the command so far.
RECURSIVE ParseRedirs(_, _)
ParseRedirs(t, redirs) ==
    IF ~Peek(t, {"<", ">", "+"}) THEN [ok |-> TRUE, redirs |-> redirs, rest |-> t]
    ELSE IF ~IsWord(Tail(t)) THEN Panic
    ELSE ParseRedirs(SubSeq(t, 3, Len(t)), Append(redirs, [mode |-> t[1], file |-> t[2]]))

Wrap(c, redirs) == FoldLeft(RedirCmd, c, redirs)

\* parseexec, behind its first redirections: words go to the one EXEC.
RECURSIVE ParseArgs(_, _, _)
ParseArgs(t, argv, redirs) ==
    LET r == ParseRedirs(Tail(t), redirs)
    IN  IF Peek(t, {"|", ")", "&", ";"}) \/ t = <<>> THEN Parsed(Wrap(ExecCmd(argv), redirs), t)
        ELSE IF ~IsWord(t) \/ Len(argv) + 1 >= MAXARGS \/ ~r.ok THEN Panic
        ELSE ParseArgs(r.rest, Append(argv, Head(t)), r.redirs)

RECURSIVE ParseLine(_), ParsePipe(_), ParseExec(_), Backs(_, _)

ParseExec(t) ==
    LET l == ParseLine(Tail(t))                 \* parseblock
        b == ParseRedirs(Tail(l.rest), <<>>)
        r == ParseRedirs(t, <<>>)
    IN  IF Peek(t, {"("})
        THEN IF ~l.ok THEN Panic
             ELSE IF ~Peek(l.rest, {")"}) \/ ~b.ok THEN Panic
             ELSE Parsed(Wrap(l.cmd, b.redirs), b.rest)
        ELSE IF r.ok THEN ParseArgs(r.rest, <<>>, r.redirs) ELSE Panic

ParsePipe(t) ==
    LET l == ParseExec(t)
        r == ParsePipe(Tail(l.rest))
    IN  IF ~l.ok THEN Panic
        ELSE IF ~Peek(l.rest, {"|"}) THEN l
        ELSE IF r.ok THEN Parsed(PipeCmd(l.cmd, r.cmd), r.rest) ELSE Panic

Backs(c, t) == IF Peek(t, {"&"}) THEN Backs(BackCmd(c), Tail(t)) ELSE Parsed(c, t)

ParseLine(t) ==
    LET p == ParsePipe(t)
        l == Backs(p.cmd, p.rest)
        r == ParseLine(Tail(l.rest))
    IN  IF ~p.ok THEN Panic
        ELSE IF ~Peek(l.rest, {";"}) THEN l
        ELSE IF r.ok THEN Parsed(ListCmd(l.cmd, r.cmd), r.rest) ELSE Panic

\* parsecmd: nothing may be left over.
ParseCmd(t) ==
    LET r == ParseLine(t) IN IF r.ok THEN (IF r.rest = <<>> THEN r ELSE Panic) ELSE Panic

-----------------------------------------------------------------------------
\* The reference: the lines of the grammar, by how they can be split.
RECURSIVE InLine(_), InPipe(_), InBlock(_), InRedirs(_), InSimple(_, _)

To(t, i) == SubSeq(t, 1, i)
From(t, i) == SubSeq(t, i, Len(t))

InRedirs(t) == t = <<>> \/ (Len(t) >= 2 /\ t[1] \in {"<", ">", "+"} /\ IsWord(From(t, 2)) /\ InRedirs(From(t, 3)))
InSimple(t, k) == \/ k < MAXARGS /\ t = <<>>
                  \/ IsWord(t) /\ InSimple(Tail(t), k + 1)
                  \/ Len(t) >= 2 /\ InRedirs(To(t, 2)) /\ InSimple(From(t, 3), k)
InBlock(t) == \/ InSimple(t, 0)
              \/ /\ Peek(t, {"("})
                 /\ \E i \in 2 .. Len(t) : t[i] = ")" /\ InLine(SubSeq(t, 2, i - 1)) /\ InRedirs(From(t, i + 1))
InPipe(t) == InBlock(t) \/ \E i \in 1 .. Len(t) : t[i] = "|" /\ InBlock(To(t, i - 1)) /\ InPipe(From(t, i + 1))
InLine(t) ==
    \/ InPipe(t)
    \/ \E i \in 0 .. Len(t) :
         /\ InPipe(To(t, i))
         /\ \E j \in i .. Len(t) :
              /\ \A m \in i + 1 .. j : t[m] = "&"
              /\ j = Len(t) \/ (t[j + 1] = ";" /\ InLine(From(t, j + 2)))

\* The words of a tree, in the order of the line when no redirection comes
\* before a word of its command.
RECURSIVE WordsOf(_)
WordsOf(c) ==
    CASE c.type = "EXEC" -> c.argv
      [] c.type = "REDIR" -> Append(WordsOf(c.cmd), c.file)
      [] c.type = "BACK" -> WordsOf(c.cmd)
      [] c.type \in {"PIPE", "LIST"} -> WordsOf(c.left) \o WordsOf(c.right)
=============================================================================
