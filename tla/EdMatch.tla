------------------------------- MODULE EdMatch ------------------------------
(***************************************************************************)
(* The regular expressions of usr/ed.c: compile, execute, advance, cclass, *)
(* and the substitution that dosub makes of a match.  A line is a sequence *)
(* of characters; position Len + 1 is that of its terminating zero.  A     *)
(* compiled expression is a sequence of nodes, with circ for circfl; the   *)
(* bytes that expbuf would hold are counted.                               *)
(***************************************************************************)
EXTENDS Integers, Sequences, FiniteSets, FiniteSetsExt, SequencesExt, Functions

CONSTANTS
    ESIZE,      \* bytes of expbuf
    NBRA        \* brackets in an expression

Node(op, arg) == [op |-> op, arg |-> arg, star |-> FALSE]

Bytes(n) == CASE n.op \in {"dot", "dol"} -> 1
              [] n.op \in {"ccl", "nccl"} -> 2 + Len(n.arg)
              [] OTHER -> 2
Size(prog) == FoldLeft(LAMBDA k, n : k + Bytes(n), 0, prog)

\* Character i of what getchar still has to give; the newline ends it.
CharAt(t, i) == IF i <= Len(t) THEN t[i] ELSE "\n"

NoProg == [prog |-> <<>>, ended |-> FALSE]

\* How compile ends: read is the number of characters it took; an error that
\* goes to cerror empties expbuf, one that does not leaves what is there.
Compiled(prog, i) == [ok |-> TRUE, exp |-> [prog |-> prog, ended |-> TRUE], read |-> i]
Cerror(i) == [ok |-> FALSE, exp |-> NoProg, read |-> i]
Error(prog, i) == [ok |-> FALSE, exp |-> [prog |-> prog, ended |-> FALSE], read |-> i]

\* The loop of compile, at character i, in an expression that ends with
\* character e; open is the stack of brackets.
RECURSIVE CompileFrom(_, _, _, _, _, _)
CompileFrom(t, e, i, prog, open, nbra) ==
    LET c == CharAt(t, i)
        c1 == CharAt(t, i + 1)
        then(n, j) == CompileFrom(t, e, j, Append(prog, n), open, nbra)
        last == prog[Len(prog)]
        neg == c1 = "^"
        from == IF neg THEN i + 2 ELSE i + 1
        to == {j \in from + 1 .. Len(t) : t[j] = "]"}
        class == IF to = {} THEN <<>> ELSE SubSeq(t, from, Min(to) - 1)
    IN  IF Size(prog) >= ESIZE THEN Cerror(i - 1)
        ELSE IF c = e THEN Compiled(prog, i)
        ELSE CASE c = "\\" /\ c1 = "(" ->
                    IF nbra >= NBRA THEN Cerror(i + 1)
                    ELSE CompileFrom(t, e, i + 2, Append(prog, Node("bra", nbra + 1)),
                                     Append(open, nbra + 1), nbra + 1)
               [] c = "\\" /\ c1 = ")" ->
                    IF open = <<>> THEN Cerror(i + 1)
                    ELSE CompileFrom(t, e, i + 2, Append(prog, Node("ket", Last(open))),
                                     Front(open), nbra)
               [] c = "\\" /\ c1 \notin {"(", ")"} ->
                    IF c1 = "\n" THEN Cerror(i + 1) ELSE then(Node("chr", c1), i + 2)
               [] c = "." -> then(Node("dot", ""), i + 1)
               [] c = "\n" -> Cerror(i)
               [] c = "*" ->
                    IF last.op \in {"bra", "ket"} THEN Error(prog, i)
                    ELSE CompileFrom(t, e, i + 1, [prog EXCEPT ![Len(prog)].star = TRUE], open, nbra)
               [] c = "$" -> then(IF c1 = e THEN Node("dol", "") ELSE Node("chr", c), i + 1)
               [] c = "[" ->
                    IF to = {} \/ "\n" \in Range(class) \/ Size(prog) + 2 + Len(class) >= ESIZE
                    THEN Cerror(i)
                    ELSE then(Node(IF neg THEN "nccl" ELSE "ccl", class), Min(to) + 1)
               [] OTHER -> then(Node("chr", c), i + 1)

\* compile: an empty expression is the last one again.
Compile(t, e, old) ==
    LET circ == CharAt(t, 1) = "^"
        i == IF circ THEN 2 ELSE 1
        r == IF CharAt(t, i) = "*" THEN Cerror(i) ELSE CompileFrom(t, e, i, <<>>, <<>>, 0)
    IN  IF CharAt(t, 1) = e
        THEN [ok |-> old # NoProg, exp |-> old, read |-> 1, circ |-> "old"]
        ELSE [ok |-> r.ok, exp |-> r.exp, read |-> r.read, circ |-> IF circ THEN "yes" ELSE "no"]

-----------------------------------------------------------------------------
\* Does the node take this character?  (cclass: never the zero.)
Takes(n, line, k) ==
    k <= Len(line) /\ CASE n.op = "chr" -> line[k] = n.arg
                        [] n.op = "dot" -> TRUE
                        [] n.op = "ccl" -> line[k] \in Range(n.arg)
                        [] n.op = "nccl" -> line[k] \notin Range(n.arg)

NoMatch == [ok |-> FALSE]

\* Mutant: a star gives back no character.
RECURSIVE AdvanceGreedy(_, _, _, _, _, _)
AdvanceGreedy(line, prog, k, lp, bra, locs) ==
    IF k > Len(prog) THEN [ok |-> TRUE, loc2 |-> lp, bra |-> bra]
    ELSE LET n == prog[k]
             next(j) == AdvanceGreedy(line, prog, k + 1, j, bra, locs)
         IN  CASE n.op \in {"bra", "ket"} -> AdvanceGreedy(line, prog, k + 1, lp, bra, locs)
               [] n.op = "dol" -> IF lp = Len(line) + 1 THEN next(lp) ELSE NoMatch
               [] n.star -> next(Min({j \in lp .. Len(line) + 1 : ~Takes(n, line, j)}))
               [] OTHER -> IF Takes(n, line, lp) THEN next(lp + 1) ELSE NoMatch

\* advance, from node k and position lp; locs is where a starred node may not
\* end.  bra holds braslist and braelist.
RECURSIVE Advance(_, _, _, _, _, _)
Advance(line, prog, k, lp, bra, locs) ==
    IF k > Len(prog) THEN [ok |-> TRUE, loc2 |-> lp, bra |-> bra]
    ELSE LET n == prog[k]
             next(j) == Advance(line, prog, k + 1, j, bra, locs)
             far == Min({j \in lp .. Len(line) + 1 : ~Takes(n, line, j)})
             ends == {j \in lp .. far : j # locs /\ next(j).ok}
         IN  CASE n.op = "bra" -> Advance(line, prog, k + 1, lp, [bra EXCEPT ![n.arg].s = lp], locs)
               [] n.op = "ket" -> Advance(line, prog, k + 1, lp, [bra EXCEPT ![n.arg].e = lp], locs)
               [] n.op = "dol" -> IF lp = Len(line) + 1 THEN next(lp) ELSE NoMatch
               [] n.star -> IF ends = {} THEN NoMatch ELSE next(Max(ends))
               [] OTHER -> IF Takes(n, line, lp) THEN next(lp + 1) ELSE NoMatch

NoBra == [n \in 1 .. NBRA |-> [s |-> 0, e |-> 0]]

\* execute, on a line from its start, or (locs > 0) on from the last match.
Execute(line, exp, circ, locs) ==
    LET from == IF locs = 0 THEN 1 ELSE locs
        try(p) == Advance(line, exp.prog, 1, p, NoBra, locs)
        P == {p \in from .. (IF circ THEN from ELSE Len(line) + 1) : try(p).ok}
    IN  IF P = {} \/ (circ /\ locs > 0) THEN NoMatch
        ELSE [loc1 |-> Min(P)] @@ try(Min(P))

\* How the right hand side of a substitution writes the brackets.
Digits == <<"\\1", "\\2", "\\3", "\\4", "\\5">>

\* dosub: what takes the place of a match.
Place(line, s, e) == IF s < e THEN SubSeq(line, s, e - 1) ELSE <<>>

Expand(line, m, rhs) ==
    FoldLeft(LAMBDA a, c : a \o (IF c = "&" THEN Place(line, m.loc1, m.loc2)
                                 ELSE IF c \in Range(Digits)
                                 THEN LET b == m.bra[CHOOSE i \in DOMAIN Digits : Digits[i] = c]
                                      IN  Place(line, b.s, b.e)
                                 ELSE <<c>>), <<>>, rhs)

Dosub(line, m, rhs) ==
    SubSeq(line, 1, m.loc1 - 1) \o Expand(line, m, rhs) \o SubSeq(line, m.loc2, Len(line))

-----------------------------------------------------------------------------
\* The reference: where the nodes from k on may end when they begin at p.
RECURSIVE EndsOf(_, _, _, _)
EndsOf(line, prog, k, p) ==
    IF k > Len(prog) THEN {p}
    ELSE LET n == prog[k]
             one == IF n.op \in {"bra", "ket"} THEN {p}
                    ELSE IF n.op = "dol" THEN {p} \cap {Len(line) + 1}
                    ELSE IF n.star
                    THEN {j \in p .. Len(line) + 1 : \A i \in p .. j - 1 : Takes(n, line, i)}
                    ELSE {j \in {p + 1} : Takes(n, line, p)}
         IN  UNION {EndsOf(line, prog, k + 1, j) : j \in one}
=============================================================================
