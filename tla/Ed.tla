---------------------------------- MODULE Ed --------------------------------
(***************************************************************************)
(* The editor usr/ed.c: the table of lines, the temporary file behind it   *)
(* with its two block buffers, addresses, and the commands.  The lines of  *)
(* the table name places in the temporary file, which is only ever added   *)
(* to.  A command is one step, an append one step per line typed, a global *)
(* command one step per line it visits.  A character of a line is one cell *)
(* of a block, and so is the zero at its end.                              *)
(***************************************************************************)
EXTENDS EdMatch, TLC

CONSTANTS
    CELLS,      \* cells of a block (512)
    UNIT,       \* a line begins at a multiple of this (4)
    MAXBLK,     \* blocks of the temporary file (255)
    LBSIZE,     \* cells of a line
    NLINES,     \* lines the table can hold
    Names,      \* the marks that k can set
    Starts      \* to start from: the files there are, the commands to choose
                \* from, how many, and the lines to type in append

ASSUME EdAssumption ==
    /\ CELLS \in Nat \ {0} /\ UNIT \in Nat \ {0} /\ CELLS % UNIT = 0
    /\ MAXBLK \in Nat \ {0} /\ LBSIZE \in 1 .. CELLS /\ NLINES \in Nat

VARIABLES
    ed,         \* the editor: tab, the lines from zero + 1 to dol, each with tl
                \* and the mark of global; dot; names; tmp, the temporary file;
                \* exp and circ, the last expression; files and saved, the files
                \* and the file name remembered; ok is FALSE after an error
    mode,       \* "command", "append", "global" or "done"
    glob,       \* the command of the global that runs
    did,        \* history: the last step, as an edit
    due,        \* history: the lines the global has to visit
    called,     \* history: what the line was that k marked
    start, n    \* n: commands so far

vars == <<ed, mode, glob, did, due, called, start, n>>

NUL == "0"
Empty == [i \in 1 .. CELLS |-> NUL]
Fail(s) == [s EXCEPT !.ok = FALSE]

-----------------------------------------------------------------------------
\* The cell at an address, through the buffers.
BlockAt(t, b) == IF b = t.iblock THEN t.ibuff ELSE IF b = t.oblock THEN t.obuff ELSE t.disk[b]
CellAt(t, a) == BlockAt(t, a \div CELLS)[1 + (a % CELLS)]

\* The line at an address, up to its zero.
RECURSIVE LineAt(_, _)
LineAt(t, a) == IF CellAt(t, a) = NUL THEN <<>> ELSE <<CellAt(t, a)>> \o LineAt(t, a + 1)

Text(s) == [i \in DOMAIN s.tab |-> LineAt(s.tmp, s.tab[i].tl)]

\* Mutant: the block that is being written is read from the file.
GetblockReadStale(t, b) ==
    IF b = t.iblock THEN t
    ELSE [t EXCEPT !.ichanged = FALSE, !.iblock = b, !.ibuff = t.disk[b]]

\* getblock to read: the input buffer, when it has changed, is written first.
GetblockRead(t, b) ==
    IF b \in {t.iblock, t.oblock} THEN t
    ELSE LET d == IF t.ichanged THEN [t.disk EXCEPT ![t.iblock] = t.ibuff] ELSE t.disk
         IN  [t EXCEPT !.disk = d, !.ichanged = FALSE, !.iblock = b, !.ibuff = d[b]]

\* getblock to write: a block that is in neither buffer becomes the output
\* block, and the old one is written.
GetblockWrite(t, b) ==
    IF b = t.iblock THEN [t EXCEPT !.ichanged = TRUE]
    ELSE IF b = t.oblock THEN t
    ELSE [t EXCEPT !.disk = IF t.oblock >= 0 THEN [@ EXCEPT ![t.oblock] = t.obuff] ELSE @,
                   !.oblock = b]

PutCell(t, a, c) ==
    IF a \div CELLS = t.iblock THEN [t EXCEPT !.ibuff[1 + (a % CELLS)] = c]
    ELSE [t EXCEPT !.obuff[1 + (a % CELLS)] = c]

\* getline: the blocks of the line go through the input buffer.
Getline(t, a) ==
    LET last == (a + Len(LineAt(t, a))) \div CELLS
    IN  FoldLeft(GetblockRead, t, [i \in 1 .. last - (a \div CELLS) + 1 |-> (a \div CELLS) + i - 1])

\* The room in the file that k cells take.
Room(k) == UNIT * ((k + UNIT - 1) \div UNIT)

\* putline, cell by cell: out of blocks, what has been written stays, and
\* tline too.
Putline(t, line) ==
    LET cells == Append(line, NUL)
        step(r, k) ==
          LET a == t.tline + k - 1
              b == IF k = 1 \/ a % CELLS = 0 THEN GetblockWrite(r.tmp, a \div CELLS) ELSE r.tmp
          IN  IF ~r.ok \/ a \div CELLS >= MAXBLK THEN Fail(r)
              ELSE [ok |-> TRUE, tmp |-> PutCell(b, a, cells[k])]
        r == FoldLeft(step, [ok |-> TRUE, tmp |-> t], [k \in 1 .. Len(cells) |-> k])
    IN  IF r.ok THEN [r EXCEPT !.tmp.tline = @ + Room(Len(cells))] ELSE r

\* init: an empty temporary file.  What the buffers hold is left from before.
NewTmp(t) == [t EXCEPT !.disk = [b \in 0 .. MAXBLK - 1 |-> Empty], !.tline = 0,
                       !.iblock = -1, !.oblock = -1, !.ichanged = FALSE]
InitEd(s) == [s EXCEPT !.tab = <<>>, !.dot = 0, !.tmp = NewTmp(@)]

-----------------------------------------------------------------------------
\* append, of one line behind dot and of lines behind line a.  A full table or
\* temporary file ends it, with the lines before.
EntryAt(a) == [tl |-> a, mark |-> FALSE]

AppendLine(s, line) ==
    LET p == Putline(s.tmp, line)
    IN  IF ~s.ok \/ Len(s.tab) >= NLINES THEN Fail(s)
        ELSE IF ~p.ok THEN [Fail(s) EXCEPT !.tmp = p.tmp]
        ELSE [s EXCEPT !.tmp = p.tmp, !.dot = @ + 1,
                       !.tab = InsertAt(@, s.dot + 1, EntryAt(s.tmp.tline))]

AppendLines(s, a, lines) == FoldLeft(AppendLine, [s EXCEPT !.dot = a], lines)

\* delete, of lines a to b.
Delete(s, a, b) ==
    LET t == SubSeq(s.tab, 1, a - 1) \o SubSeq(s.tab, b + 1, Len(s.tab))
    IN  [s EXCEPT !.tab = t, !.dot = Min({a, Len(t)})]

\* reverse: the entries from a up to, and not, b.
ReverseIn(t, a, b) == [i \in DOMAIN t |-> IF i \in a .. b - 1 THEN t[a + b - 1 - i] ELSE t[i]]

\* move of the lines from ad1 up to, and not, ad2, behind adt.
Move(s, ad1, ad2, adt) ==
    IF adt < ad1
    THEN [s EXCEPT !.dot = adt + ad2 - ad1,
                   !.tab = IF adt + 1 = ad1 THEN @
                           ELSE ReverseIn(ReverseIn(ReverseIn(@, adt + 1, ad1), ad1, ad2), adt + 1, ad2)]
    ELSE IF adt >= ad2
    THEN [s EXCEPT !.dot = adt,
                   !.tab = ReverseIn(ReverseIn(ReverseIn(@, ad1, ad2), ad2, adt + 1), ad1, adt + 1)]
    ELSE Fail(s)

\* t: lines a to b are read, and put at the end, one after the other; and moved
\* from there.
CopyOne(s, i) ==
    IF s.ok THEN AppendLine([s EXCEPT !.tmp = Getline(@, s.tab[i].tl)], LineAt(s.tmp, s.tab[i].tl)) ELSE s
Copy(s, a, b, adt) ==
    LET c == FoldLeft(CopyOne, [s EXCEPT !.dot = Len(s.tab)], [k \in 1 .. b - a + 1 |-> a + k - 1])
    IN  IF c.ok THEN Move(c, Len(s.tab) + 1, Len(c.tab) + 1, adt) ELSE c

-----------------------------------------------------------------------------
\* A line with newlines in it is several.
Split(line) ==
    FoldLeft(LAMBDA r, c : IF c = "\n" THEN Append(r, <<>>) ELSE [r EXCEPT ![Len(r)] = Append(@, c)],
             <<<<>>>>, line)

\* execute on line i, which is read.
ExecuteAt(s, i) == Execute(LineAt(s.tmp, s.tab[i].tl), s.exp, s.circ, 0)
Read(s, i) == [s EXCEPT !.tmp = Getline(@, s.tab[i].tl)]
ReadLines(s, a, b) == FoldLeft(Read, s, [i \in 1 .. b - a + 1 |-> a + i - 1])

\* substitute, in lines a to b, without the suffix g: dosub leaves loc2 in
\* genbuf, so that what a second match on the line would look at is undefined.
RECURSIVE Substitute(_, _, _, _)
Substitute(s, a, b, rhs) ==
    IF a > b \/ ~s.ok THEN s
    ELSE LET r == Read(s, a)
             m == ExecuteAt(s, a)
             new == Dosub(LineAt(s.tmp, s.tab[a].tl), m, rhs)
             parts == Split(new)
             p == Putline(r.tmp, parts[1])
             q == [r EXCEPT !.tmp = p.tmp, !.dot = a, !.tab[a] = EntryAt(r.tmp.tline), !.hit = TRUE]
         IN  IF ~m.ok THEN Substitute(r, a + 1, b, rhs)
             ELSE IF Len(new) >= LBSIZE THEN Fail(r)
             ELSE IF ~p.ok THEN [Fail(r) EXCEPT !.tmp = p.tmp]
             ELSE Substitute(FoldLeft(AppendLine, q, Tail(parts)), a + Len(parts), b + Len(parts) - 1, rhs)

\* compile: pat has the characters up to, and with, the one that ends it.
SetExp(s, pat, e) ==
    LET r == Compile(pat, e, s.exp)
    IN  [s EXCEPT !.exp = r.exp, !.circ = IF r.circ = "old" THEN @ ELSE r.circ = "yes", !.ok = r.ok]

-----------------------------------------------------------------------------
\* address.  A token is a number, one of . $ + -, a search, or a mark.
None == -99

\* A search: the lines it looks at, in its order; the zeroth never matches.
Round(s, dir) ==
    LET k == Len(s.tab) + 1
    IN  [i \in 1 .. k |-> (s.dot + (IF dir = "/" THEN i ELSE k - i)) % k]
Search(s, dir) ==
    LET r == Round(s, dir)
        hit == {i \in DOMAIN r : r[i] # 0 /\ ExecuteAt(s, r[i]).ok}
        seen == SubSeq(r, 1, IF hit = {} THEN Len(r) ELSE Min(hit))
        after == FoldLeft(Read, s, SelectSeq(seen, LAMBDA i : i # 0))
    IN  [s |-> [after EXCEPT !.ok = hit # {}], at |-> Last(seen)]

\* The line a mark names, or the one past the last.  The zeroth entry of the
\* table is 0, as is the place of the first line of the temporary file.
Marked(s, m) ==
    Min({i \in 1 .. Len(s.tab) : s.tab[i].tl = s.names[m]}
        \cup (IF s.names[m] = 0 THEN {0} ELSE {}) \cup {Len(s.tab) + 1})

\* The search found f: an error when it comes behind an address.
Found(a, f, rel) == [a EXCEPT !.a1 = f.at, !.s = [f.s EXCEPT !.ok = @ /\ ~rel]]
SearchToken(a, c, t, rel) ==
    IF c.ok THEN Found(a, Search(c, t.t), rel) ELSE [a EXCEPT !.s = c]

\* a: the state, a1 (None before there is one) and minus.
AddrToken(a, t) ==
    LET rel == a.a1 # None \/ a.minus # 0
        at(i) == [a EXCEPT !.a1 = i, !.s.ok = ~rel]
        sign(d) == [a EXCEPT !.minus = @ + d, !.a1 = IF @ = None THEN a.s.dot ELSE @]
    IN  CASE ~a.s.ok -> a
          [] a.s.ok /\ t.t = "num" ->
               [a EXCEPT !.a1 = (IF @ = None THEN 0 ELSE @) + (IF a.minus < 0 THEN -t.n ELSE t.n), !.minus = 0]
          [] a.s.ok /\ t.t = "+" -> sign(1)
          [] a.s.ok /\ t.t = "-" -> sign(-1)
          [] a.s.ok /\ t.t = "." -> at(a.s.dot)
          [] a.s.ok /\ t.t = "$" -> at(Len(a.s.tab))
          [] a.s.ok /\ t.t = "'" -> at(Marked(a.s, t.m))
          [] a.s.ok /\ t.t \in {"/", "?"} -> SearchToken(a, SetExp(a.s, t.pat, t.t), t, rel)

Sum(a) == IF a.a1 = None THEN None ELSE a.a1 + a.minus
InTable(a) ==
    [s |-> [a.s EXCEPT !.ok = @ /\ Sum(a) \in {None} \cup 0 .. Len(a.s.tab)], at |-> Sum(a)]
Address(s, toks) == InTable(FoldLeft(AddrToken, [s |-> s, a1 |-> None, minus |-> 0], toks))

\* The addresses before a command, each with what follows it: "," or ";" or "".
NextAddress(r, a, sep) ==
    IF ~r.s.ok THEN r
    ELSE IF ~a.s.ok \/ a.at = None THEN [r EXCEPT !.s = a.s, !.a1 = r.a2]
    ELSE [s |-> IF sep = ";" THEN [a.s EXCEPT !.dot = a.at] ELSE a.s, a1 |-> r.a2, a2 |-> a.at]
OneIsTwo(r) == IF r.a1 = None THEN [r EXCEPT !.a1 = r.a2] ELSE r
Addresses(s, list) ==
    OneIsTwo(FoldLeft(LAMBDA r, x : NextAddress(r, Address(r.s, x.t), x.sep),
                      [s |-> s, a1 |-> None, a2 |-> None], list))

SetDot(r) ==
    LET q == IF r.a2 = None THEN [r EXCEPT !.a1 = r.s.dot, !.a2 = r.s.dot] ELSE r
    IN  [q EXCEPT !.s.ok = @ /\ q.a1 <= q.a2]
SetAll(r) ==
    LET dol == Len(r.s.tab)
    IN  SetDot(IF r.a2 = None THEN [r EXCEPT !.a1 = Min({1, dol}), !.a2 = dol] ELSE r)
SetNoAddr(r) == [r EXCEPT !.s.ok = @ /\ r.a2 = None]
NonZero(r) == [r EXCEPT !.s.ok = @ /\ r.a1 > 0 /\ r.a2 <= Len(r.s.tab)]

\* filename: no name is the one remembered.
Filename(s, f) ==
    IF f = "" THEN [s EXCEPT !.file = s.saved, !.ok = @ /\ s.saved # ""]
    ELSE [s EXCEPT !.file = f, !.saved = IF @ = "" THEN f ELSE @]

-----------------------------------------------------------------------------
\* What a step does to the text: the history that StepIsEdit is about.
Same == [e |-> "same"]
Goto(a) == [e |-> "goto", a |-> a]
Put(a, lines) == [e |-> "put", a |-> a, lines |-> lines]
Change(a, b, lines) == [e |-> "change", a |-> a, b |-> b, lines |-> lines]
Cut(a, b) == [e |-> "cut", a |-> a, b |-> b]
Shift(e, a, b, to) == [e |-> e, a |-> a, b |-> b, to |-> to]
Subst(s, a, b, rhs) == [e |-> "subst", a |-> a, b |-> b, rhs |-> rhs, exp |-> s.exp, circ |-> s.circ]
New(lines) == [e |-> "new", lines |-> lines]

\* How a command leaves the editor: an error leaves the modes.
Out(s, edit, next) == [s |-> s, did |-> edit, mode |-> IF s.ok THEN next ELSE "command"]
Try(s, out) == IF s.ok THEN out ELSE Out(s, Same, "command")

\* Text for a, i and c: from the terminal, in steps of its own, or (in) from
\* the global's command.
Typed(s, a, cmd, in) ==
    IF in THEN Out(AppendLines(s, a, cmd.text), Put(a, cmd.text), "command")
    ELSE Out([s EXCEPT !.dot = a], Goto(a), "append")

\* A file is opened, and read.
ReadFile(s, r) ==
    LET x == SetAll([r EXCEPT !.s = s])
        lines == s.files[s.file]
    IN  IF ~s.ok THEN Out(s, Same, "command")
        ELSE IF s.file \notin DOMAIN s.files THEN Out(Fail(s), Same, "command")
        ELSE Try(x.s, Out(AppendLines(x.s, x.a2, lines), Put(x.a2, lines), "command"))

\* putfile: lines a to b are read, and make the file, which creat has emptied.
WriteFile(s, a, b) ==
    [ReadLines(s, a, b) EXCEPT !.files = (s.file :> SubSeq(Text(s), a, b)) @@ @]

\* Mutant: a global does not clear the marks an error has left.
MarksKept(s, a, b, k) ==
    [i \in DOMAIN s.tab |-> IF i \in a .. b /\ ExecuteAt(s, i).ok = k THEN [s.tab[i] EXCEPT !.mark = TRUE]
                            ELSE s.tab[i]]

\* global: the lines that match are marked, the others are not.
Marks(s, a, b, k) ==
    [i \in DOMAIN s.tab |-> [s.tab[i] EXCEPT !.mark = i \in a .. b /\ ExecuteAt(s, i).ok = k]]
Global(r, c, cmd) ==
    LET d == ReadLines(c, r.a1, r.a2)
    IN  Try(c, Out([d EXCEPT !.tab = Marks(c, r.a1, r.a2, cmd.c = "g")],
                   [e |-> "global", a |-> r.a1, b |-> r.a2, k |-> cmd.c = "g"], "global"))

-----------------------------------------------------------------------------
\* commands, after the addresses r (z, when the lines must be there); in is
\* globp # 0.
Show(z) == Try(z.s, Out([ReadLines(z.s, z.a1, z.a2) EXCEPT !.dot = z.a2], Goto(z.a2), "command"))

Transfer(z, to, c) ==
    Try([to.s EXCEPT !.ok = @ /\ to.at # None],
        Out(IF c = "m" THEN Move(to.s, z.a1, z.a2 + 1, to.at) ELSE Copy(to.s, z.a1, z.a2, to.at),
            Shift(c, z.a1, z.a2, to.at), "command"))

Substituted(z, c, s, rhs, in) ==
    Try(c, Out([s EXCEPT !.ok = @ /\ (in \/ s.hit)], Subst(c, z.a1, z.a2, rhs), "command"))
SubstCommand(z, c, rhs, in) == Substituted(z, c, Substitute(c, z.a1, z.a2, rhs), rhs, in)

\* The commands on lines that must be there.
OnLines(z, cmd, in) ==
    CASE cmd.c = "i" -> Typed(z.s, z.a2 - 1, cmd, in)
      [] cmd.c = "c" ->
           [Typed(Delete(z.s, z.a1, z.a2), z.a1 - 1, cmd, in)
              EXCEPT !.did = Change(z.a1, z.a2, IF in THEN cmd.text ELSE <<>>)]
      [] cmd.c = "d" -> Out(Delete(z.s, z.a1, z.a2), Cut(z.a1, z.a2), "command")
      [] cmd.c = "k" ->
           Out([z.s EXCEPT !.names[cmd.m] = z.s.tab[z.a2].tl], [e |-> "mark", m |-> cmd.m, a |-> z.a2], "command")
      [] cmd.c \in {"m", "t"} -> Transfer(z, Address(z.s, cmd.to), cmd.c)
      [] cmd.c = "p" -> Show(z)
      [] cmd.c = "s" -> SubstCommand(z, SetExp(z.s, cmd.pat, "/"), cmd.rhs, in)

\* Those that take the whole table when they have no address.
OnAll(r, w, cmd) ==
    IF cmd.c = "w" THEN Try(w, Out(WriteFile(w, r.a1, r.a2), Same, "command"))
    ELSE Try(r.s, Global(r, SetExp(r.s, cmd.pat, "/"), cmd))

NewFile(r, new, cmd) ==
    Try([r.s EXCEPT !.ok = r.a2 = None /\ cmd.f # ""],
        [ReadFile(new, [r EXCEPT !.a2 = 0])
           EXCEPT !.did = New(IF new.file \in DOMAIN new.files THEN new.files[new.file] ELSE <<>>)])

NextLine(r) == IF r.a2 = None THEN [r EXCEPT !.a1 = r.s.dot + 1, !.a2 = r.s.dot + 1] ELSE [r EXCEPT !.a1 = r.a2]
IfOk(s, t) == IF s.ok THEN t ELSE s

Perform(r, d, all, cmd, in) ==
    CASE cmd.c = "a" -> Try(d.s, Typed(d.s, d.a2, cmd, in))
      [] cmd.c = "\n" -> Show(NonZero(NextLine(r)))
      [] cmd.c \in {"g", "v"} /\ in -> Out(Fail(r.s), Same, "command")
      [] cmd.c = "w" \/ (cmd.c \in {"g", "v"} /\ ~in) -> OnAll(all, IfOk(all.s, Filename(all.s, cmd.f)), cmd)
      [] cmd.c = "f" ->
           Try(SetNoAddr(r).s, Out(IF cmd.f = "" THEN r.s ELSE Filename([r.s EXCEPT !.saved = ""], cmd.f),
                                   Same, "command"))
      [] cmd.c = "r" -> ReadFile(Filename(r.s, cmd.f), r)
      [] cmd.c = "e" -> NewFile(r, Filename([InitEd(r.s) EXCEPT !.saved = ""], cmd.f), cmd)
      [] OTHER -> Try(NonZero(d).s, OnLines(NonZero(d), cmd, in))

AfterAddresses(r, cmd, in) == Try(r.s, Perform(r, SetDot(r), NonZero(SetAll(r)), cmd, in))

\* One command, with its addresses.
Command(s, cmd, in) == AfterAddresses(Addresses([s EXCEPT !.ok = TRUE, !.hit = FALSE], cmd.addr), cmd, in)

-----------------------------------------------------------------------------
Init ==
    /\ start \in Starts
    /\ ed = [tab |-> <<>>, dot |-> 0, names |-> [m \in Names |-> None],
             tmp |-> NewTmp([disk |-> <<>>, tline |-> 0, iblock |-> 0, oblock |-> 0, ibuff |-> Empty,
                             obuff |-> Empty, ichanged |-> FALSE]),
             exp |-> NoProg, circ |-> FALSE, files |-> start.files, saved |-> "", file |-> "",
             ok |-> TRUE, hit |-> FALSE]
    /\ mode = "command" /\ glob = Same /\ did = Same /\ due = {} /\ n = 0
    /\ called = [m \in Names |-> {}]

\* called, after an edit: e forgets the marks' lines, as the file is another.
NowCalled(d) ==
    CASE d.e = "mark" -> [called EXCEPT ![d.m] = {Text(ed)[d.a]}]
      [] d.e = "new" -> [m \in Names |-> {}]
      [] OTHER -> called

\* A command is typed.
TypeCommand ==
    /\ mode = "command" /\ n < start.max /\ n' = n + 1
    /\ \E cmd \in start.cmds[Min({n + 1, Len(start.cmds)})] :
         \E o \in {Command(ed, cmd, FALSE)} :
             /\ ed' = o.s /\ did' = o.did /\ mode' = o.mode /\ called' = NowCalled(o.did)
             /\ glob' = IF o.mode = "global" THEN cmd.cmd ELSE glob
             /\ due' = IF o.mode # "global" THEN {}
                       ELSE {o.s.tab[i].tl : i \in {j \in o.did.a .. o.did.b : ExecuteAt(o.s, j).ok = o.did.k}}
    /\ UNCHANGED start

\* A line of the text is typed: gettty, and a turn of append.
TypeLine ==
    /\ mode = "append" /\ Len(ed.tab) < start.most
    /\ \E line \in start.lines :
         LET s == IF Len(line) >= LBSIZE - 2 THEN Fail(ed) ELSE AppendLine(ed, line)
         IN  /\ ed' = s /\ mode' = IF s.ok THEN mode ELSE "command"
             /\ did' = IF Len(line) >= LBSIZE - 2 THEN Same ELSE Put(ed.dot, <<line>>)
    /\ UNCHANGED <<glob, due, called, start, n>>

\* A line with a dot ends the text.
TypeDot ==
    /\ mode = "append" /\ mode' = "command" /\ did' = Same
    /\ UNCHANGED <<ed, glob, due, called, start, n>>

\* onintr, while the terminal is read or between two lines of a global: the
\* marks stay.
Interrupt ==
    /\ mode \in {"append", "global"} /\ mode' = "command" /\ did' = Same
    /\ ed' = Fail(ed) /\ due' = {}
    /\ UNCHANGED <<glob, called, start, n>>

\* Mutant: the mark of the line that is visited stays.
VisitMarked(i) == [ed EXCEPT !.dot = i]

\* global visits line i: its mark goes, and it is the current line.
Visit(i) == [ed EXCEPT !.dot = i, !.tab[i].mark = FALSE]

\* The next line of a global, from the start of the table.
GlobalNext ==
    /\ mode = "global"
    /\ LET marked == {i \in DOMAIN ed.tab : ed.tab[i].mark}
       IN  IF marked = {} THEN mode' = "command" /\ did' = Same /\ UNCHANGED <<ed, due, called>>
           ELSE \E o \in {Command(Visit(Min(marked)), glob, TRUE)} :
                /\ ed' = o.s /\ did' = o.did /\ called' = NowCalled(o.did)
                /\ mode' = IF o.s.ok THEN "global" ELSE "command"
                /\ due' = due \ {ed.tab[Min(marked)].tl}
    /\ UNCHANGED <<glob, start, n>>

\* q, or the end of the input.
Quit ==
    /\ mode = "command" /\ mode' = "done" /\ did' = Same
    /\ UNCHANGED <<ed, glob, due, called, start, n>>

Next == TypeCommand \/ TypeLine \/ TypeDot \/ Interrupt \/ GlobalNext \/ Quit

Spec == Init /\ [][Next]_vars

\* The program does not wait in the middle of a global command: weak fairness
\* of GlobalNext, which can be taken exactly while a global runs (stated so
\* because ENABLED of a step this large is slow to evaluate).
FairSpec == Spec /\ ([]<>(mode # "global") \/ []<><<GlobalNext>>_vars)

-----------------------------------------------------------------------------
\* The table and its marks are about places of the temporary file that have
\* been written, and dot is a line or zero: what address and getline rely on.
TypeOK ==
    /\ ed.tab \in Seq([tl : {a \in 0 .. ed.tmp.tline : a % UNIT = 0}, mark : BOOLEAN])
    /\ Len(ed.tab) <= NLINES /\ ed.dot \in 0 .. Len(ed.tab)
    /\ ed.tmp.tline <= MAXBLK * CELLS /\ ed.tmp.iblock \in -1 .. MAXBLK - 1 /\ ed.tmp.oblock \in -1 .. MAXBLK - 1
    /\ mode \in {"command", "append", "global", "done"} /\ n \in 0 .. start.max

\* The text behind the blocks and the buffers, and what each edit may make of
\* it; d is done whole, or ended by an error.
Insert(T, a, L) == SubSeq(T, 1, a) \o L \o SubSeq(T, a + 1, Len(T))
Drop(T, a, b) == SubSeq(T, 1, a - 1) \o SubSeq(T, b + 1, Len(T))
Starting(L) == {SubSeq(L, 1, k) : k \in 0 .. Len(L)}

SubstLine(line, d) ==
    LET m == Execute(line, d.exp, d.circ, 0) IN IF m.ok THEN Split(Dosub(line, m, d.rhs)) ELSE <<line>>
SubstLines(T, a, b, d) == FlattenSeq([k \in 1 .. b - a + 1 |-> SubstLine(T[a + k - 1], d)])

Edited(T, d) ==
    LET part == SubSeq(T, d.a, d.b)
        size == d.b - d.a + 1
    IN  CASE d.e = "put" -> Insert(T, d.a, d.lines)
          [] d.e = "change" -> Insert(Drop(T, d.a, d.b), d.a - 1, d.lines)
          [] d.e = "cut" -> Drop(T, d.a, d.b)
          [] d.e = "m" -> Insert(Drop(T, d.a, d.b), IF d.to < d.a THEN d.to ELSE d.to - size, part)
          [] d.e = "t" -> Insert(T, d.to, part)
          [] d.e = "subst" ->
               SubSeq(T, 1, d.a - 1) \o SubstLines(T, d.a, d.b, d) \o SubSeq(T, d.b + 1, Len(T))
          [] d.e = "new" -> d.lines
          [] OTHER -> T

\* An insertion that fails has put some of the lines, a copy too, behind the
\* last; a substitution has come to line k, and put some of what k becomes.
Broken(T, d) ==
    CASE d.e \in {"put", "change"} -> {Edited(T, [d EXCEPT !.lines = L]) : L \in Starting(d.lines)}
      [] d.e = "new" -> Starting(d.lines)
      [] d.e = "t" -> {T \o L : L \in Starting(SubSeq(T, d.a, d.b))}
      [] d.e = "subst" ->
           UNION {{SubSeq(T, 1, d.a - 1) \o SubstLines(T, d.a, k - 1, d) \o L
                     \o SubSeq(T, IF L = <<>> THEN k ELSE k + 1, Len(T)) : L \in Starting(SubstLine(T[k], d))}
                  : k \in d.a .. d.b}
      [] OTHER -> {T}

\* The current line after an edit.
Current(T, d) ==
    CASE d.e = "goto" -> d.a
      [] d.e = "put" -> d.a + Len(d.lines)
      [] d.e = "change" -> d.a - 1 + Len(d.lines)
      [] d.e = "cut" -> Min({d.a, Len(T) - (d.b - d.a + 1)})
      [] d.e = "m" -> IF d.to < d.a THEN d.to + d.b - d.a + 1 ELSE d.to
      [] d.e = "t" -> d.to + d.b - d.a + 1
      [] d.e = "new" -> Len(d.lines)
      [] d.e = "subst" ->
           LET last == Max({0} \cup {k \in d.a .. d.b : Execute(T[k], d.exp, d.circ, 0).ok})
           IN  IF last = 0 THEN ed.dot ELSE d.a - 1 + Len(SubstLines(T, d.a, last, d))
      [] OTHER -> ed'.dot

\* Every command does to the text, read back through the two buffers and the
\* blocks of the temporary file, what the command means for a list of lines,
\* and leaves the current line where it says: move by its three reversals,
\* copy through the end of the table, a substitution that splits lines, an
\* append in any place.  One that fails half way has lost nothing else.
StepIsEdit ==
    [][\E d \in {did'}, T \in {Text(ed)}, U \in {Text(ed')} :
         /\ IF ed'.ok THEN U = Edited(T, d) ELSE U \in Broken(T, d)
         /\ ed'.ok /\ mode # "global" => ed'.dot = Current(T, d)]_vars

\* A mark set by k names the line it was set on, wherever that line has moved,
\* or no line; but not the mark of the line the temporary file begins with,
\* which names the zeroth line, nor one set before e.
NameIsLine ==
    \A m \in Names : LET i == Marked(ed, m)
                     IN  called[m] # {} /\ i \in DOMAIN ed.tab => Text(ed)[i] \in called[m]

\* While a global runs, the lines marked are those that matched when it began,
\* and have been neither visited nor replaced since: its commands may add,
\* move, copy and delete lines, and marks that an error left have no effect.
GlobalOnce ==
    mode = "global" => {e.tl : e \in {x \in Range(ed.tab) : x.mark}} = due \cap {x.tl : x \in Range(ed.tab)}

\* The table of lines, the names of k and the marks of global agree through
\* every change of the text, complete, failed or interrupted (ed.c).
LinesKept == TypeOK /\ NameIsLine /\ GlobalOnce

\* A global command comes to its end, though it begins again at the first line
\* after every line it visits, and its commands change the table.
GlobalEnds == mode = "global" ~> mode # "global"

\* execute finds a match when there is one, the leftmost; with one starred
\* character at most, the longest there.  Every bracket is around a part of it.
MatchIsRight ==
    \A line \in Range(Text(ed)) :
      LET m == Execute(line, ed.exp, ed.circ, 0)
          ends(p) == EndsOf(line, ed.exp.prog, 1, p)
          from == {p \in 1 .. Len(line) + 1 : ends(p) # {} /\ (ed.circ => p = 1)}
      IN  ed.exp.ended =>
            /\ m.ok = (from # {})
            /\ m.ok => /\ m.loc1 = Min(from) /\ m.loc2 \in ends(m.loc1)
                       /\ Cardinality({k \in DOMAIN ed.exp.prog : ed.exp.prog[k].star}) <= 1
                            => m.loc2 = Max(ends(m.loc1))
                       /\ \A k \in DOMAIN ed.exp.prog :
                            ed.exp.prog[k].op = "ket" =>
                              LET b == m.bra[ed.exp.prog[k].arg]
                              IN  m.loc1 <= b.s /\ b.s <= b.e /\ b.e <= m.loc2
=============================================================================
