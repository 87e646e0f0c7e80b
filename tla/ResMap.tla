------------------------------- MODULE ResMap -------------------------------
(***************************************************************************)
(* The resource maps of ken/malloc.c: a map is the sequence of its entries *)
(* before the terminating zero, each a run of free units.  The array's     *)
(* terminator keeps an old address; mfree looks at it only to add a size   *)
(* of zero.                                                                *)
(***************************************************************************)
EXTENDS Integers, Sequences, FiniteSets, FiniteSetsExt, SequencesExt

Entry(a, n) == [addr |-> a, size |-> n]

\* The first entry that is large enough; 0 if there is none.
FirstFit(m, n) ==
    LET I == {i \in DOMAIN m : m[i].size >= n} IN IF I = {} THEN 0 ELSE Min(I)

\* malloc: the address, 0 for none, and the map that is left.
Malloc(m, n) ==
    LET i == FirstFit(m, n)
    IN  IF i = 0 THEN [addr |-> 0, map |-> m]
        ELSE [addr |-> m[i].addr,
              map |-> IF m[i].size = n THEN RemoveAt(m, i)
                      ELSE [m EXCEPT ![i] = Entry(@.addr + n, @.size - n)]]

\* mfree: the run is sorted in, and joined to its neighbours.
Mfree(m, n, a) ==
    LET k == Cardinality({i \in DOMAIN m : m[i].addr <= a})
        before == k > 0 /\ m[k].addr + m[k].size = a
        after == k < Len(m) /\ a + n = m[k + 1].addr
    IN  IF before /\ after
        THEN RemoveAt([m EXCEPT ![k] = Entry(@.addr, @.size + n + m[k + 1].size)], k + 1)
        ELSE IF before THEN [m EXCEPT ![k] = Entry(@.addr, @.size + n)]
        ELSE IF after THEN [m EXCEPT ![k + 1] = Entry(a, @.size + n)]
        ELSE IF n = 0 THEN m
        ELSE InsertAt(m, k + 1, Entry(a, n))

\* The free units.
Units(m) == UNION {m[i].addr .. m[i].addr + m[i].size - 1 : i \in DOMAIN m}

\* "The addresses are increasing" (malloc.c:9), no entry is empty, and no two
\* runs touch.
WellFormed(m) ==
    /\ \A i \in DOMAIN m : m[i].size > 0
    /\ \A i \in 1 .. Len(m) - 1 : m[i].addr + m[i].size < m[i + 1].addr
=============================================================================
