---------------------------- MODULE MemoryProofs ----------------------------
(***************************************************************************)
(* Core, the swap device and the images there, for every size of the table *)
(* of processes, of core and of the swap device: no unit is lost or has    *)
(* two owners, and every process has its own image.  The argument: what    *)
(* each process has follows from its table entry and from the jobs under   *)
(* way (CoreHas, SwapHas), a step moves one or two processes and leaves    *)
(* the others what they have (Rests, Stays), and malloc and mfree move     *)
(* units between the map and one process (MallocShares, MfreeShares).      *)
(***************************************************************************)
EXTENDS ProcsProofs

\* Nobody is swapped out who waits to be copied by newproc (slp.c:419), or for
\* the header of a raw transfer (bio.c:487).
Untaken == job[0].kind = "out" => at[job[0].who] \notin {"swapmap", "rawget"}

-----------------------------------------------------------------------------
\* What belongs to whom.

Alive(q) == q # 0 /\ proc[q].stat \notin {Null, "SZOMB"}
\* The scheduler brings q in, or takes it out; a process taken out is still in
\* core until its transfer ends.
Coming(q) == job[0].kind = "in" /\ job[0].who = q
Going(q) == job[0].kind = "out" /\ job[0].who = q
InUse(q) == proc[q].load \/ Going(q)

\* The page of core and the blocks of the swap device that q has.
CoreHas(q) ==
    IF ~Alive(q) \/ InCopy(q) THEN {}
    ELSE IF InUse(q) THEN {proc[q].addr}
    ELSE IF Coming(q) THEN {job[0].a} ELSE {}

SwapHas(q) ==
    IF proc[q].stat = "SZOMB" THEN {proc[q].addr}
    ELSE IF ~Alive(q) THEN {}
    ELSE IF InCopy(q) THEN (IF job[q].a # 0 THEN SwapUnits(job[q].a) ELSE {})
    ELSE (IF InUse(q) THEN {} ELSE SwapUnits(proc[q].addr))
         \cup (IF Going(q) THEN SwapUnits(job[0].a) ELSE {})
         \cup (IF job[q].kind = "exit" /\ job[q].a # 0 THEN {job[q].a} ELSE {})

\* Units 1 .. n are what map m has free and what the processes have, each once.
Shared(m, F, n) ==
    /\ m \in Seq(Entries) /\ WellFormed(m)
    /\ Units(m) \cup UNION {F[q] : q \in Slot} = 1 .. n
    /\ \A q \in Slot : F[q] \cap Units(m) = {} /\ \A r \in Slot \ {q} : F[q] \cap F[r] = {}

\* The shares of all processes.
CoreF == [q \in Slot |-> CoreHas(q)]
SwapF == [q \in Slot |-> SwapHas(q)]

-----------------------------------------------------------------------------
\* What each process is doing.

SchedJob ==
    /\ job[0].kind \in {"none", "in", "out"}
    /\ at[0] \in {"swapget", "swapio"} <=> job[0].kind # "none"
    /\ job[0].kind # "none" =>
         LET q == job[0].who
         IN  /\ q # 0 /\ job[0].a # 0 /\ ~proc[q].load /\ ~InCopy(q) /\ at[q] \notin {"rawget", "rawio"}
             /\ job[0].kind = "in" => proc[q].stat = "SRUN"
             /\ job[0].kind = "out" => proc[q].stat \in {"SRUN", "SSLEEP", "SWAIT"}

\* A child that newproc copies through the swap device: the original is in core.
CopyJob(c) ==
    InCopy(c) =>
      /\ job[c].who = c /\ proc[c].load /\ proc[c].stat \in {"SRUN", "SSLEEP"}
      /\ proc[c].lock <=> job[c].a # 0
      /\ at[c] = "swapmap" <=> job[c].a = 0
      /\ \A p \in Slot : proc[p].pid = job[c].pid => Alive(p) /\ proc[p].load /\ proc[p].addr = proc[c].addr /\ ~InCopy(p)

\* What exit, wait and a raw transfer remember while they sleep.
OtherJob(p) ==
    /\ p # 0 => job[p].kind \notin {"in", "out"}
    /\ at[p] = "exitio" <=> job[p].kind = "exit"
    /\ job[p].kind = "exit" /\ job[p].a = 0 => panic
    /\ at[p] = "waitio" => job[p].a = proc[job[p].who].addr
    /\ at[p] \in {"rawget", "rawio"} => proc[p].load
    /\ at[p] = "rawget" => job[p].a = proc[p].addr
    /\ at[p] = "rawio" => proc[p].lock /\ rawbuf.page = proc[p].addr

\* All of the jobs.
Jobs == SchedJob /\ \A p \in Slot : CopyJob(p) /\ OtherJob(p)

\* A busy header has someone who waits for its transfer.
Devices ==
    /\ swbuf.busy => at[swbuf.by] = "swapio"
    /\ rawbuf.busy => at[rawbuf.by] = "rawio"

\* The image of q is where it should be.
HasImage(q) ==
    Alive(q) /\ ~InCopy(q) =>
      IF InUse(q) THEN core[proc[q].addr] = proc[q].pid
      ELSE \A u \in SwapUnits(proc[q].addr) : swp[u] = proc[q].pid

\* The block that exit writes is not one of its image's.
Apart(q) ==
    Alive(q) /\ job[q].kind = "exit" =>
      /\ ~InUse(q) => job[q].a \notin SwapUnits(proc[q].addr)
      /\ Going(q) => job[q].a \notin SwapUnits(job[0].a)

\* A transfer that is done has put it where it is to be.
Transferred ==
    swbuf.busy /\ swbuf.done =>
      LET j == job[swbuf.by]
      IN  IF j.kind = "in" THEN core[j.a] = proc[j.who].pid
          ELSE \A u \in SwapUnits(j.a) : swp[u] = proc[j.who].pid

\* The invariant.
Memory ==
    /\ start \in Starts
    /\ core \in [1 .. start.core -> Int] /\ swp \in [1 .. start.swap -> Int]
    /\ Jobs /\ Devices
    /\ Shared(coremap, CoreF, start.core) /\ Shared(swapmap, SwapF, start.swap)
    /\ (\A q \in Slot : HasImage(q) /\ Apart(q)) /\ Transferred

-----------------------------------------------------------------------------
\* Sharing out the units of a map.

\* All that the processes have.
Shares(F) == UNION {F[q] : q \in Slot}

\* A unit that is had is had by somebody.
LEMMA SharesAre ==
    ASSUME NEW F, NEW u
    PROVE  u \in Shares(F) <=> \E q \in Slot : u \in F[q]
BY DEF Shares

\* Shared, with the union named.
LEMMA SharedIs ==
    ASSUME NEW m, NEW F, NEW n
    PROVE  Shared(m, F, n) <=>
             /\ m \in Seq(Entries) /\ WellFormed(m) /\ Units(m) \cup Shares(F) = 1 .. n
             /\ \A q \in Slot : F[q] \cap Units(m) = {} /\ \A r \in Slot \ {q} : F[q] \cap F[r] = {}
BY DEF Shared, Shares

\* What is free and what is had lies in the device; unit 0 is nobody's.
LEMMA ShareBounds ==
    ASSUME NEW m, NEW F, NEW n \in Nat, Shared(m, F, n)
    PROVE  /\ 0 \notin Units(m) /\ Units(m) \subseteq 1 .. n
           /\ \A q \in Slot : F[q] \subseteq 1 .. n
<1>1. Units(m) \cup Shares(F) = 1 .. n
  BY SharedIs
<1>2. \A q \in Slot : F[q] \subseteq Shares(F)
  BY SharesAre
<1> QED
  BY <1>1, <1>2

\* malloc of k units for q.
LEMMA MallocShares ==
    ASSUME NEW m, NEW F, NEW G, NEW n \in Nat, Shared(m, F, n), NEW q \in Slot, NEW k \in Nat \ {0},
           Malloc(m, k).addr # 0,
           G[q] = F[q] \cup (Malloc(m, k).addr .. Malloc(m, k).addr + k - 1),
           \A r \in Slot \ {q} : G[r] = F[r]
    PROVE  /\ Shared(Malloc(m, k).map, G, n)
           /\ \A r \in Slot : F[r] \cap (Malloc(m, k).addr .. Malloc(m, k).addr + k - 1) = {}
<1> DEFINE R == Malloc(m, k).addr .. Malloc(m, k).addr + k - 1
           w == Malloc(m, k).map
<1>1. /\ m \in Seq(Entries) /\ WellFormed(m) /\ Units(m) \cup Shares(F) = 1 .. n
      /\ \A r \in Slot : F[r] \cap Units(m) = {} /\ \A x \in Slot \ {r} : F[r] \cap F[x] = {}
  BY SharedIs
<1>2. w \in Seq(Entries) /\ WellFormed(w) /\ R \subseteq Units(m) /\ Units(w) = Units(m) \ R
  BY <1>1, ShareBounds, MallocTakes
<1>3. G[q] = F[q] \cup R
  OBVIOUS
<1> HIDE DEF R, w
<1>4. \A u : u \in Shares(G) <=> u \in Shares(F) \/ u \in R
  BY <1>3, SharesAre
<1>5. Units(w) \cup Shares(G) = 1 .. n
  BY <1>1, <1>2, <1>4
<1>6. \A r \in Slot : G[r] \cap Units(w) = {} /\ \A x \in Slot \ {r} : G[r] \cap G[x] = {}
  BY <1>1, <1>2, <1>3
<1>7. Shared(w, G, n)
  BY <1>2, <1>5, <1>6, SharedIs
<1>8. \A r \in Slot : F[r] \cap R = {}
  BY <1>1, <1>2
<1> QED
  BY <1>7, <1>8 DEF R, w

\* malloc that fails leaves the map alone.
LEMMA MallocFails ==
    ASSUME NEW m, NEW F, NEW n \in Nat, Shared(m, F, n), NEW k \in Nat \ {0}, Malloc(m, k).addr = 0
    PROVE  Malloc(m, k).map = m
<1>1. m \in Seq(Entries) /\ WellFormed(m) /\ 0 \notin Units(m)
  BY ShareBounds, SharedIs
<1> QED
  BY <1>1, MallocTakes

\* mfree of k units of q.
LEMMA MfreeShares ==
    ASSUME NEW m, NEW F, NEW G, NEW n \in Nat, Shared(m, F, n), NEW q \in Slot, NEW k \in Nat \ {0}, NEW a \in Nat,
           F[q] = G[q] \cup (a .. a + k - 1), G[q] \cap (a .. a + k - 1) = {},
           \A r \in Slot \ {q} : G[r] = F[r]
    PROVE  Shared(Mfree(m, k, a), G, n)
<1> DEFINE R == a .. a + k - 1
           w == Mfree(m, k, a)
<1>1. /\ m \in Seq(Entries) /\ WellFormed(m) /\ Units(m) \cup Shares(F) = 1 .. n
      /\ \A r \in Slot : F[r] \cap Units(m) = {} /\ \A x \in Slot \ {r} : F[r] \cap F[x] = {}
  BY SharedIs
<1>2. R \cap Units(m) = {}
  BY <1>1
<1>3. w \in Seq(Entries) /\ WellFormed(w) /\ Units(w) = Units(m) \cup R
  BY <1>1, <1>2, MfreeReturns
<1>4. F[q] = G[q] \cup R /\ G[q] \cap R = {}
  OBVIOUS
<1> HIDE DEF R, w
<1>5. \A u : u \in Shares(F) <=> u \in Shares(G) \/ u \in R
  BY <1>4, SharesAre
<1>6. Units(w) \cup Shares(G) = 1 .. n
  BY <1>1, <1>3, <1>5
<1>7. \A r \in Slot : G[r] \cap Units(w) = {} /\ \A x \in Slot \ {r} : G[r] \cap G[x] = {}
  BY <1>1, <1>3, <1>4
<1>8. Shared(w, G, n)
  BY <1>3, <1>6, <1>7, SharedIs
<1> QED
  BY <1>8 DEF w

-----------------------------------------------------------------------------
\* What a step leaves to a process.

\* What a status says of the image: there is none, a zombie's block, or a live one.
Class(s) == IF s = Null THEN "none" ELSE IF s = "SZOMB" THEN "zombie" ELSE "alive"

\* A step that leaves q all that Memory reads of it.
Stays(q) ==
    /\ proc'[q].pid = proc[q].pid /\ proc'[q].addr = proc[q].addr /\ proc'[q].load = proc[q].load
    /\ Class(proc'[q].stat) = Class(proc[q].stat)
    /\ InCopy(q)' <=> InCopy(q)
    /\ Coming(q)' <=> Coming(q)
    /\ Going(q)' <=> Going(q)
    /\ InCopy(q) \/ job[q].kind = "exit" \/ job'[q].kind = "exit" => job'[q] = job[q]
    /\ Coming(q) \/ Going(q) => job'[0].a = job[0].a

\* The three classes of status.
LEMMA ClassIs ==
    ASSUME NEW s
    PROVE  /\ Class(s) = "none" <=> s = Null
           /\ Class(s) = "zombie" <=> s = "SZOMB"
           /\ Class(s) = "alive" <=> s \notin {Null, "SZOMB"}
BY DEF Class, Null

\* Who stays is alive, in use or a zombie as before.
LEMMA StaysAlive ==
    ASSUME NEW q \in Slot, Stays(q)
    PROVE  /\ Alive(q)' <=> Alive(q)
           /\ InUse(q)' <=> InUse(q)
           /\ proc'[q].stat = "SZOMB" <=> proc[q].stat = "SZOMB"
<1>1. /\ proc'[q].stat = Null <=> proc[q].stat = Null
      /\ proc'[q].stat = "SZOMB" <=> proc[q].stat = "SZOMB"
  BY ClassIs DEF Stays
<1>2. Alive(q)' <=> Alive(q)
  BY <1>1 DEF Alive
<1>3. InUse(q)' <=> InUse(q)
  BY DEF InUse, Stays
<1> QED
  BY <1>1, <1>2, <1>3

\* Who stays has what it had.
LEMMA StaysHas ==
    ASSUME NEW q \in Slot, Stays(q)
    PROVE  CoreHas(q)' = CoreHas(q) /\ SwapHas(q)' = SwapHas(q)
<1>1. /\ Alive(q)' <=> Alive(q)
      /\ InUse(q)' <=> InUse(q)
      /\ proc'[q].stat = "SZOMB" <=> proc[q].stat = "SZOMB"
  BY StaysAlive
<1>2. /\ proc'[q].addr = proc[q].addr
      /\ InCopy(q)' <=> InCopy(q)
      /\ Coming(q)' <=> Coming(q)
      /\ Going(q)' <=> Going(q)
      /\ InCopy(q) \/ job[q].kind = "exit" \/ job'[q].kind = "exit" => job'[q] = job[q]
      /\ Coming(q) \/ Going(q) => job'[0].a = job[0].a
  BY DEF Stays
<1>3. CoreHas(q)' = CoreHas(q)
  BY <1>1, <1>2 DEF CoreHas
<1>4. SwapHas(q)' = SwapHas(q)
  <2>1. CASE InCopy(q)
    BY <1>1, <1>2, <2>1 DEF SwapHas
  <2>2. CASE ~InCopy(q)
    <3>1. (IF InUse(q) THEN {} ELSE SwapUnits(proc[q].addr))'
            = (IF InUse(q) THEN {} ELSE SwapUnits(proc[q].addr))
      BY <1>1, <1>2
    <3>2. (IF Going(q) THEN SwapUnits(job[0].a) ELSE {})' = (IF Going(q) THEN SwapUnits(job[0].a) ELSE {})
      BY <1>2
    <3>3. (IF job[q].kind = "exit" /\ job[q].a # 0 THEN {job[q].a} ELSE {})'
            = (IF job[q].kind = "exit" /\ job[q].a # 0 THEN {job[q].a} ELSE {})
      BY <1>2
    <3> QED
      BY <1>1, <1>2, <2>2, <3>1, <3>2, <3>3 DEF SwapHas
  <2> QED
    BY <2>1, <2>2
<1> QED
  BY <1>3, <1>4

\* When all stay, all shares do.
LEMMA AllStay ==
    ASSUME \A q \in Slot : Stays(q)
    PROVE  CoreF' = CoreF /\ SwapF' = SwapF
BY StaysHas DEF CoreF, SwapF

\* The shares, one by one.
LEMMA HasIs ==
    ASSUME NEW q \in Slot
    PROVE  CoreF[q] = CoreHas(q) /\ SwapF[q] = SwapHas(q)
BY DEF CoreF, SwapF

\* Where an image is belongs to its process.
LEMMA ImagePlace ==
    ASSUME NEW q \in Slot, Alive(q), ~InCopy(q)
    PROVE  /\ InUse(q) => proc[q].addr \in CoreHas(q)
           /\ ~InUse(q) => SwapUnits(proc[q].addr) \subseteq SwapHas(q)
<1>1. InUse(q) => proc[q].addr \in CoreHas(q)
  BY DEF CoreHas
<1>2. proc[q].stat # "SZOMB"
  BY DEF Alive
<1>3. ~InUse(q) => SwapUnits(proc[q].addr) \subseteq SwapHas(q)
  BY <1>2 DEF SwapHas
<1> QED
  BY <1>1, <1>3

\* The image of one who stays is right when the units it is in are not written.
LEMMA ImageKept ==
    ASSUME NEW q \in Slot, Stays(q), HasImage(q),
           Alive(q) /\ ~InCopy(q) =>
             IF InUse(q) THEN core'[proc[q].addr] = core[proc[q].addr]
             ELSE \A u \in SwapUnits(proc[q].addr) : swp'[u] = swp[u]
    PROVE  HasImage(q)'
<1> SUFFICES ASSUME Alive(q)', ~InCopy(q)' PROVE HasImage(q)'
  BY DEF HasImage
<1>1. Alive(q) /\ ~InCopy(q)
  BY StaysAlive DEF Stays
<1>2. InUse(q)' <=> InUse(q)
  BY StaysAlive
<1>3. proc'[q].addr = proc[q].addr /\ proc'[q].pid = proc[q].pid
  BY DEF Stays
<1>4. CASE InUse(q)
  <2>1. core[proc[q].addr] = proc[q].pid
    BY <1>1, <1>4 DEF HasImage
  <2> QED
    BY <1>1, <1>2, <1>3, <1>4, <2>1 DEF HasImage
<1>5. CASE ~InUse(q)
  <2>1. \A u \in SwapUnits(proc[q].addr) : swp'[u] = proc[q].pid
    BY <1>1, <1>5 DEF HasImage
  <2>2. SwapUnits(proc[q].addr)' = SwapUnits(proc[q].addr)
    BY <1>3 DEF SwapUnits
  <2>3. \A u \in SwapUnits(proc[q].addr)' : swp'[u] = proc'[q].pid
    BY <1>3, <2>1, <2>2
  <2> QED
    BY <1>2, <1>5, <2>3 DEF HasImage
<1> QED
  BY <1>4, <1>5

\* The same from what the process has.
LEMMA ImageStays ==
    ASSUME NEW q \in Slot, Stays(q), HasImage(q),
           \A x \in CoreHas(q) : core'[x] = core[x], \A u \in SwapHas(q) : swp'[u] = swp[u]
    PROVE  HasImage(q)'
<1>1. Alive(q) /\ ~InCopy(q) =>
        IF InUse(q) THEN core'[proc[q].addr] = core[proc[q].addr]
        ELSE \A u \in SwapUnits(proc[q].addr) : swp'[u] = swp[u]
  BY ImagePlace
<1> QED
  BY <1>1, ImageKept

\* q does nothing itself.
Rests(q) ==
    /\ at'[q] = at[q] /\ job'[q] = job[q] /\ proc'[q].lock = proc[q].lock
    /\ proc'[q].pid = proc[q].pid /\ proc'[q].addr = proc[q].addr /\ proc'[q].load = proc[q].load
    /\ Woken(proc'[q], proc[q])

\* Who rests stays, if the scheduler's job does.
LEMMA RestsStays ==
    ASSUME NEW q \in Slot, Rests(q), job'[0] = job[0] \/ ({job[0].kind, job'[0].kind} \cap {"in", "out"} = {})
    PROVE  Stays(q)
<1>1. Class(proc'[q].stat) = Class(proc[q].stat)
  BY ClassIs DEF Rests, Woken, Class, Null
<1>2. InCopy(q)' <=> InCopy(q)
  BY DEF Rests, InCopy
<1>3. (Coming(q)' <=> Coming(q)) /\ (Going(q)' <=> Going(q)) /\ (Coming(q) \/ Going(q) => job'[0].a = job[0].a)
  BY DEF Coming, Going
<1> QED
  BY <1>1, <1>2, <1>3 DEF Rests, Stays

\* Who rests remembers what it did.
LEMMA OtherJobRests ==
    ASSUME NEW q \in Slot, Rests(q), OtherJob(q), panic => panic',
           at[q] = "rawio" => rawbuf'.page = rawbuf.page,
           at[q] = "waitio" => proc'[job[q].who].addr = proc[job[q].who].addr
    PROVE  OtherJob(q)'
BY DEF OtherJob, Rests

\* A copy goes on while its original has what it had.
LEMMA CopyJobRests ==
    ASSUME NEW c \in Slot, Rests(c), CopyJob(c),
           InCopy(c) => \A p \in Slot : proc'[p].pid = job[c].pid =>
                          /\ proc[p].pid = job[c].pid /\ Alive(p)' /\ ~InCopy(p)'
                          /\ proc'[p].load = proc[p].load /\ proc'[p].addr = proc[p].addr
    PROVE  CopyJob(c)'
<1> SUFFICES ASSUME InCopy(c)' PROVE CopyJob(c)'
  BY DEF CopyJob
<1>1. /\ at'[c] = at[c] /\ job'[c] = job[c] /\ proc'[c].lock = proc[c].lock
      /\ proc'[c].addr = proc[c].addr /\ proc'[c].load = proc[c].load
      /\ Woken(proc'[c], proc[c])
  BY DEF Rests
<1>2. InCopy(c)
  BY <1>1 DEF InCopy
<1>3. /\ job[c].who = c /\ proc[c].load /\ proc[c].stat \in {"SRUN", "SSLEEP"}
      /\ proc[c].lock <=> job[c].a # 0
      /\ at[c] = "swapmap" <=> job[c].a = 0
  BY <1>2 DEF CopyJob
<1>4. \A p \in Slot : proc[p].pid = job[c].pid => proc[p].load /\ proc[p].addr = proc[c].addr
  BY <1>2 DEF CopyJob
<1>5. proc'[c].stat \in {"SRUN", "SSLEEP"}
  BY <1>1, <1>3 DEF Woken
<1>6. /\ job'[c].who = c /\ proc'[c].load
      /\ proc'[c].lock <=> job'[c].a # 0
      /\ at'[c] = "swapmap" <=> job'[c].a = 0
  BY <1>1, <1>3
<1>7. \A p \in Slot : proc'[p].pid = job'[c].pid =>
         Alive(p)' /\ proc'[p].load /\ proc'[p].addr = proc'[c].addr /\ ~InCopy(p)'
  BY <1>1, <1>2, <1>4
<1> QED
  BY <1>5, <1>6, <1>7 DEF CopyJob

\* The scheduler's job goes on while its process rests.
LEMMA SchedJobRests ==
    ASSUME SchedJob, at'[0] = at[0], job'[0] = job[0],
           job[0].kind # "none" => LET q == job[0].who IN q \in Slot /\ Rests(q)
    PROVE  SchedJob'
<1> DEFINE q == job[0].who
<1>1. CASE job[0].kind = "none"
  BY <1>1 DEF SchedJob
<1>2. CASE job[0].kind # "none"
  <2>1. /\ job[0].kind \in {"in", "out"} /\ at[0] \in {"swapget", "swapio"}
        /\ q # 0 /\ job[0].a # 0 /\ ~proc[q].load /\ ~InCopy(q) /\ at[q] \notin {"rawget", "rawio"}
        /\ job[0].kind = "in" => proc[q].stat = "SRUN"
        /\ job[0].kind = "out" => proc[q].stat \in {"SRUN", "SSLEEP", "SWAIT"}
    BY <1>2 DEF SchedJob
  <2>2. at'[q] = at[q] /\ proc'[q].load = proc[q].load /\ Woken(proc'[q], proc[q])
    BY <1>2 DEF Rests
  <2>3. /\ ~proc'[q].load /\ ~InCopy(q)' /\ at'[q] \notin {"rawget", "rawio"}
    BY <2>1, <2>2 DEF InCopy
  <2>4. /\ job[0].kind = "in" => proc'[q].stat = "SRUN"
        /\ job[0].kind = "out" => proc'[q].stat \in {"SRUN", "SSLEEP", "SWAIT"}
    BY <2>1, <2>2 DEF Woken
  <2> QED
    BY <1>2, <2>1, <2>3, <2>4 DEF SchedJob
<1> QED
  BY <1>1, <1>2

\* A finished transfer stays finished until its header is given back.
LEMMA TransferStays ==
    ASSUME Types, Transferred, swbuf'.busy /\ swbuf'.done => swbuf' = swbuf /\ job'[swbuf.by] = job[swbuf.by],
           UNCHANGED <<core, swp>>, \A q \in Slot : proc'[q].pid = proc[q].pid
    PROVE  Transferred'
<1> SUFFICES ASSUME swbuf'.busy /\ swbuf'.done PROVE Transferred'
  BY DEF Transferred
<1> DEFINE j == job[swbuf.by]
<1>1. swbuf' = swbuf /\ job'[swbuf.by] = j /\ core' = core /\ swp' = swp
  OBVIOUS
<1>2. j.who \in Slot
  BY DEF Types, Header, Job
<1>3. proc'[j.who].pid = proc[j.who].pid
  BY <1>2
<1>4. IF j.kind = "in" THEN core[j.a] = proc[j.who].pid
      ELSE \A u \in SwapUnits(j.a) : swp[u] = proc[j.who].pid
  BY <1>1 DEF Transferred
<1> HIDE DEF j
<1>5. IF j.kind = "in" THEN core'[j.a] = proc'[j.who].pid
      ELSE \A u \in SwapUnits(j.a) : swp'[u] = proc'[j.who].pid
  BY <1>1, <1>3, <1>4
<1> QED
  BY <1>1, <1>5 DEF Transferred, SwapUnits

\* The block of exit stays apart from the image of one who stays.
LEMMA ApartStays ==
    ASSUME NEW q \in Slot, Stays(q), Apart(q)
    PROVE  Apart(q)'
<1> SUFFICES ASSUME Alive(q)', job'[q].kind = "exit" PROVE Apart(q)'
  BY DEF Apart
<1>1. /\ job'[q] = job[q] /\ proc'[q].addr = proc[q].addr
      /\ Going(q)' <=> Going(q)
      /\ Going(q) => job'[0].a = job[0].a
  BY DEF Stays
<1>2. Alive(q) /\ (InUse(q)' <=> InUse(q))
  BY StaysAlive
<1>3. /\ ~InUse(q) => job[q].a \notin SwapUnits(proc[q].addr)
      /\ Going(q) => job[q].a \notin SwapUnits(job[0].a)
  BY <1>1, <1>2 DEF Apart
<1>4. ~InUse(q)' => job'[q].a \notin SwapUnits(proc'[q].addr)
  BY <1>1, <1>2, <1>3
<1>5. Going(q)' => job'[q].a \notin SwapUnits(job'[0].a)
  BY <1>1, <1>3
<1> QED
  BY <1>4, <1>5 DEF Apart, SwapUnits

\* A step that moves p only, and leaves everybody what he has.
LEMMA FrameStep ==
    ASSUME Table, Memory, NEW p \in Slot, Stays(p), \A q \in Slot \ {p} : Rests(q),
           job'[0] = job[0] \/ ({job[0].kind, job'[0].kind} \cap {"in", "out"} = {}),
           UNCHANGED <<coremap, swapmap, start>>, panic => panic',
           \A q \in Slot \ {p} : at[q] = "rawio" => rawbuf'.page = rawbuf.page,
           OtherJob(p)', CopyJob(p)', SchedJob'
    PROVE  /\ \A q \in Slot : Stays(q) /\ Apart(q)'
           /\ Shared(coremap, CoreF, start.core)' /\ Shared(swapmap, SwapF, start.swap)'
           /\ Jobs'
<1>1. \A q \in Slot : Stays(q)
  BY RestsStays
<1>2. CoreF' = CoreF /\ SwapF' = SwapF
  BY <1>1, AllStay
<1>3. Shared(coremap, CoreF, start.core)' /\ Shared(swapmap, SwapF, start.swap)'
  BY <1>2 DEF Memory, Shared
<1>4. \A q \in Slot : Apart(q)'
  BY <1>1, ApartStays DEF Memory
<1>5. \A q \in Slot \ {p} : OtherJob(q)'
  <2> SUFFICES ASSUME NEW q \in Slot \ {p} PROVE OtherJob(q)'
    OBVIOUS
  <2>1. job[q].who \in Slot
    BY DEF Table, Types, Job
  <2>2. proc'[job[q].who].addr = proc[job[q].who].addr
    BY <1>1, <2>1 DEF Stays
  <2>3. OtherJob(q)
    BY DEF Memory, Jobs
  <2> QED
    BY <2>2, <2>3, OtherJobRests
<1>6. \A q \in Slot \ {p} : CopyJob(q)'
  <2> SUFFICES ASSUME NEW q \in Slot \ {p} PROVE CopyJob(q)'
    OBVIOUS
  <2>1. CopyJob(q) /\ Rests(q)
    BY DEF Memory, Jobs
  <2>2. ASSUME InCopy(q), NEW r \in Slot, proc'[r].pid = job[q].pid
        PROVE  /\ proc[r].pid = job[q].pid /\ Alive(r)' /\ ~InCopy(r)'
               /\ proc'[r].load = proc[r].load /\ proc'[r].addr = proc[r].addr
    <3>1. /\ proc'[r].load = proc[r].load /\ proc'[r].addr = proc[r].addr /\ proc'[r].pid = proc[r].pid
          /\ InCopy(r)' <=> InCopy(r)
      BY <1>1 DEF Stays
    <3>2. Alive(r) /\ ~InCopy(r)
      BY <2>1, <2>2, <3>1 DEF CopyJob
    <3>3. Alive(r)'
      BY <1>1, <3>2, StaysAlive
    <3> QED
      BY <2>2, <3>1, <3>2, <3>3
  <2> QED
    BY <2>1, <2>2, CopyJobRests
<1>7. Jobs'
  BY <1>5, <1>6 DEF Jobs
<1> QED
  BY <1>1, <1>3, <1>4, <1>7

\* It changes no image either.
LEMMA CalmStep ==
    ASSUME Table, Memory, NEW p \in Slot, Stays(p), \A q \in Slot \ {p} : Rests(q),
           job'[0] = job[0] \/ ({job[0].kind, job'[0].kind} \cap {"in", "out"} = {}),
           UNCHANGED <<coremap, swapmap, core, swp, start>>, panic => panic',
           \A q \in Slot \ {p} : at[q] = "rawio" => rawbuf'.page = rawbuf.page,
           swbuf'.busy /\ swbuf'.done => swbuf' = swbuf /\ job'[swbuf.by] = job[swbuf.by],
           OtherJob(p)', CopyJob(p)', SchedJob', Devices'
    PROVE  Memory'
<1>1. /\ \A q \in Slot : Stays(q) /\ Apart(q)'
      /\ Shared(coremap, CoreF, start.core)' /\ Shared(swapmap, SwapF, start.swap)'
      /\ Jobs'
  BY FrameStep
<1>2. \A q \in Slot : HasImage(q)'
  BY <1>1, ImageStays DEF Memory
<1>3. Transferred'
  <2>1. \A q \in Slot : proc'[q].pid = proc[q].pid
    BY <1>1 DEF Stays
  <2> QED
    BY <2>1, TransferStays DEF Memory, Table
<1>4. start' \in Starts /\ core' \in [1 .. start'.core -> Int] /\ swp' \in [1 .. start'.swap -> Int]
  BY DEF Memory
<1> QED
  BY <1>1, <1>2, <1>3, <1>4 DEF Memory

-----------------------------------------------------------------------------
\* Steps that leave everybody what he has.

LEMMA SchedJobStays ==
    ASSUME Table, SchedJob, NEW p \in Slot \ {0}, proc[p].load, \A q \in Slot \ {p} : Rests(q)
    PROVE  SchedJob'
<1>1. at'[0] = at[0] /\ job'[0] = job[0]
  BY SlotIs DEF Rests
<1>2. job[0].who \in Slot
  BY SlotIs DEF Table, Types, Job
<1>3. job[0].kind # "none" => ~proc[job[0].who].load
  BY DEF SchedJob
<1> QED
  BY <1>1, <1>2, <1>3, SchedJobRests

\* A call, or the end of a sleep in one, that touches neither maps nor buffers.
LEMMA CalmCall ==
    ASSUME Table, Memory, NEW p \in Slot \ {0}, Run(p), at[p] \in {"user", "psig", "wait", "psread"},
           at'[p] \in {"user", "psig", "wait", "waitio", "psread"}, \A q \in Slot \ {p} : Rests(q),
           proc'[p].pid = proc[p].pid, proc'[p].addr = proc[p].addr, proc'[p].load = proc[p].load,
           proc'[p].stat \in {"SRUN", "SSLEEP", "SWAIT"}, job'[p] \in Job,
           job'[p] = job[p] \/ job'[p].kind \in {"none", "wait", "ps"},
           at'[p] = "waitio" => job'[p].a = proc'[job'[p].who].addr,
           UNCHANGED <<coremap, swapmap, core, swp, start, panic, bufs>>
    PROVE  Memory'
<1>1. proc[p].load /\ proc[p].stat = "SRUN"
  BY DEF Run
<1>2. SchedJob'
  BY <1>1, SchedJobStays DEF Memory, Jobs
<1>3. ~InCopy(p) /\ ~InCopy(p)'
  BY DEF InCopy
<1>4. job[p].kind \notin {"copy", "exit", "in", "out"}
  BY <1>3 DEF Memory, Jobs, OtherJob, Table, CopyInv
<1>5. job'[p].kind \notin {"copy", "exit", "in", "out"}
  BY <1>4
<1>6. at'[0] = at[0] /\ job'[0] = job[0] /\ 0 \in Slot
  BY SlotIs DEF Rests
<1>7. Stays(p)
  <2>1. Class(proc'[p].stat) = Class(proc[p].stat)
    BY <1>1 DEF Class, Null
  <2>2. (Coming(p)' <=> Coming(p)) /\ (Going(p)' <=> Going(p)) /\ (Coming(p) \/ Going(p) => job'[0].a = job[0].a)
    BY <1>6 DEF Coming, Going
  <2> QED
    BY <1>3, <1>4, <1>5, <2>1, <2>2 DEF Stays
<1>8. OtherJob(p)'
  BY <1>5 DEF OtherJob
<1>9. CopyJob(p)'
  BY <1>3 DEF CopyJob
<1>10. Devices'
  <2>1. Devices /\ UNCHANGED <<swbuf, rawbuf>>
    BY DEF Memory, bufs
  <2>2. swbuf.by \in Slot /\ rawbuf.by \in Slot
    BY DEF Table, Types, Header
  <2>3. \A q \in Slot : at[q] \in {"swapio", "rawio"} => at'[q] = at[q]
    BY DEF Rests
  <2> QED
    BY <2>1, <2>2, <2>3 DEF Devices
<1>11. swbuf'.busy /\ swbuf'.done => swbuf' = swbuf /\ job'[swbuf.by] = job[swbuf.by]
  <2>1. swbuf.by \in Slot /\ swbuf' = swbuf /\ (swbuf.busy => at[swbuf.by] = "swapio")
    BY DEF Table, Types, Header, Memory, Devices, bufs
  <2> QED
    BY <2>1 DEF Rests
<1>12. \A q \in Slot \ {p} : at[q] = "rawio" => rawbuf'.page = rawbuf.page
  BY DEF bufs
<1> QED
  BY <1>2, <1>6, <1>7, <1>8, <1>9, <1>10, <1>11, <1>12, CalmStep

\* Those who are woken, and nobody else, and those who are left alone.
LEMMA WokenRests ==
    ASSUME NEW q \in Slot, at'[q] = at[q], job'[q] = job[q], SameButStat(proc'[q], proc[q]), Woken(proc'[q], proc[q])
    PROVE  Rests(q)
BY DEF Rests, SameButStat

\* Who is left alone rests.
LEMMA LeftRests ==
    ASSUME NEW q \in Slot, at'[q] = at[q], job'[q] = job[q], proc'[q] = proc[q]
    PROVE  Rests(q)
BY DEF Rests, Woken

\* A signal ends the sleep of wait (pwait).
LEMMA WaitIntrMemory ==
    ASSUME Table, Memory, NEW p \in Slot, WaitIntr(p)
    PROVE  Memory'
<1>1. /\ Run(p) /\ at[p] = "wait" /\ at' = [at EXCEPT ![p] = "psig"] /\ UNCHANGED <<proc, job>>
      /\ UNCHANGED <<coremap, swapmap, core, swp, start, panic, bufs>>
  BY DEF WaitIntr, maps, memory, rest
<1>2. p # 0
  BY <1>1 DEF Table, PlaceInv
<1>3. at'[p] = "psig" /\ \A q \in Slot \ {p} : at'[q] = at[q]
  BY <1>1 DEF Table, Types
<1>4. \A q \in Slot \ {p} : Rests(q)
  BY <1>1, <1>3, LeftRests
<1>5. proc'[p].stat = "SRUN" /\ job'[p] \in Job
  BY <1>1 DEF Run, Table, Types
<1> QED
  BY <1>1, <1>2, <1>3, <1>4, <1>5, CalmCall

\* The signal call.
LEMMA SsigMemory ==
    ASSUME Table, Memory, NEW p \in Slot, NEW h \in {"dfl", "ign", "fun"}, Ssig(p, h)
    PROVE  Memory'
<1>1. /\ Run(p) /\ at[p] = "user" /\ UNCHANGED job
      /\ proc' = proc \/ proc' = [proc EXCEPT ![p].sig = "none"]
      /\ UNCHANGED <<coremap, swapmap, core, swp, start, panic, bufs>>
  BY DEF Ssig, UserCall, maps, memory, rest
<1>2. p # 0
  BY <1>1 DEF Table, PlaceInv
<1>3. at'[p] \in {"user", "psig"} /\ \A q \in Slot \ {p} : at'[q] = at[q]
  BY BackIs DEF Ssig, Table, Types
<1>4. proc \in [Slot -> Row]
  BY DEF Table, Types
<1>5. \A q \in Slot \ {p} : proc'[q] = proc[q]
  BY <1>1, <1>4
<1>6. /\ proc'[p].pid = proc[p].pid /\ proc'[p].addr = proc[p].addr /\ proc'[p].load = proc[p].load
      /\ proc'[p].stat = proc[p].stat
  <2>1. CASE proc' = [proc EXCEPT ![p].sig = "none"]
    <3>1. PICK e \in Row : e = proc[p]
      BY <1>4
    <3>2. proc'[p] = [e EXCEPT !.sig = "none"]
      BY <1>4, <2>1, <3>1
    <3> QED
      BY <3>1, <3>2 DEF Row
  <2> QED
    BY <1>1, <2>1
<1>7. \A q \in Slot \ {p} : Rests(q)
  BY <1>1, <1>3, <1>5, LeftRests
<1>8. proc'[p].stat = "SRUN" /\ job'[p] \in Job
  BY <1>1, <1>6 DEF Run, Table, Types
<1> QED
  BY <1>1, <1>2, <1>3, <1>6, <1>7, <1>8, CalmCall

\* wait: a zombie's block is read, or the call sleeps or fails.
LEMMA WaitMemory ==
    ASSUME Table, Table', Memory, NEW p \in Slot, Wait(p)
    PROVE  Memory'
<1>1. /\ Run(p) /\ at[p] \in {"user", "wait"} /\ proc[p].stat = "SRUN"
      /\ UNCHANGED <<coremap, swapmap, core, swp, start, panic, bufs>>
  BY DEF Wait, Run, maps, memory, rest
<1>2. p # 0
  BY <1>1 DEF Table, PlaceInv
<1>3. proc \in [Slot -> Row] /\ at \in [Slot -> Places] /\ job \in [Slot -> Job] /\ job' \in [Slot -> Job]
  BY DEF Table, Types
<1>4. CASE /\ Zombies(p) # {}
           /\ LET z == Min(Zombies(p))
              IN  job' = [job EXCEPT ![p] = [NoJob EXCEPT !.kind = "wait", !.who = z, !.a = proc[z].addr]]
           /\ proc' = Sleep(proc, p) /\ at' = [at EXCEPT ![p] = "waitio"]
  <2>1. PICK z \in Slot : job' = [job EXCEPT ![p] = [NoJob EXCEPT !.kind = "wait", !.who = z, !.a = proc[z].addr]]
    <3>1. Zombies(p) \in SUBSET Slot
      BY DEF Zombies, Children
    <3> QED
      BY <1>4, <3>1, MinOfSlots
  <2>2. job'[p].kind = "wait" /\ job'[p].who = z /\ job'[p].a = proc[z].addr
    BY <1>3, <2>1 DEF NoJob
  <2>3. \A q \in Slot \ {p} : job'[q] = job[q]
    BY <1>3, <2>1
  <2>4. /\ proc'[p].stat = "SSLEEP" /\ \A q \in Slot : SameButStat(proc'[q], proc[q]) /\ (q # p => proc'[q] = proc[q])
    BY <1>4, SleepIs DEF Table
  <2>5. at'[p] = "waitio" /\ \A q \in Slot \ {p} : at'[q] = at[q]
    BY <1>3, <1>4
  <2>6. \A q \in Slot \ {p} : Rests(q)
    BY <2>3, <2>4, <2>5, LeftRests
  <2>7. proc'[p].pid = proc[p].pid /\ proc'[p].addr = proc[p].addr /\ proc'[p].load = proc[p].load
    BY <2>4 DEF SameButStat
  <2>8. job'[p].a = proc'[job'[p].who].addr
    BY <2>2, <2>4 DEF SameButStat
  <2>9. job'[p] \in Job
    BY <1>3
  <2> QED
    BY <1>1, <1>2, <2>2, <2>4, <2>5, <2>6, <2>7, <2>8, <2>9, CalmCall
<1>5. CASE proc' = SleepLow(proc, p) /\ at' = [at EXCEPT ![p] = "wait"] /\ UNCHANGED job
  <2> DEFINE R == Wakeup(proc, {"runin"})
  <2>1. R \in [Slot -> Row] /\ \A q \in Slot : SameButStat(R[q], proc[q]) /\ Woken(R[q], proc[q])
    BY WakeupIs DEF Table
  <2>2. proc' = [R EXCEPT ![p].stat = "SWAIT"]
    BY <1>5 DEF SleepLow
  <2> HIDE DEF R
  <2>3. /\ proc'[p].stat = "SWAIT"
        /\ \A q \in Slot : SameButStat(proc'[q], R[q]) /\ (q # p => proc'[q] = R[q])
    <3>1. "SWAIT" \in Stats
      BY DEF Stats
    <3> QED
      BY <2>1, <2>2, <3>1, StatExcept
  <2>4. at'[p] = "wait" /\ \A q \in Slot \ {p} : at'[q] = at[q]
    BY <1>3, <1>5
  <2>5. \A q \in Slot \ {p} : Rests(q)
    BY <1>5, <2>1, <2>3, <2>4, WokenRests
  <2>6. proc'[p].pid = proc[p].pid /\ proc'[p].addr = proc[p].addr /\ proc'[p].load = proc[p].load
    BY <2>1, <2>3 DEF SameButStat
  <2>7. job'[p] = job[p] /\ job'[p] \in Job
    BY <1>3, <1>5
  <2> QED
    BY <1>1, <1>2, <2>3, <2>4, <2>5, <2>6, <2>7, CalmCall
<1>6. CASE at' = [at EXCEPT ![p] = Back(proc, p)] /\ UNCHANGED <<proc, job>>
  <2>1. at'[p] \in {"user", "psig"} /\ \A q \in Slot \ {p} : at'[q] = at[q]
    BY <1>3, <1>6, BackIs
  <2>2. \A q \in Slot \ {p} : Rests(q)
    BY <1>6, <2>1, LeftRests
  <2>3. job'[p] = job[p] /\ job'[p] \in Job /\ proc'[p] = proc[p]
    BY <1>3, <1>6
  <2> QED
    BY <1>1, <1>2, <2>1, <2>2, <2>3, CalmCall
<1> QED
  BY <1>4, <1>5, <1>6 DEF Wait

\* kill signals its targets and wakes those who wait.
LEMMA KillMemory ==
    ASSUME Table, Memory, NEW p \in Slot, NEW T \in Targets(p), NEW g \in {"INT", "KIL"}, Kill(p, T, g)
    PROVE  Memory'
<1> DEFINE P == [q \in Slot |-> IF q \in T THEN Signalled(q, g) ELSE proc[q]]
           W == {q \in T : proc[q].stat = "SWAIT"}
<1>1. /\ Run(p) /\ at[p] = "user" /\ proc[p].stat = "SRUN" /\ UNCHANGED job
      /\ proc' = SetRun(P, W) /\ at' = [at EXCEPT ![p] = Back(proc', p)]
      /\ UNCHANGED <<coremap, swapmap, core, swp, start, panic, bufs>>
  BY DEF Kill, UserCall, Run, maps, memory, rest
<1>2. p # 0
  BY <1>1 DEF Table, PlaceInv
<1>3. at'[p] \in {"user", "psig"} /\ \A q \in Slot \ {p} : at'[q] = at[q]
  BY <1>1, BackIs DEF Table, Types
<1>4. proc \in [Slot -> Row] /\ T \subseteq Slot
  BY DEF Table, Types, Targets, Others
<1>5. ASSUME NEW q \in Slot
      PROVE  /\ P[q] \in Row
             /\ P[q].pid = proc[q].pid /\ P[q].addr = proc[q].addr
             /\ P[q].load = proc[q].load /\ P[q].lock = proc[q].lock
             /\ P[q].stat = proc[q].stat \/ (P[q].stat = "SRUN" /\ proc[q].stat = "SWAIT")
  <2>1. CASE q \notin T
    BY <1>4, <2>1
  <2>2. CASE q \in T
    <3>1. PICK e \in Row : e = proc[q]
      BY <1>4
    <3>2. PICK f : f = [e EXCEPT !.sig = IF @ = "KIL" THEN @ ELSE g, !.stat = IF @ = "SWAIT" THEN "SRUN" ELSE @]
      OBVIOUS
    <3>3. P[q] = f
      BY <2>2, <3>1, <3>2 DEF Signalled
    <3>4. f \in Row
      BY <3>2 DEF Row, Stats
    <3>5. f.pid = e.pid /\ f.addr = e.addr /\ f.load = e.load /\ f.lock = e.lock
      BY <3>2 DEF Row
    <3>6. f.stat = IF e.stat = "SWAIT" THEN "SRUN" ELSE e.stat
      BY <3>2 DEF Row
    <3> QED
      BY <3>1, <3>3, <3>4, <3>5, <3>6
  <2> QED
    BY <2>1, <2>2
<1>6. P \in [Slot -> Row] /\ W \in SUBSET Slot
  BY <1>4, <1>5
<1> HIDE DEF P, W
<1>7. /\ \A q \in Slot : SameButStat(proc'[q], P[q]) /\ proc'[q].stat \in {P[q].stat, "SRUN"}
      /\ \A q \in Slot \ W : q # 0 \/ at[0] # "runout" => proc'[q] = P[q]
  BY <1>1, <1>6, SetRunIs DEF Table
<1>8. /\ \A q \in W : proc[q].stat = "SWAIT"
      /\ proc[0].stat \in {"SRUN", "SSLEEP"}
  BY DEF W, Table, Founders
<1>9. \A q \in Slot : Woken(proc'[q], proc[q])
  <2> SUFFICES ASSUME NEW q \in Slot PROVE Woken(proc'[q], proc[q])
    OBVIOUS
  <2>1. P[q].stat = proc[q].stat \/ (P[q].stat = "SRUN" /\ proc[q].stat = "SWAIT")
    BY <1>5
  <2>2. CASE q \in W
    BY <1>7, <1>8, <2>1, <2>2 DEF Woken
  <2>3. CASE q = 0
    BY <1>7, <1>8, <2>1, <2>3 DEF Woken
  <2>4. CASE q \notin W /\ q # 0
    BY <1>7, <2>1, <2>4 DEF Woken
  <2> QED
    BY <2>2, <2>3, <2>4
<1>10. \A q \in Slot : /\ proc'[q].pid = proc[q].pid /\ proc'[q].addr = proc[q].addr
                       /\ proc'[q].load = proc[q].load /\ proc'[q].lock = proc[q].lock
  BY <1>5, <1>7 DEF SameButStat
<1>11. \A q \in Slot \ {p} : Rests(q)
  BY <1>1, <1>3, <1>9, <1>10 DEF Rests
<1>12. proc'[p].stat = "SRUN" /\ job'[p] = job[p] /\ job'[p] \in Job
  BY <1>1, <1>9 DEF Woken, Table, Types
<1> QED
  BY <1>1, <1>2, <1>3, <1>10, <1>11, <1>12, CalmCall

\* One turn of psinfo's loop over the table.
LEMMA PsinfoLoopMemory ==
    ASSUME Table, Memory, NEW p \in Slot, Run(p), at[p] \in {"user", "psread"}, NEW s \in Slot, PsinfoLoop(p, s)
    PROVE  Memory'
<1>1. /\ UNCHANGED <<coremap, swapmap, core, swp, start, panic, bufs>> /\ proc[p].stat = "SRUN"
  BY DEF PsinfoLoop, maps, memory, Run
<1>2. p # 0
  BY DEF Table, PlaceInv
<1>3. proc \in [Slot -> Row] /\ at \in [Slot -> Places] /\ job \in [Slot -> Job]
  BY DEF Table, Types
<1>4. ASSUME at' = [at EXCEPT ![p] = Back(proc, p)], job' = [job EXCEPT ![p] = NoJob], UNCHANGED proc
      PROVE  Memory'
  <2>1. at'[p] \in {"user", "psig"} /\ \A q \in Slot \ {p} : at'[q] = at[q]
    BY <1>3, <1>4, BackIs
  <2>2. job'[p] = NoJob /\ \A q \in Slot \ {p} : job'[q] = job[q]
    BY <1>3, <1>4
  <2>3. job'[p] \in Job /\ job'[p].kind = "none"
    BY <2>2, NoJobType DEF NoJob
  <2>4. \A q \in Slot \ {p} : Rests(q)
    BY <1>4, <2>1, <2>2, LeftRests
  <2> QED
    BY <1>1, <1>2, <1>4, <2>1, <2>3, <2>4, CalmCall
<1>5. ASSUME proc' = Sleep(proc, p), at' = [at EXCEPT ![p] = "psread"], NEW u,
             job' = [job EXCEPT ![p] = [kind |-> "ps", who |-> s, a |-> u, pid |-> proc[s].pid]], u \in Nat
      PROVE  Memory'
  <2>1. at'[p] = "psread" /\ \A q \in Slot \ {p} : at'[q] = at[q]
    BY <1>3, <1>5
  <2>2. job'[p].kind = "ps" /\ job'[p] \in Job
    BY <1>3, <1>5 DEF Job, Row
  <2>3. \A q \in Slot \ {p} : job'[q] = job[q]
    BY <1>3, <1>5
  <2>4. /\ proc'[p].stat = "SSLEEP" /\ \A q \in Slot : SameButStat(proc'[q], proc[q]) /\ (q # p => proc'[q] = proc[q])
    BY <1>5, SleepIs DEF Table
  <2>5. \A q \in Slot \ {p} : Rests(q)
    BY <2>1, <2>3, <2>4, LeftRests
  <2>6. proc'[p].pid = proc[p].pid /\ proc'[p].addr = proc[p].addr /\ proc'[p].load = proc[p].load
    BY <2>4 DEF SameButStat
  <2> QED
    BY <1>1, <1>2, <2>1, <2>2, <2>4, <2>5, <2>6, CalmCall
<1>6. Frame(proc[s].addr) \in Nat
  BY <1>3, ProcsAssumption DEF Frame, Row
<1> QED
  BY <1>4, <1>5, <1>6 DEF PsinfoLoop, PsinfoOut

\* psinfo starts, or goes on after a read.
LEMMA PsinfoMemory ==
    ASSUME Table, Memory, NEW p \in Slot, (\E s \in Slot : Psinfo(p, s)) \/ PsinfoRead(p)
    PROVE  Memory'
<1>1. CASE \E s \in Slot : Psinfo(p, s)
  BY <1>1, PsinfoLoopMemory DEF Psinfo, UserCall
<1>2. CASE PsinfoRead(p)
  <2>1. Run(p) /\ at[p] = "psread"
    BY <1>2 DEF PsinfoRead
  <2>2. job[p].who \in Slot
    BY DEF Table, Types, Job
  <2>3. CASE PsinfoLoop(p, job[p].who)
    BY <2>1, <2>2, <2>3, PsinfoLoopMemory
  <2>4. CASE /\ at' = [at EXCEPT ![p] = Back(proc, p)] /\ job' = [job EXCEPT ![p] = NoJob] /\ UNCHANGED proc
             /\ UNCHANGED <<hand, maps, memory, bufs, mpid, panic, start>>
    <3>1. /\ UNCHANGED <<coremap, swapmap, core, swp, start, panic, bufs>> /\ proc[p].stat = "SRUN"
      BY <2>1, <2>4 DEF maps, memory, Run
    <3>2. p # 0
      BY <2>1 DEF Table, PlaceInv
    <3>3. proc \in [Slot -> Row] /\ at \in [Slot -> Places] /\ job \in [Slot -> Job]
      BY DEF Table, Types
    <3>4. at'[p] \in {"user", "psig"} /\ \A q \in Slot \ {p} : at'[q] = at[q]
      BY <2>4, <3>3, BackIs
    <3>5. job'[p] = NoJob /\ \A q \in Slot \ {p} : job'[q] = job[q]
      BY <2>4, <3>3
    <3>6. job'[p] \in Job /\ job'[p].kind = "none"
      BY <3>5, NoJobType DEF NoJob
    <3>7. \A q \in Slot \ {p} : Rests(q)
      BY <2>4, <3>4, <3>5, LeftRests
    <3> QED
      BY <2>1, <2>4, <3>1, <3>2, <3>4, <3>6, <3>7, CalmCall
  <2> QED
    BY <1>2, <2>3, <2>4 DEF PsinfoRead, PsinfoOut
<1> QED
  BY <1>1, <1>2

\* The copy of a child moves on to wait for the header or for its transfer.
LEMMA CopyJobMoves ==
    ASSUME NEW c \in Slot, CopyJob(c), InCopy(c), job'[c] = job[c],
           proc'[c].lock = proc[c].lock, proc'[c].stat \in {"SRUN", "SSLEEP"},
           at'[c] \in {"swapget", "swapio"}, at[c] # "swapmap", \A q \in Slot : Stays(q)
    PROVE  CopyJob(c)'
<1>1. /\ job[c].who = c /\ proc[c].load
      /\ proc[c].lock <=> job[c].a # 0
      /\ at[c] = "swapmap" <=> job[c].a = 0
      /\ \A p \in Slot : proc[p].pid = job[c].pid =>
           Alive(p) /\ proc[p].load /\ proc[p].addr = proc[c].addr /\ ~InCopy(p)
  BY DEF CopyJob
<1>2. \A q \in Slot : /\ proc'[q].pid = proc[q].pid /\ proc'[q].load = proc[q].load /\ proc'[q].addr = proc[q].addr
                      /\ InCopy(q)' <=> InCopy(q)
  BY DEF Stays
<1>3. \A q \in Slot : Alive(q)' <=> Alive(q)
  BY StaysAlive
<1>4. \A p \in Slot : proc'[p].pid = job'[c].pid =>
         Alive(p)' /\ proc'[p].load /\ proc'[p].addr = proc'[c].addr /\ ~InCopy(p)'
  BY <1>1, <1>2, <1>3
<1>5. /\ job'[c].who = c /\ proc'[c].load
      /\ proc'[c].lock <=> job'[c].a # 0
      /\ at'[c] = "swapmap" <=> job'[c].a = 0
  BY <1>1, <1>2
<1> QED
  BY <1>4, <1>5 DEF CopyJob

\* swap waits for its buffer, or takes it.
LEMMA GetSwbufDevices ==
    ASSUME Table, Memory, NEW t \in Slot, GetSwbuf(t), at[t] \notin {"swapio", "rawio"}, UNCHANGED rawbuf
    PROVE  /\ Devices'
           /\ swbuf'.busy /\ swbuf'.done => swbuf' = swbuf /\ swbuf.by # t
<1>1. /\ at \in [Slot -> Places] /\ swbuf \in Header /\ rawbuf.by \in Slot
      /\ swbuf.busy => at[swbuf.by] = "swapio"
      /\ rawbuf.busy => at[rawbuf.by] = "rawio"
  BY DEF Table, Types, Header, Memory, Devices
<1>2. \A q \in Slot \ {t} : at'[q] = at[q]
  BY <1>1 DEF GetSwbuf
<1>3. CASE swbuf.busy
  <2>1. swbuf' = swbuf
    BY <1>3 DEF GetSwbuf
  <2>2. swbuf.by \in Slot \ {t}
    BY <1>1, <1>3 DEF Header
  <2> QED
    BY <1>1, <1>2, <1>3, <2>1, <2>2 DEF Devices
<1>4. CASE ~swbuf.busy
  <2>1. swbuf' = [Idle EXCEPT !.busy = TRUE, !.by = t] /\ at'[t] = "swapio"
    BY <1>1, <1>4 DEF GetSwbuf
  <2>2. swbuf'.by = t /\ swbuf'.done = FALSE
    BY <2>1 DEF Idle
  <2> QED
    BY <1>1, <1>2, <2>1, <2>2 DEF Devices
<1> QED
  BY <1>3, <1>4

\* swap finds the header busy and sleeps, or takes it.
LEMMA SwapGetMemory ==
    ASSUME Table, Memory, NEW t \in Slot, SwapGet(t)
    PROVE  Memory'
<1>1. /\ proc' \in [Slot -> Row] /\ proc'[t].stat = "SSLEEP"
      /\ \A q \in Slot : SameButStat(proc'[q], proc[q]) /\ (q # t => proc'[q] = proc[q])
  BY SleepIs DEF Table, SwapGet
<1>2. /\ GetSwbuf(t) /\ proc[t].stat = "SRUN" /\ at[t] = "swapget" /\ UNCHANGED job
      /\ UNCHANGED <<coremap, swapmap, core, swp, start, panic, rawbuf>>
  BY DEF SwapGet, Run, maps, memory, rest
<1>3. at'[t] \in {"swapget", "swapio"} /\ \A q \in Slot \ {t} : at'[q] = at[q]
  BY <1>2, GetSwbufType DEF Table
<1>4. \A q \in Slot \ {t} : Rests(q)
  BY <1>1, <1>2, <1>3, LeftRests
<1>5. InCopy(t)' <=> InCopy(t)
  BY <1>2, <1>3 DEF InCopy
<1>6. Stays(t)
  <2>1. Class(proc'[t].stat) = Class(proc[t].stat)
    BY <1>1, <1>2 DEF Class, Null
  <2>2. (Coming(t)' <=> Coming(t)) /\ (Going(t)' <=> Going(t))
    BY <1>2 DEF Coming, Going
  <2> QED
    BY <1>1, <1>2, <1>5, <2>1, <2>2 DEF Stays, SameButStat
<1>7. \A q \in Slot : Stays(q)
  BY <1>2, <1>4, <1>6, RestsStays
<1>8. SchedJob /\ OtherJob(t) /\ CopyJob(t)
  BY DEF Memory, Jobs
<1>9. OtherJob(t)'
  BY <1>2, <1>3, <1>8 DEF OtherJob
<1>10. CopyJob(t)'
  <2>1. CASE InCopy(t)
    BY <1>1, <1>2, <1>3, <1>7, <1>8, <2>1, CopyJobMoves DEF SameButStat
  <2>2. CASE ~InCopy(t)
    BY <1>5, <2>2 DEF CopyJob
  <2> QED
    BY <2>1, <2>2
<1>11. SchedJob'
  <2>1. CASE t # 0
    <3>1. proc[t].load
      BY DEF SwapGet, Run
    <3> QED
      BY <1>4, <1>8, <2>1, <3>1, SchedJobStays
  <2>2. CASE t = 0
    <3>1. job[0].who \in Slot /\ 0 \in Slot
      BY SlotIs DEF Table, Types, Job
    <3>2. job[0].kind # "none"
      BY <1>2, <1>8, <2>2 DEF SchedJob
    <3> DEFINE q == job[0].who
    <3>3. /\ job[0].kind \in {"in", "out"} /\ q # 0 /\ job[0].a # 0 /\ ~proc[q].load /\ ~InCopy(q)
          /\ at[q] \notin {"rawget", "rawio"}
          /\ job[0].kind = "in" => proc[q].stat = "SRUN"
          /\ job[0].kind = "out" => proc[q].stat \in {"SRUN", "SSLEEP", "SWAIT"}
      BY <1>8, <3>2 DEF SchedJob
    <3>4. proc'[q] = proc[q] /\ at'[q] = at[q]
      BY <1>1, <1>3, <2>2, <3>1, <3>3
    <3>5. ~InCopy(q)'
      BY <1>2, <3>3, <3>4 DEF InCopy
    <3>6. at'[0] \in {"swapget", "swapio"} /\ job' = job
      BY <1>2, <1>3, <2>2
    <3> QED
      BY <3>2, <3>3, <3>4, <3>5, <3>6 DEF SchedJob
  <2> QED
    BY <2>1, <2>2
<1>12. Devices' /\ (swbuf'.busy /\ swbuf'.done => swbuf' = swbuf)
  BY <1>2, GetSwbufDevices
<1> QED
  BY <1>2, <1>4, <1>6, <1>9, <1>10, <1>11, <1>12, CalmStep

\* An interrupt that wakes, and moves nobody.
LEMMA CalmInterrupt ==
    ASSUME Table, Memory, \A q \in Slot : Rests(q), UNCHANGED <<coremap, swapmap, core, swp, start, panic>>,
           UNCHANGED <<at, job>>, rawbuf'.page = rawbuf.page, Devices', swbuf'.busy /\ swbuf'.done => swbuf' = swbuf
    PROVE  Memory'
<1>1. 0 \in Slot /\ job[0].who \in Slot
  BY SlotIs DEF Table, Types, Job
<1>2. Stays(0)
  BY <1>1, RestsStays
<1>3. SchedJob'
  BY <1>1, SchedJobRests DEF Memory, Jobs
<1>4. OtherJob(0)'
  <2>1. OtherJob(0) /\ at[0] # "waitio"
    BY <1>1 DEF Memory, Jobs, Table, PlaceInv
  <2> QED
    BY <1>1, <2>1, OtherJobRests
<1>5. CopyJob(0)'
  BY DEF CopyJob, InCopy
<1> QED
  BY <1>1, <1>2, <1>3, <1>4, <1>5, CalmStep

\* The clock interrupt.
LEMMA ClockMemory ==
    ASSUME Table, Memory, Clock
    PROVE  Memory'
<1> DEFINE R == Wakeup(proc, {"runin"})
           T == {q \in Slot \ {0} : R[q].stat \notin {Null, "SZOMB"}}
           rank(t) == IF t < 3 THEN t + 1
                      ELSE 4 + Cardinality({R[q].time : q \in T} \cap 3 .. t - 1)
<1>1. /\ R \in [Slot -> Row]
      /\ \A q \in Slot : SameButStat(R[q], proc[q]) /\ Woken(R[q], proc[q])
  BY WakeupIs DEF Table
<1>2. /\ proc' = [q \in Slot |-> IF q \in T THEN [R[q] EXCEPT !.time = rank(@)] ELSE R[q]]
      /\ UNCHANGED <<coremap, swapmap, core, swp, start, panic>> /\ UNCHANGED <<at, job>> /\ UNCHANGED <<swbuf, rawbuf>>
  BY DEF Clock, maps, memory, rest, bufs
<1> HIDE DEF R, T, rank
<1>3. \A q \in Slot : /\ proc'[q].stat = R[q].stat /\ proc'[q].load = R[q].load /\ proc'[q].lock = R[q].lock
                      /\ proc'[q].pid = R[q].pid /\ proc'[q].addr = R[q].addr
  BY <1>1, <1>2 DEF Row
<1>4. \A q \in Slot : Rests(q)
  BY <1>1, <1>2, <1>3 DEF Rests, SameButStat, Woken
<1>5. Devices'
  BY <1>2 DEF Memory, Devices
<1> QED
  BY <1>2, <1>4, <1>5, CalmInterrupt

\* sched finds nothing to do and sleeps.
LEMMA SchedSleepMemory ==
    ASSUME Table, Memory, NEW on \in {"runin", "runout"}, SchedSleep(on), at[0] \in {"loop", "runin", "runout"},
           UNCHANGED <<core, swp, start, panic, rawbuf>>
    PROVE  Memory'
<1>0. 0 \in Slot
  BY SlotIs
<1>1. /\ proc' \in [Slot -> Row] /\ proc'[0].stat = "SSLEEP"
      /\ \A q \in Slot : SameButStat(proc'[q], proc[q]) /\ (q # 0 => proc'[q] = proc[q])
  BY <1>0, SleepIs DEF Table, SchedSleep
<1>2. at' = [at EXCEPT ![0] = on] /\ UNCHANGED job /\ UNCHANGED <<coremap, swapmap, swbuf>>
  BY DEF SchedSleep, maps
<1>3. at'[0] = on /\ \A q \in Slot \ {0} : at'[q] = at[q]
  BY <1>0, <1>2 DEF Table, Types
<1>4. \A q \in Slot \ {0} : Rests(q)
  BY <1>1, <1>2, <1>3, LeftRests
<1>5. SchedJob /\ OtherJob(0)
  BY <1>0 DEF Memory, Jobs
<1>6. job[0].kind = "none"
  BY <1>5 DEF SchedJob
<1>7. Stays(0)
  <2>1. Class(proc'[0].stat) = Class(proc[0].stat)
    BY <1>1 DEF Class, Null, Table, Founders
  <2>2. (Coming(0)' <=> Coming(0)) /\ (Going(0)' <=> Going(0))
    BY <1>2 DEF Coming, Going
  <2>3. InCopy(0)' <=> InCopy(0)
    BY DEF InCopy
  <2> QED
    BY <1>0, <1>1, <1>2, <2>1, <2>2, <2>3 DEF Stays, SameButStat
<1>8. SchedJob'
  BY <1>2, <1>3, <1>6 DEF SchedJob
<1>9. OtherJob(0)'
  BY <1>2, <1>3, <1>6 DEF OtherJob
<1>10. CopyJob(0)'
  BY DEF CopyJob, InCopy
<1>11. Devices'
  <2>1. swbuf.by \in Slot /\ rawbuf.by \in Slot /\ Devices
    BY DEF Table, Types, Header, Memory
  <2> QED
    BY <1>2, <1>3, <2>1 DEF Devices
<1> QED
  BY <1>0, <1>2, <1>4, <1>7, <1>8, <1>9, <1>10, <1>11, CalmStep

-----------------------------------------------------------------------------
\* physio.

\* The header of raw transfers is taken, with the process locked in core.
LEMMA RawTakeMemory ==
    ASSUME Table, Memory, NEW p \in Slot, Run(p), at[p] \in {"user", "rawget"}, RawTake(p, proc[p].addr)
    PROVE  Memory'
<1> DEFINE P == IF rawbuf.busy THEN proc ELSE [proc EXCEPT ![p].lock = TRUE]
<1>1. /\ proc[p].load /\ proc[p].stat = "SRUN" /\ p # 0
      /\ proc \in [Slot -> Row] /\ at \in [Slot -> Places] /\ job \in [Slot -> Job] /\ rawbuf \in Header
  BY DEF Run, Table, PlaceInv, Types
<1>2. /\ job' = [job EXCEPT ![p] = [NoJob EXCEPT !.kind = "raw", !.a = proc[p].addr]]
      /\ at' = [at EXCEPT ![p] = IF rawbuf.busy THEN "rawget" ELSE "rawio"]
      /\ rawbuf' = IF rawbuf.busy THEN rawbuf
                   ELSE [busy |-> TRUE, done |-> FALSE, by |-> p, page |-> proc[p].addr]
      /\ proc' = Sleep(P, p)
      /\ UNCHANGED <<coremap, swapmap, core, swp, start, panic, swbuf>>
  BY DEF RawTake, maps, memory, rest
<1>3. /\ P \in [Slot -> Row] /\ \A q \in Slot \ {p} : P[q] = proc[q]
      /\ P[p].pid = proc[p].pid /\ P[p].addr = proc[p].addr /\ P[p].load = proc[p].load
      /\ ~rawbuf.busy => P[p].lock
  <2>1. CASE rawbuf.busy
    BY <1>1, <2>1
  <2>2. CASE ~rawbuf.busy
    <3>1. PICK e \in Row : e = proc[p]
      BY <1>1
    <3>2. PICK f : f = [e EXCEPT !.lock = TRUE]
      OBVIOUS
    <3>3. f \in Row /\ f.pid = e.pid /\ f.addr = e.addr /\ f.load = e.load /\ f.lock
      BY <3>2 DEF Row
    <3>4. P = [proc EXCEPT ![p] = f]
      BY <2>2, <3>1, <3>2
    <3>5. P[p] = f /\ P \in [Slot -> Row] /\ \A q \in Slot \ {p} : P[q] = proc[q]
      BY <1>1, <3>3, <3>4
    <3> QED
      BY <3>1, <3>3, <3>5
  <2> QED
    BY <2>1, <2>2
<1> HIDE DEF P
<1>4. /\ proc' \in [Slot -> Row] /\ proc'[p].stat = "SSLEEP"
      /\ \A q \in Slot : SameButStat(proc'[q], P[q]) /\ (q # p => proc'[q] = P[q])
  BY <1>2, <1>3, SleepOf
<1>5. /\ job'[p].kind = "raw" /\ job'[p].a = proc[p].addr /\ \A q \in Slot \ {p} : job'[q] = job[q]
  BY <1>1, <1>2 DEF NoJob
<1>6. /\ at'[p] = (IF rawbuf.busy THEN "rawget" ELSE "rawio") /\ \A q \in Slot \ {p} : at'[q] = at[q]
  BY <1>1, <1>2
<1>7. \A q \in Slot \ {p} : Rests(q)
  BY <1>3, <1>4, <1>5, <1>6, LeftRests
<1>8. /\ proc'[p].pid = proc[p].pid /\ proc'[p].addr = proc[p].addr /\ proc'[p].load = proc[p].load
      /\ ~rawbuf.busy => proc'[p].lock
  BY <1>3, <1>4 DEF SameButStat
<1>9. ~InCopy(p) /\ ~InCopy(p)' /\ job[p].kind \notin {"copy", "exit"}
  BY <1>6 DEF InCopy, Memory, Jobs, OtherJob, Table, CopyInv
<1>10. job'[0] = job[0] /\ at'[0] = at[0]
  BY <1>1, <1>5, <1>6, SlotIs
<1>11. Stays(p)
  <2>1. Class(proc'[p].stat) = Class(proc[p].stat)
    BY <1>1, <1>4 DEF Class, Null
  <2>2. (Coming(p)' <=> Coming(p)) /\ (Going(p)' <=> Going(p)) /\ (Coming(p) \/ Going(p) => job'[0].a = job[0].a)
    BY <1>10 DEF Coming, Going
  <2> QED
    BY <1>5, <1>8, <1>9, <2>1, <2>2 DEF Stays
<1>12. SchedJob'
  BY <1>1, <1>7, SchedJobStays DEF Memory, Jobs
<1>13. OtherJob(p)'
  BY <1>1, <1>2, <1>5, <1>6, <1>8 DEF OtherJob
<1>14. CopyJob(p)'
  BY <1>9 DEF CopyJob
<1>15. Devices /\ swbuf.by \in Slot /\ rawbuf.by \in Slot
  BY <1>1 DEF Memory, Table, Types, Header
<1>16. Devices'
  <2>1. swbuf'.busy => at'[swbuf'.by] = "swapio"
    BY <1>2, <1>6, <1>15 DEF Devices
  <2>2. rawbuf'.busy => at'[rawbuf'.by] = "rawio"
    BY <1>2, <1>6, <1>15 DEF Devices
  <2> QED
    BY <2>1, <2>2 DEF Devices
<1>17. \A q \in Slot \ {p} : at[q] = "rawio" => rawbuf'.page = rawbuf.page
  BY <1>2 DEF Table, Headers
<1>18. swbuf'.busy /\ swbuf'.done => swbuf' = swbuf /\ job'[swbuf.by] = job[swbuf.by]
  <2>1. swbuf.busy => swbuf.by # p
    BY <1>15 DEF Devices
  <2> QED
    BY <1>2, <1>5, <1>15, <2>1
<1> QED
  BY <1>2, <1>7, <1>10, <1>11, <1>12, <1>13, <1>14, <1>16, <1>17, <1>18, CalmStep

\* A raw transfer starts, or goes on after waiting for the header.
LEMMA RawMemory ==
    ASSUME Table, Memory, NEW p \in Slot, Raw(p) \/ RawGet(p)
    PROVE  Memory'
<1>1. CASE Raw(p)
  BY <1>1, RawTakeMemory DEF Raw, UserCall
<1>2. CASE RawGet(p)
  <2>1. job[p].a = proc[p].addr
    BY <1>2 DEF RawGet, Memory, Jobs, OtherJob
  <2> QED
    BY <1>2, <2>1, RawTakeMemory DEF RawGet
<1> QED
  BY <1>1, <1>2

\* A raw transfer ends: the header is free, the process is not locked any more.
LEMMA RawEndMemory ==
    ASSUME Table, Memory, NEW p \in Slot, RawEnd(p)
    PROVE  Memory'
<1> DEFINE R == Wakeup(proc, {"rawget"})
<1>1. /\ proc[p].load /\ proc[p].stat = "SRUN" /\ p # 0 /\ at[p] = "rawio"
      /\ proc \in [Slot -> Row] /\ at \in [Slot -> Places] /\ job \in [Slot -> Job] /\ rawbuf \in Header
  BY DEF RawEnd, Run, Table, PlaceInv, Types
<1>2. /\ job' = [job EXCEPT ![p] = NoJob] /\ at' = [at EXCEPT ![p] = Back(proc', p)]
      /\ proc' = [R EXCEPT ![p].lock = FALSE] /\ rawbuf' = Idle
      /\ UNCHANGED <<coremap, swapmap, core, swp, start, panic, swbuf>>
  BY DEF RawEnd, maps, memory, rest
<1>3. R \in [Slot -> Row] /\ \A q \in Slot : SameButStat(R[q], proc[q]) /\ Woken(R[q], proc[q])
  BY WakeupIs DEF Table
<1> HIDE DEF R
<1>4. /\ \A q \in Slot \ {p} : proc'[q] = R[q]
      /\ proc'[p].pid = R[p].pid /\ proc'[p].addr = R[p].addr /\ proc'[p].load = R[p].load /\ proc'[p].stat = R[p].stat
  <2>1. PICK e \in Row : e = R[p]
    BY <1>3
  <2>2. PICK f : f = [e EXCEPT !.lock = FALSE]
    OBVIOUS
  <2>3. f.pid = e.pid /\ f.addr = e.addr /\ f.load = e.load /\ f.stat = e.stat
    BY <2>2 DEF Row
  <2>4. proc' = [R EXCEPT ![p] = f]
    BY <1>2, <2>1, <2>2
  <2>5. proc'[p] = f /\ \A q \in Slot \ {p} : proc'[q] = R[q]
    BY <1>3, <2>4
  <2> QED
    BY <2>1, <2>3, <2>5
<1>5. job'[p] = NoJob /\ \A q \in Slot \ {p} : job'[q] = job[q]
  BY <1>1, <1>2
<1>6. at'[p] \in {"user", "psig"} /\ \A q \in Slot \ {p} : at'[q] = at[q]
  BY <1>1, <1>2, BackIs
<1>7. \A q \in Slot \ {p} : Rests(q)
  BY <1>3, <1>4, <1>5, <1>6, WokenRests
<1>8. /\ proc'[p].pid = proc[p].pid /\ proc'[p].addr = proc[p].addr /\ proc'[p].load = proc[p].load
      /\ proc'[p].stat = "SRUN" /\ job'[p].kind = "none"
  <2>1. job'[p].kind = "none"
    BY <1>5 DEF NoJob
  <2>2. SameButStat(R[p], proc[p]) /\ R[p].stat = "SRUN"
    BY <1>1, <1>3 DEF Woken
  <2> QED
    BY <1>4, <2>1, <2>2 DEF SameButStat
<1>9. ~InCopy(p) /\ ~InCopy(p)' /\ job[p].kind \notin {"copy", "exit"}
  BY <1>1, <1>6 DEF InCopy, Memory, Jobs, OtherJob, Table, CopyInv
<1>10. job'[0] = job[0]
  BY <1>1, <1>5, SlotIs
<1>11. Stays(p)
  <2>1. Class(proc'[p].stat) = Class(proc[p].stat)
    BY <1>1, <1>8
  <2>2. (Coming(p)' <=> Coming(p)) /\ (Going(p)' <=> Going(p)) /\ (Coming(p) \/ Going(p) => job'[0].a = job[0].a)
    BY <1>10 DEF Coming, Going
  <2> QED
    BY <1>8, <1>9, <2>1, <2>2 DEF Stays
<1>12. SchedJob'
  BY <1>1, <1>7, SchedJobStays DEF Memory, Jobs
<1>13. OtherJob(p)'
  BY <1>6, <1>8 DEF OtherJob
<1>14. CopyJob(p)'
  BY <1>9 DEF CopyJob
<1>15. Devices /\ swbuf.by \in Slot
  BY DEF Memory, Table, Types, Header
<1>16. swbuf.busy => swbuf.by # p
  BY <1>1, <1>15 DEF Devices
<1>17. Devices'
  BY <1>2, <1>6, <1>15, <1>16 DEF Devices, Idle
<1>18. \A q \in Slot \ {p} : at[q] # "rawio"
  BY <1>1 DEF Table, Headers
<1> QED
  BY <1>2, <1>5, <1>7, <1>10, <1>11, <1>12, <1>13, <1>14, <1>15, <1>16, <1>17, <1>18, CalmStep

-----------------------------------------------------------------------------
\* Steps that change what a unit holds.

\* What one process has, no other has.
LEMMA NobodyElse ==
    ASSUME Memory
    PROVE  /\ start.core \in Nat /\ start.swap \in Nat
           /\ \A q \in Slot : CoreHas(q) \subseteq 1 .. start.core /\ SwapHas(q) \subseteq 1 .. start.swap
           /\ \A q \in Slot : \A r \in Slot \ {q} : CoreHas(q) \cap CoreHas(r) = {} /\ SwapHas(q) \cap SwapHas(r) = {}
<1>1. start.core \in Nat /\ start.swap \in Nat
  BY ProcsAssumption DEF Memory
<1>2. Shared(coremap, CoreF, start.core) /\ Shared(swapmap, SwapF, start.swap)
  BY DEF Memory
<1>3. /\ \A q \in Slot : CoreF[q] \subseteq 1 .. start.core /\ SwapF[q] \subseteq 1 .. start.swap
      /\ \A q \in Slot : \A r \in Slot \ {q} : CoreF[q] \cap CoreF[r] = {} /\ SwapF[q] \cap SwapF[r] = {}
  BY <1>1, <1>2, ShareBounds, SharedIs
<1> QED
  BY <1>1, <1>3, HasIs

\* The units of a transfer belong to whom it is for.
LEMMA TransferPlace ==
    ASSUME Table, Memory, swbuf.busy
    PROVE  LET j == job[swbuf.by]
           IN  /\ j.who \in Slot /\ Alive(j.who) /\ j.a # 0
               /\ j.kind \in {"in", "out", "copy"}
               /\ j.kind = "in" => Coming(j.who) /\ ~InUse(j.who) /\ ~InCopy(j.who) /\ j.a \in CoreHas(j.who)
               /\ j.kind = "out" => Going(j.who) /\ InUse(j.who) /\ ~InCopy(j.who)
               /\ j.kind = "copy" => InCopy(j.who) /\ swbuf.by = j.who
               /\ j.kind # "in" => SwapUnits(j.a) \subseteq SwapHas(j.who)
               /\ j.kind \in {"in", "out"} => swbuf.by = 0
<1> DEFINE j == job[swbuf.by]
<1>1. swbuf.by \in Slot /\ at[swbuf.by] = "swapio" /\ j.who \in Slot /\ 0 \in Slot
  BY SlotIs DEF Memory, Devices, Table, Types, Header, Job
<1>2. CASE swbuf.by = 0
  <2>1. /\ j.kind \in {"in", "out"} /\ j.who # 0 /\ j.a # 0 /\ ~proc[j.who].load /\ ~InCopy(j.who)
        /\ j.kind = "in" => proc[j.who].stat = "SRUN"
        /\ j.kind = "out" => proc[j.who].stat \in {"SRUN", "SSLEEP", "SWAIT"}
    BY <1>1, <1>2 DEF Memory, Jobs, SchedJob
  <2>2. Alive(j.who)
    BY <2>1 DEF Alive, Null
  <2>3. j.kind = "in" => Coming(j.who) /\ ~Going(j.who) /\ ~InUse(j.who)
    BY <1>2, <2>1 DEF Coming, Going, InUse
  <2>4. j.kind = "out" => Going(j.who) /\ InUse(j.who)
    BY <1>2, <2>1 DEF Going, InUse
  <2>5. j.kind = "in" => j.a \in CoreHas(j.who)
    BY <1>2, <2>1, <2>2, <2>3 DEF CoreHas
  <2>6. j.kind = "out" => SwapUnits(j.a) \subseteq SwapHas(j.who)
    BY <1>2, <2>1, <2>2, <2>4 DEF SwapHas, Alive
  <2> QED
    BY <1>1, <1>2, <2>1, <2>2, <2>3, <2>4, <2>5, <2>6
<1>3. CASE swbuf.by # 0
  <2> DEFINE c == swbuf.by
  <2>1. InCopy(c) /\ c \in Slot
    BY <1>1, <1>3 DEF InCopy
  <2>2. j.kind = "copy"
    BY <2>1 DEF Table, CopyInv
  <2>3. j.who = c /\ j.a # 0 /\ proc[c].stat \in {"SRUN", "SSLEEP"}
    BY <1>1, <2>1 DEF Memory, Jobs, CopyJob
  <2>4. Alive(c)
    BY <1>3, <2>3 DEF Alive, Null
  <2>5. SwapUnits(j.a) \subseteq SwapHas(c)
    BY <2>1, <2>3, <2>4 DEF SwapHas, Alive
  <2> QED
    BY <2>1, <2>2, <2>3, <2>4, <2>5
<1> QED
  BY <1>2, <1>3

\* A device changes what units hold, and nobody moves.
LEMMA DataStep ==
    ASSUME Table, Memory, \A q \in Slot : Rests(q), UNCHANGED <<at, job>>, UNCHANGED <<coremap, swapmap, start, panic>>,
           rawbuf'.page = rawbuf.page, Devices',
           core' \in [1 .. start.core -> Int], swp' \in [1 .. start.swap -> Int],
           \A q \in Slot : Alive(q) /\ ~InCopy(q) =>
             IF InUse(q) THEN core'[proc[q].addr] = core[proc[q].addr]
             ELSE \A u \in SwapUnits(proc[q].addr) : swp'[u] = swp[u],
           Transferred'
    PROVE  Memory'
<1>0. 0 \in Slot /\ job[0].who \in Slot
  BY SlotIs DEF Table, Types, Job
<1>1. Stays(0)
  BY <1>0, RestsStays
<1>2. SchedJob'
  BY <1>0, SchedJobRests DEF Memory, Jobs
<1>3. OtherJob(0)'
  <2>1. OtherJob(0) /\ at[0] # "waitio"
    BY <1>0 DEF Memory, Jobs, Table, PlaceInv
  <2> QED
    BY <1>0, <2>1, OtherJobRests
<1>4. CopyJob(0)'
  BY DEF CopyJob, InCopy
<1>5. /\ \A q \in Slot : Stays(q) /\ Apart(q)'
      /\ Shared(coremap, CoreF, start.core)' /\ Shared(swapmap, SwapF, start.swap)'
      /\ Jobs'
  BY <1>0, <1>1, <1>2, <1>3, <1>4, FrameStep
<1>6. \A q \in Slot : HasImage(q)'
  BY <1>5, ImageKept DEF Memory
<1>7. start' \in Starts /\ core' \in [1 .. start'.core -> Int] /\ swp' \in [1 .. start'.swap -> Int]
  BY DEF Memory
<1> QED
  BY <1>5, <1>6, <1>7 DEF Memory

\* The interrupt of a raw transfer, which writes the page it was given.
LEMMA RawIntrMemory ==
    ASSUME Table, Memory, RawIntr
    PROVE  Memory'
<1> DEFINE R == Wakeup(proc, {"rawget", "rawio"})
           b == rawbuf.by
<1>1. /\ rawbuf.busy /\ rawbuf' = [rawbuf EXCEPT !.done = TRUE]
      /\ core' = [core EXCEPT ![rawbuf.page] = IF @ = proc[b].pid THEN @ ELSE Junk]
      /\ proc' = R /\ UNCHANGED <<at, job>> /\ UNCHANGED <<coremap, swapmap, swp, start, panic, swbuf>>
  BY DEF RawIntr, maps, rest
<1>2. b \in Slot /\ at[b] = "rawio" /\ rawbuf \in Header
  BY <1>1 DEF Memory, Devices, Table, Types, Header
<1>3. proc[b].load /\ rawbuf.page = proc[b].addr
  BY <1>2 DEF Memory, Jobs, OtherJob
<1>4. Alive(b) /\ ~InCopy(b) /\ InUse(b)
  BY <1>2, <1>3 DEF Alive, InCopy, InUse, Table, PlaceInv
<1>5. core[rawbuf.page] = proc[b].pid
  BY <1>2, <1>3, <1>4 DEF Memory, HasImage
<1>6. core' = core
  BY <1>1, <1>5 DEF Memory
<1>7. R \in [Slot -> Row] /\ \A q \in Slot : SameButStat(R[q], proc[q]) /\ Woken(R[q], proc[q])
  BY WakeupIs DEF Table
<1> HIDE DEF R
<1>8. \A q \in Slot : Rests(q)
  BY <1>1, <1>7, WokenRests
<1>9. rawbuf'.page = rawbuf.page /\ rawbuf'.by = b /\ rawbuf'.busy
  BY <1>1, <1>2 DEF Header
<1>10. Devices'
  BY <1>1, <1>2, <1>9 DEF Memory, Devices
<1> QED
  BY <1>1, <1>6, <1>8, <1>9, <1>10, CalmInterrupt

\* setrun leaves everybody what they have.
LEMMA SetRunRests ==
    ASSUME Table, NEW p \in Slot, proc[p].stat = "SSLEEP", proc' = SetRun(proc, {p}), UNCHANGED <<at, job>>
    PROVE  \A q \in Slot : Rests(q)
<1>1. /\ \A q \in Slot : SameButStat(proc'[q], proc[q]) /\ proc'[q].stat \in {proc[q].stat, "SRUN"}
      /\ \A q \in Slot \ {p} : q # 0 \/ at[0] # "runout" => proc'[q] = proc[q]
  BY SetRunIs DEF Table, Types
<1>2. proc[0].stat \in {"SRUN", "SSLEEP"}
  BY DEF Table, Founders
<1>3. \A q \in Slot : Woken(proc'[q], proc[q])
  BY <1>1, <1>2 DEF Woken
<1> QED
  BY <1>1, <1>3, WokenRests

\* The interrupt of a block written by exit, or read by wait or psinfo.
LEMMA BioIntrMemory ==
    ASSUME Table, Memory, NEW p \in Slot, BioIntr(p)
    PROVE  Memory'
<1> DEFINE u == job[p].a
<1>1. /\ at[p] \in {"exitio", "waitio", "psread"} /\ proc[p].stat = "SSLEEP" /\ ~panic
      /\ swp' = IF at[p] = "exitio" THEN [swp EXCEPT ![u] = proc[p].pid] ELSE swp
      /\ proc' = SetRun(proc, {p}) /\ UNCHANGED <<at, job>> /\ UNCHANGED <<coremap, swapmap, core, start, panic, bufs>>
  BY DEF BioIntr, maps, rest
<1>2. \A q \in Slot : Rests(q)
  BY <1>1, SetRunRests
<1>3. UNCHANGED <<swbuf, rawbuf>> /\ Devices'
  BY <1>1 DEF bufs, Memory, Devices
<1>4. CASE at[p] # "exitio"
  BY <1>1, <1>2, <1>3, <1>4, CalmInterrupt
<1>5. CASE at[p] = "exitio"
  <2>1. job[p].kind = "exit" /\ u # 0
    BY <1>1, <1>5 DEF Memory, Jobs, OtherJob
  <2>2. Alive(p) /\ ~InCopy(p) /\ proc[p].stat # "SZOMB"
    BY <1>1, <1>5 DEF Alive, InCopy, Table, PlaceInv, Null
  <2>3. u \in SwapHas(p)
    BY <2>1, <2>2 DEF SwapHas
  <2>4. swp' = [swp EXCEPT ![u] = proc[p].pid] /\ core' = core
    BY <1>1, <1>5
  <2>5. /\ core \in [1 .. start.core -> Int] /\ swp \in [1 .. start.swap -> Int]
        /\ proc[p].pid \in Int
    BY DEF Memory, Table, Types, Row
  <2>6. swp' \in [1 .. start.swap -> Int] /\ \A x \in 1 .. start.swap : x # u => swp'[x] = swp[x]
    BY <2>4, <2>5
  <2>7. \A q \in Slot : SwapHas(q) \subseteq 1 .. start.swap
    BY NobodyElse
  <2>8. \A q \in Slot \ {p} : u \notin SwapHas(q)
    BY <2>3, NobodyElse
  <2>9. /\ ~InUse(p) => u \notin SwapUnits(proc[p].addr)
        /\ Going(p) => u \notin SwapUnits(job[0].a)
    BY <2>1, <2>2 DEF Memory, Apart
  <2>10. ASSUME NEW q \in Slot, Alive(q), ~InCopy(q), ~InUse(q)
         PROVE  \A x \in SwapUnits(proc[q].addr) : swp'[x] = swp[x]
    <3>1. SwapUnits(proc[q].addr) \subseteq SwapHas(q)
      BY <2>10, ImagePlace
    <3>2. u \notin SwapUnits(proc[q].addr)
      BY <2>8, <2>9, <2>10, <3>1
    <3> QED
      BY <2>6, <2>7, <3>1, <3>2
  <2>11. Transferred'
    <3> SUFFICES ASSUME swbuf'.busy, swbuf'.done PROVE Transferred'
      BY DEF Transferred
    <3> DEFINE j == job[swbuf.by]
    <3>1. /\ j.who \in Slot /\ (j.kind = "out" => Going(j.who)) /\ (j.kind = "copy" => InCopy(j.who))
          /\ j.kind \in {"in", "out", "copy"}
          /\ j.kind # "in" => SwapUnits(j.a) \subseteq SwapHas(j.who)
          /\ j.kind \in {"in", "out"} => swbuf.by = 0
      BY <1>3, TransferPlace
    <3>2. IF j.kind = "in" THEN core[j.a] = proc[j.who].pid
          ELSE \A x \in SwapUnits(j.a) : swp[x] = proc[j.who].pid
      BY <1>3 DEF Memory, Transferred
    <3>3. proc'[j.who].pid = proc[j.who].pid
      BY <1>2, <3>1 DEF Rests
    <3>4. ASSUME j.kind # "in" PROVE \A x \in SwapUnits(j.a) : swp'[x] = swp[x]
      <4>1. u \notin SwapUnits(j.a)
        <5>1. CASE j.who = p
          BY <2>2, <2>9, <3>1, <3>4, <5>1
        <5>2. CASE j.who # p
          BY <2>8, <3>1, <3>4, <5>2
        <5> QED
          BY <5>1, <5>2
      <4> QED
        BY <2>6, <2>7, <3>1, <3>4, <4>1
    <3>5. swbuf' = swbuf /\ job' = job
      BY <1>1, <1>3
    <3> HIDE DEF j
    <3>6. IF j.kind = "in" THEN core'[j.a] = proc'[j.who].pid
          ELSE \A x \in SwapUnits(j.a) : swp'[x] = proc'[j.who].pid
      BY <2>4, <3>2, <3>3, <3>4
    <3> QED
      BY <3>5, <3>6 DEF Transferred, SwapUnits, j
  <2> QED
    BY <1>1, <1>2, <1>3, <2>4, <2>5, <2>6, <2>10, <2>11, DataStep
<1> QED
  BY <1>4, <1>5

\* The transfer puts the image where it is to be.
LEMMA SwapIntrMemory ==
    ASSUME Table, Memory, SwapIntr
    PROVE  Memory'
<1> DEFINE R == Wakeup(proc, {"swapget", "swapio"})
           j == job[swbuf.by]
           q == j.who
           page == proc[q].addr
           whole(a) == IF Cardinality({swp[u] : u \in SwapUnits(a)}) = 1 THEN swp[a] ELSE Junk
           image == IF j.kind = "copy" THEN IF core[page] = j.pid THEN proc[q].pid ELSE Junk
                    ELSE core[page]
<1>1. /\ swbuf.busy /\ swbuf' = [swbuf EXCEPT !.done = TRUE]
      /\ IF j.kind = "in" THEN core' = [core EXCEPT ![j.a] = whole(page)] /\ UNCHANGED swp
         ELSE /\ swp' = [u \in DOMAIN swp |-> IF u \in SwapUnits(j.a) THEN image ELSE swp[u]]
              /\ UNCHANGED core
      /\ proc' = R /\ UNCHANGED <<at, job>> /\ UNCHANGED <<coremap, swapmap, start, panic, rawbuf>>
  BY DEF SwapIntr, maps, rest
<1>2. R \in [Slot -> Row] /\ \A r \in Slot : SameButStat(R[r], proc[r]) /\ Woken(R[r], proc[r])
  BY WakeupIs DEF Table
<1> HIDE DEF R
<1>3. \A r \in Slot : Rests(r)
  BY <1>1, <1>2, WokenRests
<1>4. swbuf \in Header /\ swbuf'.by = swbuf.by /\ swbuf'.busy
  BY <1>1 DEF Table, Types, Header
<1>5. Devices'
  BY <1>1, <1>4 DEF Memory, Devices
<1>6. /\ q \in Slot /\ Alive(q)
      /\ j.kind \in {"in", "out", "copy"}
      /\ j.kind = "in" => Coming(q) /\ ~InUse(q) /\ ~InCopy(q) /\ j.a \in CoreHas(q)
      /\ j.kind = "out" => Going(q) /\ InUse(q) /\ ~InCopy(q)
      /\ j.kind = "copy" => InCopy(q) /\ swbuf.by = q
      /\ j.kind # "in" => SwapUnits(j.a) \subseteq SwapHas(q)
  BY <1>1, TransferPlace
<1>7. /\ core \in [1 .. start.core -> Int] /\ swp \in [1 .. start.swap -> Int]
      /\ \A r \in Slot : HasImage(r)
      /\ proc \in [Slot -> Row] /\ proc'[q].pid = proc[q].pid /\ proc[q].pid \in Int /\ page \in Nat
  <2>1. core \in [1 .. start.core -> Int] /\ swp \in [1 .. start.swap -> Int] /\ \A r \in Slot : HasImage(r)
    BY DEF Memory
  <2>2. q \in Slot /\ Rests(q)
    BY <1>3, <1>6
  <2> HIDE DEF q
  <2>3. proc \in [Slot -> Row] /\ proc[q] \in Row
    BY <2>2 DEF Table, Types
  <2>4. proc[q].pid \in Int /\ page \in Nat
    BY <2>3 DEF Row
  <2>5. proc'[q].pid = proc[q].pid
    BY <2>2 DEF Rests
  <2> QED
    BY <2>1, <2>3, <2>4, <2>5
<1>8. job' = job /\ start' = start
  BY <1>1
<1>9. CASE j.kind = "in"
  <2>1. \A u \in SwapUnits(page) : swp[u] = proc[q].pid
    BY <1>6, <1>7, <1>9 DEF HasImage
  <2>2. page \in SwapUnits(page)
    BY <1>7, ProcsAssumption DEF SwapUnits
  <2>3. {swp[u] : u \in SwapUnits(page)} = {proc[q].pid}
    BY <2>1, <2>2
  <2>4. Cardinality({swp[u] : u \in SwapUnits(page)}) = 1
    BY <2>3, FS_Singleton
  <2>5. whole(page) = proc[q].pid
    BY <2>1, <2>2, <2>4
  <2> HIDE DEF whole
  <2>6. core' = [core EXCEPT ![j.a] = proc[q].pid] /\ swp' = swp
    BY <1>1, <1>9, <2>5
  <2>7. j.a \in 1 .. start.core
    BY <1>6, <1>9, NobodyElse
  <2>8. core' \in [1 .. start.core -> Int] /\ core'[j.a] = proc[q].pid
        /\ \A x \in 1 .. start.core : x # j.a => core'[x] = core[x]
    BY <1>7, <2>6, <2>7
  <2>9. ASSUME NEW r \in Slot, Alive(r), ~InCopy(r)
        PROVE  IF InUse(r) THEN core'[proc[r].addr] = core[proc[r].addr]
               ELSE \A u \in SwapUnits(proc[r].addr) : swp'[u] = swp[u]
    <3>1. CASE InUse(r)
      <4>1. r # q /\ proc[r].addr \in CoreHas(r)
        BY <1>6, <1>9, <2>9, <3>1, ImagePlace
      <4>2. proc[r].addr # j.a /\ proc[r].addr \in 1 .. start.core
        BY <1>6, <1>9, <4>1, NobodyElse
      <4> QED
        BY <2>8, <3>1, <4>2
    <3>2. CASE ~InUse(r)
      BY <2>6, <3>2
    <3> QED
      BY <3>1, <3>2
  <2>10. Transferred'
    <3> HIDE DEF j
    <3>1. job'[swbuf'.by] = j
      BY <1>4, <1>8 DEF j
    <3> QED
      BY <1>7, <1>9, <2>8, <3>1 DEF Transferred
  <2>11. swp' \in [1 .. start.swap -> Int]
    BY <1>7, <2>6
  <2> QED
    BY <1>1, <1>3, <1>5, <2>8, <2>9, <2>10, <2>11, DataStep
<1>10. CASE j.kind # "in"
  <2>1. image = proc[q].pid
    <3>1. CASE j.kind = "out"
      <4>1. core[page] = proc[q].pid
        BY <1>6, <1>7, <3>1 DEF HasImage
      <4> QED
        BY <3>1, <4>1
    <3>2. CASE j.kind = "copy"
      <4>1. InCopy(q) /\ job[q] = j
        BY <1>6, <3>2
      <4>2. PICK p \in Slot : proc[p].pid = job[q].pid
        BY <1>6, <4>1 DEF Table, CopyInv
      <4>3. Alive(p) /\ proc[p].load /\ proc[p].addr = page /\ ~InCopy(p)
        BY <1>6, <4>1, <4>2 DEF Memory, Jobs, CopyJob
      <4>4. core[page] = proc[p].pid
        BY <1>7, <4>3 DEF HasImage, InUse
      <4> QED
        BY <3>2, <4>1, <4>2, <4>4
    <3> QED
      BY <1>6, <1>10, <3>1, <3>2
  <2> HIDE DEF image
  <2>2. swp' = [u \in 1 .. start.swap |-> IF u \in SwapUnits(j.a) THEN proc[q].pid ELSE swp[u]] /\ core' = core
    BY <1>1, <1>7, <1>10, <2>1
  <2>3. SwapUnits(j.a) \subseteq 1 .. start.swap
    BY <1>6, <1>10, NobodyElse
  <2>4. /\ swp' \in [1 .. start.swap -> Int]
        /\ \A u \in SwapUnits(j.a) : swp'[u] = proc[q].pid
        /\ \A u \in 1 .. start.swap : u \notin SwapUnits(j.a) => swp'[u] = swp[u]
    BY <1>7, <2>2, <2>3
  <2>5. ASSUME NEW r \in Slot, Alive(r), ~InCopy(r)
        PROVE  IF InUse(r) THEN core'[proc[r].addr] = core[proc[r].addr]
               ELSE \A u \in SwapUnits(proc[r].addr) : swp'[u] = swp[u]
    <3>1. CASE InUse(r)
      BY <2>2, <3>1
    <3>2. CASE ~InUse(r)
      <4>1. r # q /\ SwapUnits(proc[r].addr) \subseteq SwapHas(r)
        BY <1>6, <1>10, <2>5, <3>2, ImagePlace
      <4>2. SwapUnits(proc[r].addr) \cap SwapUnits(j.a) = {} /\ SwapUnits(proc[r].addr) \subseteq 1 .. start.swap
        BY <1>6, <1>10, <4>1, NobodyElse
      <4> QED
        BY <2>4, <3>2, <4>2
    <3> QED
      BY <3>1, <3>2
  <2>6. Transferred'
    <3> HIDE DEF j
    <3>1. job'[swbuf'.by] = j
      BY <1>4, <1>8 DEF j
    <3> QED
      BY <1>7, <1>10, <2>4, <3>1 DEF Transferred, SwapUnits
  <2>7. core' \in [1 .. start.core -> Int]
    BY <1>7, <2>2
  <2> QED
    BY <1>1, <1>3, <1>5, <2>4, <2>5, <2>6, <2>7, DataStep
<1> QED
  BY <1>9, <1>10

-----------------------------------------------------------------------------
\* Steps that take space or give it back.

\* Whom nobody copies, and nobody collects.
LEMMA Uninvolved ==
    ASSUME Table, NEW d \in Slot, proc[d].stat \notin {"SIDL", "SZOMB"}, NEW c \in Slot
    PROVE  /\ InCopy(c) => proc[d].pid # job[c].pid
           /\ at[c] = "waitio" => job[c].who # d
<1>1. ASSUME InCopy(c) PROVE proc[d].pid # job[c].pid
  <2>1. PICK p \in Slot : proc[p].pid = job[c].pid /\ proc[p].stat = "SIDL"
    BY <1>1 DEF Table, CopyInv
  <2>2. p # 0 /\ proc[p].stat # Null /\ p # d
    BY <2>1 DEF Table, PlaceInv, Null
  <2>3. proc[d].pid # proc[p].pid
    BY <2>2 DEF Table, ParentLives
  <2> QED
    BY <2>1, <2>3
<1>2. at[c] = "waitio" => job[c].who # d
  BY DEF Table, CollectInv
<1> QED
  BY <1>1, <1>2

\* The jobs of those who rest, when those in D move.
LEMMA JobsStay ==
    ASSUME Table, Memory, NEW D \in SUBSET Slot, \A q \in Slot \ D : Rests(q), panic => panic',
           \A q \in Slot \ D : at[q] = "rawio" => rawbuf'.page = rawbuf.page,
           \A d \in D : \A c \in Slot \ D : /\ InCopy(c) => proc'[d].pid # job[c].pid
                                            /\ at[c] = "waitio" => job[c].who # d
    PROVE  \A q \in Slot \ D : OtherJob(q)' /\ CopyJob(q)'
<1> SUFFICES ASSUME NEW q \in Slot \ D PROVE OtherJob(q)' /\ CopyJob(q)'
  OBVIOUS
<1>1. OtherJob(q) /\ CopyJob(q) /\ Rests(q) /\ job[q].who \in Slot
  BY DEF Memory, Jobs, Table, Types, Job
<1>2. OtherJob(q)'
  <2>1. at[q] = "waitio" => proc'[job[q].who].addr = proc[job[q].who].addr
    BY <1>1 DEF Rests
  <2> QED
    BY <1>1, <2>1, OtherJobRests
<1>3. CopyJob(q)'
  <2>1. ASSUME InCopy(q), NEW r \in Slot, proc'[r].pid = job[q].pid
        PROVE  /\ proc[r].pid = job[q].pid /\ Alive(r)' /\ ~InCopy(r)'
               /\ proc'[r].load = proc[r].load /\ proc'[r].addr = proc[r].addr
    <3>1. Rests(r)
      BY <2>1
    <3>2. /\ proc'[r].load = proc[r].load /\ proc'[r].addr = proc[r].addr /\ proc'[r].pid = proc[r].pid
          /\ at'[r] = at[r] /\ Woken(proc'[r], proc[r])
      BY <3>1 DEF Rests
    <3>3. Alive(r) /\ ~InCopy(r)
      BY <1>1, <2>1, <3>2 DEF CopyJob
    <3>4. Alive(r)' /\ ~InCopy(r)'
      BY <3>2, <3>3 DEF Alive, InCopy, Woken, Null
    <3> QED
      BY <2>1, <3>2, <3>4
  <2> QED
    BY <1>1, <2>1, CopyJobRests
<1> QED
  BY <1>2, <1>3

\* One unit from a on is a.
LEMMA OneUnit ==
    ASSUME NEW a \in Nat
    PROVE  a .. a + 1 - 1 = {a}
OBVIOUS

\* exit takes a block of the swap device, or there is none.
LEMMA ExitStartMemory ==
    ASSUME Table, Memory, NEW p \in Slot, Run(p), at[p] \in {"user", "psig"}, ExitStart(p),
           \A q \in Slot \ {p} : proc'[q] = proc[q],
           proc'[p].pid = proc[p].pid, proc'[p].addr = proc[p].addr, proc'[p].load = proc[p].load,
           proc'[p].stat = "SSLEEP"
    PROVE  Memory'
<1> DEFINE m == Malloc(swapmap, 1)
<1>1. /\ proc[p].load /\ proc[p].stat = "SRUN" /\ p # 0 /\ ~panic
      /\ proc \in [Slot -> Row] /\ at \in [Slot -> Places] /\ job \in [Slot -> Job]
  BY DEF Run, Table, PlaceInv, Types
<1>2. /\ panic' = (m.addr = 0) /\ swapmap' = m.map
      /\ job' = [job EXCEPT ![p] = [NoJob EXCEPT !.kind = "exit", !.a = m.addr]]
      /\ at' = [at EXCEPT ![p] = "exitio"]
      /\ UNCHANGED <<coremap, core, swp, start>> /\ UNCHANGED <<swbuf, rawbuf>>
  BY DEF ExitStart, bufs
<1>3. swapmap \in Seq(Entries) /\ m.addr \in Nat
  BY MallocType DEF Table, Types
<1> HIDE DEF m
<1>4. job'[p].kind = "exit" /\ job'[p].a = m.addr /\ \A q \in Slot \ {p} : job'[q] = job[q]
  BY <1>1, <1>2 DEF NoJob
<1>5. at'[p] = "exitio" /\ \A q \in Slot \ {p} : at'[q] = at[q]
  BY <1>1, <1>2
<1>6. \A q \in Slot \ {p} : Rests(q)
  BY <1>4, <1>5, LeftRests
<1>7. 0 \in Slot /\ job'[0] = job[0]
  BY <1>1, <1>4, SlotIs
<1>8. \A q \in Slot \ {p} : Stays(q)
  BY <1>6, <1>7, RestsStays
<1>9. SchedJob'
  BY <1>1, <1>6, SchedJobStays DEF Memory, Jobs
<1>10. /\ ~InCopy(p) /\ ~InCopy(p)' /\ job[p].kind # "exit"
       /\ Alive(p) /\ Alive(p)' /\ InUse(p) /\ InUse(p)'
  <2>1. ~InCopy(p) /\ ~InCopy(p)' /\ job[p].kind # "exit"
    BY <1>5 DEF InCopy, Memory, Jobs, OtherJob
  <2>2. Alive(p) /\ Alive(p)' /\ InUse(p) /\ InUse(p)'
    BY <1>1 DEF Alive, InUse, Null
  <2> QED
    BY <2>1, <2>2
<1>11. ~Going(p) /\ ~Going(p)' /\ ~Coming(p) /\ ~Coming(p)'
  BY <1>1, <1>7 DEF Going, Coming, Memory, Jobs, SchedJob
<1>12. CoreHas(p)' = CoreHas(p)
  BY <1>10, <1>11 DEF CoreHas
<1>13. SwapHas(p) = {} /\ SwapHas(p)' = IF m.addr # 0 THEN {m.addr} ELSE {}
  BY <1>1, <1>4, <1>10, <1>11 DEF SwapHas
<1>14. CoreF' = CoreF
  BY <1>8, <1>12, StaysHas DEF CoreF
<1>15. Shared(coremap, CoreF, start.core)'
  BY <1>2, <1>14 DEF Memory, Shared
<1>16. Shared(swapmap, SwapF, start.swap) /\ start.swap \in Nat /\ 1 \in Nat \ {0}
  BY NobodyElse DEF Memory
<1>17. SwapF'[p] = SwapHas(p)' /\ SwapF[p] = SwapHas(p) /\ \A q \in Slot \ {p} : SwapF'[q] = SwapF[q]
  BY <1>8, StaysHas DEF SwapF
<1>18. Shared(swapmap', SwapF', start.swap)
  <2>1. CASE m.addr = 0
    <3>1. swapmap' = swapmap
      BY <1>2, <1>16, <2>1, MallocFails DEF m
    <3>2. SwapF' = SwapF
      BY <1>13, <2>1, <1>8, StaysHas DEF SwapF
    <3> QED
      BY <1>16, <3>1, <3>2
  <2>2. CASE m.addr # 0
    <3>1. SwapF'[p] = SwapF[p] \cup (m.addr .. m.addr + 1 - 1)
      BY <1>3, <1>13, <1>17, <2>2
    <3> QED
      BY <1>2, <1>16, <1>17, <2>2, <3>1, MallocShares DEF m
  <2> QED
    BY <2>1, <2>2
<1>19. Shared(swapmap, SwapF, start.swap)'
  BY <1>2, <1>18 DEF Shared
<1>20. \A q \in Slot \ {p} : OtherJob(q)' /\ CopyJob(q)'
  <2>1. \A d \in {p} : \A c \in Slot \ {p} : /\ InCopy(c) => proc'[d].pid # job[c].pid
                                             /\ at[c] = "waitio" => job[c].who # d
    BY <1>1, Uninvolved
  <2> QED
    BY <1>1, <1>2, <1>6, <2>1, JobsStay
<1>21. OtherJob(p)' /\ CopyJob(p)'
  BY <1>1, <1>2, <1>4, <1>5, <1>10 DEF OtherJob, CopyJob
<1>22. Devices'
  <2>1. swbuf.by \in Slot /\ rawbuf.by \in Slot /\ Devices
    BY DEF Table, Types, Header, Memory
  <2> QED
    BY <1>2, <1>5, <2>1 DEF Devices
<1>23. \A q \in Slot : HasImage(q)'
  <2>1. \A q \in Slot \ {p} : HasImage(q)'
    BY <1>2, <1>8, ImageStays DEF Memory
  <2>2. HasImage(p)'
    BY <1>2, <1>10 DEF Memory, HasImage
  <2> QED
    BY <2>1, <2>2
<1>24. \A q \in Slot : Apart(q)'
  <2>1. \A q \in Slot \ {p} : Apart(q)'
    BY <1>8, ApartStays DEF Memory
  <2>2. Apart(p)'
    BY <1>10, <1>11 DEF Apart
  <2> QED
    BY <2>1, <2>2
<1>25. Transferred'
  <2>1. \A q \in Slot : proc'[q].pid = proc[q].pid
    OBVIOUS
  <2>2. swbuf.by \in Slot /\ (swbuf.busy => at[swbuf.by] = "swapio")
    BY DEF Table, Types, Header, Memory, Devices
  <2>3. swbuf'.busy /\ swbuf'.done => swbuf' = swbuf /\ job'[swbuf.by] = job[swbuf.by]
    BY <1>2, <1>4, <2>2
  <2> QED
    BY <1>2, <2>1, <2>3, TransferStays DEF Memory, Table
<1>26. start' \in Starts /\ core' \in [1 .. start'.core -> Int] /\ swp' \in [1 .. start'.swap -> Int]
  BY <1>2 DEF Memory
<1>27. Jobs'
  BY <1>9, <1>20, <1>21 DEF Jobs
<1> QED
  BY <1>15, <1>19, <1>22, <1>23, <1>24, <1>25, <1>26, <1>27 DEF Memory

\* exit, called by the process.
LEMMA ExitMemory ==
    ASSUME Table, Memory, NEW p \in Slot, Exit(p)
    PROVE  Memory'
<1>1. Run(p) /\ at[p] = "user" /\ ExitStart(p) /\ proc' = Sleep(proc, p)
  BY DEF Exit, UserCall
<1>2. /\ proc'[p].stat = "SSLEEP" /\ \A q \in Slot : SameButStat(proc'[q], proc[q]) /\ (q # p => proc'[q] = proc[q])
  BY <1>1, SleepIs DEF Table
<1> QED
  BY <1>1, <1>2, ExitStartMemory DEF SameButStat

\* psig: the signal is ignored, taken, or ends the process.
LEMMA PsigMemory ==
    ASSUME Table, Memory, NEW p \in Slot, Psig(p)
    PROVE  Memory'
<1> DEFINE P == [proc EXCEPT ![p].sig = "none"]
<1>1. Run(p) /\ at[p] \in {"user", "psig"} /\ proc[p].stat = "SRUN" /\ proc \in [Slot -> Row] /\ p # 0
  BY DEF Psig, Run, Table, Types, PlaceInv
<1>2. /\ P \in [Slot -> Row] /\ \A q \in Slot : q # p => P[q] = proc[q]
      /\ P[p].pid = proc[p].pid /\ P[p].addr = proc[p].addr /\ P[p].load = proc[p].load /\ P[p].stat = proc[p].stat
  <2>1. PICK e \in Row : e = proc[p]
    BY <1>1
  <2>2. PICK f : f = [e EXCEPT !.sig = "none"]
    OBVIOUS
  <2>3. f \in Row /\ f.pid = e.pid /\ f.addr = e.addr /\ f.load = e.load /\ f.stat = e.stat
    BY <2>2 DEF Row
  <2>4. P = [proc EXCEPT ![p] = f]
    BY <2>1, <2>2
  <2>5. P[p] = f /\ P \in [Slot -> Row] /\ \A q \in Slot : q # p => P[q] = proc[q]
    BY <1>1, <2>3, <2>4
  <2> QED
    BY <2>1, <2>3, <2>5
<1> HIDE DEF P
<1>3. CASE /\ proc' = P /\ at' = [at EXCEPT ![p] = "user"]
           /\ UNCHANGED <<job, maps, memory, bufs, mpid, rest>>
  <2>1. at'[p] = "user" /\ \A q \in Slot \ {p} : at'[q] = at[q]
    BY <1>3 DEF Table, Types
  <2>2. \A q \in Slot \ {p} : Rests(q)
    BY <1>2, <1>3, <2>1, LeftRests
  <2>3. /\ job'[p] = job[p] /\ job'[p] \in Job
        /\ UNCHANGED <<coremap, swapmap, core, swp, start, panic, bufs>>
    BY <1>3 DEF Table, Types, maps, memory, rest
  <2> QED
    BY <1>1, <1>2, <1>3, <2>1, <2>2, <2>3, CalmCall
<1>4. CASE ExitStart(p) /\ proc' = Sleep(P, p)
  <2>1. /\ proc'[p].stat = "SSLEEP" /\ \A q \in Slot : SameButStat(proc'[q], P[q]) /\ (q # p => proc'[q] = P[q])
    BY <1>2, <1>4, SleepOf
  <2> QED
    BY <1>1, <1>2, <1>4, <2>1, ExitStartMemory DEF SameButStat
<1> QED
  BY <1>3, <1>4 DEF Psig, P

\* sched takes the space for a transfer of d.
LEMMA SchedTakes ==
    ASSUME Table, Memory, NEW d \in Slot \ {0}, at[0] \in {"loop", "runin", "runout"}, GetSwbuf(0),
           proc[d].stat \in {"SRUN", "SSLEEP", "SWAIT"}, ~InCopy(d), at[d] \notin {"rawget", "rawio"},
           NEW k \in {"in", "out"}, NEW a \in Nat \ {0},
           job' = [job EXCEPT ![0] = [NoJob EXCEPT !.kind = k, !.who = d, !.a = a]],
           \A q \in Slot \ {0, d} : proc'[q] = proc[q],
           SameButStat(proc'[0], proc[0]), proc'[0].stat = "SSLEEP",
           proc'[d].pid = proc[d].pid, proc'[d].addr = proc[d].addr, proc'[d].stat = proc[d].stat, ~proc'[d].load,
           k = "in" => proc[d].stat = "SRUN" /\ ~proc[d].load, k = "out" => proc[d].load,
           UNCHANGED <<core, swp, start, panic, rawbuf>>
    PROVE  /\ \A q \in Slot \ {d} : CoreF'[q] = CoreF[q] /\ SwapF'[q] = SwapF[q]
           /\ CoreF'[d] = (IF k = "in" THEN CoreF[d] \cup {a} ELSE CoreF[d])
           /\ SwapF'[d] = (IF k = "in" THEN SwapF[d] ELSE SwapF[d] \cup SwapUnits(a))
           /\ job[d].kind = "exit" => panic \/ job[d].a \in SwapF[d]
           /\ Jobs' /\ Devices' /\ Transferred'
           /\ \A q \in Slot : HasImage(q)'
           /\ (k = "out" /\ job[d].kind = "exit" => job[d].a \notin SwapUnits(a)) => \A q \in Slot : Apart(q)'
<1>0. 0 \in Slot /\ proc \in [Slot -> Row] /\ job \in [Slot -> Job] /\ at \in [Slot -> Places]
  BY SlotIs DEF Table, Types
<1>1. /\ job'[0].kind = k /\ job'[0].who = d /\ job'[0].a = a
      /\ \A q \in Slot \ {0} : job'[q] = job[q]
  BY <1>0 DEF NoJob
<1>2. at'[0] \in {"swapget", "swapio"} /\ \A q \in Slot \ {0} : at'[q] = at[q]
  BY <1>0, GetSwbufType DEF Table
<1>3. job[0].kind = "none"
  BY DEF Memory, Jobs, SchedJob
<1>4. \A q \in Slot : ~Coming(q) /\ ~Going(q)
  BY <1>3 DEF Coming, Going
<1>5. \A q \in Slot : (Coming(q)' <=> k = "in" /\ q = d) /\ (Going(q)' <=> k = "out" /\ q = d)
  BY <1>1 DEF Coming, Going
<1>6. \A q \in Slot \ {0, d} : Rests(q)
  BY <1>1, <1>2, LeftRests
<1>7. \A q \in Slot \ {0, d} : Stays(q)
  <2> SUFFICES ASSUME NEW q \in Slot \ {0, d} PROVE Stays(q)
    OBVIOUS
  <2>1. InCopy(q)' <=> InCopy(q)
    BY <1>2 DEF InCopy
  <2>2. job'[q] = job[q] /\ proc'[q] = proc[q]
    BY <1>1
  <2> QED
    BY <1>4, <1>5, <2>1, <2>2 DEF Stays
<1>8. Stays(0)
  <2>1. Class(proc'[0].stat) = Class(proc[0].stat)
    BY DEF Class, Null, Table, Founders
  <2>2. ~InCopy(0) /\ ~InCopy(0)'
    BY DEF InCopy
  <2> QED
    BY <1>0, <1>1, <1>3, <1>4, <1>5, <2>1, <2>2 DEF Stays, SameButStat
<1>9. /\ Alive(d) /\ Alive(d)' /\ ~InCopy(d)' /\ proc[d].stat # "SZOMB" /\ proc'[d].stat # "SZOMB"
      /\ job'[d] = job[d]
  BY <1>1, <1>2 DEF Alive, Null, InCopy
<1>10. (InUse(d) <=> k = "out") /\ (InUse(d)' <=> k = "out")
  BY <1>4, <1>5 DEF InUse
<1>11. CoreHas(d)' = IF k = "in" THEN CoreHas(d) \cup {a} ELSE CoreHas(d)
  BY <1>1, <1>4, <1>5, <1>9, <1>10 DEF CoreHas
<1>12. SwapHas(d)' = IF k = "in" THEN SwapHas(d) ELSE SwapHas(d) \cup SwapUnits(a)
  <2> DEFINE X == IF job[d].kind = "exit" /\ job[d].a # 0 THEN {job[d].a} ELSE {}
             S == SwapUnits(proc[d].addr)
             A == SwapUnits(a)
  <2>1. SwapHas(d) = (IF k = "in" THEN S ELSE {}) \cup X
    BY <1>4, <1>9, <1>10 DEF SwapHas
  <2>2. SwapUnits(proc[d].addr)' = S /\ SwapUnits(job[0].a)' = A
    BY <1>1 DEF SwapUnits
  <2>3. SwapHas(d)' = (IF k = "in" THEN S ELSE {}) \cup (IF k = "out" THEN A ELSE {}) \cup X
    BY <1>5, <1>9, <1>10, <2>2 DEF SwapHas
  <2> HIDE DEF X, S, A
  <2> QED
    BY <2>1, <2>3 DEF A
<1>13. \A q \in Slot \ {d} : CoreHas(q)' = CoreHas(q) /\ SwapHas(q)' = SwapHas(q)
  BY <1>7, <1>8, StaysHas
<1>14. /\ \A q \in Slot \ {d} : CoreF'[q] = CoreF[q] /\ SwapF'[q] = SwapF[q]
       /\ CoreF'[d] = (IF k = "in" THEN CoreF[d] \cup {a} ELSE CoreF[d])
       /\ SwapF'[d] = (IF k = "in" THEN SwapF[d] ELSE SwapF[d] \cup SwapUnits(a))
  BY <1>11, <1>12, <1>13 DEF CoreF, SwapF
<1>15. job[d].kind = "exit" => panic \/ job[d].a \in SwapF[d]
  <2> SUFFICES ASSUME job[d].kind = "exit", ~panic PROVE job[d].a \in SwapHas(d)
    BY DEF SwapF
  <2>1. job[d].a # 0
    BY DEF Memory, Jobs, OtherJob
  <2> QED
    BY <1>9, <2>1 DEF SwapHas
<1>16. Jobs'
  <2>1. SchedJob'
    BY <1>1, <1>2, <1>9 DEF SchedJob
  <2>2. \A q \in Slot \ {0, d} : OtherJob(q)' /\ CopyJob(q)'
    <3>1. \A e \in {0, d} : proc[e].stat \notin {"SIDL", "SZOMB"} /\ proc'[e].pid = proc[e].pid
      BY DEF Table, Founders, SameButStat
    <3>2. \A e \in {0, d} : \A c \in Slot \ {0, d} : /\ InCopy(c) => proc'[e].pid # job[c].pid
                                                     /\ at[c] = "waitio" => job[c].who # e
      BY <1>0, <3>1, Uninvolved
    <3>3. {0, d} \in SUBSET Slot
      BY <1>0
    <3> QED
      BY <1>6, <3>2, <3>3, JobsStay
  <2>3. OtherJob(0)' /\ CopyJob(0)'
    BY <1>1, <1>2 DEF OtherJob, CopyJob, InCopy
  <2>4. CopyJob(d)'
    BY <1>9 DEF CopyJob
  <2>5. OtherJob(d)'
    <3>1. OtherJob(d) /\ at'[d] = at[d] /\ job'[d] = job[d] /\ job[d].who \in Slot
      BY <1>0, <1>1, <1>2 DEF Memory, Jobs, Job
    <3>2. proc'[job[d].who].addr = proc[job[d].who].addr
      BY <3>1 DEF SameButStat
    <3> QED
      BY <3>1, <3>2 DEF OtherJob
  <2> QED
    BY <2>1, <2>2, <2>3, <2>4, <2>5 DEF Jobs
<1>17. Devices' /\ (swbuf'.busy /\ swbuf'.done => swbuf' = swbuf /\ swbuf.by # 0)
  BY <1>0, GetSwbufDevices
<1>18. Transferred'
  <2>1. \A q \in Slot : proc'[q].pid = proc[q].pid
    BY DEF SameButStat
  <2>2. swbuf'.busy /\ swbuf'.done => swbuf' = swbuf /\ job'[swbuf.by] = job[swbuf.by]
    BY <1>1, <1>17 DEF Table, Types, Header
  <2> QED
    BY <2>1, <2>2, TransferStays DEF Memory, Table
<1>19. \A q \in Slot : HasImage(q)'
  <2>1. \A q \in Slot \ {d} : HasImage(q)'
    BY <1>7, <1>8, ImageStays DEF Memory
  <2>2. HasImage(d)'
    <3>1. HasImage(d) /\ core' = core /\ swp' = swp
      BY DEF Memory
    <3>2. CASE k = "out"
      BY <1>9, <1>10, <3>1, <3>2 DEF HasImage
    <3>3. CASE k = "in"
      <4>1. \A u \in SwapUnits(proc[d].addr) : swp[u] = proc[d].pid
        BY <1>9, <1>10, <3>1, <3>3 DEF HasImage
      <4>2. SwapUnits(proc[d].addr)' = SwapUnits(proc[d].addr)
        BY DEF SwapUnits
      <4>3. \A u \in SwapUnits(proc[d].addr)' : swp'[u] = proc'[d].pid
        BY <3>1, <4>1, <4>2
      <4> QED
        BY <1>10, <3>3, <4>3 DEF HasImage
    <3> QED
      BY <3>2, <3>3
  <2> QED
    BY <2>1, <2>2
<1>20. ASSUME k = "out" /\ job[d].kind = "exit" => job[d].a \notin SwapUnits(a)
       PROVE  \A q \in Slot : Apart(q)'
  <2>1. \A q \in Slot \ {d} : Apart(q)'
    BY <1>7, <1>8, ApartStays DEF Memory
  <2>2. Apart(d)'
    <3> SUFFICES ASSUME job'[d].kind = "exit" PROVE Apart(d)'
      BY DEF Apart
    <3>1. ~InUse(d) => job[d].a \notin SwapUnits(proc[d].addr)
      BY <1>9 DEF Memory, Apart
    <3>2. ~InUse(d)' => job'[d].a \notin SwapUnits(proc[d].addr)'
      BY <1>9, <1>10, <3>1 DEF SwapUnits
    <3>3. Going(d)' => job'[d].a \notin SwapUnits(job[0].a)'
      BY <1>1, <1>5, <1>9, <1>20 DEF SwapUnits
    <3> QED
      BY <3>2, <3>3 DEF Apart
  <2> QED
    BY <2>1, <2>2
<1> QED
  BY <1>14, <1>15, <1>16, <1>17, <1>18, <1>19, <1>20

\* A process is to be swapped in.
LEMMA SwapInMemory ==
    ASSUME Table, Memory, NEW d \in Ready, at[0] \in {"loop", "runin", "runout"},
           Malloc(coremap, 1).addr # 0, SwapIn(d, Malloc(coremap, 1)), UNCHANGED <<core, swp, start, panic, rawbuf>>
    PROVE  Memory'
<1> DEFINE m == Malloc(coremap, 1)
<1>1. /\ coremap' = m.map /\ UNCHANGED swapmap /\ GetSwbuf(0)
      /\ job' = [job EXCEPT ![0] = [NoJob EXCEPT !.kind = "in", !.who = d, !.a = m.addr]]
      /\ proc' = Sleep(proc, 0)
  BY DEF SwapIn
<1>2. m.addr \in Nat \ {0} /\ 0 \in Slot
  BY MallocType, SlotIs DEF Table, Types
<1> HIDE DEF m
<1>3. d \in Slot \ {0} /\ proc[d].stat = "SRUN" /\ ~proc[d].load
  BY DEF Ready, Table, Founders
<1>4. ~InCopy(d) /\ at[d] \notin {"rawget", "rawio"}
  BY <1>3 DEF Memory, Jobs, CopyJob, OtherJob
<1>5. /\ proc'[0].stat = "SSLEEP" /\ \A q \in Slot : SameButStat(proc'[q], proc[q]) /\ (q # 0 => proc'[q] = proc[q])
  BY <1>1, <1>2, SleepIs DEF Table
<1>6. /\ \A q \in Slot \ {d} : CoreF'[q] = CoreF[q] /\ SwapF'[q] = SwapF[q]
      /\ CoreF'[d] = CoreF[d] \cup {m.addr} /\ SwapF'[d] = SwapF[d]
      /\ Jobs' /\ Devices' /\ Transferred'
      /\ \A q \in Slot : HasImage(q)' /\ Apart(q)'
  <2>1. /\ proc'[d] = proc[d] /\ \A q \in Slot \ {0, d} : proc'[q] = proc[q]
    BY <1>3, <1>5
  <2>2. SameButStat(proc'[0], proc[0])
    BY <1>2, <1>5
  <2> QED
    BY <1>1, <1>2, <1>3, <1>4, <1>5, <2>1, <2>2, SchedTakes
<1>7. SwapF' = SwapF
  BY <1>6 DEF SwapF
<1>8. Shared(swapmap, SwapF, start.swap)'
  BY <1>1, <1>7 DEF Memory, Shared
<1>9. Shared(coremap', CoreF', start.core)
  <2>1. Shared(coremap, CoreF, start.core) /\ start.core \in Nat /\ 1 \in Nat \ {0}
    BY NobodyElse DEF Memory
  <2>2. CoreF'[d] = CoreF[d] \cup (m.addr .. m.addr + 1 - 1) /\ \A q \in Slot \ {d} : CoreF'[q] = CoreF[q]
    BY <1>2, <1>6, OneUnit
  <2>3. m.addr # 0 /\ coremap' = m.map
    BY <1>1, <1>2
  <2> QED
    BY <1>3, <2>1, <2>2, <2>3, MallocShares DEF m
<1>10. Shared(coremap, CoreF, start.core)'
  BY <1>9 DEF Shared
<1>11. start' \in Starts /\ core' \in [1 .. start'.core -> Int] /\ swp' \in [1 .. start'.swap -> Int]
  BY DEF Memory
<1> QED
  BY <1>6, <1>8, <1>10, <1>11 DEF Memory

\* A process is to be swapped out, or there is no room.
LEMMA SwapOutMemory ==
    ASSUME Table, Memory, Untaken', NEW d \in Slot \ {0}, at[0] \in {"loop", "runin", "runout"}, ~panic,
           proc[d].load, ~proc[d].lock, proc[d].stat \in {"SRUN", "SSLEEP", "SWAIT"},
           SwapOut(d), UNCHANGED <<core, swp, start, panic, rawbuf>>
    PROVE  Memory'
<1> DEFINE m == Malloc(swapmap, ImageSwap)
<1>1. m.addr \in Nat /\ 0 \in Slot /\ ImageSwap \in Nat \ {0}
  BY MallocType, SlotIs, ProcsAssumption DEF Table, Types
<1>2. CASE m.addr = 0
  BY <1>2, SchedSleepMemory DEF SwapOut
<1>3. CASE m.addr # 0
  <2> DEFINE P == [proc EXCEPT ![d].load = FALSE, ![d].lock = TRUE]
  <2>1. /\ swapmap' = m.map /\ UNCHANGED coremap /\ GetSwbuf(0)
        /\ job' = [job EXCEPT ![0] = [NoJob EXCEPT !.kind = "out", !.who = d, !.a = m.addr]]
        /\ proc' = Sleep(P, 0)
    BY <1>3 DEF SwapOut
  <2> HIDE DEF m
  <2>2. /\ P \in [Slot -> Row] /\ \A q \in Slot : q # d => P[q] = proc[q]
        /\ P[d].pid = proc[d].pid /\ P[d].addr = proc[d].addr /\ P[d].stat = proc[d].stat /\ ~P[d].load
    <3>1. PICK e \in Row : e = proc[d]
      BY DEF Table, Types
    <3>2. PICK f : f = [e EXCEPT !.load = FALSE, !.lock = TRUE]
      OBVIOUS
    <3>3. f \in Row /\ f.pid = e.pid /\ f.addr = e.addr /\ f.stat = e.stat /\ ~f.load
      BY <3>2 DEF Row
    <3>4. P = [proc EXCEPT ![d] = f] /\ proc \in [Slot -> Row]
      BY <3>1, <3>2 DEF Table, Types
    <3>5. P[d] = f /\ P \in [Slot -> Row] /\ \A q \in Slot : q # d => P[q] = proc[q]
      BY <3>3, <3>4
    <3> QED
      BY <3>1, <3>3, <3>5
  <2> HIDE DEF P
  <2>3. /\ proc'[0].stat = "SSLEEP" /\ \A q \in Slot : SameButStat(proc'[q], P[q]) /\ (q # 0 => proc'[q] = P[q])
    BY <1>1, <2>1, <2>2, SleepOf
  <2>4. job'[0].kind = "out" /\ job'[0].who = d
    BY <1>1, <2>1 DEF NoJob, Table, Types
  <2>5. at'[d] = at[d]
    BY <1>1, <2>1, GetSwbufType DEF Table
  <2>6. at[d] \notin {"swapmap", "rawget"}
    BY <2>4, <2>5 DEF Untaken
  <2>7. ~InCopy(d) /\ at[d] \notin {"rawget", "rawio"}
    BY <2>6 DEF Memory, Jobs, CopyJob, OtherJob
  <2>8. /\ \A q \in Slot \ {0, d} : proc'[q] = proc[q]
        /\ SameButStat(proc'[0], proc[0])
        /\ proc'[d].pid = proc[d].pid /\ proc'[d].addr = proc[d].addr /\ proc'[d].stat = proc[d].stat /\ ~proc'[d].load
    BY <1>1, <2>2, <2>3
  <2>9. m.addr \in Nat \ {0}
    BY <1>1, <1>3
  <2>10. /\ \A q \in Slot \ {d} : CoreF'[q] = CoreF[q] /\ SwapF'[q] = SwapF[q]
         /\ CoreF'[d] = CoreF[d]
         /\ SwapF'[d] = SwapF[d] \cup SwapUnits(m.addr)
         /\ job[d].kind = "exit" => job[d].a \in SwapF[d]
         /\ Jobs' /\ Devices' /\ Transferred'
         /\ \A q \in Slot : HasImage(q)'
         /\ (job[d].kind = "exit" => job[d].a \notin SwapUnits(m.addr)) => \A q \in Slot : Apart(q)'
    BY <2>1, <2>3, <2>7, <2>8, <2>9, SchedTakes
  <2>11. /\ Shared(swapmap', SwapF', start.swap)
         /\ SwapF[d] \cap SwapUnits(m.addr) = {}
    <3>1. Shared(swapmap, SwapF, start.swap) /\ start.swap \in Nat
      BY NobodyElse DEF Memory
    <3> QED
      BY <1>1, <2>1, <2>9, <2>10, <3>1, MallocShares DEF m, SwapUnits
  <2>12. Shared(swapmap, SwapF, start.swap)'
    BY <2>11 DEF Shared
  <2>13. CoreF' = CoreF
    BY <2>10 DEF CoreF
  <2>14. Shared(coremap, CoreF, start.core)'
    BY <2>1, <2>13 DEF Memory, Shared
  <2>15. \A q \in Slot : Apart(q)'
    BY <2>10, <2>11
  <2>16. start' \in Starts /\ core' \in [1 .. start'.core -> Int] /\ swp' \in [1 .. start'.swap -> Int]
    BY DEF Memory
  <2> QED
    BY <2>10, <2>12, <2>14, <2>15, <2>16 DEF Memory
<1> QED
  BY <1>2, <1>3

\* sched, in all its outcomes.
LEMMA SchedMemory ==
    ASSUME Table, Memory, Untaken', Sched
    PROVE  Memory'
<1>1. /\ at[0] \in {"loop", "runin", "runout"} /\ ~panic /\ Types
      /\ UNCHANGED <<core, swp, start, panic, rawbuf>>
  BY DEF Sched, Run, memory, rest, Table
<1>2. CASE Ready = {} /\ SchedSleep("runout")
  BY <1>1, <1>2, SchedSleepMemory
<1>3. CASE Ready # {}
  <2> DEFINE p == Oldest(Ready)
             m == Malloc(coremap, 1)
             deserving == proc[p].time >= 3 /\ (\E q \in Older : proc[q].time >= 2)
  <2>1. \/ m.addr # 0 /\ SwapIn(p, m)
        \/ m.addr = 0 /\ Easy # {} /\ SwapOut(Min(Easy))
        \/ m.addr = 0 /\ Easy = {} /\ ~deserving /\ SchedSleep("runin")
        \/ m.addr = 0 /\ Easy = {} /\ deserving /\ SwapOut(Oldest(Older))
    BY <1>3 DEF Sched
  <2>2. p \in Ready
    <3>1. Ready \in SUBSET Slot
      BY DEF Ready
    <3> QED
      BY <1>1, <1>3, <3>1, OldestIs
  <2> HIDE DEF p
  <2>3. CASE m.addr # 0 /\ SwapIn(p, m)
    BY <1>1, <2>2, <2>3, SwapInMemory
  <2>4. ASSUME NEW d \in Easy \cup Older, SwapOut(d) PROVE Memory'
    <3>1. d \in Slot \ {0} /\ proc[d].load /\ ~proc[d].lock /\ proc[d].stat \in {"SWAIT", "SSTOP", "SRUN", "SSLEEP"}
      BY <2>4 DEF Easy, Older
    <3>2. proc[d].stat \in Stats
      BY <1>1, <3>1 DEF Types, Row
    <3>3. proc[d].stat \in {"SRUN", "SSLEEP", "SWAIT"}
      BY <3>1, <3>2 DEF Stats, Null
    <3> QED
      BY <1>1, <2>4, <3>1, <3>3, SwapOutMemory
  <2>5. CASE Easy # {} /\ SwapOut(Min(Easy))
    <3>1. Easy \in SUBSET Slot
      BY DEF Easy
    <3>2. Min(Easy) \in Easy
      BY <2>5, <3>1, MinOfSlots
    <3> QED
      BY <2>4, <2>5, <3>2
  <2>6. CASE SchedSleep("runin")
    BY <1>1, <2>6, SchedSleepMemory
  <2>7. CASE deserving /\ SwapOut(Oldest(Older))
    <3>1. Older \in SUBSET Slot /\ Older # {}
      BY <2>7 DEF Older
    <3>2. Oldest(Older) \in Older
      BY <1>1, <3>1, OldestIs
    <3> QED
      BY <2>4, <2>7, <3>2
  <2> QED
    BY <2>1, <2>3, <2>5, <2>6, <2>7
<1> QED
  BY <1>2, <1>3 DEF Sched

\* The scheduler's transfer is at its end.
LEMMA SchedReturns ==
    ASSUME Table, Memory, SwapDone(0), at' = [at EXCEPT ![0] = "loop"],
           NEW R \in [Slot -> Row], \A q \in Slot : SameButStat(R[q], proc[q]) /\ Woken(R[q], proc[q]),
           NEW d \in Slot, job[0].who = d, NEW k \in {"in", "out"}, job[0].kind = k, NEW a \in Nat, job[0].a = a,
           \A q \in Slot : q # d => proc'[q] = R[q],
           proc'[d].pid = proc[d].pid, proc'[d].addr = a, proc'[d].load <=> k = "in", proc'[d].stat = R[d].stat,
           UNCHANGED <<core, swp, start, panic, rawbuf>>
    PROVE  /\ d \in Slot \ {0} /\ a \in Nat \ {0}
           /\ \A q \in Slot \ {d} : CoreF'[q] = CoreF[q] /\ SwapF'[q] = SwapF[q]
           /\ k = "in" => /\ CoreF'[d] = CoreF[d]
                          /\ SwapF[d] = SwapF'[d] \cup SwapUnits(proc[d].addr)
                          /\ SwapF'[d] \cap SwapUnits(proc[d].addr) = {}
           /\ k = "out" => CoreF[d] = {proc[d].addr} /\ CoreF'[d] = {} /\ SwapF'[d] = SwapF[d]
           /\ Jobs' /\ Devices' /\ Transferred'
           /\ \A q \in Slot : HasImage(q)' /\ Apart(q)'
<1>0. 0 \in Slot /\ proc \in [Slot -> Row] /\ job \in [Slot -> Job] /\ at \in [Slot -> Places]
  BY SlotIs DEF Table, Types
<1>1. /\ at[0] = "swapio" /\ swbuf.done /\ swbuf' = Idle /\ job' = [job EXCEPT ![0] = NoJob]
      /\ swbuf.busy /\ swbuf.by = 0
  BY <1>0 DEF SwapDone, Table, Headers
<1>2. /\ d \in Slot \ {0} /\ Alive(d) /\ a \in Nat \ {0} /\ k \in {"in", "out"}
      /\ proc[d].stat \in {"SRUN", "SSLEEP", "SWAIT"} /\ ~proc[d].load
      /\ ~InCopy(d) /\ at[d] \notin {"rawget", "rawio"}
  BY <1>0, <1>1 DEF Memory, Jobs, SchedJob, Alive, Null, Job
<1>3. \A q \in Slot : (Coming(q) <=> k = "in" /\ q = d) /\ (Going(q) <=> k = "out" /\ q = d)
  BY DEF Coming, Going
<1>4. job'[0] = NoJob /\ \A q \in Slot \ {0} : job'[q] = job[q]
  BY <1>0, <1>1
<1>5. \A q \in Slot : ~Coming(q)' /\ ~Going(q)'
  BY <1>4 DEF Coming, Going, NoJob
<1>6. at'[0] = "loop" /\ \A q \in Slot \ {0} : at'[q] = at[q]
  BY <1>0
<1>7. \A q \in Slot \ {0, d} : Rests(q)
  BY <1>4, <1>6, WokenRests
<1>8. \A q \in Slot \ {0, d} : Stays(q)
  <2> SUFFICES ASSUME NEW q \in Slot \ {0, d} PROVE Stays(q)
    OBVIOUS
  <2>1. InCopy(q)' <=> InCopy(q)
    BY <1>6 DEF InCopy
  <2>2. Class(proc'[q].stat) = Class(proc[q].stat)
    BY DEF Woken, Class, Null
  <2>3. job'[q] = job[q] /\ SameButStat(proc'[q], proc[q])
    BY <1>4
  <2> QED
    BY <1>3, <1>5, <2>1, <2>2, <2>3 DEF Stays, SameButStat
<1>9. Stays(0)
  <2>1. Class(proc'[0].stat) = Class(proc[0].stat)
    BY <1>0, <1>2 DEF Class, Null, Woken, Table, Founders
  <2>2. ~InCopy(0) /\ ~InCopy(0)'
    BY DEF InCopy
  <2>3. SameButStat(proc'[0], proc[0])
    BY <1>0, <1>2
  <2>4. job[0].kind # "exit" /\ job'[0].kind # "exit"
    BY <1>2, <1>4 DEF NoJob
  <2>5. ~Coming(0) /\ ~Going(0) /\ ~Coming(0)' /\ ~Going(0)'
    BY <1>0, <1>2, <1>3, <1>5
  <2> QED
    BY <2>1, <2>2, <2>3, <2>4, <2>5 DEF Stays, SameButStat
<1>10. /\ Alive(d)' /\ ~InCopy(d)' /\ proc[d].stat # "SZOMB" /\ proc'[d].stat # "SZOMB"
       /\ job'[d] = job[d] /\ proc'[d].stat \in {"SRUN", "SSLEEP", "SWAIT"}
  <2>1. proc'[d].stat \in {"SRUN", "SSLEEP", "SWAIT"}
    BY <1>2 DEF Woken
  <2> QED
    BY <1>2, <1>4, <1>6, <2>1 DEF Alive, Null, InCopy
<1>11. (InUse(d) <=> k = "out") /\ (InUse(d)' <=> k = "in")
  BY <1>2, <1>3, <1>5 DEF InUse
<1>12. /\ CoreHas(d) = (IF k = "in" THEN {a} ELSE {proc[d].addr})
       /\ CoreHas(d)' = (IF k = "in" THEN {a} ELSE {})
  BY <1>2, <1>3, <1>5, <1>10, <1>11 DEF CoreHas
<1>13. Apart(d) /\ HasImage(d)
  BY <1>2 DEF Memory
<1>14. /\ k = "in" => /\ SwapHas(d) = SwapHas(d)' \cup SwapUnits(proc[d].addr)
                      /\ SwapHas(d)' \cap SwapUnits(proc[d].addr) = {}
       /\ k = "out" => SwapHas(d)' = SwapHas(d)
  <2> DEFINE X == IF job[d].kind = "exit" /\ job[d].a # 0 THEN {job[d].a} ELSE {}
             S == SwapUnits(proc[d].addr)
             A == SwapUnits(a)
  <2>1. SwapHas(d) = (IF k = "in" THEN S ELSE A) \cup X
    BY <1>2, <1>3, <1>10, <1>11 DEF SwapHas
  <2>2. SwapUnits(proc[d].addr)' = A
    BY DEF SwapUnits
  <2>3. SwapHas(d)' = (IF k = "in" THEN {} ELSE A) \cup X
    BY <1>2, <1>5, <1>10, <1>11, <2>2 DEF SwapHas
  <2>4. k = "in" => X \cap S = {}
    BY <1>2, <1>11, <1>13 DEF Apart
  <2> HIDE DEF X, A
  <2> QED
    BY <1>2, <2>1, <2>3, <2>4
<1>15. \A q \in Slot \ {d} : CoreHas(q)' = CoreHas(q) /\ SwapHas(q)' = SwapHas(q)
  BY <1>8, <1>9, StaysHas
<1>16. /\ \A q \in Slot \ {d} : CoreF'[q] = CoreF[q] /\ SwapF'[q] = SwapF[q]
       /\ k = "in" => /\ CoreF'[d] = CoreF[d]
                      /\ SwapF[d] = SwapF'[d] \cup SwapUnits(proc[d].addr)
                      /\ SwapF'[d] \cap SwapUnits(proc[d].addr) = {}
       /\ k = "out" => CoreF[d] = {proc[d].addr} /\ CoreF'[d] = {} /\ SwapF'[d] = SwapF[d]
  <2>1. \A q \in Slot : CoreF[q] = CoreHas(q) /\ SwapF[q] = SwapHas(q) /\ CoreF'[q] = CoreHas(q)' /\ SwapF'[q] = SwapHas(q)'
    BY DEF CoreF, SwapF
  <2> QED
    <3>1. \A q \in Slot \ {d} : CoreF'[q] = CoreF[q] /\ SwapF'[q] = SwapF[q]
      BY <1>15, <2>1
    <3>2. k = "in" => /\ CoreF'[d] = CoreF[d]
                      /\ SwapF[d] = SwapF'[d] \cup SwapUnits(proc[d].addr)
                      /\ SwapF'[d] \cap SwapUnits(proc[d].addr) = {}
      <4>1. CoreF[d] = CoreHas(d) /\ SwapF[d] = SwapHas(d) /\ CoreF'[d] = CoreHas(d)' /\ SwapF'[d] = SwapHas(d)'
        BY <2>1
      <4> QED
        BY ONLY <1>12, <1>14, <4>1
    <3>3. k = "out" => CoreF[d] = {proc[d].addr} /\ CoreF'[d] = {} /\ SwapF'[d] = SwapF[d]
      BY <1>12, <1>14, <2>1
    <3> QED
      BY <3>1, <3>2, <3>3
<1>17. Jobs'
  <2>1. SchedJob'
    BY <1>4, <1>6 DEF SchedJob, NoJob
  <2>2. \A q \in Slot \ {0, d} : OtherJob(q)' /\ CopyJob(q)'
    <3>1. \A e \in {0, d} : proc[e].stat \notin {"SIDL", "SZOMB"} /\ proc'[e].pid = proc[e].pid
      BY <1>0, <1>2 DEF Table, Founders, SameButStat
    <3>2. \A e \in {0, d} : \A c \in Slot \ {0, d} : /\ InCopy(c) => proc'[e].pid # job[c].pid
                                                     /\ at[c] = "waitio" => job[c].who # e
      BY <1>0, <1>2, <3>1, Uninvolved
    <3>3. {0, d} \in SUBSET Slot
      BY <1>0, <1>2
    <3> QED
      BY <1>7, <3>2, <3>3, JobsStay
  <2>3. OtherJob(0)' /\ CopyJob(0)'
    BY <1>4, <1>6 DEF OtherJob, CopyJob, InCopy, NoJob
  <2>4. CopyJob(d)'
    BY <1>10 DEF CopyJob
  <2>5. OtherJob(d)'
    <3>1. OtherJob(d) /\ at'[d] = at[d] /\ job'[d] = job[d] /\ job[d].who \in Slot
      BY <1>0, <1>2, <1>4, <1>6 DEF Memory, Jobs, Job
    <3>2. at[d] = "waitio" => job[d].who # d
      BY <1>2 DEF Table, CollectInv
    <3>3. at[d] = "waitio" => proc'[job[d].who].addr = proc[job[d].who].addr
      BY <3>1, <3>2 DEF SameButStat
    <3> QED
      BY <1>2, <3>1, <3>3 DEF OtherJob
  <2> QED
    BY <1>2, <2>1, <2>2, <2>3, <2>4, <2>5 DEF Jobs
<1>18. Devices' /\ Transferred'
  <2>1. rawbuf.by \in Slot /\ (rawbuf.busy => at[rawbuf.by] = "rawio")
    BY DEF Table, Types, Header, Memory, Devices
  <2>2. rawbuf'.busy => at'[rawbuf'.by] = "rawio"
    BY <1>1, <1>6, <2>1
  <2>3. ~swbuf'.busy
    BY <1>1 DEF Idle
  <2> QED
    BY <2>2, <2>3 DEF Devices, Transferred
<1>19. \A q \in Slot : HasImage(q)'
  <2>1. \A q \in Slot \ {d} : HasImage(q)'
    BY <1>8, <1>9, ImageStays DEF Memory
  <2>2. HasImage(d)'
    <3>1. IF k = "in" THEN core[a] = proc[d].pid ELSE \A u \in SwapUnits(a) : swp[u] = proc[d].pid
      BY <1>1 DEF Memory, Transferred
    <3>2. SwapUnits(proc[d].addr)' = SwapUnits(a)
      BY DEF SwapUnits
    <3>3. CASE k = "in"
      BY <1>11, <3>1, <3>3 DEF HasImage
    <3>4. CASE k = "out"
      <4>1. \A u \in SwapUnits(proc[d].addr)' : swp'[u] = proc'[d].pid
        BY <3>1, <3>2, <3>4
      <4> QED
        BY <1>11, <3>4, <4>1 DEF HasImage
    <3> QED
      BY <1>2, <3>3, <3>4
  <2> QED
    BY <2>1, <2>2
<1>20. \A q \in Slot : Apart(q)'
  <2>1. \A q \in Slot \ {d} : Apart(q)'
    BY <1>8, <1>9, ApartStays DEF Memory
  <2>2. Apart(d)'
    <3> SUFFICES ASSUME job'[d].kind = "exit" PROVE Apart(d)'
      BY DEF Apart
    <3>1. k = "out" => job[d].a \notin SwapUnits(a)
      BY <1>2, <1>3, <1>10, <1>13 DEF Apart
    <3>2. ~InUse(d)' => job'[d].a \notin SwapUnits(proc[d].addr)'
      BY <1>2, <1>10, <1>11, <3>1 DEF SwapUnits
    <3> QED
      BY <1>2, <1>5, <3>2 DEF Apart
  <2> QED
    BY <2>1, <2>2
<1> QED
  BY <1>2, <1>16, <1>17, <1>18, <1>19, <1>20

\* The transfer of sched ends: the image is in core, or out.
LEMMA SwapEndMemory ==
    ASSUME Table, Memory, SwapInEnd \/ SwapOutEnd
    PROVE  Memory'
<1>0. 0 \in Slot /\ 0 \in 0 .. 3 + NPROC /\ ImageSwap \in Nat \ {0}
  BY SlotIs, ProcsAssumption
<1>1. PICK d \in Slot : d = job[0].who
  BY <1>0 DEF Table, Types, Job
<1>2. PICK a \in Nat : a = job[0].a
  BY <1>0 DEF Table, Types, Job
<1>3. proc[d].addr \in Nat /\ ~proc[d].load
  <2>1. at[0] = "swapio"
    BY DEF SwapInEnd, SwapOutEnd, SwapDone
  <2>2. ~proc[d].load
    BY <1>1, <2>1 DEF Memory, Jobs, SchedJob
  <2> QED
    BY <2>2 DEF Table, Types, Row
<1>4. start' \in Starts /\ core' \in [1 .. start'.core -> Int] /\ swp' \in [1 .. start'.swap -> Int]
  BY DEF SwapInEnd, SwapOutEnd, Memory, memory, rest
<1>5. CASE SwapInEnd
  <2> DEFINE R == Wakeup(proc, {"swapget", "swapmap"})
  <2>1. /\ SwapDone(0) /\ job[0].kind = "in" /\ at' = [at EXCEPT ![0] = "loop"]
        /\ coremap' = coremap /\ swapmap' = Mfree(swapmap, ImageSwap, proc[d].addr)
        /\ proc' = [R EXCEPT ![d].addr = a, ![d].load = TRUE, ![d].time = 0]
        /\ UNCHANGED <<core, swp, start, panic, rawbuf>>
    BY <1>1, <1>2, <1>5 DEF SwapInEnd, memory, rest
  <2>2. R \in [Slot -> Row] /\ \A q \in Slot : SameButStat(R[q], proc[q]) /\ Woken(R[q], proc[q])
    BY WakeupIs DEF Table
  <2> HIDE DEF R
  <2>3. /\ \A q \in Slot : q # d => proc'[q] = R[q]
        /\ proc'[d].pid = proc[d].pid /\ proc'[d].addr = a /\ proc'[d].load /\ proc'[d].stat = R[d].stat
    <3>1. PICK e \in Row : e = R[d]
      BY <2>2
    <3>2. PICK f : f = [e EXCEPT !.addr = a, !.load = TRUE, !.time = 0]
      OBVIOUS
    <3>3. f.pid = e.pid /\ f.addr = a /\ f.load /\ f.stat = e.stat
      BY <3>2 DEF Row
    <3>4. proc' = [R EXCEPT ![d] = f]
      BY <2>1, <3>1, <3>2
    <3>5. proc'[d] = f /\ \A q \in Slot : q # d => proc'[q] = R[q]
      BY <2>2, <3>4
    <3>6. SameButStat(R[d], proc[d])
      BY <2>2
    <3> QED
      BY <3>1, <3>3, <3>5, <3>6 DEF SameButStat
  <2>4. /\ d \in Slot \ {0}
        /\ \A q \in Slot \ {d} : CoreF'[q] = CoreF[q] /\ SwapF'[q] = SwapF[q]
        /\ CoreF'[d] = CoreF[d]
        /\ SwapF[d] = SwapF'[d] \cup SwapUnits(proc[d].addr)
        /\ SwapF'[d] \cap SwapUnits(proc[d].addr) = {}
        /\ Jobs' /\ Devices' /\ Transferred'
        /\ \A q \in Slot : HasImage(q)' /\ Apart(q)'
    <3>1. "in" \in {"in", "out"} /\ job[0].kind = "in" /\ (proc'[d].load <=> "in" = "in")
      BY <2>1, <2>3
    <3>2. job[0].who = d /\ job[0].a = a
      BY <1>1, <1>2
    <3> QED
      BY <2>1, <2>2, <2>3, <3>1, <3>2, SchedReturns, SMTT(60)
  <2>5. CoreF' = CoreF
    BY <2>4 DEF CoreF
  <2>6. Shared(coremap, CoreF, start.core)'
    BY <2>1, <2>5 DEF Memory, Shared
  <2>7. Shared(swapmap', SwapF', start.swap)
    <3>1. Shared(swapmap, SwapF, start.swap) /\ start.swap \in Nat
      BY NobodyElse DEF Memory
    <3> QED
      BY <1>0, <1>3, <2>1, <2>4, <3>1, MfreeShares DEF SwapUnits
  <2>8. Shared(swapmap, SwapF, start.swap)'
    BY <2>1, <2>7 DEF Shared
  <2> QED
    BY <1>4, <2>4, <2>6, <2>8 DEF Memory
<1>6. CASE SwapOutEnd
  <2> DEFINE R == Wakeup(proc, {"swapget"})
  <2>1. /\ SwapDone(0) /\ job[0].kind = "out" /\ at' = [at EXCEPT ![0] = "loop"]
        /\ swapmap' = swapmap /\ coremap' = Mfree(coremap, 1, proc[d].addr)
        /\ proc' = [R EXCEPT ![d].addr = a, ![d].lock = FALSE, ![d].time = 0]
        /\ UNCHANGED <<core, swp, start, panic, rawbuf>>
    BY <1>1, <1>2, <1>6 DEF SwapOutEnd, memory, rest
  <2>2. R \in [Slot -> Row] /\ \A q \in Slot : SameButStat(R[q], proc[q]) /\ Woken(R[q], proc[q])
    BY WakeupIs DEF Table
  <2> HIDE DEF R
  <2>3. /\ \A q \in Slot : q # d => proc'[q] = R[q]
        /\ proc'[d].pid = proc[d].pid /\ proc'[d].addr = a /\ ~proc'[d].load /\ proc'[d].stat = R[d].stat
    <3>1. PICK e \in Row : e = R[d]
      BY <2>2
    <3>2. PICK f : f = [e EXCEPT !.addr = a, !.lock = FALSE, !.time = 0]
      OBVIOUS
    <3>3. f.pid = e.pid /\ f.addr = a /\ f.load = e.load /\ f.stat = e.stat
      BY <3>2 DEF Row
    <3>4. proc' = [R EXCEPT ![d] = f]
      BY <2>1, <3>1, <3>2
    <3>5. proc'[d] = f /\ \A q \in Slot : q # d => proc'[q] = R[q]
      BY <2>2, <3>4
    <3>6. SameButStat(R[d], proc[d])
      BY <2>2
    <3> QED
      BY <1>3, <3>1, <3>3, <3>5, <3>6 DEF SameButStat
  <2>4. /\ d \in Slot \ {0}
        /\ \A q \in Slot \ {d} : CoreF'[q] = CoreF[q] /\ SwapF'[q] = SwapF[q]
        /\ CoreF[d] = {proc[d].addr} /\ CoreF'[d] = {} /\ SwapF'[d] = SwapF[d]
        /\ Jobs' /\ Devices' /\ Transferred'
        /\ \A q \in Slot : HasImage(q)' /\ Apart(q)'
    <3>1. "out" \in {"in", "out"} /\ job[0].kind = "out" /\ (proc'[d].load <=> "out" = "in")
      BY <2>1, <2>3
    <3>2. job[0].who = d /\ job[0].a = a
      BY <1>1, <1>2
    <3> QED
      BY <2>1, <2>2, <2>3, <3>1, <3>2, SchedReturns, SMTT(60)
  <2>5. SwapF' = SwapF
    BY <2>4 DEF SwapF
  <2>6. Shared(swapmap, SwapF, start.swap)'
    BY <2>1, <2>5 DEF Memory, Shared
  <2>7. Shared(coremap', CoreF', start.core)
    <3>1. Shared(coremap, CoreF, start.core) /\ start.core \in Nat /\ 1 \in Nat \ {0}
      BY NobodyElse DEF Memory
    <3>2. CoreF[d] = CoreF'[d] \cup (proc[d].addr .. proc[d].addr + 1 - 1)
          /\ CoreF'[d] \cap (proc[d].addr .. proc[d].addr + 1 - 1) = {}
      BY <1>3, <2>4, OneUnit
    <3>3. \A q \in Slot \ {d} : CoreF'[q] = CoreF[q]
      BY <2>4
    <3> HIDE DEF R
    <3> QED
      BY <1>3, <2>1, <3>1, <3>2, <3>3, MfreeShares
  <2>8. Shared(coremap, CoreF, start.core)'
    BY <2>1, <2>7 DEF Shared
  <2> QED
    BY <1>4, <2>4, <2>6, <2>8 DEF Memory
<1> QED
  BY <1>5, <1>6

\* The child c of p gets its space on the swap device, or waits for it.
LEMMA CopyTakes ==
    ASSUME Table, Memory, NEW c \in Slot \ {0}, NEW p \in Slot \ {0, c}, at[c] \in {"free", "swapmap"},
           at[p] = "user", proc[p].load, proc[p].stat \notin {Null, "SZOMB"},
           NEW P \in [Slot -> Row], NEW pid, pid = proc[p].pid, NewprocRoom(P, c, pid),
           \A q \in Slot \ {c, p} : P[q] = proc[q],
           P[p].pid = proc[p].pid, P[p].addr = proc[p].addr, P[p].load = proc[p].load,
           P[p].stat \notin {Null, "SZOMB"},
           P[c].load, P[c].addr = proc[p].addr, \A q \in Slot \ {c} : proc[q].pid # P[c].pid,
           \A d \in Slot \ {c} : InCopy(d) => job[d].pid \notin {proc[p].pid, P[c].pid},
           \A q \in Slot : at[q] = "waitio" => job[q].who \notin {c, p},
           UNCHANGED <<coremap, core, swp, start, panic, rawbuf>>
    PROVE  Memory'
<1> DEFINE m == Malloc(swapmap, ImageSwap)
           Q == [P EXCEPT ![c].lock = m.addr # 0]
<1>0. 0 \in Slot /\ proc \in [Slot -> Row] /\ job \in [Slot -> Job] /\ at \in [Slot -> Places] /\ ImageSwap \in Nat \ {0}
  BY SlotIs, ProcsAssumption DEF Table, Types
<1>1. m.addr \in Nat
  BY <1>0, MallocType DEF Table, Types
<1>2. /\ swapmap' = m.map
      /\ job' = [job EXCEPT ![c] = [kind |-> "copy", who |-> c, a |-> m.addr, pid |-> pid]]
      /\ proc' = Sleep(Q, c)
      /\ IF m.addr # 0 THEN GetSwbuf(c) ELSE at' = [at EXCEPT ![c] = "swapmap"] /\ UNCHANGED swbuf
  BY DEF NewprocRoom
<1>3. /\ Q \in [Slot -> Row] /\ \A q \in Slot \ {c} : Q[q] = P[q]
      /\ Q[c].pid = P[c].pid /\ Q[c].addr = P[c].addr /\ Q[c].load = P[c].load /\ (Q[c].lock <=> m.addr # 0)
  <2> HIDE DEF m
  <2>1. PICK e \in Row : e = P[c]
    OBVIOUS
  <2>2. PICK f : f = [e EXCEPT !.lock = m.addr # 0]
    OBVIOUS
  <2>3. f \in Row /\ f.pid = e.pid /\ f.addr = e.addr /\ f.load = e.load /\ (f.lock <=> m.addr # 0)
    BY <2>2 DEF Row
  <2>4. Q = [P EXCEPT ![c] = f]
    BY <2>1, <2>2
  <2>5. Q[c] = f /\ Q \in [Slot -> Row] /\ \A q \in Slot \ {c} : Q[q] = P[q]
    BY <2>3, <2>4
  <2> QED
    BY <2>1, <2>3, <2>5
<1> HIDE DEF m, Q
<1>4. /\ proc'[c].stat = "SSLEEP"
      /\ \A q \in Slot : SameButStat(proc'[q], Q[q]) /\ (q # c => proc'[q] = Q[q])
  BY <1>2, <1>3, SleepOf
<1>5. /\ proc'[c].pid = P[c].pid /\ proc'[c].addr = proc[p].addr /\ proc'[c].load
      /\ proc'[c].lock <=> m.addr # 0
      /\ \A q \in Slot \ {c} : proc'[q] = P[q]
  <2>1. SameButStat(proc'[c], Q[c])
    BY <1>4
  <2>2. \A q \in Slot \ {c} : proc'[q] = P[q]
    BY <1>3, <1>4
  <2> QED
    BY <1>3, <2>1, <2>2 DEF SameButStat
<1>6. /\ job'[c].kind = "copy" /\ job'[c].who = c /\ job'[c].a = m.addr /\ job'[c].pid = pid
      /\ \A q \in Slot \ {c} : job'[q] = job[q]
  BY <1>0, <1>2
<1>7. /\ at'[c] = "swapmap" <=> m.addr = 0
      /\ at'[c] \in {"swapmap", "swapget", "swapio"}
      /\ \A q \in Slot \ {c} : at'[q] = at[q]
  <2>1. CASE m.addr = 0
    BY <1>0, <1>2, <2>1
  <2>2. CASE m.addr # 0
    BY <1>2, <2>2, GetSwbufType DEF Table
  <2> QED
    BY <2>1, <2>2
<1>8. job'[0] = job[0] /\ at'[0] = at[0]
  BY <1>0, <1>6, <1>7
<1>9. \A q \in Slot \ {c, p} : Rests(q)
  BY <1>5, <1>6, <1>7, LeftRests
<1>10. \A q \in Slot \ {c} : Stays(q)
  <2>1. \A q \in Slot \ {c, p} : Stays(q)
    BY <1>8, <1>9, RestsStays
  <2>2. Stays(p)
    <3>1. Class(proc'[p].stat) = Class(proc[p].stat)
      BY <1>5 DEF Class
    <3>2. (Coming(p)' <=> Coming(p)) /\ (Going(p)' <=> Going(p)) /\ (Coming(p) \/ Going(p) => job'[0].a = job[0].a)
      BY <1>8 DEF Coming, Going
    <3>3. (InCopy(p)' <=> InCopy(p)) /\ job'[p] = job[p]
      BY <1>6, <1>7 DEF InCopy
    <3> QED
      BY <1>5, <3>1, <3>2, <3>3 DEF Stays
  <2> QED
    BY <2>1, <2>2
<1>11. InCopy(c)' /\ Alive(c)' /\ proc'[c].stat # "SZOMB"
  BY <1>4, <1>7 DEF InCopy, Alive, Null
<1>12. CoreHas(c) = {} /\ SwapHas(c) = {}
  <2>1. CASE at[c] = "free"
    BY <2>1 DEF Table, PlaceInv, CoreHas, SwapHas, Alive, Null
  <2>2. CASE at[c] = "swapmap"
    <3>1. InCopy(c) /\ job[c].a = 0 /\ proc[c].stat # "SZOMB"
      BY <2>2 DEF InCopy, Memory, Jobs, CopyJob, Table, PlaceInv
    <3> QED
      BY <3>1 DEF CoreHas, SwapHas
  <2> QED
    BY <2>1, <2>2
<1>13. CoreHas(c)' = {} /\ SwapHas(c)' = IF m.addr # 0 THEN SwapUnits(m.addr) ELSE {}
  BY <1>6, <1>11 DEF CoreHas, SwapHas, SwapUnits
<1>14. \A q \in Slot \ {c} : CoreHas(q)' = CoreHas(q) /\ SwapHas(q)' = SwapHas(q)
  BY <1>10, StaysHas
<1>15. CoreF' = CoreF
  BY <1>12, <1>13, <1>14 DEF CoreF
<1>16. Shared(coremap, CoreF, start.core)'
  BY <1>15 DEF Memory, Shared
<1>17. Shared(swapmap', SwapF', start.swap)
  <2>1. Shared(swapmap, SwapF, start.swap) /\ start.swap \in Nat
    BY NobodyElse DEF Memory
  <2>2. CASE m.addr = 0
    <3>1. SwapF' = SwapF
      BY <1>12, <1>13, <1>14, <2>2 DEF SwapF
    <3>2. swapmap' = swapmap
      BY <1>0, <1>2, <2>1, <2>2, MallocFails DEF m
    <3> QED
      BY <2>1, <3>1, <3>2
  <2>3. CASE m.addr # 0
    <3>1. SwapF'[c] = SwapF[c] \cup SwapUnits(m.addr) /\ \A q \in Slot \ {c} : SwapF'[q] = SwapF[q]
      BY <1>12, <1>13, <1>14, <2>3 DEF SwapF
    <3> QED
      <4>1. /\ m.addr # 0 /\ ImageSwap \in Nat \ {0} /\ \A q \in Slot \ {c} : SwapF'[q] = SwapF[q]
            /\ SwapF'[c] = SwapF[c] \cup (m.addr .. m.addr + ImageSwap - 1)
        BY <1>0, <2>3, <3>1 DEF SwapUnits
      <4>2. Shared(m.map, SwapF', start.swap)
        <5>1. PICK G : G = SwapF'
          OBVIOUS
        <5>2. PICK n \in Nat : n = start.swap
          BY <2>1
        <5>3. /\ Shared(swapmap, SwapF, n) /\ Malloc(swapmap, ImageSwap).addr # 0
              /\ G[c] = SwapF[c] \cup (Malloc(swapmap, ImageSwap).addr
                                       .. Malloc(swapmap, ImageSwap).addr + ImageSwap - 1)
              /\ \A q \in Slot \ {c} : G[q] = SwapF[q]
          BY <2>1, <4>1, <5>1, <5>2 DEF m
        <5>4. Shared(Malloc(swapmap, ImageSwap).map, G, n)
          <6> HIDE DEF m
          <6>1. c \in Slot /\ ImageSwap \in Nat \ {0}
            BY <4>1
          <6> QED
            BY <5>3, <6>1, MallocShares
        <5> QED
          BY <5>1, <5>2, <5>4 DEF m
      <4>3. swapmap' = m.map
        BY <1>2
      <4> QED
        BY <4>2, <4>3
  <2> QED
    BY <2>2, <2>3
<1>18. Shared(swapmap, SwapF, start.swap)'
  BY <1>17 DEF Shared
<1>19. SchedJob'
  <2>1. CASE job[0].kind = "none"
    BY <1>8, <2>1, SchedJobRests DEF Memory, Jobs
  <2>2. CASE job[0].kind # "none"
    <3>1. /\ job[0].who \in Slot /\ ~proc[job[0].who].load /\ ~InCopy(job[0].who) /\ job[0].kind \in {"in", "out"}
          /\ proc[job[0].who].stat \in {"SRUN", "SSLEEP", "SWAIT"}
      BY <1>0, <2>2 DEF Memory, Jobs, SchedJob, Job
    <3>2. job[0].who \notin {c, p}
      BY <3>1 DEF Table, PlaceInv, InCopy, Null
    <3>3. Rests(job[0].who)
      BY <1>9, <3>1, <3>2
    <3> QED
      BY <1>8, <3>1, <3>3, SchedJobRests DEF Memory, Jobs
  <2> QED
    BY <2>1, <2>2
<1>20. \A q \in Slot \ {c, p} : OtherJob(q)' /\ CopyJob(q)'
  <2>1. \A d \in {c, p} : \A q \in Slot \ {c, p} : /\ InCopy(q) => proc'[d].pid # job[q].pid
                                                   /\ at[q] = "waitio" => job[q].who # d
    BY <1>5
  <2>2. {c, p} \in SUBSET Slot
    OBVIOUS
  <2> QED
    BY <1>9, <2>1, <2>2, JobsStay
<1>21. OtherJob(p)' /\ CopyJob(p)'
  <2>1. OtherJob(p) /\ at'[p] = "user" /\ job'[p] = job[p]
    BY <1>6, <1>7 DEF Memory, Jobs
  <2> QED
    BY <2>1 DEF OtherJob, CopyJob, InCopy
<1>22. OtherJob(c)'
  BY <1>6, <1>7 DEF OtherJob
<1>23. CopyJob(c)'
  <2>1. \A r \in Slot : proc'[r].pid = pid => r = p
    <3>1. \A r \in Slot \ {p} : proc[r].pid # proc[p].pid
      BY DEF Table, ParentLives
    <3>2. proc'[c].pid # proc[p].pid
      BY <1>5
    <3> QED
      BY <1>5, <3>1, <3>2
  <2>2. Alive(p)' /\ proc'[p].load /\ proc'[p].addr = proc'[c].addr /\ ~InCopy(p)'
    BY <1>5, <1>7 DEF Alive, InCopy
  <2>3. \A r \in Slot : proc'[r].pid = job'[c].pid =>
          Alive(r)' /\ proc'[r].load /\ proc'[r].addr = proc'[c].addr /\ ~InCopy(r)'
    BY <1>6, <2>1, <2>2
  <2> QED
    BY <1>4, <1>5, <1>6, <1>7, <2>3 DEF CopyJob
<1>24. Jobs'
  BY <1>19, <1>20, <1>21, <1>22, <1>23 DEF Jobs
<1>25. Devices' /\ (swbuf'.busy /\ swbuf'.done => swbuf' = swbuf /\ swbuf.by # c)
  <2>1. CASE m.addr # 0
    BY <1>2, <2>1, GetSwbufDevices
  <2>2. CASE m.addr = 0
    <3>1. swbuf' = swbuf /\ rawbuf' = rawbuf /\ swbuf.by \in Slot /\ rawbuf.by \in Slot /\ Devices
      BY <1>2, <2>2 DEF Table, Types, Header, Memory
    <3>2. (swbuf.busy => swbuf.by # c) /\ (rawbuf.busy => rawbuf.by # c)
      BY <3>1 DEF Devices
    <3> QED
      BY <1>7, <3>1, <3>2 DEF Devices
  <2> QED
    BY <2>1, <2>2
<1>26. Transferred'
  <2> SUFFICES ASSUME swbuf'.busy, swbuf'.done PROVE Transferred'
    BY DEF Transferred
  <2> DEFINE j == job[swbuf.by]
  <2>1. swbuf' = swbuf /\ swbuf.by # c /\ swbuf.by \in Slot
    BY <1>25 DEF Table, Types, Header
  <2>2. job'[swbuf'.by] = j
    BY <1>6, <2>1
  <2>3. /\ j.who \in Slot /\ Alive(j.who) /\ (j.kind \in {"in", "out"} => ~InCopy(j.who))
        /\ (j.kind = "copy" => swbuf.by = j.who) /\ j.kind \in {"in", "out", "copy"}
    BY <2>1, TransferPlace
  <2>4. j.who # c
    <3>1. CASE at[c] = "free"
      BY <2>3, <3>1 DEF Alive, Table, PlaceInv
    <3>2. CASE at[c] = "swapmap"
      BY <2>1, <2>3, <3>2 DEF InCopy
    <3> QED
      BY <3>1, <3>2
  <2>5. proc'[j.who].pid = proc[j.who].pid
    BY <1>5, <2>3, <2>4
  <2>6. IF j.kind = "in" THEN core[j.a] = proc[j.who].pid
        ELSE \A x \in SwapUnits(j.a) : swp[x] = proc[j.who].pid
    BY <2>1 DEF Memory, Transferred
  <2> HIDE DEF j
  <2>7. IF j.kind = "in" THEN core'[j.a] = proc'[j.who].pid
        ELSE \A x \in SwapUnits(j.a) : swp'[x] = proc'[j.who].pid
    BY <2>5, <2>6
  <2> QED
    BY <2>2, <2>7 DEF Transferred, SwapUnits
<1>27. \A q \in Slot : HasImage(q)'
  <2>1. \A q \in Slot \ {c} : HasImage(q)'
    BY <1>10, ImageStays DEF Memory
  <2>2. HasImage(c)'
    BY <1>11 DEF HasImage
  <2> QED
    BY <2>1, <2>2
<1>28. \A q \in Slot : Apart(q)'
  <2>1. \A q \in Slot \ {c} : Apart(q)'
    BY <1>10, ApartStays DEF Memory
  <2>2. Apart(c)'
    BY <1>6 DEF Apart
  <2> QED
    BY <2>1, <2>2
<1>29. start' \in Starts /\ core' \in [1 .. start'.core -> Int] /\ swp' \in [1 .. start'.swap -> Int]
  BY DEF Memory
<1> QED
  BY <1>16, <1>18, <1>24, <1>25, <1>26, <1>27, <1>28, <1>29 DEF Memory

\* newproc gets its space on the swap device, or sleeps for it.
LEMMA NewprocSwapMemory ==
    ASSUME Table, Memory, NEW c \in Slot, NewprocSwap(c)
    PROVE  Memory'
<1>1. /\ proc[c].stat = "SRUN" /\ at[c] = "swapmap" /\ proc[c].load /\ c # 0
      /\ NewprocRoom(proc, c, job[c].pid) /\ UNCHANGED <<coremap, core, swp, start, panic, rawbuf>>
  BY DEF NewprocSwap, Run, memory, rest, Table, PlaceInv
<1>2. InCopy(c) /\ proc[c].stat # Null
  BY <1>1 DEF InCopy, Null
<1>3. PICK p \in Slot : proc[p].pid = job[c].pid /\ proc[p].stat = "SIDL"
  BY <1>2 DEF Table, CopyInv
<1>4. p \notin {0, c} /\ at[p] = "user" /\ proc[p].stat \notin {Null, "SZOMB"}
  BY <1>1, <1>3 DEF Table, Founders, PlaceInv, Null
<1>5. proc[p].load /\ proc[p].addr = proc[c].addr
  BY <1>2, <1>3 DEF Memory, Jobs, CopyJob
<1>6. \A q \in Slot \ {c} : proc[q].pid # proc[c].pid
  BY <1>1, <1>2 DEF Table, ParentLives
<1>7. \A d \in Slot \ {c} : InCopy(d) => job[d].pid \notin {proc[p].pid, proc[c].pid}
  <2> SUFFICES ASSUME NEW d \in Slot \ {c}, InCopy(d) PROVE job[d].pid \notin {proc[p].pid, proc[c].pid}
    OBVIOUS
  <2>1. job[d].pid # job[c].pid
    BY <1>2 DEF Table, CopyInv
  <2>2. job[d].pid # proc[c].pid
    BY <1>1, Uninvolved
  <2> QED
    BY <1>3, <2>1, <2>2
<1>8. \A q \in Slot : at[q] = "waitio" => job[q].who \notin {c, p}
  BY <1>1, <1>3 DEF Table, CollectInv
<1>9. proc \in [Slot -> Row]
  BY DEF Table, Types
<1>10. \A q \in Slot \ {c, p} : proc[q] = proc[q]
  OBVIOUS
<1>11. c \in Slot \ {0} /\ p \in Slot \ {0, c} /\ at[c] \in {"free", "swapmap"} /\ job[c].pid = proc[p].pid
  BY <1>1, <1>3, <1>4
<1> QED
  BY <1>1, <1>4, <1>5, <1>6, <1>7, <1>8, <1>9, <1>10, <1>11, CopyTakes

\* The slot that fork takes has nothing, and nobody is about to give it back.
LEMMA FreeSlotIs ==
    ASSUME Table, Memory, NEW c \in Slot, proc[c].stat = Null, NEW p \in Slot, Run(p), at[p] = "user"
    PROVE  /\ c \notin {0, p} /\ p # 0 /\ at[c] = "free" /\ job[c].kind \notin {"exit", "copy"}
           /\ proc[p].load /\ proc[p].stat = "SRUN" /\ ~InCopy(p) /\ ~InCopy(c) /\ Alive(p)
           /\ \A q \in Slot : NextPid # proc[q].pid
           /\ NextPid \in 1 .. MaxPid
           /\ job[0].kind # "none" => job[0].who \notin {c, p}
           /\ \A d \in Slot : InCopy(d) => job[d].pid \notin {proc[p].pid, NextPid}
           /\ \A q \in Slot : at[q] = "waitio" => job[q].who \notin {c, p}
<1>1. proc[p].load /\ proc[p].stat = "SRUN" /\ p # 0 /\ c # p /\ c # 0
  BY DEF Run, Null, Table, PlaceInv, Founders
<1>2. NextPid \in 1 .. MaxPid /\ \A q \in Slot : NextPid # proc[q].pid
  BY NextPidIsNew DEF Table, Used
<1>3. at[c] = "free" /\ ~InCopy(p) /\ ~InCopy(c) /\ Alive(p)
  BY <1>1 DEF Table, PlaceInv, InCopy, Alive, Null
<1>4. job[c].kind \notin {"exit", "copy"}
  BY <1>3 DEF Memory, Jobs, OtherJob, Table, CopyInv
<1>5. job[0].kind # "none" => job[0].who \notin {c, p}
  BY <1>1 DEF Memory, Jobs, SchedJob, Null
<1>6. ASSUME NEW d \in Slot, InCopy(d) PROVE job[d].pid \notin {proc[p].pid, NextPid}
  <2>1. job[d].pid # proc[p].pid
    BY <1>1, <1>6, Uninvolved
  <2>2. \E r \in Slot : proc[r].pid = job[d].pid
    BY <1>6 DEF Table, CopyInv
  <2> QED
    BY <1>2, <2>1, <2>2
<1>7. \A q \in Slot : at[q] = "waitio" => job[q].who \notin {c, p}
  BY <1>1 DEF Table, CollectInv, Null
<1> QED
  BY <1>1, <1>2, <1>3, <1>4, <1>5, <1>6, <1>7

\* The child is there, in core.
LEMMA ChildInCore ==
    ASSUME Table, Memory, NEW p \in Slot, NEW c \in Slot, proc[c].stat = Null, Run(p), at[p] = "user",
           Malloc(coremap, 1).addr # 0, coremap' = Malloc(coremap, 1).map,
           core' = [core EXCEPT ![Malloc(coremap, 1).addr] =
                      IF core[proc[p].addr] = proc[p].pid THEN NextPid ELSE Junk],
           \A q \in Slot \ {c} : proc'[q] = proc[q],
           proc'[c].stat = "SRUN", proc'[c].pid = NextPid, proc'[c].addr = Malloc(coremap, 1).addr, proc'[c].load,
           at'[c] = "user", at'[p] \in {"user", "psig"}, \A q \in Slot \ {c, p} : at'[q] = at[q],
           UNCHANGED <<job, swapmap, swp, start, panic, swbuf, rawbuf>>
    PROVE  Memory'
<1> DEFINE m == Malloc(coremap, 1)
<1>1. /\ c \notin {0, p} /\ p # 0 /\ at[c] = "free" /\ job[c].kind \notin {"exit", "copy"}
      /\ proc[p].load /\ proc[p].stat = "SRUN" /\ ~InCopy(p) /\ ~InCopy(c) /\ Alive(p)
      /\ \A q \in Slot : NextPid # proc[q].pid
      /\ NextPid \in 1 .. MaxPid
      /\ job[0].kind # "none" => job[0].who \notin {c, p}
      /\ \A d \in Slot : InCopy(d) => job[d].pid \notin {proc[p].pid, NextPid}
      /\ \A q \in Slot : at[q] = "waitio" => job[q].who \notin {c, p}
  BY FreeSlotIs
<1>2. /\ m.addr \in Nat /\ 0 \in Slot /\ start.core \in Nat /\ MaxPid \in Nat
      /\ proc \in [Slot -> Row] /\ core \in [1 .. start.core -> Int]
  BY MallocType, SlotIs, NobodyElse, ProcsAssumption DEF Table, Types, Memory
<1>3. core[proc[p].addr] = proc[p].pid
  BY <1>1 DEF Memory, HasImage, InUse
<1>4. m.addr # 0 /\ coremap' = m.map /\ core' = [core EXCEPT ![m.addr] = NextPid] /\ proc'[c].addr = m.addr
  BY <1>3
<1>5. Shared(coremap, CoreF, start.core) /\ 1 \in Nat \ {0}
  BY DEF Memory
<1> HIDE DEF m
<1>6. \A q \in Slot \ {c, p} : Rests(q)
  BY LeftRests
<1>7. \A q \in Slot \ {c} : Stays(q)
  <2>1. \A q \in Slot \ {c, p} : Stays(q)
    BY <1>6, RestsStays
  <2>2. Stays(p)
    <3>1. (Coming(p)' <=> Coming(p)) /\ (Going(p)' <=> Going(p))
      BY DEF Coming, Going
    <3>2. (InCopy(p)' <=> InCopy(p)) /\ proc'[p] = proc[p]
      BY <1>1 DEF InCopy
    <3> QED
      BY <3>1, <3>2 DEF Stays
  <2> QED
    BY <2>1, <2>2
<1>8. /\ ~InCopy(c)' /\ Alive(c)' /\ proc'[c].stat # "SZOMB" /\ ~Coming(c)' /\ ~Going(c)' /\ InUse(c)' /\ ~Alive(c)
      /\ proc[c].stat # "SZOMB"
  <2>1. ~Coming(c)' /\ ~Going(c)'
    BY <1>1 DEF Coming, Going
  <2> QED
    BY <1>1, <2>1 DEF InCopy, Alive, InUse, Null
<1>9. CoreHas(c) = {} /\ SwapHas(c) = {} /\ CoreHas(c)' = {m.addr} /\ SwapHas(c)' = {}
  <2>1. CoreHas(c) = {} /\ SwapHas(c) = {}
    BY <1>8 DEF CoreHas, SwapHas
  <2>2. CoreHas(c)' = {m.addr}
    BY <1>4, <1>8 DEF CoreHas
  <2>3. SwapHas(c)' = {}
    BY <1>1, <1>8 DEF SwapHas
  <2> QED
    BY <2>1, <2>2, <2>3
<1>10. \A q \in Slot \ {c} : CoreHas(q)' = CoreHas(q) /\ SwapHas(q)' = SwapHas(q)
  BY <1>7, StaysHas
<1>11. SwapF' = SwapF
  BY <1>9, <1>10 DEF SwapF
<1>12. Shared(swapmap, SwapF, start.swap)'
  BY <1>11 DEF Memory, Shared
<1>13. CoreF'[c] = CoreF[c] \cup (m.addr .. m.addr + 1 - 1) /\ \A q \in Slot \ {c} : CoreF'[q] = CoreF[q]
  BY <1>2, <1>9, <1>10, OneUnit DEF CoreF
<1>14. Shared(coremap', CoreF', start.core) /\ \A q \in Slot : m.addr \notin CoreF[q]
  <2>1. m.addr # 0 /\ coremap' = m.map /\ start.core \in Nat
    BY <1>2, <1>4
  <2>2. /\ Shared(m.map, CoreF', start.core)
        /\ \A q \in Slot : CoreF[q] \cap (m.addr .. m.addr + 1 - 1) = {}
    BY <1>5, <1>13, <2>1, MallocShares DEF m
  <2> QED
    BY <1>2, <2>1, <2>2, OneUnit
<1>15. Shared(coremap, CoreF, start.core)'
  BY <1>14 DEF Shared
<1>16. m.addr \in 1 .. start.core /\ \A q \in Slot : CoreHas(q) \subseteq (1 .. start.core) \ {m.addr}
  <2>1. m.addr \in CoreF'[c]
    BY <1>9 DEF CoreF
  <2>2. \A q \in Slot : CoreF'[q] \subseteq 1 .. start.core /\ CoreF[q] \subseteq 1 .. start.core
    BY <1>2, <1>5, <1>14, ShareBounds
  <2> QED
    BY <1>14, <2>1, <2>2, HasIs
<1>17. /\ core' \in [1 .. start.core -> Int] /\ core'[m.addr] = NextPid
       /\ \A x \in 1 .. start.core : x # m.addr => core'[x] = core[x]
  BY <1>1, <1>2, <1>4, <1>16
<1>18. SchedJob'
  <2>1. job'[0] = job[0] /\ at'[0] = at[0] /\ job[0].who \in Slot
    BY <1>1, <1>2 DEF Table, Types, Job
  <2> QED
    BY <1>1, <1>6, <2>1, SchedJobRests DEF Memory, Jobs
<1>19. \A q \in Slot \ {c, p} : OtherJob(q)' /\ CopyJob(q)'
  <2>1. \A d \in {c, p} : \A q \in Slot \ {c, p} : /\ InCopy(q) => proc'[d].pid # job[q].pid
                                                   /\ at[q] = "waitio" => job[q].who # d
    BY <1>1
  <2>2. {c, p} \in SUBSET Slot
    OBVIOUS
  <2> QED
    BY <1>6, <2>1, <2>2, JobsStay
<1>20. OtherJob(p)' /\ CopyJob(p)' /\ OtherJob(c)' /\ CopyJob(c)'
  <2>1. OtherJob(p) /\ OtherJob(c)
    BY DEF Memory, Jobs
  <2> QED
    BY <1>1, <2>1 DEF OtherJob, CopyJob, InCopy
<1>21. Jobs'
  BY <1>18, <1>19, <1>20 DEF Jobs
<1>22. Devices'
  <2>1. swbuf.by \in Slot /\ rawbuf.by \in Slot /\ Devices
    BY DEF Table, Types, Header, Memory
  <2> QED
    BY <1>1, <2>1 DEF Devices
<1>23. Transferred'
  <2> SUFFICES ASSUME swbuf'.busy, swbuf'.done PROVE Transferred'
    BY DEF Transferred
  <2> DEFINE j == job[swbuf.by]
  <2>1. /\ j.who \in Slot /\ Alive(j.who) /\ (j.kind = "in" => j.a \in CoreHas(j.who))
    BY TransferPlace
  <2>2. proc'[j.who].pid = proc[j.who].pid
    BY <1>8, <2>1
  <2>3. IF j.kind = "in" THEN core[j.a] = proc[j.who].pid
        ELSE \A x \in SwapUnits(j.a) : swp[x] = proc[j.who].pid
    BY DEF Memory, Transferred
  <2>4. job'[swbuf'.by] = j
    OBVIOUS
  <2> HIDE DEF j
  <2>5. j.kind = "in" => core'[j.a] = core[j.a]
    BY <1>16, <1>17, <2>1
  <2>6. IF j.kind = "in" THEN core'[j.a] = proc'[j.who].pid
        ELSE \A x \in SwapUnits(j.a) : swp'[x] = proc'[j.who].pid
    BY <2>2, <2>3, <2>5
  <2> QED
    BY <2>4, <2>6 DEF Transferred, SwapUnits
<1>24. \A q \in Slot : HasImage(q)'
  <2>1. \A q \in Slot \ {c} : HasImage(q)'
    BY <1>7, <1>16, <1>17, ImageStays DEF Memory
  <2>2. HasImage(c)'
    BY <1>4, <1>8, <1>17 DEF HasImage
  <2> QED
    BY <2>1, <2>2
<1>25. \A q \in Slot : Apart(q)'
  <2>1. \A q \in Slot \ {c} : Apart(q)'
    BY <1>7, ApartStays DEF Memory
  <2>2. Apart(c)'
    BY <1>1 DEF Apart
  <2> QED
    BY <2>1, <2>2
<1>26. start' \in Starts /\ core' \in [1 .. start'.core -> Int] /\ swp' \in [1 .. start'.swap -> Int]
  BY <1>17 DEF Memory
<1> QED
  BY <1>12, <1>15, <1>21, <1>22, <1>23, <1>24, <1>25, <1>26 DEF Memory

\* fork: there is no slot, or the child is in core, or on its way to the swap
\* device.
LEMMA ForkMemory ==
    ASSUME Table, Memory, NEW p \in Slot, Fork(p)
    PROVE  Memory'
<1> DEFINE free == {q \in Slot : proc[q].stat = Null}
<1>1. Run(p) /\ at[p] = "user" /\ proc[p].stat = "SRUN" /\ proc[p].load /\ UNCHANGED <<swp, cached, rawbuf, rest>>
  BY DEF Fork, UserCall, Run
<1>2. proc \in [Slot -> Row] /\ at \in [Slot -> Places] /\ job \in [Slot -> Job] /\ p \in Slot \ {0}
  BY <1>1 DEF Table, Types, PlaceInv
<1>3. start' = start /\ panic' = panic /\ swp' = swp /\ rawbuf' = rawbuf
  BY <1>1 DEF rest
<1>4. CASE /\ at' = [at EXCEPT ![p] = Back(proc, p)]
           /\ UNCHANGED <<proc, job, hand, maps, core, swbuf, mpid>>
  <2>1. PICK x \in {"user", "psig"} : x = Back(proc, p)
    BY BackIs
  <2>2. at'[p] = x /\ \A q \in Slot \ {p} : at'[q] = at[q]
    BY <1>2, <1>4, <2>1
  <2>3. proc' = proc /\ job' = job /\ UNCHANGED <<coremap, swapmap, core, swp, start, panic, bufs>>
    BY <1>3, <1>4 DEF maps, bufs
  <2>4. \A q \in Slot \ {p} : Rests(q)
    BY <2>2, <2>3, LeftRests
  <2>5. at'[p] \in {"user", "psig", "wait", "waitio", "psread"} /\ at'[p] # "waitio"
    BY <2>1, <2>2
  <2>6. job'[p] \in Job /\ job'[p] = job[p]
    BY <1>2, <2>3
  <2> QED
    BY <1>1, <1>2, <2>3, <2>4, <2>5, <2>6, CalmCall
<1>5. ASSUME free # {}, NEW c, c = Min(free) PROVE c \in Slot /\ proc[c].stat = Null
  <2>1. free \in SUBSET Slot
    OBVIOUS
  <2>2. c \in free
    <3> HIDE DEF free
    <3> QED
      BY <1>5, <2>1, MinOfSlots
  <2> QED
    BY <2>2
<1>6. CASE /\ free # {} /\ Malloc(coremap, 1).addr # 0
           /\ LET c == Min(free)
                  m == Malloc(coremap, 1)
              IN  /\ proc' = [proc EXCEPT ![c] = NewEntry(p, m.addr, TRUE)]
                  /\ coremap' = m.map
                  /\ core' = [core EXCEPT ![m.addr] = IF core[proc[p].addr] = proc[p].pid
                                                      THEN NextPid ELSE Junk]
                  /\ at' = [at EXCEPT ![c] = "user", ![p] = Back(proc, p)]
                  /\ UNCHANGED <<job, swapmap, swbuf>>
  <2>1. PICK c : c = Min(free)
    OBVIOUS
  <2>2. PICK a : a = Malloc(coremap, 1).addr
    OBVIOUS
  <2>3. PICK f : f = NewEntry(p, a, TRUE)
    OBVIOUS
  <2>4. PICK x \in {"user", "psig"} : x = Back(proc, p)
    BY BackIs
  <2>5. /\ proc' = [proc EXCEPT ![c] = f] /\ coremap' = Malloc(coremap, 1).map
        /\ core' = [core EXCEPT ![Malloc(coremap, 1).addr] =
                      IF core[proc[p].addr] = proc[p].pid THEN NextPid ELSE Junk]
        /\ at' = [at EXCEPT ![c] = "user", ![p] = x] /\ UNCHANGED <<job, swapmap, swbuf>>
    BY <1>6, <2>1, <2>2, <2>3, <2>4
  <2>6. c \in Slot /\ proc[c].stat = Null /\ c # p
    BY <1>1, <1>5, <1>6, <2>1 DEF Null
  <2>7. f.stat = "SRUN" /\ f.pid = NextPid /\ f.addr = a /\ f.load
    BY <2>3 DEF NewEntry
  <2>8. proc'[c] = f /\ \A q \in Slot \ {c} : proc'[q] = proc[q]
    BY <1>2, <2>5, <2>6
  <2>9. at'[c] = "user" /\ at'[p] \in {"user", "psig"} /\ \A q \in Slot \ {c, p} : at'[q] = at[q]
    BY <1>2, <2>5, <2>6
  <2>10. proc'[c].stat = "SRUN" /\ proc'[c].pid = NextPid /\ proc'[c].addr = Malloc(coremap, 1).addr /\ proc'[c].load
    BY <2>2, <2>7, <2>8
  <2>11. UNCHANGED <<job, swapmap, swp, start, panic, swbuf, rawbuf>>
    BY <1>3, <2>5
  <2> QED
    BY <1>1, <1>6, <2>5, <2>6, <2>8, <2>9, <2>10, <2>11, ChildInCore
<1>7. CASE /\ free # {}
           /\ LET c == Min(free)
              IN  /\ NewprocRoom([proc EXCEPT ![c] = NewEntry(p, proc[p].addr, TRUE), ![p].stat = "SIDL"],
                                 c, proc[p].pid)
                  /\ UNCHANGED <<coremap, core>>
  <2>1. PICK c : c = Min(free)
    OBVIOUS
  <2>2. PICK addr \in Nat : addr = proc[p].addr
    BY <1>2 DEF Row
  <2>3. PICK f : f = NewEntry(p, addr, TRUE)
    OBVIOUS
  <2>4. PICK e \in Row : e = proc[p]
    BY <1>2
  <2>5. PICK g : g = [e EXCEPT !.stat = "SIDL"]
    OBVIOUS
  <2>6. PICK P : P = [proc EXCEPT ![c] = f, ![p].stat = "SIDL"]
    OBVIOUS
  <2>7. PICK pid : pid = proc[p].pid
    OBVIOUS
  <2>8. NewprocRoom(P, c, pid) /\ UNCHANGED <<coremap, core, swp, start, panic, rawbuf>>
    BY <1>3, <1>7, <2>1, <2>2, <2>3, <2>6, <2>7
  <2>9. c \in Slot /\ proc[c].stat = Null /\ c # p
    BY <1>1, <1>5, <1>7, <2>1 DEF Null
  <2>10. f \in Row /\ f.pid = NextPid /\ f.load /\ f.addr = addr
    <3>1. Types
      BY DEF Table
    <3>2. f = [stat |-> "SRUN", pid |-> NextPid, ppid |-> proc[p].pid, addr |-> addr,
               load |-> TRUE, lock |-> FALSE, time |-> 0, sig |-> "none"]
      BY <2>3 DEF NewEntry
    <3>3. f.addr = addr
      BY <3>2
    <3> QED
      BY <3>1, <3>2, <3>3, NewEntryIs
  <2>11. g \in Row /\ g.stat = "SIDL" /\ SameButStat(g, e)
    <3>1. "SIDL" \in Stats
      BY DEF Stats
    <3> QED
      BY <2>5, <3>1, RowStat
  <2>12. P = [[proc EXCEPT ![c] = f] EXCEPT ![p] = g]
    BY <1>2, <2>4, <2>5, <2>6, <2>9
  <2>13. P \in [Slot -> Row] /\ P[c] = f /\ P[p] = g /\ \A q \in Slot \ {c, p} : P[q] = proc[q]
    BY <1>2, <2>9, <2>10, <2>11, <2>12
  <2>14. /\ P[p].pid = proc[p].pid /\ P[p].addr = proc[p].addr /\ P[p].load = proc[p].load
         /\ P[p].stat \notin {Null, "SZOMB"}
    BY <2>4, <2>11, <2>13 DEF SameButStat, Null
  <2>15. P[c].load /\ P[c].addr = proc[p].addr /\ P[c].pid = NextPid
    BY <2>2, <2>10, <2>13
  <2>16. /\ c \notin {0, p} /\ at[c] = "free" /\ proc[p].stat \notin {Null, "SZOMB"}
         /\ \A q \in Slot : NextPid # proc[q].pid
         /\ \A d \in Slot : InCopy(d) => job[d].pid \notin {proc[p].pid, NextPid}
         /\ \A q \in Slot : at[q] = "waitio" => job[q].who \notin {c, p}
    BY <1>1, <2>9, FreeSlotIs DEF Null
  <2>17. /\ c \in Slot \ {0} /\ p \in Slot \ {0, c} /\ at[c] \in {"free", "swapmap"}
         /\ \A q \in Slot \ {c} : proc[q].pid # P[c].pid
         /\ \A d \in Slot \ {c} : InCopy(d) => job[d].pid \notin {proc[p].pid, P[c].pid}
    BY <1>2, <2>9, <2>15, <2>16
  <2>18. UNCHANGED <<coremap, core, swp, start, panic, rawbuf>>
    BY <2>8
  <2> QED
    BY <1>1, <2>7, <2>8, <2>13, <2>14, <2>15, <2>16, <2>17, CopyTakes
<1>8. \/ /\ at' = [at EXCEPT ![p] = Back(proc, p)]
         /\ UNCHANGED <<proc, job, hand, maps, core, swbuf, mpid>>
      \/ /\ free # {} /\ Malloc(coremap, 1).addr # 0
         /\ LET c == Min(free)
                m == Malloc(coremap, 1)
            IN  /\ proc' = [proc EXCEPT ![c] = NewEntry(p, m.addr, TRUE)]
                /\ coremap' = m.map
                /\ core' = [core EXCEPT ![m.addr] = IF core[proc[p].addr] = proc[p].pid
                                                    THEN NextPid ELSE Junk]
                /\ at' = [at EXCEPT ![c] = "user", ![p] = Back(proc, p)]
                /\ UNCHANGED <<job, swapmap, swbuf>>
      \/ /\ free # {}
         /\ LET c == Min(free)
            IN  /\ NewprocRoom([proc EXCEPT ![c] = NewEntry(p, proc[p].addr, TRUE), ![p].stat = "SIDL"],
                               c, proc[p].pid)
                /\ UNCHANGED <<coremap, core>>
  BY DEF Fork
<1> QED
  BY <1>4, <1>6, <1>7, <1>8

\* The child is swapped out, and its parent goes on.
LEMMA NewprocEndMemory ==
    ASSUME Table, Memory, NEW c \in Slot, NewprocEnd(c)
    PROVE  Memory'
<1>0. 0 \in Slot /\ proc[0].stat # "SIDL" /\ at \in [Slot -> Places] /\ job \in [Slot -> Job]
  BY SlotIs DEF Table, Founders, Types
<1>1. /\ c # 0 /\ proc[c].stat = "SRUN" /\ at[c] = "swapio" /\ swbuf.done /\ swbuf' = Idle
      /\ job' = [job EXCEPT ![c] = NoJob] /\ UNCHANGED <<maps, memory, rawbuf, rest>>
  <2>1. c # 0 /\ SwapDone(c) /\ UNCHANGED <<maps, memory, rawbuf, rest>>
    BY SMTT(30) DEF NewprocEnd
  <2> QED
    BY <2>1 DEF SwapDone, Run
<1>2. PICK p \in Slot :
        /\ proc[p].pid = job[c].pid
        /\ LET P == [Wakeup(proc, {"swapget", "runout"}) EXCEPT
                       ![c].addr = job[c].a, ![c].load = FALSE, ![c].lock = FALSE,
                       ![c].time = 0, ![p].stat = "SRUN"]
           IN  proc' = P /\ at' = [at EXCEPT ![c] = "user", ![p] = Back(P, p)]
  BY DEF NewprocEnd
<1>3. UNCHANGED <<coremap, swapmap, core, swp, start, panic, rawbuf>>
  BY <1>1 DEF maps, memory, rest
<1>4. InCopy(c) /\ Alive(c) /\ proc[c].load /\ swbuf.busy /\ swbuf.by = c
  BY <1>1 DEF InCopy, Alive, Null, Memory, Jobs, CopyJob, Table, Headers
<1>5. proc[p].stat = "SIDL" /\ at[p] = "user" /\ p # c /\ p # 0
  <2>1. PICK r \in Slot : proc[r].pid = job[c].pid /\ proc[r].stat = "SIDL"
    BY <1>4 DEF Table, CopyInv
  <2>2. p = r
    BY <1>0, <1>2, <2>1 DEF Table, ParentLives, Null
  <2> QED
    BY <1>1, <2>1, <2>2 DEF Table, PlaceInv
<1>6. PICK R : R = Wakeup(proc, {"swapget", "runout"})
  OBVIOUS
<1>7. R \in [Slot -> Row] /\ \A q \in Slot : SameButStat(R[q], proc[q]) /\ Woken(R[q], proc[q])
  BY <1>6, WakeupIs DEF Table
<1>8. PICK a \in Nat : a = job[c].a
  BY <1>0 DEF Job
<1>9. PICK e \in Row : e = R[c]
  BY <1>7
<1>10. PICK f : f = [e EXCEPT !.addr = a, !.load = FALSE, !.lock = FALSE, !.time = 0]
  OBVIOUS
<1>11. f.stat = e.stat /\ f.pid = e.pid /\ f.addr = a /\ ~f.load
  BY <1>10 DEF Row
<1>12. PICK d \in Row : d = R[p]
  BY <1>7
<1>13. PICK g : g = [d EXCEPT !.stat = "SRUN"]
  OBVIOUS
<1>14. g.stat = "SRUN" /\ SameButStat(g, d)
  <2>1. "SRUN" \in Stats
    BY DEF Stats
  <2> QED
    BY <1>13, <2>1, RowStat
<1>15. proc' = [[R EXCEPT ![c] = f] EXCEPT ![p] = g]
  BY <1>2, <1>5, <1>6, <1>7, <1>8, <1>9, <1>10, <1>12, <1>13
<1>16. proc'[c] = f /\ proc'[p] = g /\ \A q \in Slot \ {c, p} : proc'[q] = R[q]
  BY <1>5, <1>7, <1>15
<1>17. PICK x \in {"user", "psig"} : at' = [at EXCEPT ![c] = "user", ![p] = x]
  <2>1. \A P : Back(P, p) \in {"user", "psig"}
    BY BackIs
  <2> QED
    BY <1>2, <2>1
<1>18. at'[c] = "user" /\ at'[p] \in {"user", "psig"} /\ \A q \in Slot \ {c, p} : at'[q] = at[q]
  BY <1>0, <1>5, <1>17
<1>19. job'[c] = NoJob /\ NoJob.kind = "none" /\ \A q \in Slot \ {c} : job'[q] = job[q]
  BY <1>0, <1>1 DEF NoJob
<1>20. /\ proc'[c].stat = "SRUN" /\ proc'[c].pid = proc[c].pid /\ proc'[c].addr = a /\ ~proc'[c].load
       /\ proc'[p].stat = "SRUN" /\ proc'[p].pid = proc[p].pid /\ proc'[p].addr = proc[p].addr
       /\ proc'[p].load = proc[p].load
  <2>1. e.stat = "SRUN" /\ e.pid = proc[c].pid
    BY <1>1, <1>7, <1>9 DEF SameButStat, Woken
  <2>2. d.pid = proc[p].pid /\ d.addr = proc[p].addr /\ d.load = proc[p].load
    BY <1>7, <1>12 DEF SameButStat
  <2> QED
    BY <1>11, <1>14, <1>16, <2>1, <2>2 DEF SameButStat
<1>21. \A q \in Slot \ {c, p} : Rests(q)
  BY <1>7, <1>16, <1>18, <1>19, WokenRests
<1>22. job'[0] = job[0] /\ at'[0] = at[0] /\ (job[0].kind # "none" => job[0].who \notin {c, p})
  <2>1. job[0].kind # "none" => job[0].who \notin {c, p}
    BY <1>4, <1>5 DEF Memory, Jobs, SchedJob
  <2> QED
    BY <1>0, <1>1, <1>5, <1>18, <1>19, <2>1
<1>23. \A q \in Slot \ {c} : Stays(q)
  <2>1. \A q \in Slot \ {c, p} : Stays(q)
    BY <1>21, <1>22, RestsStays
  <2>2. Stays(p)
    <3>1. Class(proc'[p].stat) = Class(proc[p].stat)
      BY <1>5, <1>20 DEF Class, Null
    <3>2. (Coming(p)' <=> Coming(p)) /\ (Going(p)' <=> Going(p)) /\ (Coming(p) \/ Going(p) => job'[0].a = job[0].a)
      BY <1>22 DEF Coming, Going
    <3>3. (InCopy(p)' <=> InCopy(p)) /\ job'[p] = job[p]
      BY <1>5, <1>18, <1>19 DEF InCopy
    <3> QED
      BY <1>20, <3>1, <3>2, <3>3 DEF Stays
  <2> QED
    BY <2>1, <2>2
<1>24. ~InCopy(c)' /\ Alive(c)' /\ ~Coming(c)' /\ ~Going(c)' /\ ~InUse(c)' /\ proc'[c].stat # "SZOMB"
  <2>1. ~Coming(c)' /\ ~Going(c)'
    BY <1>22 DEF Coming, Going
  <2> QED
    BY <1>1, <1>18, <1>20, <2>1 DEF InCopy, Alive, InUse, Null
<1>25. a # 0
  BY <1>1, <1>4, <1>8 DEF Memory, Jobs, CopyJob
<1>26. CoreHas(c)' = CoreHas(c) /\ SwapHas(c)' = SwapHas(c)
  <2>1. CoreHas(c) = {} /\ SwapHas(c) = SwapUnits(a)
    BY <1>1, <1>4, <1>8, <1>25 DEF CoreHas, SwapHas
  <2>2. CoreHas(c)' = {}
    BY <1>24 DEF CoreHas
  <2>3. SwapHas(c)' = SwapUnits(a)
    BY <1>19, <1>20, <1>24 DEF SwapHas, SwapUnits
  <2> QED
    BY <2>1, <2>2, <2>3
<1>27. CoreF' = CoreF /\ SwapF' = SwapF
  BY <1>23, <1>26, StaysHas DEF CoreF, SwapF
<1>28. Shared(coremap, CoreF, start.core)' /\ Shared(swapmap, SwapF, start.swap)'
  BY <1>3, <1>27 DEF Memory, Shared
<1>29. SchedJob'
  <2>1. job[0].who \in Slot
    BY <1>0 DEF Job
  <2> QED
    BY <1>21, <1>22, <2>1, SchedJobRests DEF Memory, Jobs
<1>30. \A q \in Slot \ {c, p} : OtherJob(q)' /\ CopyJob(q)'
  <2>1. \A q \in Slot \ {c, p} : InCopy(q) => job[q].pid # job[c].pid
    BY <1>4 DEF Table, CopyInv
  <2>2. \A q \in Slot : (InCopy(q) => proc[c].pid # job[q].pid) /\ (at[q] = "waitio" => job[q].who \notin {c, p})
    <3>1. \A q \in Slot : CollectInv(q)
      BY DEF Table
    <3>2. \A q \in Slot : at[q] = "waitio" => job[q].who # p
      BY <1>5, <3>1 DEF CollectInv
    <3> QED
      BY <1>1, <3>2, Uninvolved
  <2>3. \A t \in {c, p} : \A q \in Slot \ {c, p} : /\ InCopy(q) => proc'[t].pid # job[q].pid
                                                   /\ at[q] = "waitio" => job[q].who # t
    <3>1. proc'[c].pid = proc[c].pid /\ proc'[p].pid = job[c].pid
      BY <1>2, <1>20
    <3> SUFFICES ASSUME NEW t \in {c, p}, NEW q \in Slot \ {c, p}
                 PROVE  /\ InCopy(q) => proc'[t].pid # job[q].pid
                        /\ at[q] = "waitio" => job[q].who # t
      OBVIOUS
    <3>2. InCopy(q) => job[q].pid # job[c].pid /\ proc[c].pid # job[q].pid
      BY <2>1, <2>2
    <3>3. at[q] = "waitio" => job[q].who # t
      BY <2>2
    <3>4. CASE t = c
      BY <3>1, <3>2, <3>3, <3>4
    <3>5. CASE t = p
      BY <3>1, <3>2, <3>3, <3>5
    <3> QED
      BY <3>4, <3>5
  <2>4. {c, p} \in SUBSET Slot
    OBVIOUS
  <2> QED
    BY <1>3, <1>21, <2>3, <2>4, JobsStay
<1>31. OtherJob(p)' /\ CopyJob(p)' /\ OtherJob(c)' /\ CopyJob(c)'
  <2>1. OtherJob(p) /\ at[p] = "user" /\ job'[p] = job[p]
    BY <1>5, <1>19 DEF Memory, Jobs
  <2>2. OtherJob(p)' /\ CopyJob(p)'
    BY <1>18, <2>1 DEF OtherJob, CopyJob, InCopy
  <2>3. OtherJob(c)' /\ CopyJob(c)'
    BY <1>18, <1>19 DEF OtherJob, CopyJob, InCopy
  <2> QED
    BY <2>2, <2>3
<1>32. Jobs'
  BY <1>29, <1>30, <1>31 DEF Jobs
<1>33. ~swbuf'.busy
  BY <1>1 DEF Idle
<1>34. Devices' /\ Transferred'
  <2>1. rawbuf.by \in Slot /\ (rawbuf.busy => at[rawbuf.by] = "rawio")
    BY DEF Table, Types, Header, Memory, Devices
  <2>2. rawbuf.busy => rawbuf.by \notin {c, p}
    BY <1>1, <1>5, <2>1
  <2> QED
    BY <1>3, <1>18, <1>33, <2>1, <2>2 DEF Devices, Transferred
<1>35. \A q \in Slot : HasImage(q)'
  <2>1. \A q \in Slot \ {c} : HasImage(q)'
    BY <1>3, <1>23, ImageStays DEF Memory
  <2>2. HasImage(c)'
    <3>1. job[c].kind = "copy" /\ job[c].who = c
      BY <1>4 DEF Table, CopyInv, Memory, Jobs, CopyJob
    <3>2. \A u \in SwapUnits(a) : swp[u] = proc[c].pid
      BY <1>1, <1>4, <1>8, <3>1 DEF Memory, Transferred
    <3>3. \A u \in SwapUnits(proc[c].addr)' : swp'[u] = proc'[c].pid
      BY <1>3, <1>20, <3>2 DEF SwapUnits
    <3> QED
      BY <1>24, <3>3 DEF HasImage
  <2> QED
    BY <2>1, <2>2
<1>36. \A q \in Slot : Apart(q)'
  <2>1. \A q \in Slot \ {c} : Apart(q)'
    BY <1>23, ApartStays DEF Memory
  <2>2. Apart(c)'
    BY <1>19 DEF Apart
  <2> QED
    BY <2>1, <2>2
<1>37. start' \in Starts /\ core' \in [1 .. start'.core -> Int] /\ swp' \in [1 .. start'.swap -> Int]
  BY <1>3 DEF Memory
<1> QED
  BY <1>28, <1>32, <1>34, <1>35, <1>36, <1>37 DEF Memory

\* exit gives back the image's unit of core; the block is the zombie's.
LEMMA ExitEndMemory ==
    ASSUME Table, Memory, NEW p \in Slot, ExitEnd(p)
    PROVE  Memory'
<1>0. 0 \in Slot /\ 1 \in Slot /\ at \in [Slot -> Places] /\ job \in [Slot -> Job] /\ proc \in [Slot -> Row]
  BY SlotIs DEF Table, Types
<1>1. /\ Run(p) /\ at[p] = "exitio" /\ at' = [at EXCEPT ![p] = "dead"]
      /\ job' = [job EXCEPT ![p] = NoJob] /\ coremap' = Mfree(coremap, 1, proc[p].addr)
      /\ UNCHANGED <<swapmap, memory, bufs, rest>>
  BY DEF ExitEnd
<1>2. UNCHANGED <<swapmap, core, swp, start, panic, swbuf, rawbuf>>
  BY <1>1 DEF memory, bufs, rest
<1>3. proc[p].stat = "SRUN" /\ proc[p].load /\ ~panic
  BY <1>1 DEF Run
<1>4. p # 0 /\ job[p].kind = "exit" /\ job[p].a # 0
  BY <1>1, <1>3 DEF Table, PlaceInv, Memory, Jobs, OtherJob
<1> DEFINE W == {q \in ExitWake(p) : at[q] = "wait" /\ proc[q].stat = "SWAIT"}
<1>5. PICK V \in SUBSET Slot : V = W /\ \A q \in V : proc[q].stat = "SWAIT"
  <2>1. ExitWake(p) \subseteq Slot
    BY <1>0 DEF ExitWake
  <2>2. W \in SUBSET Slot /\ \A q \in W : proc[q].stat = "SWAIT"
    BY <2>1
  <2> HIDE DEF W
  <2> QED
    BY <2>2
<1>6. PICK R : R = SetRun(proc, V)
  OBVIOUS
<1>7. PICK a \in Nat : a = job[p].a
  BY <1>0 DEF Job
<1>8. PICK P : P = [R EXCEPT ![p].addr = a, ![p].stat = "SZOMB", ![p].time = 0]
  OBVIOUS
<1>9. proc' = Adopted(P, p)
  BY <1>5, <1>6, <1>7, <1>8 DEF ExitEnd
<1> HIDE DEF W
<1>10. /\ R \in [Slot -> Row]
       /\ \A q \in Slot : SameButStat(R[q], proc[q]) /\ R[q].stat \in {proc[q].stat, "SRUN"}
       /\ \A q \in Slot \ V : q # 0 => R[q] = proc[q]
  <2>1. Types
    BY DEF Table
  <2> QED
    BY <1>0, <1>5, <1>6, <2>1, SetRunIs
<1>11. PICK e \in Row : e = R[p]
  BY <1>10
<1>12. PICK f : f = [e EXCEPT !.addr = a, !.stat = "SZOMB", !.time = 0]
  OBVIOUS
<1>13. f \in Row /\ f.stat = "SZOMB" /\ f.pid = e.pid /\ f.addr = a
  <2>1. 0 \in 0 .. 3 + NPROC
    BY ProcsAssumption
  <2> QED
    BY <1>12, <2>1 DEF Row, Stats
<1>14. P = [R EXCEPT ![p] = f]
  BY <1>8, <1>10, <1>11, <1>12
<1>15. P \in [Slot -> Row] /\ P[p] = f /\ \A q \in Slot : q # p => P[q] = R[q]
  BY <1>10, <1>13, <1>14
<1>16. ASSUME NEW q \in Slot
       PROVE  /\ proc'[q].stat = P[q].stat /\ proc'[q].pid = P[q].pid /\ proc'[q].addr = P[q].addr
              /\ proc'[q].load = P[q].load /\ proc'[q].lock = P[q].lock
  <2>1. PICK r \in Row : r = P[q]
    BY <1>15
  <2>2. PICK s : s = [r EXCEPT !.ppid = 1]
    OBVIOUS
  <2>3. s.stat = r.stat /\ s.pid = r.pid /\ s.addr = r.addr /\ s.load = r.load /\ s.lock = r.lock
    BY <2>2 DEF Row
  <2>4. proc'[q] \in {r, s}
    BY <1>9, <2>1, <2>2 DEF Adopted
  <2> QED
    BY <2>1, <2>3, <2>4
<1>17. proc'[p].stat = "SZOMB" /\ proc'[p].pid = proc[p].pid /\ proc'[p].addr = a
  <2>1. e.pid = proc[p].pid
    BY <1>10, <1>11 DEF SameButStat
  <2> QED
    BY <1>13, <1>15, <1>16, <2>1
<1>18. \A q \in Slot : Woken(R[q], proc[q])
  <2>1. ASSUME NEW q \in Slot PROVE Woken(R[q], proc[q])
    <3>1. CASE q \in V
      BY <1>5, <1>10, <3>1 DEF Woken
    <3>2. CASE q \notin V /\ q # 0
      BY <1>10, <3>2 DEF Woken
    <3>3. CASE q = 0
      BY <1>0, <1>10, <3>3 DEF Woken, Table, Founders
    <3> QED
      BY <3>1, <3>2, <3>3
  <2> QED
    BY <2>1
<1>19. at'[p] = "dead" /\ \A q \in Slot \ {p} : at'[q] = at[q]
  BY <1>0, <1>1
<1>20. job'[p].kind = "none" /\ \A q \in Slot \ {p} : job'[q] = job[q]
  BY <1>0, <1>1 DEF NoJob
<1>21. \A q \in Slot \ {p} : Rests(q)
  <2> SUFFICES ASSUME NEW q \in Slot \ {p} PROVE Rests(q)
    OBVIOUS
  <2>1. P[q] = R[q] /\ SameButStat(R[q], proc[q]) /\ Woken(R[q], proc[q])
    BY <1>10, <1>15, <1>18
  <2>2. /\ proc'[q].pid = proc[q].pid /\ proc'[q].addr = proc[q].addr /\ proc'[q].load = proc[q].load
        /\ proc'[q].lock = proc[q].lock
    BY <1>16, <2>1 DEF SameButStat
  <2>3. Woken(proc'[q], proc[q])
    BY <1>16, <2>1 DEF Woken
  <2> QED
    BY <1>19, <1>20, <2>2, <2>3 DEF Rests
<1>22. job'[0] = job[0] /\ at'[0] = at[0] /\ (job[0].kind # "none" => job[0].who # p)
  <2>1. job[0].kind # "none" => job[0].who # p
    BY <1>3 DEF Memory, Jobs, SchedJob
  <2> QED
    BY <1>0, <1>4, <1>19, <1>20, <2>1
<1>23. \A q \in Slot \ {p} : Stays(q)
  BY <1>21, <1>22, RestsStays
<1>24. ~InCopy(p) /\ Alive(p) /\ ~Going(p) /\ InUse(p) /\ ~Alive(p)'
  <2>1. ~Going(p)
    BY <1>22 DEF Going
  <2> QED
    BY <1>1, <1>3, <1>4, <1>17, <2>1 DEF InCopy, Alive, InUse, Null
<1>25. CoreHas(p) = {proc[p].addr} /\ CoreHas(p)' = {} /\ SwapHas(p) = {a} /\ SwapHas(p)' = {a}
  <2>1. CoreHas(p) = {proc[p].addr} /\ CoreHas(p)' = {}
    BY <1>24 DEF CoreHas
  <2>2. SwapHas(p) = {a}
    BY <1>3, <1>4, <1>7, <1>24 DEF SwapHas
  <2>3. SwapHas(p)' = {a}
    BY <1>17 DEF SwapHas
  <2> QED
    BY <2>1, <2>2, <2>3
<1>26. \A q \in Slot \ {p} : CoreHas(q)' = CoreHas(q) /\ SwapHas(q)' = SwapHas(q)
  BY <1>23, StaysHas
<1>27. SwapF' = SwapF
  BY <1>25, <1>26 DEF SwapF
<1>28. Shared(swapmap, SwapF, start.swap)'
  BY <1>2, <1>27 DEF Memory, Shared
<1>29. Shared(coremap', CoreF', start.core)
  <2>1. Shared(coremap, CoreF, start.core) /\ start.core \in Nat /\ 1 \in Nat \ {0} /\ proc[p].addr \in Nat
    <3>1. proc[p].addr \in Nat
      BY <1>0 DEF Row
    <3>2. Shared(coremap, CoreF, start.core) /\ start.core \in Nat
      BY NobodyElse DEF Memory
    <3> QED
      BY <3>1, <3>2
  <2>2. /\ CoreF[p] = CoreF'[p] \cup (proc[p].addr .. proc[p].addr + 1 - 1)
        /\ CoreF'[p] \cap (proc[p].addr .. proc[p].addr + 1 - 1) = {}
    BY <1>25, <2>1, OneUnit DEF CoreF
  <2>3. \A q \in Slot \ {p} : CoreF'[q] = CoreF[q]
    BY <1>26 DEF CoreF
  <2>4. coremap' = Mfree(coremap, 1, proc[p].addr)
    BY <1>1
  <2> QED
    BY <2>1, <2>2, <2>3, <2>4, MfreeShares
<1>30. Shared(coremap, CoreF, start.core)'
  BY <1>2, <1>29 DEF Shared
<1>31. SchedJob'
  <2>1. job[0].who \in Slot
    BY <1>0 DEF Job
  <2> QED
    BY <1>21, <1>22, <2>1, SchedJobRests DEF Memory, Jobs
<1>32. \A q \in Slot \ {p} : OtherJob(q)' /\ CopyJob(q)'
  <2>1. \A t \in {p} : \A q \in Slot \ {p} : /\ InCopy(q) => proc'[t].pid # job[q].pid
                                             /\ at[q] = "waitio" => job[q].who # t
    BY <1>3, <1>17, Uninvolved
  <2>2. {p} \in SUBSET Slot
    OBVIOUS
  <2> QED
    BY <1>2, <1>21, <2>1, <2>2, JobsStay
<1>33. OtherJob(p)' /\ CopyJob(p)'
  BY <1>19, <1>20 DEF OtherJob, CopyJob, InCopy
<1>34. Jobs'
  BY <1>31, <1>32, <1>33 DEF Jobs
<1>35. Devices' /\ (swbuf.busy => swbuf.by # p)
  <2>1. /\ rawbuf.by \in Slot /\ (rawbuf.busy => at[rawbuf.by] = "rawio")
        /\ swbuf.by \in Slot /\ (swbuf.busy => at[swbuf.by] = "swapio")
    BY DEF Table, Types, Header, Memory, Devices
  <2>2. (rawbuf.busy => rawbuf.by # p) /\ (swbuf.busy => swbuf.by # p)
    BY <1>1, <2>1
  <2> QED
    BY <1>2, <1>19, <2>1, <2>2 DEF Devices
<1>36. Transferred'
  <2>1. swbuf'.busy /\ swbuf'.done => swbuf' = swbuf /\ job'[swbuf.by] = job[swbuf.by]
    BY <1>2, <1>20, <1>35 DEF Table, Types, Header
  <2>2. \A q \in Slot : proc'[q].pid = proc[q].pid
    BY <1>17, <1>21 DEF Rests
  <2>3. Types /\ Transferred
    BY DEF Table, Memory
  <2> QED
    BY <1>2, <2>1, <2>2, <2>3, TransferStays
<1>37. \A q \in Slot : HasImage(q)'
  <2>1. \A q \in Slot \ {p} : HasImage(q)'
    BY <1>2, <1>23, ImageStays DEF Memory
  <2>2. HasImage(p)'
    BY <1>24 DEF HasImage
  <2> QED
    BY <2>1, <2>2
<1>38. \A q \in Slot : Apart(q)'
  <2>1. \A q \in Slot \ {p} : Apart(q)'
    BY <1>23, ApartStays DEF Memory
  <2>2. Apart(p)'
    BY <1>24 DEF Apart
  <2> QED
    BY <2>1, <2>2
<1>39. start' \in Starts /\ core' \in [1 .. start'.core -> Int] /\ swp' \in [1 .. start'.swap -> Int]
  BY <1>2 DEF Memory
<1> QED
  BY <1>28, <1>30, <1>34, <1>35, <1>36, <1>37, <1>38, <1>39 DEF Memory

\* wait gives back the zombie's block.
LEMMA WaitEndMemory ==
    ASSUME Table, Memory, NEW p \in Slot, WaitEnd(p)
    PROVE  Memory'
<1>0. 0 \in Slot /\ at \in [Slot -> Places] /\ job \in [Slot -> Job] /\ proc \in [Slot -> Row]
  BY SlotIs DEF Table, Types
<1>1. PICK w \in Slot : w = job[p].who
  BY <1>0 DEF Job
<1>2. /\ Run(p) /\ at[p] = "waitio" /\ swapmap' = Mfree(swapmap, 1, job[p].a)
      /\ proc' = [proc EXCEPT ![w] = FreeSlot] /\ job' = [job EXCEPT ![p] = NoJob]
      /\ at' = [at EXCEPT ![p] = Back(proc, p), ![w] = "free"]
      /\ UNCHANGED <<coremap, memory, bufs, rest>>
  BY <1>1 DEF WaitEnd
<1>3. UNCHANGED <<coremap, core, swp, start, panic, swbuf, rawbuf>>
  BY <1>2 DEF memory, bufs, rest
<1>4. proc[p].stat = "SRUN" /\ proc[p].load
  BY <1>2 DEF Run
<1>5. /\ proc[w].stat = "SZOMB" /\ proc[w].ppid = proc[p].pid /\ at[w] = "dead"
      /\ proc[w].addr = job[p].a /\ proc[w].addr \in Nat
  BY <1>0, <1>1, <1>2 DEF Table, CollectInv, PlaceInv, Memory, Jobs, OtherJob, Row
<1>6. w # p /\ w # 0 /\ p # 0
  BY <1>2, <1>4, <1>5 DEF Table, Founders, PlaceInv
<1>7. FreeSlot.stat = Null /\ FreeSlot.pid = 0
  BY DEF FreeSlot
<1>8. proc'[w] = FreeSlot /\ \A q \in Slot \ {w} : proc'[q] = proc[q]
  BY <1>0, <1>2
<1>9. PICK x \in {"user", "psig"} : x = Back(proc, p)
  BY BackIs
<1>10. at'[w] = "free" /\ at'[p] \in {"user", "psig"} /\ \A q \in Slot \ {p, w} : at'[q] = at[q]
  BY <1>0, <1>2, <1>6, <1>9
<1>11. job'[p].kind = "none" /\ \A q \in Slot \ {p} : job'[q] = job[q]
  BY <1>0, <1>2 DEF NoJob
<1>12. \A q \in Slot \ {p, w} : Rests(q)
  BY <1>8, <1>10, <1>11, LeftRests
<1>13. job'[0] = job[0] /\ at'[0] = at[0] /\ (job[0].kind # "none" => job[0].who \notin {p, w})
  <2>1. job[0].kind # "none" => job[0].who \notin {p, w}
    BY <1>4, <1>5 DEF Memory, Jobs, SchedJob
  <2> QED
    BY <1>0, <1>6, <1>10, <1>11, <2>1
<1>14. job[p].kind \notin {"exit", "copy"} /\ job[w].kind \notin {"exit", "copy"} /\ ~InCopy(p) /\ ~InCopy(w)
  BY <1>2, <1>5 DEF Memory, Jobs, OtherJob, Table, CopyInv, InCopy
<1>15. \A q \in Slot \ {w} : Stays(q)
  <2>1. \A q \in Slot \ {p, w} : Stays(q)
    BY <1>12, <1>13, RestsStays
  <2>2. Stays(p)
    <3>1. (Coming(p)' <=> Coming(p)) /\ (Going(p)' <=> Going(p)) /\ (Coming(p) \/ Going(p) => job'[0].a = job[0].a)
      BY <1>13 DEF Coming, Going
    <3>2. ~InCopy(p)' /\ proc'[p] = proc[p]
      BY <1>6, <1>8, <1>10 DEF InCopy
    <3> QED
      BY <1>11, <1>14, <3>1, <3>2 DEF Stays
  <2> QED
    BY <2>1, <2>2
<1>16. ~Alive(w) /\ ~Alive(w)' /\ proc'[w].stat # "SZOMB"
  BY <1>5, <1>7, <1>8 DEF Alive, Null
<1>17. CoreHas(w) = {} /\ CoreHas(w)' = {} /\ SwapHas(w) = {proc[w].addr} /\ SwapHas(w)' = {}
  <2>1. CoreHas(w) = {} /\ CoreHas(w)' = {}
    BY <1>16 DEF CoreHas
  <2>2. SwapHas(w) = {proc[w].addr}
    BY <1>5 DEF SwapHas
  <2>3. SwapHas(w)' = {}
    BY <1>16 DEF SwapHas
  <2> QED
    BY <2>1, <2>2, <2>3
<1>18. \A q \in Slot \ {w} : CoreHas(q)' = CoreHas(q) /\ SwapHas(q)' = SwapHas(q)
  BY <1>15, StaysHas
<1>19. CoreF' = CoreF
  BY <1>17, <1>18 DEF CoreF
<1>20. Shared(coremap, CoreF, start.core)'
  BY <1>3, <1>19 DEF Memory, Shared
<1>21. Shared(swapmap', SwapF', start.swap)
  <2>1. Shared(swapmap, SwapF, start.swap) /\ start.swap \in Nat /\ 1 \in Nat \ {0} /\ proc[w].addr \in Nat
    BY <1>5, NobodyElse DEF Memory
  <2>2. /\ SwapF[w] = SwapF'[w] \cup (proc[w].addr .. proc[w].addr + 1 - 1)
        /\ SwapF'[w] \cap (proc[w].addr .. proc[w].addr + 1 - 1) = {}
    BY <1>17, <2>1, OneUnit DEF SwapF
  <2>3. \A q \in Slot \ {w} : SwapF'[q] = SwapF[q]
    BY <1>18 DEF SwapF
  <2>4. swapmap' = Mfree(swapmap, 1, proc[w].addr)
    BY <1>2, <1>5
  <2> QED
    BY <2>1, <2>2, <2>3, <2>4, MfreeShares
<1>22. Shared(swapmap, SwapF, start.swap)'
  BY <1>3, <1>21 DEF Shared
<1>23. SchedJob'
  <2>1. job[0].who \in Slot
    BY <1>0 DEF Job
  <2> QED
    BY <1>12, <1>13, <2>1, SchedJobRests DEF Memory, Jobs
<1>24. \A q \in Slot \ {p, w} : OtherJob(q)' /\ CopyJob(q)'
  <2>1. ASSUME NEW q \in Slot, InCopy(q) PROVE job[q].pid \notin {proc[p].pid, 0}
    <3>1. PICK r \in Slot : proc[r].pid = job[q].pid /\ proc[r].stat = "SIDL"
      BY <2>1 DEF Table, CopyInv
    <3>2. r # 0 /\ proc[r].pid # 0
      BY <3>1 DEF Table, Founders, PlaceInv, Null
    <3>3. job[q].pid # proc[p].pid
      BY <1>4, <2>1, Uninvolved
    <3> QED
      BY <3>1, <3>2, <3>3
  <2>2. ASSUME NEW q \in Slot \ {p}, at[q] = "waitio" PROVE job[q].who \notin {p, w}
    <3>1. PICK r \in Slot : r = job[q].who
      BY <1>0 DEF Job
    <3>2. proc[r].stat = "SZOMB" /\ proc[r].ppid = proc[q].pid
      BY <2>2, <3>1 DEF Table, CollectInv
    <3>3. proc[q].pid # proc[p].pid
      BY <1>4, <1>6 DEF Table, ParentLives, Null
    <3> QED
      BY <1>4, <1>5, <3>1, <3>2, <3>3
  <2>3. \A t \in {p, w} : \A q \in Slot \ {p, w} : /\ InCopy(q) => proc'[t].pid # job[q].pid
                                                   /\ at[q] = "waitio" => job[q].who # t
    BY <1>6, <1>7, <1>8, <2>1, <2>2
  <2>4. {p, w} \in SUBSET Slot
    OBVIOUS
  <2> QED
    BY <1>3, <1>12, <2>3, <2>4, JobsStay
<1>25. OtherJob(p)' /\ CopyJob(p)' /\ OtherJob(w)' /\ CopyJob(w)'
  <2>1. OtherJob(p)' /\ CopyJob(p)'
    BY <1>10, <1>11 DEF OtherJob, CopyJob, InCopy
  <2>2. OtherJob(w) /\ job'[w] = job[w]
    BY <1>6, <1>11 DEF Memory, Jobs
  <2>3. OtherJob(w)' /\ CopyJob(w)'
    BY <1>10, <1>14, <2>2 DEF OtherJob, CopyJob, InCopy
  <2> QED
    BY <2>1, <2>3
<1>26. Jobs'
  BY <1>23, <1>24, <1>25 DEF Jobs
<1>27. Devices' /\ (swbuf.busy => swbuf.by \notin {p, w})
  <2>1. /\ rawbuf.by \in Slot /\ (rawbuf.busy => at[rawbuf.by] = "rawio")
        /\ swbuf.by \in Slot /\ (swbuf.busy => at[swbuf.by] = "swapio")
    BY DEF Table, Types, Header, Memory, Devices
  <2>2. (rawbuf.busy => rawbuf.by \notin {p, w}) /\ (swbuf.busy => swbuf.by \notin {p, w})
    BY <1>2, <1>5, <2>1
  <2> QED
    BY <1>3, <1>10, <2>1, <2>2 DEF Devices
<1>28. Transferred'
  <2> SUFFICES ASSUME swbuf'.busy, swbuf'.done PROVE Transferred'
    BY DEF Transferred
  <2> DEFINE j == job[swbuf.by]
  <2>1. swbuf' = swbuf /\ swbuf.busy /\ swbuf.done /\ swbuf.by \in Slot
    BY <1>3 DEF Table, Types, Header
  <2>2. job'[swbuf'.by] = j
    BY <1>11, <1>27, <2>1
  <2>3. j.who \in Slot /\ Alive(j.who)
    BY <2>1, TransferPlace
  <2>4. proc'[j.who] = proc[j.who]
    BY <1>8, <1>16, <2>3
  <2>5. IF j.kind = "in" THEN core[j.a] = proc[j.who].pid
        ELSE \A u \in SwapUnits(j.a) : swp[u] = proc[j.who].pid
    BY <2>1 DEF Memory, Transferred
  <2> HIDE DEF j
  <2>6. IF j.kind = "in" THEN core'[j.a] = proc'[j.who].pid
        ELSE \A u \in SwapUnits(j.a) : swp'[u] = proc'[j.who].pid
    BY <1>3, <2>4, <2>5
  <2> QED
    BY <2>2, <2>6 DEF Transferred, SwapUnits
<1>29. \A q \in Slot : HasImage(q)'
  <2>1. \A q \in Slot \ {w} : HasImage(q)'
    BY <1>3, <1>15, ImageStays DEF Memory
  <2>2. HasImage(w)'
    BY <1>16 DEF HasImage
  <2> QED
    BY <2>1, <2>2
<1>30. \A q \in Slot : Apart(q)'
  <2>1. \A q \in Slot \ {w} : Apart(q)'
    BY <1>15, ApartStays DEF Memory
  <2>2. Apart(w)'
    BY <1>16 DEF Apart
  <2> QED
    BY <2>1, <2>2
<1>31. start' \in Starts /\ core' \in [1 .. start'.core -> Int] /\ swp' \in [1 .. start'.swap -> Int]
  BY <1>3 DEF Memory
<1> QED
  BY <1>20, <1>22, <1>26, <1>27, <1>28, <1>29, <1>30, <1>31 DEF Memory

-----------------------------------------------------------------------------
(* Every step, and what the invariant says. *)

\* Every step keeps what processes have.
LEMMA NextMemory ==
    ASSUME Table, Memory, [Next]_vars, Table', Untaken'
    PROVE  Memory'
<1>1. CASE Clock
  BY <1>1, ClockMemory
<1>2. ASSUME NEW p \in Slot, Interrupt(p) PROVE Memory'
  <2>1. CASE BioIntr(p)
    BY <2>1, BioIntrMemory
  <2>2. CASE SwapIntr
    BY <2>2, SwapIntrMemory
  <2>3. CASE RawIntr
    BY <2>3, RawIntrMemory
  <2> QED
    BY <1>2, <2>1, <2>2, <2>3 DEF Interrupt
<1>3. ASSUME NEW p \in Slot, Kernel(p) PROVE Memory'
  <2>1. CASE Sched
    BY <2>1, SchedMemory
  <2>2. CASE SwapInEnd \/ SwapOutEnd
    BY <2>2, SwapEndMemory
  <2>3. CASE SwapGet(p)
    BY <2>3, SwapGetMemory
  <2>4. CASE NewprocSwap(p)
    BY <2>4, NewprocSwapMemory
  <2>5. CASE NewprocEnd(p)
    BY <2>5, NewprocEndMemory
  <2>6. CASE ExitEnd(p)
    BY <2>6, ExitEndMemory
  <2>7. CASE WaitIntr(p)
    BY <2>7, WaitIntrMemory
  <2>8. CASE WaitEnd(p)
    BY <2>8, WaitEndMemory
  <2>9. CASE RawGet(p)
    BY <2>9, RawMemory
  <2>10. CASE RawEnd(p)
    BY <2>10, RawEndMemory
  <2>11. CASE PsinfoRead(p)
    BY <2>11, PsinfoMemory
  <2>12. CASE Psig(p)
    BY <2>12, PsigMemory
  <2> QED
    BY <1>3, <2>1, <2>2, <2>3, <2>4, <2>5, <2>6, <2>7, <2>8, <2>9, <2>10, <2>11, <2>12 DEF Kernel, Scheduler
<1>4. ASSUME NEW p \in Slot, User(p) PROVE Memory'
  <2>1. CASE Fork(p)
    BY <2>1, ForkMemory
  <2>2. CASE Exit(p)
    BY <2>2, ExitMemory
  <2>3. CASE Raw(p)
    BY <2>3, RawMemory
  <2>4. CASE \E s \in Slot : Psinfo(p, s)
    BY <2>4, PsinfoMemory
  <2>5. CASE \E T \in Targets(p), g \in {"INT", "KIL"} : Kill(p, T, g)
    BY <2>5, KillMemory
  <2>6. CASE \E h \in {"dfl", "ign", "fun"} : Ssig(p, h)
    BY <2>6, SsigMemory
  <2> QED
    BY <1>4, <2>1, <2>2, <2>3, <2>4, <2>5, <2>6 DEF User
<1>5. ASSUME NEW p \in Slot, Wait(p) PROVE Memory'
  BY <1>5, WaitMemory
<1>6. CASE UNCHANGED vars
  <2>1. UNCHANGED <<proc, at, job, coremap, swapmap, core, swp, swbuf, rawbuf, panic, start>>
    BY <1>6 DEF vars, maps, memory, bufs, rest
  <2>2. /\ \A q \in Slot : InCopy(q)' = InCopy(q)
        /\ \A q \in Slot : Alive(q)' = Alive(q) /\ Coming(q)' = Coming(q) /\ Going(q)' = Going(q) /\ InUse(q)' = InUse(q)
    BY <2>1 DEF InCopy, Alive, Coming, Going, InUse
  <2>3. \A q \in Slot : Stays(q)
    BY <2>1, <2>2 DEF Stays
  <2>4. CoreF' = CoreF /\ SwapF' = SwapF
    BY <2>3, AllStay
  <2>5. Shared(coremap, CoreF, start.core)' /\ Shared(swapmap, SwapF, start.swap)'
    BY <2>1, <2>4 DEF Memory, Shared
  <2>6. Jobs'
    <3>1. SchedJob' = SchedJob
      BY <2>1 DEF SchedJob, InCopy
    <3>2. ASSUME NEW q \in Slot PROVE CopyJob(q)' /\ OtherJob(q)'
      BY <2>1, <2>2 DEF Memory, Jobs, CopyJob, OtherJob
    <3> QED
      BY <3>1, <3>2 DEF Memory, Jobs
  <2>7. Devices' /\ Transferred'
    <3>1. Devices' = Devices
      BY <2>1 DEF Devices
    <3>2. Transferred' = Transferred
      BY <2>1 DEF Transferred, SwapUnits
    <3> QED
      BY <3>1, <3>2 DEF Memory
  <2>8. \A q \in Slot : HasImage(q)' /\ Apart(q)'
    BY <2>1, <2>3, ImageStays, ApartStays DEF Memory
  <2>9. start' \in Starts /\ core' \in [1 .. start'.core -> Int] /\ swp' \in [1 .. start'.swap -> Int]
    BY <2>1 DEF Memory
  <2> QED
    BY <2>5, <2>6, <2>7, <2>8, <2>9 DEF Memory
<1> QED
  BY <1>1, <1>2, <1>3, <1>4, <1>5, <1>6 DEF Next

\* The transfers that move q.
LEMMA MovingIs ==
    ASSUME Table, Memory, NEW q \in Slot
    PROVE  /\ {k \in Moving(q) : k.kind = "in"} = IF Coming(q) THEN {job[0]} ELSE {}
           /\ Swapping(q) <=> Going(q)
           /\ {k \in Moving(q) : k.kind # "in"} =
                (IF Going(q) THEN {job[0]} ELSE {}) \cup (IF InCopy(q) /\ job[q].a # 0 THEN {job[q]} ELSE {})
<1>0. 0 \in Slot
  BY SlotIs
<1>1. \A j : j \in Moving(q) <=>
               \E t \in Slot : j = job[t] /\ j.kind \in {"in", "out", "copy"} /\ j.who = q /\ j.a # 0
  BY DEF Moving
<1>2. \A t \in Slot : job[t].kind \in {"in", "out"} => t = 0 /\ job[t].a # 0
  <2>1. \A t \in Slot \ {0} : job[t].kind \notin {"in", "out"}
    BY DEF Memory, Jobs, OtherJob
  <2>2. job[0].kind # "none" => job[0].a # 0
    BY DEF Memory, Jobs, SchedJob
  <2> QED
    BY <2>1, <2>2
<1>3. \A t \in Slot : job[t].kind = "copy" => InCopy(t) /\ job[t].who = t
  <2>1. \A t \in Slot : job[t].kind = "copy" => InCopy(t)
    BY DEF Table, CopyInv
  <2>2. \A t \in Slot : InCopy(t) => job[t].who = t
    BY DEF Memory, Jobs, CopyJob
  <2> QED
    BY <2>1, <2>2
<1>4. InCopy(q) => job[q].kind = "copy" /\ job[q].who = q
  BY DEF Table, CopyInv, Memory, Jobs, CopyJob
<1>5. \A j : j \in Moving(q) /\ j.kind = "in" <=> Coming(q) /\ j = job[0]
  BY <1>0, <1>1, <1>2 DEF Coming
<1>6. \A j : j \in Moving(q) /\ j.kind = "out" <=> Going(q) /\ j = job[0]
  BY <1>0, <1>1, <1>2 DEF Going
<1>7. \A j : j \in Moving(q) /\ j.kind = "copy" <=> InCopy(q) /\ job[q].a # 0 /\ j = job[q]
  <2>1. ASSUME NEW j, j \in Moving(q), j.kind = "copy" PROVE InCopy(q) /\ job[q].a # 0 /\ j = job[q]
    <3>1. PICK t \in Slot : j = job[t] /\ j.who = q /\ j.a # 0
      BY <1>1, <2>1
    <3>2. t = q /\ InCopy(t)
      BY <1>3, <2>1, <3>1
    <3> QED
      BY <3>1, <3>2
  <2>2. InCopy(q) /\ job[q].a # 0 => job[q] \in Moving(q) /\ job[q].kind = "copy"
    BY <1>1, <1>4
  <2> QED
    BY <2>1, <2>2
<1>8. \A j : j \in Moving(q) => j.kind \in {"in", "out", "copy"}
  BY <1>1
<1>9. Swapping(q) <=> Going(q)
  BY <1>6 DEF Swapping
<1>10. {k \in Moving(q) : k.kind = "in"} = IF Coming(q) THEN {job[0]} ELSE {}
  BY <1>5
<1>11. \A j : j \in Moving(q) /\ j.kind # "in" <=>
                 (Going(q) /\ j = job[0]) \/ (InCopy(q) /\ job[q].a # 0 /\ j = job[q])
  BY <1>6, <1>7, <1>8
<1>12. {k \in Moving(q) : k.kind # "in"} =
         (IF Going(q) THEN {job[0]} ELSE {}) \cup (IF InCopy(q) /\ job[q].a # 0 THEN {job[q]} ELSE {})
  BY <1>11
<1> QED
  BY <1>9, <1>10, <1>12

\* What MapsAgree gives to a process is what it has.
LEMMA HasOf ==
    ASSUME Table, Memory, NEW q \in Slot
    PROVE  CoreOf(q) = CoreHas(q) /\ SwapOf(q) = SwapHas(q) /\ (q # 0 => (Copied(q) <=> InCopy(q)))
<1>1. Copied(q) /\ q # 0 <=> InCopy(q)
  BY DEF Table, CopyInv, Copied, InCopy
<1> DEFINE M == {k \in Moving(q) : k.kind = "in"}
           N == {k \in Moving(q) : k.kind # "in"}
<1>2. /\ M = IF Coming(q) THEN {job[0]} ELSE {}
      /\ Swapping(q) <=> Going(q)
      /\ N = (IF Going(q) THEN {job[0]} ELSE {}) \cup (IF InCopy(q) /\ job[q].a # 0 THEN {job[q]} ELSE {})
  BY MovingIs
<1>3. Coming(q) \/ Going(q) => /\ Alive(q) /\ ~InCopy(q) /\ ~proc[q].load /\ q # 0 /\ proc[q].stat # "SZOMB"
  BY DEF Coming, Going, Memory, Jobs, SchedJob, Alive, Null
<1>4. ~(Coming(q) /\ Going(q))
  BY DEF Coming, Going
<1>5. InCopy(q) => Alive(q) /\ proc[q].load /\ proc[q].stat # "SZOMB" /\ job[q].kind = "copy"
  BY DEF Memory, Jobs, CopyJob, Table, CopyInv, InCopy, Alive, Null
<1>6. q = 0 => proc[q].load /\ proc[q].stat # "SZOMB" /\ job[q].kind # "exit"
  BY DEF Table, Founders, Memory, Jobs, SchedJob
<1>7. job[q].kind = "exit" => at[q] = "exitio" /\ proc[q].stat \notin {Null, "SZOMB"}
  BY DEF Memory, Jobs, OtherJob, Table, PlaceInv
<1>8. CoreOf(q) = (IF Alive(q) /\ ~InCopy(q) /\ InUse(q) THEN {proc[q].addr} ELSE {}) \cup {j.a : j \in M}
  BY <1>1, <1>2 DEF CoreOf, Alive, InUse
<1>9. {j.a : j \in M} = IF Coming(q) THEN {job[0].a} ELSE {}
  BY <1>2
<1>10. UNION {SwapUnits(j.a) : j \in N} =
         (IF Going(q) THEN SwapUnits(job[0].a) ELSE {}) \cup (IF InCopy(q) /\ job[q].a # 0 THEN SwapUnits(job[q].a) ELSE {})
  BY <1>2
<1>11. SwapOf(q) =
         (IF proc[q].stat \notin {Null, "SZOMB"} /\ ~InUse(q) THEN SwapUnits(proc[q].addr)
          ELSE IF proc[q].stat = "SZOMB" THEN {proc[q].addr} ELSE {})
         \cup (UNION {SwapUnits(j.a) : j \in N})
         \cup (IF job[q].kind = "exit" /\ job[q].a # 0 THEN {job[q].a} ELSE {})
  BY <1>2 DEF SwapOf, InUse
<1> HIDE DEF M, N
<1>12. CoreOf(q) = CoreHas(q)
  BY <1>3, <1>4, <1>8, <1>9 DEF CoreHas, InUse
<1>13. SwapOf(q) = SwapHas(q)
  <2>1. CASE proc[q].stat = "SZOMB"
    BY <1>3, <1>5, <1>7, <1>10, <1>11, <2>1 DEF SwapHas
  <2>2. CASE proc[q].stat # "SZOMB" /\ ~Alive(q)
    BY <1>3, <1>5, <1>6, <1>7, <1>10, <1>11, <2>2 DEF SwapHas, Alive, InUse
  <2>3. CASE InCopy(q)
    BY <1>3, <1>5, <1>10, <1>11, <2>3 DEF SwapHas, InUse
  <2>4. CASE Alive(q) /\ ~InCopy(q) /\ proc[q].stat # "SZOMB"
    <3>1. SwapOf(q) = (IF ~InUse(q) THEN SwapUnits(proc[q].addr) ELSE {})
                      \cup (IF Going(q) THEN SwapUnits(job[0].a) ELSE {})
                      \cup (IF job[q].kind = "exit" /\ job[q].a # 0 THEN {job[q].a} ELSE {})
      <4>1. UNION {SwapUnits(j.a) : j \in N} = IF Going(q) THEN SwapUnits(job[0].a) ELSE {}
        BY <1>10, <2>4
      <4>2. (IF proc[q].stat \notin {Null, "SZOMB"} /\ ~InUse(q) THEN SwapUnits(proc[q].addr)
             ELSE IF proc[q].stat = "SZOMB" THEN {proc[q].addr} ELSE {})
              = IF ~InUse(q) THEN SwapUnits(proc[q].addr) ELSE {}
        BY <2>4 DEF Alive
      <4> QED
        BY <1>11, <4>1, <4>2
    <3>2. SwapHas(q) = (IF InUse(q) THEN {} ELSE SwapUnits(proc[q].addr))
                       \cup (IF Going(q) THEN SwapUnits(job[0].a) ELSE {})
                       \cup (IF job[q].kind = "exit" /\ job[q].a # 0 THEN {job[q].a} ELSE {})
      BY <2>4 DEF SwapHas
    <3> QED
      BY <3>1, <3>2
  <2> QED
    BY <2>1, <2>2, <2>3, <2>4
<1> QED
  BY <1>1, <1>12, <1>13

\* The invariant gives MemoryKept.
LEMMA MemorySafe ==
    ASSUME Table, Memory
    PROVE  MemoryKept
<1>1. Shared(coremap, CoreF, start.core) /\ Shared(swapmap, SwapF, start.swap)
  BY DEF Memory
<1>2. Partition(coremap, CoreOf, start.core)
  <2>1. \A q \in Slot : CoreF[q] = CoreOf(q)
    BY HasOf, HasIs
  <2> QED
    BY <1>1, <2>1 DEF Partition, Shared
<1>3. Partition(swapmap, SwapOf, start.swap)
  <2>1. \A q \in Slot : SwapF[q] = SwapOf(q)
    BY HasOf, HasIs
  <2> QED
    BY <1>1, <2>1 DEF Partition, Shared
<1>4. ImageIntact
  <2> SUFFICES ASSUME NEW q \in Slot \ {0}, proc[q].stat \notin {Null, "SZOMB"}, ~Copied(q)
               PROVE  IF proc[q].load \/ Swapping(q) THEN core[proc[q].addr] = proc[q].pid
                      ELSE \A u \in SwapUnits(proc[q].addr) : swp[u] = proc[q].pid
    BY DEF ImageIntact
  <2>1. Alive(q) /\ ~InCopy(q) /\ HasImage(q)
    BY HasOf DEF Alive, Memory
  <2>2. InUse(q) <=> proc[q].load \/ Swapping(q)
    BY MovingIs DEF InUse
  <2> QED
    BY <2>1, <2>2 DEF HasImage
<1> QED
  BY <1>2, <1>3, <1>4 DEF MemoryKept, MapsAgree

-----------------------------------------------------------------------------
(* The start: images side by side. *)

\* The rank of an element: from 0 on, and every number up to the size once.
LEMMA RankIs ==
    ASSUME NEW S \in SUBSET Nat, IsFiniteSet(S), NEW f, f = [q \in S |-> Cardinality({r \in S : r < q})]
    PROVE  /\ Cardinality(S) \in Nat /\ f \in [S -> 0 .. Cardinality(S) - 1]
           /\ \A q \in S : \A r \in S : q < r => f[q] < f[r]
           /\ \A k \in 0 .. Cardinality(S) - 1 : \E q \in S : f[q] = k
<1> DEFINE B(q) == {r \in S : r < q}
<1>1. PICK n \in Nat : n = Cardinality(S)
  BY FS_CardinalityType
<1>2. ASSUME NEW q \in S PROVE IsFiniteSet(B(q)) /\ Cardinality(B(q)) \in Nat
  <2>1. B(q) \in SUBSET S
    OBVIOUS
  <2> QED
    BY <2>1, FS_Subset, FS_CardinalityType
<1>3. ASSUME NEW q \in S PROVE q \notin B(q) /\ f[q] = Cardinality(B(q))
  OBVIOUS
<1>4. ASSUME NEW q \in S, NEW T \in SUBSET S, B(q) \cup {q} \subseteq T PROVE f[q] < Cardinality(T)
  <2> HIDE DEF B
  <2>1. IsFiniteSet(T) /\ Cardinality(T) \in Nat
    BY FS_Subset, FS_CardinalityType
  <2>2. Cardinality(B(q) \cup {q}) = Cardinality(B(q)) + 1
    BY <1>2, <1>3, FS_AddElement
  <2>3. Cardinality(B(q) \cup {q}) <= Cardinality(T)
    BY <1>4, <2>1, FS_Subset
  <2> QED
    BY <1>2, <1>3, <2>1, <2>2, <2>3
<1>5. ASSUME NEW q \in S PROVE f[q] \in 0 .. n - 1
  <2>1. B(q) \cup {q} \subseteq S
    OBVIOUS
  <2>2. f[q] < n
    BY <1>1, <1>4, <2>1
  <2> HIDE DEF B
  <2>3. f[q] \in Nat
    BY <1>2, <1>3
  <2> QED
    BY <2>2, <2>3
<1>6. ASSUME NEW q \in S, NEW r \in S, q < r PROVE f[q] < f[r]
  <2>1. ASSUME NEW x \in B(q) \cup {q} PROVE x \in B(r)
    <3>1. x \in S /\ (x < q \/ x = q) /\ x \in Nat /\ q \in Nat /\ r \in Nat
      OBVIOUS
    <3>2. x < r
      BY <1>6, <3>1
    <3> QED
      BY <3>1, <3>2
  <2>2. B(r) \in SUBSET S
    OBVIOUS
  <2> HIDE DEF B
  <2>3. B(q) \cup {q} \subseteq B(r)
    BY <2>1
  <2> QED
    BY <1>3, <1>4, <2>2, <2>3
<1> HIDE DEF B
<1>7. f \in [S -> 0 .. n - 1]
  BY <1>5
<1>8. f \in Injection(S, 0 .. n - 1)
  <2>1. ASSUME NEW q \in S, NEW r \in S, f[q] = f[r] PROVE q = r
    <3>1. q \in Nat /\ r \in Nat /\ f[q] \in Int /\ f[r] \in Int
      BY <1>5
    <3>2. ~(q < r) /\ ~(r < q)
      BY <1>6, <2>1, <3>1
    <3> QED
      BY <3>1, <3>2
  <2> QED
    BY <1>7, <2>1 DEF Injection, IsInjective
<1>9. IsFiniteSet(0 .. n - 1) /\ Cardinality(0 .. n - 1) = n
  <2>1. IsFiniteSet(0 .. n - 1) /\ Cardinality(0 .. n - 1) = IF 0 > n - 1 THEN 0 ELSE (n - 1) - 0 + 1
    BY FS_Interval
  <2> QED
    BY <2>1
<1>10. f \in Surjection(S, 0 .. n - 1)
  BY <1>1, <1>8, <1>9, FS_Injection
<1>11. \A k \in 0 .. n - 1 : \E q \in S : f[q] = k
  BY <1>10 DEF Surjection
<1> QED
  BY <1>1, <1>6, <1>7, <1>11

\* Runs of w units, side by side.
LEMMA RunsOf ==
    ASSUME NEW w \in Nat \ {0}, NEW n \in Nat
    PROVE  /\ w * n \in Nat
           /\ \A k \in 0 .. n - 1 : /\ 1 + w * k \in Nat
                                    /\ (1 + w * k) .. (1 + w * k) + w - 1 \subseteq 1 .. w * n
           /\ \A u \in 1 .. w * n : \E k \in 0 .. n - 1 : u \in (1 + w * k) .. (1 + w * k) + w - 1
           /\ \A j \in 0 .. n - 1 : \A k \in 0 .. n - 1 :
                j < k => ((1 + w * j) .. (1 + w * j) + w - 1) \cap ((1 + w * k) .. (1 + w * k) + w - 1) = {}
<1>1. ASSUME NEW a \in Nat, NEW b \in Nat PROVE w * a \in Nat /\ (a < b => w * a + w <= w * b)
  <2>1. w * a \in Nat /\ w * (a + 1) = w * a + w
    OBVIOUS
  <2>2. ASSUME a < b PROVE w * (a + 1) <= w * b
    <3>1. PICK d \in Nat : b = (a + 1) + d
      <4>1. b - (a + 1) \in Nat /\ b = (a + 1) + (b - (a + 1))
        BY <2>2
      <4> QED
        BY <4>1
    <3>2. w * b = w * (a + 1) + w * d /\ w * d \in Nat
      BY <3>1
    <3> QED
      BY <3>2
  <2> QED
    BY <2>1, <2>2
<1>2. ASSUME NEW u \in 1 .. w * n PROVE \E k \in 0 .. n - 1 : u \in (1 + w * k) .. (1 + w * k) + w - 1
  <2>1. PICK k \in Nat : w * k <= u - 1 /\ u - 1 < w * k + w
    <3>1. (u - 1) \div w \in Nat /\ w * ((u - 1) \div w) <= u - 1 /\ u - 1 < w * ((u - 1) \div w) + w
      <4>1. u - 1 \in Nat
        OBVIOUS
      <4> QED
        BY <4>1, SMT
    <3> QED
      BY <3>1
  <2>2. w * k \in Nat /\ w * n \in Nat
    BY <1>1
  <2>3. k < n
    <3> SUFFICES ASSUME ~(k < n) PROVE FALSE
      OBVIOUS
    <3>1. n <= k /\ (n = k \/ n < k)
      OBVIOUS
    <3>2. w * n <= w * k
      BY <1>1, <2>2, <3>1
    <3> QED
      BY <2>1, <2>2, <3>2
  <2>4. k \in 0 .. n - 1
    BY <2>3
  <2>5. u \in (1 + w * k) .. (1 + w * k) + w - 1
    BY <2>1, <2>2
  <2> QED
    BY <2>4, <2>5
<1>3. ASSUME NEW k \in 0 .. n - 1
      PROVE  1 + w * k \in Nat /\ (1 + w * k) .. (1 + w * k) + w - 1 \subseteq 1 .. w * n
  <2>1. w * k \in Nat /\ w * n \in Nat /\ w * k + w <= w * n
    BY <1>1
  <2> QED
    BY <2>1
<1>4. ASSUME NEW j \in 0 .. n - 1, NEW k \in 0 .. n - 1, j < k
      PROVE  ((1 + w * j) .. (1 + w * j) + w - 1) \cap ((1 + w * k) .. (1 + w * k) + w - 1) = {}
  <2>1. w * k \in Nat /\ w * j \in Nat /\ w * j + w <= w * k
    BY <1>1, <1>4
  <2> QED
    BY <2>1
<1>5. w * n \in Nat
  BY <1>1
<1> QED
  BY <1>2, <1>3, <1>4, <1>5

\* The map of the units from a on.
LEMMA FreeFromIs ==
    ASSUME NEW a \in Nat \ {0}, NEW n \in Nat
    PROVE  /\ FreeFrom(a, n) \in Seq(Entries) /\ WellFormed(FreeFrom(a, n)) /\ Units(FreeFrom(a, n)) = a .. n
<1>1. CASE a > n
  <2>1. FreeFrom(a, n) = <<>>
    BY <1>1 DEF FreeFrom
  <2>2. WellFormed(<<>>) /\ Units(<<>>) = {}
    BY DEF WellFormed, Units
  <2> QED
    BY <1>1, <2>1, <2>2
<1>2. CASE ~(a > n)
  <2>1. PICK k \in Nat : k = n - a + 1
    BY <1>2
  <2>2. PICK e : e = Entry(a, k)
    OBVIOUS
  <2>3. e \in Entries /\ e.addr = a /\ e.size = k
    BY <2>2 DEF Entry, Entries
  <2>4. PICK m : m = <<e>>
    OBVIOUS
  <2>5. FreeFrom(a, n) = m
    BY <1>2, <2>1, <2>2, <2>4 DEF FreeFrom
  <2>6. m \in Seq(Entries) /\ DOMAIN m = {1} /\ Len(m) = 1 /\ m[1] = e
    BY <2>3, <2>4
  <2>7. Units(m) = e.addr .. e.addr + e.size - 1
    BY <2>6 DEF Units
  <2>8. WellFormed(m)
    BY <1>2, <2>1, <2>3, <2>6 DEF WellFormed
  <2>9. Units(m) = a .. n
    BY <2>1, <2>3, <2>7
  <2> QED
    BY <2>5, <2>6, <2>8, <2>9
<1> QED
  BY <1>1, <1>2

\* Where everything starts: every image has its place, and the rest is free.
LEMMA InitMemory ==
    ASSUME Init
    PROVE  Memory
<1>0. 0 \in Slot /\ Slot \subseteq Nat /\ IsFiniteSet(Slot) /\ ImageSwap \in Nat \ {0}
  BY SlotIs, ProcsAssumption
<1>1. PICK s \in Starts : s = start
  BY DEF Init
<1>2. PICK n \in Nat, m \in Nat : n = s.core /\ m = s.swap
  BY ProcsAssumption
<1>3. PICK C \in SUBSET Slot, O \in SUBSET Slot : C = InCore(s) /\ O = s.out
  BY ProcsAssumption DEF InCore
<1>4. /\ C \cap O = {} /\ 0 \notin C /\ 0 \notin O /\ s.live = C \cup O \cup {0}
      /\ Cardinality(C) <= n /\ ImageSwap * Cardinality(O) <= m
  BY <1>2, <1>3, ProcsAssumption DEF InCore
<1>5. C \in SUBSET Nat /\ O \in SUBSET Nat /\ IsFiniteSet(C) /\ IsFiniteSet(O)
  BY <1>0, FS_Subset
<1>6. PICK f : f = [q \in C |-> Cardinality({r \in C : r < q})]
  OBVIOUS
<1>7. PICK g : g = [q \in O |-> Cardinality({r \in O : r < q})]
  OBVIOUS
<1>8. PICK c \in Nat, o \in Nat : c = Cardinality(C) /\ o = Cardinality(O)
  BY <1>5, FS_CardinalityType
<1>9. /\ f \in [C -> 0 .. c - 1] /\ \A q \in C : \A r \in C : q < r => f[q] < f[r]
      /\ \A k \in 0 .. c - 1 : \E q \in C : f[q] = k
  BY <1>5, <1>6, <1>8, RankIs
<1>10. /\ g \in [O -> 0 .. o - 1] /\ \A q \in O : \A r \in O : q < r => g[q] < g[r]
       /\ \A k \in 0 .. o - 1 : \E q \in O : g[q] = k
  BY <1>5, <1>7, <1>8, RankIs
<1>11. ASSUME NEW q \in C PROVE Cardinality({r \in C : r <= q}) = f[q] + 1
  <2>1. {r \in C : r <= q} = {r \in C : r < q} \cup {q} /\ q \notin {r \in C : r < q}
    <3>1. \A r \in C : (r <= q <=> r < q \/ r = q) /\ ~(q < q)
      <4>1. \A r \in C : r \in Nat /\ q \in Nat
        BY <1>5
      <4> QED
        BY <4>1
    <3> QED
      BY <3>1
  <2>2. {r \in C : r < q} \in SUBSET C
    OBVIOUS
  <2>3. IsFiniteSet({r \in C : r < q})
    BY <1>5, <2>2, FS_Subset
  <2> QED
    BY <1>6, <2>1, <2>3, FS_AddElement
<1>12. ASSUME NEW q \in Slot
       PROVE  /\ q \in C => proc[q].stat = "SRUN" /\ proc[q].pid = q /\ proc[q].load /\ proc[q].addr = f[q] + 1
              /\ q \in O => proc[q].stat = "SRUN" /\ proc[q].pid = q /\ ~proc[q].load /\ proc[q].addr = 1 + ImageSwap * g[q]
              /\ q = 0 => proc[q].stat = "SRUN"
              /\ q \notin s.live => proc[q].stat = Null
  <2>1. proc[q] = Entry0(s, q)
    BY <1>1 DEF Init
  <2>2. CASE q \notin s.live
    BY <1>4, <2>1, <2>2 DEF Entry0, FreeSlot
  <2>3. CASE q \in s.live
    <3>1. PICK a : a = IF q = 0 THEN 0
                       ELSE IF q \in s.out THEN 1 + ImageSwap * Cardinality({r \in s.out : r < q})
                       ELSE Cardinality({r \in InCore(s) : r <= q})
      OBVIOUS
    <3>2. PICK pp : pp = IF q > 1 THEN 1 ELSE 0
      OBVIOUS
    <3>3. proc[q] = [FreeSlot EXCEPT !.stat = "SRUN", !.pid = q, !.ppid = pp, !.load = q \notin s.out, !.addr = a]
      BY <2>1, <2>3, <3>1, <3>2 DEF Entry0
    <3>4. proc[q].stat = "SRUN" /\ proc[q].pid = q /\ (proc[q].load <=> q \notin s.out) /\ proc[q].addr = a
      BY <3>3 DEF FreeSlot
    <3>5. q \in C => a = f[q] + 1
      BY <1>3, <1>4, <1>11, <3>1
    <3>6. q \in O => a = 1 + ImageSwap * g[q]
      BY <1>3, <1>4, <1>7, <3>1
    <3> QED
      BY <1>3, <1>4, <2>3, <3>4, <3>5, <3>6
  <2> QED
    BY <2>2, <2>3
<1>13. /\ \A q \in Slot : job[q] = NoJob /\ job[q].kind = "none"
       /\ at[0] = "loop" /\ \A q \in Slot \ {0} : at[q] \in {"user", "free"}
       /\ ~swbuf.busy /\ ~rawbuf.busy
  BY <1>0 DEF Init, NoJob, Idle
<1>14. \A q \in Slot : ~InCopy(q) /\ ~Coming(q) /\ ~Going(q)
  BY <1>0, <1>13 DEF InCopy, Coming, Going
<1>15. \A q \in Slot : (Alive(q) <=> q \in C \cup O) /\ proc[q].stat # "SZOMB"
  BY <1>4, <1>12 DEF Alive, Null
<1>16. ASSUME NEW q \in Slot
       PROVE  CoreHas(q) = (IF q \in C THEN {f[q] + 1} ELSE {})
              /\ SwapHas(q) = (IF q \in O THEN (1 + ImageSwap * g[q]) .. (1 + ImageSwap * g[q]) + ImageSwap - 1 ELSE {})
  <2>1. InUse(q) <=> proc[q].load
    BY <1>14 DEF InUse
  <2>2. CoreHas(q) = IF q \in C THEN {f[q] + 1} ELSE {}
    BY <1>4, <1>12, <1>14, <1>15, <2>1 DEF CoreHas
  <2>3. SwapHas(q) = IF q \in O THEN SwapUnits(1 + ImageSwap * g[q]) ELSE {}
    <3>1. ~Going(q) /\ ~InCopy(q) /\ job[q].kind # "exit" /\ proc[q].stat # "SZOMB" /\ (Alive(q) <=> q \in C \cup O)
      BY <1>13, <1>14, <1>15
    <3>2. SwapHas(q) = IF Alive(q) /\ ~InUse(q) THEN SwapUnits(proc[q].addr) ELSE {}
      BY <3>1 DEF SwapHas
    <3>3. q \in O => Alive(q) /\ ~InUse(q) /\ proc[q].addr = 1 + ImageSwap * g[q]
      BY <1>12, <2>1, <3>1
    <3>4. q \notin O => ~(Alive(q) /\ ~InUse(q))
      BY <1>12, <2>1, <3>1
    <3> QED
      BY <3>2, <3>3, <3>4
  <2> QED
    BY <2>2, <2>3 DEF SwapUnits
<1>17. \A q \in C : f[q] \in 0 .. c - 1 /\ \A r \in C : r # q => f[q] # f[r]
  <2>1. ASSUME NEW q \in C, NEW r \in C, r # q PROVE f[q] # f[r]
    <3>1. q < r \/ r < q
      BY <1>5, <2>1
    <3>2. f[q] \in Int /\ f[r] \in Int
      BY <1>9
    <3> QED
      BY <1>9, <3>1, <3>2
  <2> QED
    BY <1>9, <2>1
<1>18. Shared(coremap, CoreF, start.core)
  <2>1. coremap = FreeFrom(c + 1, n)
    BY <1>1, <1>2, <1>3, <1>8 DEF Init
  <2>2. coremap \in Seq(Entries) /\ WellFormed(coremap) /\ Units(coremap) = c + 1 .. n
    <3>1. c + 1 \in Nat \ {0}
      OBVIOUS
    <3> QED
      BY <2>1, <3>1, FreeFromIs
  <2>3. \A q \in Slot : CoreF[q] = IF q \in C THEN {f[q] + 1} ELSE {}
    BY <1>16 DEF CoreF
  <2>4. \A u : u \in Shares(CoreF) <=> \E q \in C : u = f[q] + 1
    <3>1. \A u : u \in Shares(CoreF) <=> \E q \in Slot : u \in CoreF[q]
      BY SharesAre
    <3>2. \A u : \A q \in Slot : u \in CoreF[q] <=> q \in C /\ u = f[q] + 1
      BY <2>3
    <3> QED
      BY <3>1, <3>2
  <2>5. Shares(CoreF) = 1 .. c
    <3>1. ASSUME NEW u \in 1 .. c PROVE u \in Shares(CoreF)
      <4>1. u - 1 \in 0 .. c - 1 /\ u = (u - 1) + 1
        OBVIOUS
      <4> QED
        BY <1>9, <2>4, <4>1
    <3>2. ASSUME NEW u \in Shares(CoreF) PROVE u \in 1 .. c
      BY <1>17, <2>4
    <3> QED
      BY <3>1, <3>2
  <2>6. Units(coremap) \cup Shares(CoreF) = 1 .. n
    BY <1>4, <1>8, <2>2, <2>5
  <2>7. \A q \in Slot : CoreF[q] \cap Units(coremap) = {}
    <3>1. \A q \in C : f[q] + 1 \notin c + 1 .. n
      BY <1>17
    <3> SUFFICES ASSUME NEW q \in Slot, NEW u \in CoreF[q] PROVE u \notin Units(coremap)
      OBVIOUS
    <3>2. q \in C /\ u = f[q] + 1
      BY <2>3
    <3> QED
      BY <2>2, <3>1, <3>2
  <2>8. \A q \in Slot : \A r \in Slot \ {q} : CoreF[q] \cap CoreF[r] = {}
    <3>1. ASSUME NEW q \in C, NEW r \in C, r # q PROVE f[q] + 1 # f[r] + 1
      <4>1. f[q] \in Int /\ f[r] \in Int /\ f[q] # f[r]
        BY <1>17, <3>1
      <4> QED
        BY <4>1
    <3> SUFFICES ASSUME NEW q \in Slot, NEW r \in Slot \ {q}, NEW u \in CoreF[q] PROVE u \notin CoreF[r]
      OBVIOUS
    <3>2. q \in C /\ u = f[q] + 1
      BY <2>3
    <3>3. r \in C => CoreF[r] = {f[r] + 1}
      BY <2>3
    <3>4. r \notin C => CoreF[r] = {}
      BY <2>3
    <3> QED
      BY <3>1, <3>2, <3>3, <3>4
  <2> QED
    BY <1>1, <1>2, <2>2, <2>6, <2>7, <2>8, SharedIs
<1>19. \A q \in O : g[q] \in 0 .. o - 1 /\ \A r \in O : r # q => g[q] < g[r] \/ g[r] < g[q]
  <2>1. ASSUME NEW q \in O, NEW r \in O, r # q PROVE g[q] < g[r] \/ g[r] < g[q]
    <3>1. q < r \/ r < q
      BY <1>5, <2>1
    <3> QED
      BY <1>10, <3>1
  <2> QED
    BY <1>10, <2>1
<1> DEFINE Run0(k) == (1 + ImageSwap * k) .. (1 + ImageSwap * k) + ImageSwap - 1
<1>20. /\ ImageSwap * o \in Nat
       /\ \A k \in 0 .. o - 1 : 1 + ImageSwap * k \in Nat /\ Run0(k) \subseteq 1 .. ImageSwap * o
       /\ \A u \in 1 .. ImageSwap * o : \E k \in 0 .. o - 1 : u \in Run0(k)
       /\ \A j \in 0 .. o - 1 : \A k \in 0 .. o - 1 : j < k => Run0(j) \cap Run0(k) = {}
  BY <1>0, RunsOf
<1>21. \A q \in Slot : SwapF[q] = IF q \in O THEN Run0(g[q]) ELSE {}
  BY <1>16 DEF SwapF
<1>22. \A q \in O : SwapUnits(proc[q].addr) = Run0(g[q])
  BY <1>12 DEF SwapUnits
<1> HIDE DEF Run0
<1>23. \A q \in O : \A r \in O : r # q => Run0(g[q]) \cap Run0(g[r]) = {}
  <2>1. ASSUME NEW q \in O, NEW r \in O, r # q PROVE Run0(g[q]) \cap Run0(g[r]) = {}
    <3>1. g[q] \in 0 .. o - 1 /\ g[r] \in 0 .. o - 1 /\ (g[q] < g[r] \/ g[r] < g[q])
      BY <1>19, <2>1
    <3> QED
      BY <1>20, <3>1
  <2> QED
    BY <2>1
<1>24. Shared(swapmap, SwapF, start.swap)
  <2>1. PICK e \in Nat : e = ImageSwap * o
    BY <1>20
  <2>2. swapmap = FreeFrom(e + 1, m)
    BY <1>1, <1>2, <1>3, <1>8, <2>1 DEF Init
  <2>3. swapmap \in Seq(Entries) /\ WellFormed(swapmap) /\ Units(swapmap) = e + 1 .. m
    <3>1. e + 1 \in Nat \ {0}
      OBVIOUS
    <3> QED
      BY <2>2, <3>1, FreeFromIs
  <2>4. \A u : u \in Shares(SwapF) <=> \E q \in O : u \in Run0(g[q])
    BY <1>21, SharesAre
  <2>5. Shares(SwapF) = 1 .. e
    <3>1. ASSUME NEW u \in 1 .. e PROVE u \in Shares(SwapF)
      <4>1. PICK k \in 0 .. o - 1 : u \in Run0(k)
        BY <1>20, <2>1
      <4> QED
        BY <1>10, <2>4, <4>1
    <3>2. ASSUME NEW u \in Shares(SwapF) PROVE u \in 1 .. e
      BY <1>19, <1>20, <2>1, <2>4
    <3> QED
      BY <3>1, <3>2
  <2>6. Units(swapmap) \cup Shares(SwapF) = 1 .. m
    <3>1. e <= m
      BY <1>4, <1>8, <2>1
    <3> QED
      BY <2>3, <2>5, <3>1
  <2>7. \A q \in Slot : SwapF[q] \cap Units(swapmap) = {}
    <3>1. \A q \in Slot : SwapF[q] \subseteq Shares(SwapF)
      BY SharesAre
    <3>2. (1 .. e) \cap (e + 1 .. m) = {}
      OBVIOUS
    <3> QED
      BY <2>3, <2>5, <3>1, <3>2
  <2>8. \A q \in Slot : \A r \in Slot \ {q} : SwapF[q] \cap SwapF[r] = {}
    BY <1>21, <1>23
  <2> QED
    BY <1>1, <1>2, <2>3, <2>6, <2>7, <2>8, SharedIs
<1>25. core = [a \in 1 .. n |-> IF \E q \in C : proc[q].addr = a THEN CHOOSE q \in C : proc[q].addr = a ELSE 0]
  BY <1>1, <1>2, <1>3 DEF Init
<1>26. swp = [u \in 1 .. m |-> IF \E q \in O : u \in SwapUnits(proc[q].addr)
                               THEN CHOOSE q \in O : u \in SwapUnits(proc[q].addr) ELSE 0]
  BY <1>1, <1>2, <1>3 DEF Init
<1>27. core \in [1 .. start.core -> Int] /\ swp \in [1 .. start.swap -> Int]
  <2>1. ASSUME NEW a \in 1 .. n PROVE core[a] \in Int
    <3>1. CASE \E q \in C : proc[q].addr = a
      <4>1. PICK r \in C : r = CHOOSE q \in C : proc[q].addr = a
        BY <3>1
      <4>2. core[a] = r
        BY <1>25, <3>1, <4>1
      <4> QED
        BY <1>5, <4>2
    <3>2. CASE ~\E q \in C : proc[q].addr = a
      BY <1>25, <3>2
    <3> QED
      BY <3>1, <3>2
  <2>2. ASSUME NEW u \in 1 .. m PROVE swp[u] \in Int
    <3>1. CASE \E q \in O : u \in SwapUnits(proc[q].addr)
      <4>1. PICK r \in O : r = CHOOSE q \in O : u \in SwapUnits(proc[q].addr)
        BY <3>1
      <4>2. swp[u] = r
        BY <1>26, <3>1, <4>1
      <4> QED
        BY <1>5, <4>2
    <3>2. CASE ~\E q \in O : u \in SwapUnits(proc[q].addr)
      BY <1>26, <3>2
    <3> QED
      BY <3>1, <3>2
  <2>3. core \in [1 .. n -> Int]
    BY <1>25, <2>1
  <2>4. swp \in [1 .. m -> Int]
    BY <1>26, <2>2
  <2> QED
    BY <1>1, <1>2, <2>3, <2>4
<1>28. ASSUME NEW q \in C PROVE core[proc[q].addr] = proc[q].pid
  <2>1. PICK a \in 1 .. n : a = proc[q].addr
    <3>1. f[q] + 1 \in 1 .. n
      BY <1>4, <1>8, <1>17
    <3> QED
      BY <1>12, <3>1
  <2>2. \A r \in C : proc[r].addr = a => r = q
    BY <1>12, <1>17, <2>1
  <2>3. core[a] = CHOOSE r \in C : proc[r].addr = a
    BY <1>25, <2>1
  <2>4. core[a] = q
    BY <2>1, <2>2, <2>3
  <2> QED
    BY <1>12, <2>1, <2>4
<1>29. ASSUME NEW q \in O, NEW u \in SwapUnits(proc[q].addr) PROVE swp[u] = proc[q].pid
  <2>1. u \in Run0(g[q]) /\ u \in 1 .. m
    <3>1. u \in Run0(g[q]) /\ Run0(g[q]) \subseteq 1 .. ImageSwap * o
      BY <1>19, <1>20, <1>22
    <3> QED
      BY <1>4, <1>8, <1>20, <3>1
  <2>2. \A r \in O : u \in SwapUnits(proc[r].addr) => r = q
    BY <1>22, <1>23, <2>1
  <2>3. swp[u] = CHOOSE r \in O : u \in SwapUnits(proc[r].addr)
    BY <1>26, <2>1
  <2>4. swp[u] = q
    BY <2>2, <2>3
  <2> QED
    BY <1>12, <2>4
<1>30. \A q \in Slot : HasImage(q)
  <2> SUFFICES ASSUME NEW q \in Slot, Alive(q) PROVE HasImage(q)
    BY DEF HasImage
  <2>1. InUse(q) <=> q \in C
    BY <1>4, <1>12, <1>14, <1>15 DEF InUse
  <2>2. q \in C \/ q \in O
    BY <1>15
  <2> QED
    BY <1>28, <1>29, <2>1, <2>2 DEF HasImage
<1>31. \A q \in Slot : Apart(q)
  BY <1>13 DEF Apart
<1>32. Jobs
  <2>1. SchedJob
    BY <1>0, <1>13 DEF SchedJob
  <2>2. \A q \in Slot : CopyJob(q) /\ OtherJob(q)
    BY <1>13, <1>14 DEF CopyJob, OtherJob
  <2> QED
    BY <2>1, <2>2 DEF Jobs
<1>33. Devices /\ Transferred
  BY <1>13 DEF Devices, Transferred
<1> QED
  BY <1>1, <1>18, <1>24, <1>27, <1>30, <1>31, <1>32, <1>33 DEF Memory

\* MemoryKept, for every size of the table, of core and of the swap device and
\* every start that fits there, as long as nobody is swapped out who waits for
\* space in newproc or for the header of a raw transfer (Untaken: sched does
\* take them, slp.c:419 and bio.c:487): whatever is forked, swapped, written by
\* exit, collected by wait and transferred raw, in whatever order they sleep, no
\* unit of core and no block of the swap device is lost or has two owners, and
\* every process's image is where its table entry says.
THEOREM MemoryStays ==
    ASSUME InitStays
    PROVE  Spec /\ []Untaken => []MemoryKept
<1>1. Init => Table /\ Memory
  BY InitTable, InitMemory
<1>2. Table /\ Memory /\ [Next]_vars /\ Untaken' => (Table /\ Memory)'
  BY NextTable, NextMemory
<1>3. Table /\ Memory => MemoryKept
  BY MemorySafe
<1> QED
  BY <1>1, <1>2, <1>3, PTL DEF Spec

=============================================================================
