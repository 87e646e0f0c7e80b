----------------------------- MODULE ProcsProofs ----------------------------
(***************************************************************************)
(* The table of processes is kept, for every size of the table, of core    *)
(* and of the swap device: every process has a parent who can wait for it, *)
(* no two have the same number, and nobody sleeps for what has happened.   *)
(***************************************************************************)
EXTENDS Procs, ResMapProofs

\* What exit takes for granted of process 1, whose children all orphans become:
\* it does not exit itself.
InitStays == \A s \in Starts : "exit" \notin s.ops[1]

-----------------------------------------------------------------------------
(* The inductive invariant. *)

Stats == {Null, "SRUN", "SSLEEP", "SWAIT", "SIDL", "SZOMB"}
Row == [stat : Stats, pid : 0 .. MaxPid, ppid : 0 .. MaxPid, addr : Nat, load : BOOLEAN,
        lock : BOOLEAN, time : 0 .. 3 + NPROC, sig : {"none", "INT", "KIL"}]
Job == [kind : {"none", "in", "out", "copy", "exit", "wait", "raw", "ps"},
        who : Slot, a : Nat, pid : 0 .. MaxPid]
Header == [busy : BOOLEAN, done : BOOLEAN, by : Slot, page : Nat]

\* The types, part by part.
Types ==
    /\ proc \in [Slot -> Row] /\ at \in [Slot -> Places] /\ hand \in [Slot -> {"dfl", "ign", "fun"}]
    /\ job \in [Slot -> Job]
    /\ coremap \in Seq(Entries) /\ swapmap \in Seq(Entries)
    /\ swbuf \in Header /\ rawbuf \in Header
    /\ mpid \in 0 .. MaxPid /\ psok \in BOOLEAN /\ panic \in BOOLEAN
    /\ todo \in [Slot -> SUBSET Calls]

\* Processes 0 and 1 stay what they are.
Founders ==
    /\ proc[0].pid = 0 /\ proc[0].load /\ proc[0].stat \in {"SRUN", "SSLEEP"}
    /\ proc[1].pid = 1 /\ proc[1].stat \notin {Null, "SZOMB"} /\ proc[1].sig = "none"
    /\ "exit" \notin todo[1] /\ at[1] # "exitio"

\* What p_stat says of where a process is.
PlaceInv(p) ==
    /\ at[p] = "free" <=> proc[p].stat = Null
    /\ at[p] = "dead" <=> proc[p].stat = "SZOMB"
    /\ proc[p].stat = "SIDL" => at[p] = "user"
    /\ proc[p].stat = "SWAIT" => at[p] = "wait"
    /\ p = 0 => at[p] \in {"loop", "runin", "runout", "swapget", "swapio"}
    /\ p # 0 => at[p] \notin {"loop", "runin", "runout"} /\ (proc[p].stat # Null => proc[p].pid # 0)
    /\ proc[p].stat = Null => proc[p].pid = 0

\* The zombie whose block wait reads is still a child of the one that waits.
CollectInv(p) ==
    at[p] = "waitio" => /\ proc[job[p].who].stat = "SZOMB"
                        /\ proc[job[p].who].ppid = proc[p].pid

\* A child that newproc writes to the swap device has a parent that stands
\* still (SIDL) for it, and for no other.
InCopy(c) == c # 0 /\ at[c] \in {"swapmap", "swapget", "swapio"}
CopyInv(c) ==
    /\ InCopy(c) <=> job[c].kind = "copy"
    /\ InCopy(c) => \E p \in Slot : proc[p].pid = job[c].pid /\ proc[p].stat = "SIDL"
    /\ \A d \in Slot \ {c} : InCopy(c) /\ InCopy(d) => job[d].pid # job[c].pid

\* Who is at the transfer has the buffer.
Headers ==
    \A p \in Slot : /\ at[p] = "swapio" => swbuf.busy /\ swbuf.by = p
                    /\ at[p] = "rawio" => rawbuf.busy /\ rawbuf.by = p

\* NoLostWakeup, sleeper by sleeper.
WaitWake(p) == at[p] = "wait" /\ proc[p].stat = "SWAIT" => Zombies(p) = {}
SchedWake == at[0] = "runout" /\ proc[0].stat = "SSLEEP" => Ready = {}
BufWake(p) ==
    proc[p].stat = "SSLEEP" =>
      /\ at[p] \in {"swapget", "swapio"} => swbuf.busy /\ (at[p] = "swapget" \/ ~swbuf.done)
      /\ at[p] \in {"rawget", "rawio"} => rawbuf.busy

Table ==
    /\ Types /\ ParentLives /\ Founders /\ Headers /\ SchedWake
    /\ \A p \in Slot : PlaceInv(p) /\ CollectInv(p) /\ CopyInv(p) /\ WaitWake(p) /\ BufWake(p)

-----------------------------------------------------------------------------
(* Sets of slots. *)

LEMMA SlotIs == Slot \subseteq Nat /\ 0 \in Slot /\ 1 \in Slot /\ IsFiniteSet(Slot) /\ Cardinality(Slot) = NPROC
<1>1. NPROC \in Nat /\ NPROC > 1
  BY ProcsAssumption
<1>2. IsFiniteSet(0 .. NPROC - 1) /\ Cardinality(0 .. NPROC - 1) = IF 0 > NPROC - 1 THEN 0 ELSE (NPROC - 1) - 0 + 1
  BY <1>1, FS_Interval
<1>3. Cardinality(0 .. NPROC - 1) = NPROC
  BY <1>1, <1>2
<1> QED
  BY <1>1, <1>2, <1>3 DEF Slot

LEMMA MinOfSlots ==
    ASSUME NEW S \in SUBSET Slot, S # {}
    PROVE  Min(S) \in S
BY SlotIs, MinIsLeast

\* A set of processes has an oldest one.
LEMMA OldestIs ==
    ASSUME Types, NEW S \in SUBSET Slot, S # {}
    PROVE  Oldest(S) \in S
<1> DEFINE O == {p \in S : \A q \in S : proc[q].time <= proc[p].time}
           D == {n \in Nat : \E p \in S : n = 3 + NPROC - proc[p].time}
<1>1. NPROC \in Nat
  BY ProcsAssumption
<1>2. \A p \in S : proc[p].time \in Nat /\ proc[p].time <= 3 + NPROC
  BY <1>1 DEF Types, Row
<1>3. D \in SUBSET Nat /\ D # {}
  <2>1. PICK p \in S : TRUE
    OBVIOUS
  <2>2. 3 + NPROC - proc[p].time \in D
    BY <1>1, <1>2
  <2> QED
    BY <2>2
<1>4. PICK n \in D : \A k \in D : n <= k
  <2> HIDE DEF D
  <2> QED
    BY <1>3, Least
<1>5. PICK p \in S : n = 3 + NPROC - proc[p].time
  BY <1>4
<1>6. ASSUME NEW q \in S PROVE proc[q].time <= proc[p].time
  <2>1. 3 + NPROC - proc[q].time \in D
    BY <1>1, <1>2
  <2>2. n <= 3 + NPROC - proc[q].time
    <3> HIDE DEF D
    <3> QED
      BY <1>4, <2>1
  <2> QED
    BY <1>1, <1>2, <1>5, <2>2
<1>7. p \in O
  BY <1>6
<1>8. Min(O) \in O
  <2>1. O \in SUBSET Slot /\ O # {}
    BY <1>7
  <2> HIDE DEF O
  <2> QED
    BY <2>1, MinOfSlots
<1> QED
  BY <1>8 DEF Oldest

\* A function of the slots has at most as many values as there are slots.
LEMMA ValuesBound ==
    ASSUME NEW T \in SUBSET Slot, NEW f \in [T -> Nat]
    PROVE  /\ IsFiniteSet(T) /\ IsFiniteSet({f[q] : q \in T})
           /\ Cardinality(T) \in Nat /\ Cardinality({f[q] : q \in T}) \in Nat
           /\ Cardinality({f[q] : q \in T}) <= Cardinality(T)
<1> DEFINE V == {f[q] : q \in T}
<1>1. IsFiniteSet(T)
  BY SlotIs, FS_Subset
<1>2. f \in Surjection(T, V)
  BY DEF Surjection
<1> HIDE DEF V
<1>3. IsFiniteSet(V) /\ Cardinality(V) <= Cardinality(T)
  BY <1>1, <1>2, FS_Surjection
<1>4. Cardinality(T) \in Nat /\ Cardinality(V) \in Nat
  BY <1>1, <1>3, FS_CardinalityType
<1> QED
  BY <1>1, <1>3, <1>4 DEF V

LEMMA ModStep ==
    ASSUME NEW M \in Nat \ {0}, NEW x \in 0 .. M - 1, NEW y \in Nat, y = x \/ y = x + M
    PROVE  y % M = x
BY SMT

LEMMA ModType ==
    ASSUME NEW M \in Nat \ {0}, NEW x \in Nat
    PROVE  x % M \in 0 .. M - 1
BY SMT

\* There is always a number for a new process, and nobody has it.
LEMMA NextPidIsNew ==
    ASSUME Types
    PROVE  NextPid \in 1 .. MaxPid /\ NextPid \notin Used
<1> DEFINE after(k) == ((mpid + k - 1) % MaxPid) + 1
           K == {k \in 1 .. MaxPid : after(k) \notin Used}
<1>1. MaxPid \in Nat /\ NPROC \in Nat /\ NPROC > 1 /\ MaxPid > NPROC /\ mpid \in 0 .. MaxPid
  BY ProcsAssumption DEF Types
<1>2. PICK v \in 1 .. MaxPid : v \notin Used
  <2> SUFFICES ASSUME 1 .. MaxPid \subseteq Used PROVE FALSE
    OBVIOUS
  <2> DEFINE f == [q \in Slot |-> proc[q].pid]
  <2>1. f \in [Slot -> Nat] /\ Used = {f[q] : q \in Slot}
    BY DEF Types, Row, Used
  <2> HIDE DEF f
  <2>2. IsFiniteSet(Used) /\ Cardinality(Used) <= NPROC /\ Cardinality(Used) \in Nat
    BY <2>1, SlotIs, ValuesBound
  <2>3. Cardinality(1 .. MaxPid) = IF 1 > MaxPid THEN 0 ELSE MaxPid - 1 + 1
    BY <1>1, FS_Interval
  <2>4. Cardinality(1 .. MaxPid) <= Cardinality(Used)
    BY <2>2, FS_Subset
  <2>5. Cardinality(1 .. MaxPid) = MaxPid
    BY <1>1, <2>3
  <2> QED
    BY <1>1, <2>2, <2>4, <2>5
<1>3. \E k \in 1 .. MaxPid : after(k) = v
  <2>1. CASE v > mpid
    <3> DEFINE k == v - mpid
    <3>1. k \in 1 .. MaxPid /\ mpid + k - 1 = v - 1 /\ v - 1 \in 0 .. MaxPid - 1 /\ v - 1 \in Nat
      BY <1>1, <2>1
    <3>2. (mpid + k - 1) % MaxPid = v - 1
      <4> HIDE DEF k
      <4> QED
        BY <1>1, <3>1, ModStep
    <3>3. after(k) = v
      BY <3>2
    <3> QED
      BY <3>1, <3>3
  <2>2. CASE v <= mpid
    <3> DEFINE k == v - mpid + MaxPid
    <3>1. /\ k \in 1 .. MaxPid /\ mpid + k - 1 = (v - 1) + MaxPid
          /\ v - 1 \in 0 .. MaxPid - 1 /\ (v - 1) + MaxPid \in Nat
      BY <1>1, <2>2
    <3>2. (mpid + k - 1) % MaxPid = v - 1
      <4> HIDE DEF k
      <4> QED
        BY <1>1, <3>1, ModStep
    <3>3. after(k) = v
      BY <3>2
    <3> QED
      BY <3>1, <3>3
  <2> QED
    BY <1>1, <2>1, <2>2
<1>4. Min(K) \in K
  <2>1. K \in SUBSET Nat /\ K # {}
    BY <1>2, <1>3
  <2> HIDE DEF K
  <2> QED
    BY <2>1, MinIsLeast
<1>5. NextPid = after(Min(K))
  BY DEF NextPid
<1>6. after(Min(K)) \in 1 .. MaxPid
  <2>1. Min(K) \in 1 .. MaxPid
    BY <1>4
  <2> HIDE DEF K
  <2>2. mpid + Min(K) - 1 \in Nat
    BY <1>1, <2>1
  <2>3. (mpid + Min(K) - 1) % MaxPid \in 0 .. MaxPid - 1
    BY <1>1, <2>2, ModType
  <2> QED
    BY <1>1, <2>3
<1> QED
  BY <1>4, <1>5, <1>6

-----------------------------------------------------------------------------
(* setrun and wakeup. *)

SameButStat(e, f) ==
    /\ e.pid = f.pid /\ e.ppid = f.ppid /\ e.addr = f.addr /\ e.load = f.load
    /\ e.lock = f.lock /\ e.time = f.time /\ e.sig = f.sig

\* Who changes its state is woken.
Woken(e, f) == e.stat = f.stat \/ (e.stat = "SRUN" /\ f.stat \in {"SSLEEP", "SWAIT"})

LEMMA RowStat ==
    ASSUME NEW e \in Row, NEW s \in Stats
    PROVE  [e EXCEPT !.stat = s] \in Row /\ SameButStat([e EXCEPT !.stat = s], e) /\ [e EXCEPT !.stat = s].stat = s
BY DEF Row, SameButStat

LEMMA MovingOut ==
    ASSUME NEW e \in Row, NEW f, f = [e EXCEPT !.load = FALSE, !.lock = TRUE]
    PROVE  f \in Row /\ f.stat = e.stat /\ f.pid = e.pid /\ f.ppid = e.ppid /\ f.sig = e.sig
BY DEF Row

LEMMA NoJobType == NoJob \in Job
BY SlotIs, ProcsAssumption DEF NoJob, Job

\* The job of a swap.
LEMMA SwapJob ==
    ASSUME NEW k \in {"in", "out"}, NEW p \in Slot, NEW a \in Nat
    PROVE  LET j == [NoJob EXCEPT !.kind = k, !.who = p, !.a = a]
           IN  j \in Job /\ j.kind = k
BY NoJobType DEF Job

LEMMA SetRunIs ==
    ASSUME Types, NEW P \in [Slot -> Row], NEW W \in SUBSET Slot
    PROVE  LET R == SetRun(P, W)
           IN  /\ R \in [Slot -> Row]
               /\ \A q \in Slot : SameButStat(R[q], P[q]) /\ R[q].stat \in {P[q].stat, "SRUN"}
               /\ \A q \in W : R[q].stat = "SRUN"
               /\ \A q \in Slot \ W : q # 0 \/ at[0] # "runout" => R[q] = P[q]
               /\ at[0] = "runout" /\ (\E q \in W : ~P[q].load) => R[0].stat = "SRUN"
<1> DEFINE out == \E q \in W : ~P[q].load
           Hit(q) == q \in W \/ (out /\ q = 0 /\ at[0] = "runout")
           R == SetRun(P, W)
<1>1. R = [q \in Slot |-> IF Hit(q) THEN [P[q] EXCEPT !.stat = "SRUN"] ELSE P[q]]
  BY DEF SetRun
<1> HIDE DEF R, Hit
<1>2. \A q \in Slot : /\ Hit(q) => R[q] = [P[q] EXCEPT !.stat = "SRUN"]
                      /\ ~Hit(q) => R[q] = P[q]
  BY <1>1
<1>3. \A e \in Row : /\ [e EXCEPT !.stat = "SRUN"] \in Row
                     /\ SameButStat([e EXCEPT !.stat = "SRUN"], e)
                     /\ [e EXCEPT !.stat = "SRUN"].stat = "SRUN"
                     /\ SameButStat(e, e)
  BY RowStat DEF Stats, SameButStat
<1>4. \A q \in Slot : R[q] \in Row /\ SameButStat(R[q], P[q]) /\ R[q].stat \in {P[q].stat, "SRUN"}
                        /\ (Hit(q) => R[q].stat = "SRUN")
  <2> SUFFICES ASSUME NEW q \in Slot
               PROVE  R[q] \in Row /\ SameButStat(R[q], P[q]) /\ R[q].stat \in {P[q].stat, "SRUN"}
                      /\ (Hit(q) => R[q].stat = "SRUN")
    OBVIOUS
  <2>1. PICK e \in Row : e = P[q]
    OBVIOUS
  <2>2. CASE Hit(q)
    <3>1. R[q] = [e EXCEPT !.stat = "SRUN"]
      BY <1>2, <2>1, <2>2
    <3> QED
      BY <1>3, <2>1, <3>1
  <2>3. CASE ~Hit(q)
    BY <1>2, <1>3, <2>1, <2>3
  <2> QED
    BY <2>2, <2>3
<1>5. R \in [Slot -> Row]
  BY <1>1, <1>2, <1>3
<1>6. 0 \in Slot
  BY SlotIs
<1> QED
  BY <1>2, <1>4, <1>5, <1>6 DEF Hit, R

\* wakeup makes those it is for ready and nobody else, but the scheduler if one
\* of them is not in core.
LEMMA WakeupIs ==
    ASSUME Types, Founders, NEW places
    PROVE  LET R == Wakeup(proc, places)
           IN  /\ R \in [Slot -> Row]
               /\ \A q \in Slot : SameButStat(R[q], proc[q]) /\ Woken(R[q], proc[q])
               /\ \A q \in Slot : at[q] \in places => R[q].stat \notin {"SSLEEP", "SWAIT"}
               /\ at[0] = "runout" /\ R[0].stat = "SSLEEP" =>
                    \A q \in Slot : R[q].stat = "SRUN" /\ ~R[q].load => proc[q].stat = "SRUN"
<1> DEFINE W == Asleep(proc, places)
           R == SetRun(proc, W)
<1>1. W \in SUBSET Slot /\ proc \in [Slot -> Row]
  BY DEF Asleep, Types
<1>2. \A q \in Slot : q \in W <=> at[q] \in places /\ proc[q].stat \in {"SSLEEP", "SWAIT"}
  BY DEF Asleep
<1> HIDE DEF W
<1>3. /\ R \in [Slot -> Row]
      /\ \A q \in Slot : SameButStat(R[q], proc[q]) /\ R[q].stat \in {proc[q].stat, "SRUN"}
      /\ \A q \in W : R[q].stat = "SRUN"
      /\ \A q \in Slot \ W : q # 0 \/ at[0] # "runout" => R[q] = proc[q]
      /\ at[0] = "runout" /\ (\E q \in W : ~proc[q].load) => R[0].stat = "SRUN"
  BY <1>1, SetRunIs
<1>4. R = Wakeup(proc, places)
  BY DEF Wakeup, W
<1> HIDE DEF R
<1>5. \A q \in Slot : Woken(R[q], proc[q])
  BY <1>1, <1>2, <1>3 DEF Woken, Founders
<1>6. \A q \in Slot : at[q] \in places => R[q].stat \notin {"SSLEEP", "SWAIT"}
  BY <1>2, <1>3
<1>7. at[0] = "runout" /\ R[0].stat = "SSLEEP" =>
        \A q \in Slot : R[q].stat = "SRUN" /\ ~R[q].load => proc[q].stat = "SRUN"
  <2> SUFFICES ASSUME at[0] = "runout", R[0].stat = "SSLEEP", NEW q \in Slot, R[q].stat = "SRUN", ~R[q].load
               PROVE  proc[q].stat = "SRUN"
    OBVIOUS
  <2>1. ~proc[q].load
    BY <1>3 DEF SameButStat
  <2>2. q \notin W
    BY <1>3, <2>1
  <2>3. q # 0
    OBVIOUS
  <2> QED
    BY <1>3, <2>2, <2>3
<1> QED
  BY <1>3, <1>4, <1>5, <1>6, <1>7

-----------------------------------------------------------------------------
(* Steps of one process that leave the family as it is. *)

\* The others stay where they are; they may be woken.
OthersStay(p) ==
    \A q \in Slot \ {p} : at'[q] = at[q] /\ job'[q] = job[q] /\ Woken(proc'[q], proc[q])
SameFamily == \A q \in Slot : proc'[q].pid = proc[q].pid /\ proc'[q].ppid = proc[q].ppid

LEMMA FamilyFrame ==
    ASSUME ParentLives, SameFamily,
           \A q \in Slot : (proc[q].stat = Null <=> proc'[q].stat = Null)
                           /\ (proc[q].stat = "SZOMB" <=> proc'[q].stat = "SZOMB")
    PROVE  ParentLives'
BY DEF ParentLives, SameFamily

LEMMA OneMoves ==
    ASSUME Table, Types', NEW p \in Slot, OthersStay(p), SameFamily,
           proc[p].stat \notin {Null, "SZOMB", "SIDL"},
           proc'[p].stat \in {"SRUN", "SSLEEP"} \/ (proc'[p].stat = "SWAIT" /\ at'[p] = "wait" /\ p # 0),
           at'[p] \notin {"free", "dead"},
           p = 0 <=> at'[p] \in {"loop", "runin", "runout"} \/ (p = 0 /\ at'[p] \in {"swapget", "swapio"}),
           p = 1 => at'[p] # "exitio",
           proc'[0].load, proc'[1].sig = "none", todo'[1] \subseteq todo[1],
           CollectInv(p)', WaitWake(p)',
           InCopy(p)' <=> job'[p].kind = "copy",
           InCopy(p)' => InCopy(p) /\ job'[p].pid = job[p].pid,
           Headers', SchedWake', \A q \in Slot : BufWake(q)'
    PROVE  Table'
<1>0. 0 \in Slot /\ 1 \in Slot
  BY SlotIs
<1>1. \A q \in Slot : /\ proc[q].stat = Null <=> proc'[q].stat = Null
                      /\ proc[q].stat = "SZOMB" <=> proc'[q].stat = "SZOMB"
  BY DEF OthersStay, Woken, Null
<1>2. ParentLives'
  BY <1>1, FamilyFrame DEF Table
<1>3. Founders'
  <2>1. proc'[0].stat \in {"SRUN", "SSLEEP"}
    BY <1>0 DEF Table, Founders, OthersStay, Woken
  <2>2. at'[1] # "exitio"
    BY <1>0 DEF Table, Founders, OthersStay
  <2> QED
    BY <1>0, <1>1, <2>1, <2>2 DEF Table, Founders, SameFamily
<1>4. ASSUME NEW q \in Slot PROVE PlaceInv(q)'
  <2>1. CASE q = p
    BY <1>1, <2>1 DEF Table, PlaceInv, SameFamily, Null
  <2>2. CASE q # p
    <3>1. at'[q] = at[q] /\ Woken(proc'[q], proc[q])
      BY <2>2 DEF OthersStay
    <3> QED
      BY <1>1, <3>1 DEF Table, PlaceInv, SameFamily, Woken, Null
  <2> QED
    BY <2>1, <2>2
<1>5. ASSUME NEW q \in Slot PROVE CollectInv(q)'
  <2>1. CASE q = p
    BY <2>1
  <2>2. CASE q # p
    <3>1. at'[q] = at[q] /\ job'[q] = job[q] /\ job[q] \in Job
      BY <2>2 DEF OthersStay, Table, Types
    <3>2. PICK w \in Slot : w = job[q].who
      BY <3>1 DEF Job
    <3>3. at[q] = "waitio" => proc[w].stat = "SZOMB" /\ proc[w].ppid = proc[q].pid
      BY <3>2 DEF Table, CollectInv
    <3>4. at'[q] = "waitio" => proc'[w].stat = "SZOMB" /\ proc'[w].ppid = proc'[q].pid
      BY <1>1, <3>1, <3>3 DEF SameFamily
    <3> QED
      BY <3>1, <3>2, <3>4 DEF CollectInv
  <2> QED
    BY <2>1, <2>2
<1>6. ASSUME NEW q \in Slot PROVE CopyInv(q)'
  <2>1. InCopy(q)' <=> job'[q].kind = "copy"
    <3>1. CASE q = p
      BY <3>1
    <3>2. CASE q # p
      BY <3>2 DEF OthersStay, Table, CopyInv, InCopy
    <3> QED
      BY <3>1, <3>2
  <2>2. \A d \in Slot : InCopy(d)' => InCopy(d) /\ job'[d].pid = job[d].pid
    BY DEF OthersStay, InCopy
  <2>3. \A r \in Slot : proc[r].stat = "SIDL" => proc'[r].stat = "SIDL"
    BY DEF OthersStay, Woken
  <2>4. InCopy(q)' => \E r \in Slot : proc'[r].pid = job'[q].pid /\ proc'[r].stat = "SIDL"
    BY <2>2, <2>3 DEF Table, CopyInv, SameFamily
  <2>5. \A d \in Slot \ {q} : InCopy(q)' /\ InCopy(d)' => job'[d].pid # job'[q].pid
    BY <2>2 DEF Table, CopyInv
  <2> QED
    BY <2>1, <2>4, <2>5 DEF CopyInv
<1>7. ASSUME NEW q \in Slot PROVE WaitWake(q)'
  <2>1. CASE q = p
    BY <2>1
  <2>2. CASE q # p
    <3>1. at'[q] = at[q] /\ (proc'[q].stat = "SWAIT" => proc[q].stat = "SWAIT")
      BY <2>2 DEF OthersStay, Woken
    <3>2. Zombies(q)' = Zombies(q)
      BY <1>1 DEF Zombies, Children, SameFamily
    <3> QED
      BY <3>1, <3>2 DEF Table, WaitWake
  <2> QED
    BY <2>1, <2>2
<1> QED
  BY <1>2, <1>3, <1>4, <1>5, <1>6, <1>7 DEF Table

\* A step that touches no buffer header and makes nobody wait for one.
LEMMA BuffersStay ==
    ASSUME Table, UNCHANGED bufs,
           \A q \in Slot : at'[q] \in {"swapget", "swapio", "rawget", "rawio"} =>
             at'[q] = at[q] /\ (proc'[q].stat = "SSLEEP" => proc[q].stat = "SSLEEP")
    PROVE  Headers' /\ \A q \in Slot : BufWake(q)'
<1>1. swbuf' = swbuf /\ rawbuf' = rawbuf
  BY DEF bufs
<1>2. Headers'
  BY <1>1 DEF Table, Headers
<1>3. \A q \in Slot : BufWake(q)'
  BY <1>1 DEF Table, BufWake
<1> QED
  BY <1>2, <1>3

LEMMA NoBuffer ==
    ASSUME Table, NEW p \in Slot, OthersStay(p), UNCHANGED bufs,
           at'[p] \in {"swapget", "swapio", "rawget", "rawio"} =>
             at'[p] = at[p] /\ Woken(proc'[p], proc[p])
    PROVE  Headers' /\ \A q \in Slot : BufWake(q)'
<1>1. \A q \in Slot : at'[q] \in {"swapget", "swapio", "rawget", "rawio"} =>
                        at'[q] = at[q] /\ (proc'[q].stat = "SSLEEP" => proc[q].stat = "SSLEEP")
  BY DEF OthersStay, Woken
<1> QED
  BY <1>1, BuffersStay

\* A step after which nobody is ready and out of core who was not before.
LEMMA NobodyReady ==
    ASSUME Table, at'[0] = at[0],
           at[0] = "runout" => Woken(proc'[0], proc[0]),
           at[0] = "runout" /\ proc'[0].stat = "SSLEEP" =>
             \A q \in Slot : proc'[q].stat = "SRUN" /\ ~proc'[q].load => proc[q].stat = "SRUN" /\ ~proc[q].load
    PROVE  SchedWake'
BY DEF Table, SchedWake, Ready, Woken

-----------------------------------------------------------------------------
(* The scheduler, swapping and the interrupts. *)

LEMMA StatExcept ==
    ASSUME NEW P \in [Slot -> Row], NEW p \in Slot, NEW s \in Stats
    PROVE  LET R == [P EXCEPT ![p].stat = s]
           IN  /\ R \in [Slot -> Row] /\ R[p].stat = s
               /\ \A q \in Slot : SameButStat(R[q], P[q]) /\ (q # p => R[q] = P[q])
<1> DEFINE R == [P EXCEPT ![p].stat = s]
<1>1. [P[p] EXCEPT !.stat = s] \in Row /\ SameButStat([P[p] EXCEPT !.stat = s], P[p])
      /\ [P[p] EXCEPT !.stat = s].stat = s
  BY RowStat
<1>2. R[p] = [P[p] EXCEPT !.stat = s] /\ \A q \in Slot : q # p => R[q] = P[q]
  OBVIOUS
<1>3. R \in [Slot -> Row]
  BY <1>1
<1>4. \A q \in Slot : SameButStat(P[q], P[q])
  BY DEF SameButStat
<1> HIDE DEF R
<1> QED
  BY <1>1, <1>2, <1>3, <1>4 DEF R

\* sleep: nobody else is touched.
LEMMA SleepIs ==
    ASSUME Types, NEW p \in Slot, proc' = Sleep(proc, p)
    PROVE  /\ proc' \in [Slot -> Row] /\ proc'[p].stat = "SSLEEP"
           /\ \A q \in Slot : SameButStat(proc'[q], proc[q]) /\ (q # p => proc'[q] = proc[q])
<1>1. proc \in [Slot -> Row] /\ "SSLEEP" \in Stats
  BY DEF Types, Stats
<1> QED
  BY <1>1, StatExcept DEF Sleep

LEMMA SleepOf ==
    ASSUME NEW P \in [Slot -> Row], NEW p \in Slot, NEW R, R = Sleep(P, p)
    PROVE  /\ R \in [Slot -> Row] /\ R[p].stat = "SSLEEP"
           /\ \A q \in Slot : SameButStat(R[q], P[q]) /\ (q # p => R[q] = P[q])
<1>1. "SSLEEP" \in Stats
  BY DEF Stats
<1> QED
  BY <1>1, StatExcept DEF Sleep

\* The buffer of swap is taken or waited for.
LEMMA TakesSwbuf ==
    ASSUME Table, NEW t \in Slot, GetSwbuf(t), UNCHANGED rawbuf,
           \A q \in Slot \ {t} : at'[q] = at[q] /\ (proc'[q].stat = "SSLEEP" => proc[q].stat = "SSLEEP")
    PROVE  Headers' /\ \A q \in Slot : BufWake(q)'
<1>1. at'[t] = IF swbuf.busy THEN "swapget" ELSE "swapio"
  BY DEF GetSwbuf, Table, Types
<1>2. /\ swbuf.busy => swbuf' = swbuf
      /\ ~swbuf.busy => swbuf'.busy = TRUE /\ swbuf'.done = FALSE /\ swbuf'.by = t
  BY DEF GetSwbuf, Idle
<1>3. \A q \in Slot \ {t} : at'[q] = at[q] /\ (proc'[q].stat = "SSLEEP" => proc[q].stat = "SSLEEP")
  OBVIOUS
<1>4. Headers'
  <2>1. CASE swbuf.busy
    BY <1>1, <1>2, <1>3, <2>1 DEF Table, Headers
  <2>2. CASE ~swbuf.busy
    BY <1>1, <1>2, <1>3, <2>2 DEF Table, Headers
  <2> QED
    BY <2>1, <2>2
<1>5. \A q \in Slot : BufWake(q)'
  <2>1. CASE swbuf.busy
    BY <1>1, <1>2, <1>3, <2>1 DEF Table, BufWake
  <2>2. CASE ~swbuf.busy
    BY <1>1, <1>2, <1>3, <2>2 DEF Table, BufWake
  <2> QED
    BY <2>1, <2>2
<1> QED
  BY <1>4, <1>5

LEMMA GetSwbufType ==
    ASSUME Types, NEW t \in Slot, GetSwbuf(t)
    PROVE  at' \in [Slot -> Places] /\ swbuf' \in Header
           /\ at'[t] \in {"swapget", "swapio"} /\ \A q \in Slot \ {t} : at'[q] = at[q]
BY DEF Types, GetSwbuf, Places, Header, Idle

\* From waiting for the buffer to the transfer.
LEMMA SwapGetStep ==
    ASSUME Table, NEW t \in Slot, SwapGet(t)
    PROVE  Table'
<1>1. /\ proc' \in [Slot -> Row] /\ proc'[t].stat = "SSLEEP"
      /\ \A q \in Slot : SameButStat(proc'[q], proc[q]) /\ (q # t => proc'[q] = proc[q])
  BY SleepIs DEF Table, SwapGet
<1>2. /\ GetSwbuf(t) /\ proc[t].stat = "SRUN" /\ at[t] = "swapget"
      /\ UNCHANGED <<job, hand, maps, memory, rawbuf, mpid, rest, todo>>
  BY DEF SwapGet, Run
<1>3. /\ at' \in [Slot -> Places] /\ swbuf' \in Header /\ at'[t] \in {"swapget", "swapio"}
      /\ \A q \in Slot \ {t} : at'[q] = at[q]
  BY <1>2, GetSwbufType DEF Table
<1>4. Types'
  BY <1>1, <1>2, <1>3 DEF Table, Types, maps, rest
<1>5. OthersStay(t) /\ SameFamily
  BY <1>1, <1>2, <1>3 DEF OthersStay, SameFamily, SameButStat, Woken
<1>6. Headers' /\ \A q \in Slot : BufWake(q)'
  BY <1>2, <1>5, TakesSwbuf DEF OthersStay, Woken
<1>7. SchedWake'
  <2>1. CASE t = 0
    BY <1>3, <2>1 DEF SchedWake
  <2>2. CASE t # 0
    <3>1. 0 \in Slot /\ at'[0] = at[0] /\ Woken(proc'[0], proc[0])
      BY <1>5, <2>2, SlotIs DEF OthersStay
    <3>2. \A q \in Slot : proc'[q].stat = "SRUN" /\ ~proc'[q].load => proc[q].stat = "SRUN" /\ ~proc[q].load
      BY <1>1 DEF SameButStat
    <3> QED
      BY <3>1, <3>2, NobodyReady
  <2> QED
    BY <2>1, <2>2
<1>8. CollectInv(t)' /\ WaitWake(t)'
  BY <1>3 DEF CollectInv, WaitWake
<1>9. /\ InCopy(t)' <=> job'[t].kind = "copy"
      /\ InCopy(t)' => InCopy(t) /\ job'[t].pid = job[t].pid
  BY <1>2, <1>3 DEF InCopy, CopyInv, Table
<1>10. proc'[0].load /\ proc'[1].sig = "none" /\ todo'[1] \subseteq todo[1]
  BY <1>1, <1>2, SlotIs DEF SameButStat, Table, Founders
<1>11. /\ proc[t].stat \notin {Null, "SZOMB", "SIDL"} /\ at'[t] \notin {"free", "dead"}
       /\ t = 0 <=> at'[t] \in {"loop", "runin", "runout"} \/ (t = 0 /\ at'[t] \in {"swapget", "swapio"})
       /\ t = 1 => at'[t] # "exitio"
  BY <1>2, <1>3 DEF Null
<1> QED
  BY <1>1, <1>4, <1>5, <1>6, <1>7, <1>8, <1>9, <1>10, <1>11, OneMoves

\* An interrupt moves nobody: it only wakes.
LEMMA InterruptStep ==
    ASSUME Table, Types', UNCHANGED <<at, job, todo>>,
           \A q \in Slot : /\ Woken(proc'[q], proc[q])
                           /\ proc'[q].pid = proc[q].pid /\ proc'[q].ppid = proc[q].ppid
                           /\ proc'[q].load = proc[q].load /\ proc'[q].sig = proc[q].sig,
           at[0] = "runout" /\ proc'[0].stat = "SSLEEP" =>
             \A q \in Slot : proc'[q].stat = "SRUN" /\ ~proc'[q].load => proc[q].stat = "SRUN",
           Headers', \A q \in Slot : BufWake(q)'
    PROVE  Table'
<1>0. 0 \in Slot /\ 1 \in Slot
  BY SlotIs
<1>1. OthersStay(0) /\ SameFamily
  BY DEF OthersStay, SameFamily
<1>2. SchedWake'
  BY <1>0, NobodyReady
<1>3. proc[0].stat \in {"SRUN", "SSLEEP"} /\ at[0] \in {"loop", "runin", "runout", "swapget", "swapio"}
  BY <1>0 DEF Table, Founders, PlaceInv
<1>4. proc'[0].stat \in {"SRUN", "SSLEEP"}
  BY <1>0, <1>3 DEF Woken
<1>5. CollectInv(0)' /\ WaitWake(0)'
  BY <1>3 DEF CollectInv, WaitWake
<1>6. /\ InCopy(0)' <=> job'[0].kind = "copy"
      /\ InCopy(0)' => InCopy(0) /\ job'[0].pid = job[0].pid
  BY <1>0 DEF Table, CopyInv, InCopy
<1>7. proc'[0].load /\ proc'[1].sig = "none" /\ todo'[1] \subseteq todo[1]
  BY <1>0 DEF Table, Founders
<1>8. proc[0].stat \notin {Null, "SZOMB", "SIDL"} /\ at'[0] \notin {"free", "dead"}
  BY <1>3 DEF Null
<1>9. 0 = 0 <=> at'[0] \in {"loop", "runin", "runout"} \/ (0 = 0 /\ at'[0] \in {"swapget", "swapio"})
  BY <1>3
<1> QED
  BY <1>0, <1>1, <1>2, <1>4, <1>5, <1>6, <1>7, <1>8, <1>9, OneMoves

\* The end of a transfer of swap.
LEMMA SwapIntrStep ==
    ASSUME Table, SwapIntr
    PROVE  Table'
<1> DEFINE R == Wakeup(proc, {"swapget", "swapio"})
<1>1. /\ R \in [Slot -> Row]
      /\ \A q \in Slot : SameButStat(R[q], proc[q]) /\ Woken(R[q], proc[q])
      /\ \A q \in Slot : at[q] \in {"swapget", "swapio"} => R[q].stat \notin {"SSLEEP", "SWAIT"}
      /\ at[0] = "runout" /\ R[0].stat = "SSLEEP" =>
           \A q \in Slot : R[q].stat = "SRUN" /\ ~R[q].load => proc[q].stat = "SRUN"
  BY WakeupIs DEF Table
<1>2. proc' = R /\ UNCHANGED <<at, job, hand, maps, rawbuf, mpid, rest, todo>>
  BY DEF SwapIntr
<1> HIDE DEF R
<1>3. swbuf' \in Header /\ swbuf'.busy = swbuf.busy /\ swbuf'.by = swbuf.by
  BY DEF SwapIntr, Table, Types, Header
<1>4. Types'
  BY <1>1, <1>2, <1>3 DEF Table, Types, maps, rest
<1>5. Headers'
  BY <1>2, <1>3 DEF Table, Headers
<1>6. \A q \in Slot : BufWake(q)'
  BY <1>1, <1>2 DEF Table, BufWake, Woken
<1> QED
  BY <1>1, <1>2, <1>4, <1>5, <1>6, InterruptStep DEF SameButStat

\* The end of a raw transfer.
LEMMA RawIntrStep ==
    ASSUME Table, RawIntr
    PROVE  Table'
<1> DEFINE R == Wakeup(proc, {"rawget", "rawio"})
<1>1. /\ R \in [Slot -> Row]
      /\ \A q \in Slot : SameButStat(R[q], proc[q]) /\ Woken(R[q], proc[q])
      /\ \A q \in Slot : at[q] \in {"rawget", "rawio"} => R[q].stat \notin {"SSLEEP", "SWAIT"}
      /\ at[0] = "runout" /\ R[0].stat = "SSLEEP" =>
           \A q \in Slot : R[q].stat = "SRUN" /\ ~R[q].load => proc[q].stat = "SRUN"
  BY WakeupIs DEF Table
<1>2. proc' = R /\ UNCHANGED <<at, job, hand, maps, swbuf, mpid, rest, todo>>
  BY DEF RawIntr
<1> HIDE DEF R
<1>3. rawbuf' \in Header /\ rawbuf'.busy = rawbuf.busy /\ rawbuf'.by = rawbuf.by
  BY DEF RawIntr, Table, Types, Header
<1>4. Types'
  BY <1>1, <1>2, <1>3 DEF Table, Types, maps, rest
<1>5. Headers'
  BY <1>2, <1>3 DEF Table, Headers
<1>6. \A q \in Slot : BufWake(q)'
  BY <1>1, <1>2 DEF Table, BufWake, Woken
<1> QED
  BY <1>1, <1>2, <1>4, <1>5, <1>6, InterruptStep DEF SameButStat

\* The end of a block's transfer.
LEMMA BioIntrStep ==
    ASSUME Table, NEW p \in Slot, BioIntr(p)
    PROVE  Table'
<1> DEFINE R == SetRun(proc, {p})
<1>1. /\ R \in [Slot -> Row]
      /\ \A q \in Slot : SameButStat(R[q], proc[q]) /\ R[q].stat \in {proc[q].stat, "SRUN"}
      /\ R[p].stat = "SRUN"
      /\ \A q \in Slot \ {p} : q # 0 \/ at[0] # "runout" => R[q] = proc[q]
      /\ at[0] = "runout" /\ ~proc[p].load => R[0].stat = "SRUN"
  <2>1. proc \in [Slot -> Row] /\ {p} \in SUBSET Slot
    BY DEF Table, Types
  <2> QED
    BY <2>1, SetRunIs DEF Table
<1>2. /\ proc' = R /\ UNCHANGED <<at, job, hand, maps, core, bufs, mpid, rest, todo>>
      /\ proc[p].stat = "SSLEEP" /\ at[p] \in {"exitio", "waitio", "psread"}
  BY DEF BioIntr
<1> HIDE DEF R
<1>3. Types'
  BY <1>1, <1>2 DEF Table, Types, maps, rest, bufs
<1>4. \A q \in Slot : Woken(proc'[q], proc[q])
  BY <1>1, <1>2 DEF Woken, Table, Founders
<1>5. ASSUME at[0] = "runout", proc'[0].stat = "SSLEEP", NEW q \in Slot, proc'[q].stat = "SRUN", ~proc'[q].load
      PROVE  proc[q].stat = "SRUN"
  <2>1. q # p /\ q # 0
    BY <1>1, <1>2, <1>5 DEF SameButStat
  <2> QED
    BY <1>1, <1>2, <1>5, <2>1
<1>6. Headers' /\ \A q \in Slot : BufWake(q)'
  <2>1. OthersStay(p)
    BY <1>2, <1>4 DEF OthersStay
  <2> QED
    BY <1>2, <2>1, NoBuffer
<1> QED
  BY <1>1, <1>2, <1>3, <1>4, <1>5, <1>6, InterruptStep DEF SameButStat

\* The rank that Clock gives to a time stays in its range.
LEMMA RankType ==
    ASSUME NEW P \in [Slot -> Row], NEW T \in SUBSET (Slot \ {0}), NEW t \in 0 .. 3 + NPROC
    PROVE  (IF t < 3 THEN t + 1 ELSE 4 + Cardinality({P[q].time : q \in T} \cap 3 .. t - 1)) \in 0 .. 3 + NPROC
<1>1. NPROC \in Nat /\ NPROC > 1
  BY ProcsAssumption
<1> DEFINE f == [q \in T |-> P[q].time]
           V == {f[q] : q \in T}
<1>2. f \in [T -> Nat] /\ T \in SUBSET Slot
  BY <1>1 DEF Row
<1>3. {P[q].time : q \in T} = V
  OBVIOUS
<1> HIDE DEF f
<1>4. IsFiniteSet(T) /\ IsFiniteSet(V) /\ Cardinality(T) \in Nat /\ Cardinality(V) \in Nat
      /\ Cardinality(V) <= Cardinality(T)
  BY <1>2, ValuesBound
<1> HIDE DEF V
<1>5. Cardinality(V \cap 3 .. t - 1) \in Nat /\ Cardinality(V \cap 3 .. t - 1) <= Cardinality(V)
  BY <1>4, FS_Intersection, FS_CardinalityType
<1>6. IsFiniteSet(Slot \ {0}) /\ Cardinality(Slot \ {0}) = NPROC - 1
  BY SlotIs, FS_RemoveElement
<1>7. Cardinality(T) <= NPROC - 1
  BY <1>6, FS_Subset
<1>8. 4 + Cardinality(V \cap 3 .. t - 1) \in 0 .. 3 + NPROC
  BY <1>1, <1>4, <1>5, <1>7
<1>9. {P[q].time : q \in T} \cap 3 .. t - 1 = V \cap 3 .. t - 1
  BY <1>3
<1>10. t < 3 => t + 1 \in 0 .. 3 + NPROC
  BY <1>1
<1> QED
  BY <1>8, <1>9, <1>10, Zenon

\* The clock's tick.
LEMMA ClockStep ==
    ASSUME Table, Clock
    PROVE  Table'
<1> DEFINE R == Wakeup(proc, {"runin"})
           T == {q \in Slot \ {0} : R[q].stat \notin {Null, "SZOMB"}}
           rank(t) == IF t < 3 THEN t + 1
                      ELSE 4 + Cardinality({R[q].time : q \in T} \cap 3 .. t - 1)
<1>1. /\ R \in [Slot -> Row]
      /\ \A q \in Slot : SameButStat(R[q], proc[q]) /\ Woken(R[q], proc[q])
      /\ at[0] = "runout" /\ R[0].stat = "SSLEEP" =>
           \A q \in Slot : R[q].stat = "SRUN" /\ ~R[q].load => proc[q].stat = "SRUN"
  BY WakeupIs DEF Table
<1>2. /\ proc' = [q \in Slot |-> IF q \in T THEN [R[q] EXCEPT !.time = rank(@)] ELSE R[q]]
      /\ UNCHANGED <<at, job, hand, maps, memory, bufs, mpid, rest, todo>>
  BY DEF Clock
<1> HIDE DEF R
<1>3. \A q \in Slot : rank(R[q].time) \in 0 .. 3 + NPROC
  <2>1. T \in SUBSET (Slot \ {0}) /\ \A q \in Slot : R[q].time \in 0 .. 3 + NPROC
    BY <1>1 DEF Row
  <2> HIDE DEF T
  <2> QED
    BY <1>1, <2>1, RankType
<1> HIDE DEF T, rank
<1>4. \A q \in Slot : /\ proc'[q] \in Row /\ proc'[q].stat = R[q].stat /\ proc'[q].load = R[q].load
                      /\ proc'[q].pid = R[q].pid /\ proc'[q].ppid = R[q].ppid /\ proc'[q].sig = R[q].sig
  BY <1>1, <1>2, <1>3 DEF Row
<1>5. proc' \in [Slot -> Row]
  BY <1>2, <1>4
<1>6. Types'
  BY <1>2, <1>5 DEF Table, Types, maps, rest, bufs
<1>7. \A q \in Slot : Woken(proc'[q], proc[q])
  BY <1>1, <1>4 DEF Woken
<1>8. Headers' /\ \A q \in Slot : BufWake(q)'
  <2>1. OthersStay(0)
    BY <1>2, <1>7 DEF OthersStay
  <2> QED
    BY <1>2, <1>7, <2>1, NoBuffer, SlotIs
<1> QED
  BY <1>1, <1>2, <1>4, <1>6, <1>7, <1>8, SlotIs, InterruptStep DEF SameButStat

\* A step of the scheduler: it goes where it sleeps or goes round.
LEMMA SchedulerStep ==
    ASSUME Table, Types',
           \A q \in Slot \ {0} : at'[q] = at[q] /\ job'[q] = job[q],
           \A q \in Slot : /\ Woken(proc'[q], proc[q]) \/ q = 0
                           /\ proc'[q].pid = proc[q].pid /\ proc'[q].ppid = proc[q].ppid
                           /\ proc'[q].sig = proc[q].sig,
           proc'[0].load, proc'[0].stat \in {"SRUN", "SSLEEP"},
           at'[0] \in {"loop", "runin", "runout", "swapget", "swapio"}, job'[0].kind # "copy",
           UNCHANGED todo, Headers', SchedWake', \A q \in Slot : BufWake(q)'
    PROVE  Table'
<1>0. 0 \in Slot /\ 1 \in Slot
  BY SlotIs
<1>1. OthersStay(0) /\ SameFamily
  BY DEF OthersStay, SameFamily
<1>2. CollectInv(0)' /\ WaitWake(0)' /\ (InCopy(0)' <=> job'[0].kind = "copy")
      /\ (InCopy(0)' => InCopy(0) /\ job'[0].pid = job[0].pid)
  BY DEF CollectInv, WaitWake, InCopy
<1>3. proc'[1].sig = "none" /\ todo'[1] \subseteq todo[1]
  BY <1>0 DEF Table, Founders
<1>4. proc[0].stat \notin {Null, "SZOMB", "SIDL"} /\ at'[0] \notin {"free", "dead"}
  BY DEF Null, Table, Founders
<1>5. 0 = 0 <=> at'[0] \in {"loop", "runin", "runout"} \/ (0 = 0 /\ at'[0] \in {"swapget", "swapio"})
  OBVIOUS
<1> QED
  BY <1>0, <1>1, <1>2, <1>3, <1>4, <1>5, OneMoves

\* It sleeps on runin, or on runout if nobody is to be swapped in.
LEMMA SchedSleepStep ==
    ASSUME Table, NEW on \in {"runin", "runout"}, SchedSleep(on), on = "runout" => Ready = {}, at[0] # "swapio",
           job[0].kind # "copy", UNCHANGED <<hand, memory, rawbuf, mpid, rest, todo>>
    PROVE  Table'
<1>0. 0 \in Slot
  BY SlotIs
<1>1. /\ proc' \in [Slot -> Row] /\ proc'[0].stat = "SSLEEP"
      /\ \A q \in Slot : SameButStat(proc'[q], proc[q]) /\ (q # 0 => proc'[q] = proc[q])
  BY <1>0, SleepIs DEF Table, SchedSleep
<1>2. at' \in [Slot -> Places] /\ at'[0] = on /\ \A q \in Slot \ {0} : at'[q] = at[q]
  BY <1>0 DEF SchedSleep, Table, Types, Places
<1>3. UNCHANGED <<job, maps, swbuf, hand, memory, rawbuf, mpid, rest, todo>>
  BY DEF SchedSleep
<1>4. Types'
  BY <1>1, <1>2, <1>3 DEF Table, Types, maps, rest
<1>5. Headers' /\ \A q \in Slot : BufWake(q)'
  <2>1. OthersStay(0)
    BY <1>1, <1>2, <1>3 DEF OthersStay, Woken
  <2> QED
    BY <1>0, <1>2, <1>3, <2>1, NoBuffer DEF bufs
<1>6. SchedWake'
  <2>1. ASSUME NEW q \in Slot, on = "runout" PROVE ~(proc'[q].stat = "SRUN" /\ ~proc'[q].load)
    <3>1. ~(proc[q].stat = "SRUN" /\ ~proc[q].load)
      BY <2>1 DEF Ready
    <3>2. q = 0 => proc'[q].load
      BY <1>1 DEF SameButStat, Table, Founders
    <3> QED
      BY <1>1, <3>1, <3>2
  <2> QED
    BY <1>2, <2>1 DEF SchedWake, Ready
<1>7. proc'[0].load /\ \A q \in Slot : /\ Woken(proc'[q], proc[q]) \/ q = 0
                                       /\ proc'[q].pid = proc[q].pid /\ proc'[q].ppid = proc[q].ppid
                                       /\ proc'[q].sig = proc[q].sig
  BY <1>0, <1>1 DEF SameButStat, Woken, Table, Founders
<1> QED
  BY <1>1, <1>2, <1>3, <1>4, <1>5, <1>6, <1>7, SchedulerStep

\* It takes the buffer for a transfer of P's slot.
LEMMA SchedSwapStep ==
    ASSUME Table, NEW P \in [Slot -> Row], proc' = Sleep(P, 0), GetSwbuf(0),
           \A q \in Slot : /\ P[q].stat = proc[q].stat /\ P[q].pid = proc[q].pid /\ P[q].ppid = proc[q].ppid
                           /\ P[q].sig = proc[q].sig,
           P[0].load, NEW j \in Job, j.kind # "copy", job' = [job EXCEPT ![0] = j],
           coremap' \in Seq(Entries), swapmap' \in Seq(Entries),
           UNCHANGED <<hand, memory, rawbuf, mpid, rest, todo>>
    PROVE  Table'
<1>0. 0 \in Slot
  BY SlotIs
<1>1. /\ proc' \in [Slot -> Row] /\ proc'[0].stat = "SSLEEP"
      /\ \A q \in Slot : SameButStat(proc'[q], P[q]) /\ (q # 0 => proc'[q] = P[q])
  <2>1. "SSLEEP" \in Stats
    BY DEF Stats
  <2> QED
    BY <1>0, <2>1, StatExcept DEF Sleep
<1>2. /\ at' \in [Slot -> Places] /\ swbuf' \in Header
      /\ at'[0] \in {"swapget", "swapio"} /\ \A q \in Slot \ {0} : at'[q] = at[q]
  BY <1>0, GetSwbufType DEF Table
<1>3. job' \in [Slot -> Job] /\ job'[0] = j /\ \A q \in Slot \ {0} : job'[q] = job[q]
  BY <1>0 DEF Table, Types
<1>4. Types'
  BY <1>1, <1>2, <1>3 DEF Table, Types, rest
<1>5. \A q \in Slot : /\ Woken(proc'[q], proc[q]) \/ q = 0
                      /\ proc'[q].pid = proc[q].pid /\ proc'[q].ppid = proc[q].ppid
                      /\ proc'[q].sig = proc[q].sig
  BY <1>1 DEF SameButStat, Woken
<1>6. OthersStay(0)
  BY <1>2, <1>3, <1>5 DEF OthersStay
<1>7. Headers' /\ \A q \in Slot : BufWake(q)'
  BY <1>0, <1>6, TakesSwbuf DEF OthersStay, Woken
<1>8. SchedWake'
  BY <1>2 DEF SchedWake
<1>9. proc'[0].load
  BY <1>0, <1>1 DEF SameButStat
<1> QED
  BY <1>1, <1>2, <1>3, <1>4, <1>5, <1>7, <1>8, <1>9, SchedulerStep

\* It finds room on the swap device for p, or sleeps.
LEMMA SwapOutStep ==
    ASSUME Table, NEW p \in Slot \ {0}, SwapOut(p), at[0] # "swapio", job[0].kind # "copy",
           UNCHANGED <<hand, memory, rawbuf, mpid, rest, todo>>
    PROVE  Table'
<1> DEFINE m == Malloc(swapmap, ImageSwap)
<1>0. m.addr \in Nat /\ m.map \in Seq(Entries) /\ coremap \in Seq(Entries)
  BY MallocType, ProcsAssumption DEF Table, Types
<1> HIDE DEF m
<1>1. CASE m.addr = 0
  <2>1. SchedSleep("runin")
    BY <1>1 DEF SwapOut, m
  <2> QED
    BY <2>1, SchedSleepStep
<1>2. CASE m.addr # 0
  <2> DEFINE P == [proc EXCEPT ![p].load = FALSE, ![p].lock = TRUE]
             j == [NoJob EXCEPT !.kind = "out", !.who = p, !.a = m.addr]
  <2>1. /\ swapmap' = m.map /\ UNCHANGED coremap /\ job' = [job EXCEPT ![0] = j]
        /\ proc' = Sleep(P, 0) /\ GetSwbuf(0)
    BY <1>2 DEF SwapOut, m
  <2>2. P \in [Slot -> Row] /\ \A q \in Slot : /\ P[q].stat = proc[q].stat /\ P[q].pid = proc[q].pid
                                               /\ P[q].ppid = proc[q].ppid /\ P[q].sig = proc[q].sig
    <3>1. P[p] = [proc[p] EXCEPT !.load = FALSE, !.lock = TRUE] /\ \A q \in Slot : q # p => P[q] = proc[q]
      BY DEF Table, Types
    <3>2. proc \in [Slot -> Row]
      BY DEF Table, Types
    <3>3. P[p] \in Row /\ P[p].stat = proc[p].stat /\ P[p].pid = proc[p].pid
          /\ P[p].ppid = proc[p].ppid /\ P[p].sig = proc[p].sig
      <4>1. proc[p] \in Row
        BY <3>2
      <4> HIDE DEF P
      <4> QED
        BY <3>1, <4>1, MovingOut
    <3>4. P \in [Slot -> Row]
      BY <3>1, <3>2, <3>3
    <3> QED
      BY <3>1, <3>3, <3>4
  <2>3. P[0].load
    BY SlotIs DEF Table, Founders, Types
  <2>4. j \in Job /\ j.kind # "copy"
    BY <1>0, SwapJob
  <2> HIDE DEF P, j
  <2> QED
    BY <1>0, <2>1, <2>2, <2>3, <2>4, SchedSwapStep
<1> QED
  BY <1>1, <1>2

\* sched, from a wakeup to the next sleep.
LEMMA SchedStep ==
    ASSUME Table, Sched
    PROVE  Table'
<1>0. 0 \in Slot
  BY SlotIs
<1>1. at[0] \in {"loop", "runin", "runout"} /\ UNCHANGED <<hand, memory, rawbuf, mpid, rest, todo>>
  BY DEF Sched
<1>2. job[0].kind # "copy" /\ at[0] # "swapio"
  BY <1>0, <1>1 DEF Table, CopyInv, InCopy
<1>3. CASE Ready = {} /\ SchedSleep("runout")
  BY <1>1, <1>2, <1>3, SchedSleepStep
<1>4. CASE Ready # {}
  <2> DEFINE p == Oldest(Ready)
             m == Malloc(coremap, 1)
             deserving == proc[p].time >= 3 /\ (\E q \in Older : proc[q].time >= 2)
  <2>1. \/ m.addr # 0 /\ SwapIn(p, m)
        \/ m.addr = 0 /\ Easy # {} /\ SwapOut(Min(Easy))
        \/ m.addr = 0 /\ Easy = {} /\ ~deserving /\ SchedSleep("runin")
        \/ m.addr = 0 /\ Easy = {} /\ deserving /\ SwapOut(Oldest(Older))
    BY <1>4 DEF Sched
  <2>2. m.addr \in Nat /\ m.map \in Seq(Entries) /\ swapmap \in Seq(Entries)
    BY MallocType DEF Table, Types
  <2>3. p \in Slot
    <3>1. Ready \in SUBSET Slot
      BY DEF Ready
    <3>2. Types
      BY DEF Table
    <3> QED
      BY <1>4, <3>1, <3>2, OldestIs
  <2> HIDE DEF p, m
  <2>4. CASE SwapIn(p, m)
    <3> DEFINE j == [NoJob EXCEPT !.kind = "in", !.who = p, !.a = m.addr]
    <3>1. /\ coremap' = m.map /\ UNCHANGED swapmap /\ job' = [job EXCEPT ![0] = j]
          /\ proc' = Sleep(proc, 0) /\ GetSwbuf(0)
      BY <2>4 DEF SwapIn
    <3>2. j \in Job /\ j.kind # "copy"
      BY <2>2, <2>3, SwapJob
    <3>3. proc \in [Slot -> Row] /\ proc[0].load
      BY DEF Table, Types, Founders
    <3> HIDE DEF j
    <3> QED
      BY <1>1, <2>2, <3>1, <3>2, <3>3, SchedSwapStep
  <2>5. CASE Easy # {} /\ SwapOut(Min(Easy))
    <3>1. Easy \in SUBSET Slot /\ Easy \subseteq Slot \ {0}
      BY DEF Easy
    <3>2. Min(Easy) \in Slot \ {0}
      BY <2>5, <3>1, MinOfSlots
    <3> QED
      BY <1>1, <1>2, <2>5, <3>2, SwapOutStep
  <2>6. CASE SchedSleep("runin")
    BY <1>1, <1>2, <2>6, SchedSleepStep
  <2>7. CASE deserving /\ SwapOut(Oldest(Older))
    <3>1. Older \in SUBSET Slot /\ Older \subseteq Slot \ {0} /\ Older # {}
      BY <2>7 DEF Older
    <3>2. Oldest(Older) \in Slot \ {0}
      <4>1. Types
        BY DEF Table
      <4> QED
        BY <3>1, <4>1, OldestIs
    <3> QED
      BY <1>1, <1>2, <2>7, <3>2, SwapOutStep
  <2> QED
    BY <2>1, <2>4, <2>5, <2>6, <2>7
<1> QED
  BY <1>3, <1>4 DEF Sched

\* The buffer is given back, and those who wait for it are woken.
LEMMA FreesSwbuf ==
    ASSUME Table, NEW t \in Slot, at[t] = "swapio", swbuf' = Idle, UNCHANGED rawbuf,
           at'[t] \notin {"swapget", "swapio", "rawget", "rawio"},
           \A q \in Slot \ {t} : /\ at'[q] = at[q] \/ at'[q] \in {"user", "psig"}
                                 /\ at[q] = "swapget" => proc'[q].stat # "SSLEEP"
                                 /\ proc'[q].stat = "SSLEEP" => proc[q].stat = "SSLEEP"
    PROVE  Headers' /\ \A q \in Slot : BufWake(q)'
<1>1. \A q \in Slot \ {t} : at[q] # "swapio"
  BY DEF Table, Headers
<1>2. Headers'
  BY <1>1 DEF Table, Headers
<1>3. \A q \in Slot : BufWake(q)'
  BY <1>1 DEF Table, BufWake
<1> QED
  BY <1>2, <1>3

\* The image is there, or it is out: the scheduler goes on.
LEMMA SwapEndMoves ==
    ASSUME Table, NEW places, "swapget" \in places, SwapDone(0), at' = [at EXCEPT ![0] = "loop"],
           coremap' \in Seq(Entries), swapmap' \in Seq(Entries), NEW p \in Slot, NEW a \in Nat,
           LET R == Wakeup(proc, places)
           IN  \/ proc' = [R EXCEPT ![p].addr = a, ![p].load = TRUE, ![p].time = 0]
               \/ proc' = [R EXCEPT ![p].addr = a, ![p].lock = FALSE, ![p].time = 0],
           UNCHANGED <<hand, rawbuf, mpid, rest, todo>>
    PROVE  Table'
<1>0. 0 \in Slot /\ 0 \in 0 .. 3 + NPROC
  BY SlotIs, ProcsAssumption
<1> DEFINE R == Wakeup(proc, places)
<1>1. at[0] = "swapio" /\ swbuf' = Idle /\ job' = [job EXCEPT ![0] = NoJob]
  BY DEF SwapDone
<1>2. /\ R \in [Slot -> Row]
      /\ \A q \in Slot : SameButStat(R[q], proc[q]) /\ Woken(R[q], proc[q])
      /\ \A q \in Slot : at[q] \in places => R[q].stat \notin {"SSLEEP", "SWAIT"}
  BY WakeupIs DEF Table
<1>3. \/ proc' = [R EXCEPT ![p].addr = a, ![p].load = TRUE, ![p].time = 0]
      \/ proc' = [R EXCEPT ![p].addr = a, ![p].lock = FALSE, ![p].time = 0]
  OBVIOUS
<1> HIDE DEF R
<1>4. /\ \/ proc'[p] = [R[p] EXCEPT !.addr = a, !.load = TRUE, !.time = 0]
         \/ proc'[p] = [R[p] EXCEPT !.addr = a, !.lock = FALSE, !.time = 0]
      /\ \A q \in Slot : q # p => proc'[q] = R[q]
      /\ proc' = [q \in Slot |-> proc'[q]]
  BY <1>2, <1>3
<1>5. \A q \in Slot : /\ proc'[q] \in Row /\ proc'[q].stat = R[q].stat /\ proc'[q].pid = R[q].pid
                      /\ proc'[q].ppid = R[q].ppid /\ proc'[q].sig = R[q].sig
                      /\ R[q].load => proc'[q].load
  <2>1. R[p] \in Row
    BY <1>2
  <2>2. /\ proc'[p] \in Row /\ proc'[p].stat = R[p].stat /\ proc'[p].pid = R[p].pid
        /\ proc'[p].ppid = R[p].ppid /\ proc'[p].sig = R[p].sig /\ (R[p].load => proc'[p].load)
    <3>1. CASE proc'[p] = [R[p] EXCEPT !.addr = a, !.load = TRUE, !.time = 0]
      <4>1. PICK e \in Row : e = R[p]
        BY <2>1
      <4>2. PICK f : f = proc'[p]
        OBVIOUS
      <4>3. f = [e EXCEPT !.addr = a, !.load = TRUE, !.time = 0]
        BY <3>1, <4>1, <4>2
      <4>4. f \in Row /\ f.stat = e.stat /\ f.pid = e.pid /\ f.ppid = e.ppid /\ f.sig = e.sig /\ f.load
        BY <1>0, <4>3 DEF Row
      <4> QED
        BY <4>1, <4>2, <4>4
    <3>2. CASE proc'[p] = [R[p] EXCEPT !.addr = a, !.lock = FALSE, !.time = 0]
      <4>1. PICK e \in Row : e = R[p]
        BY <2>1
      <4>2. PICK f : f = proc'[p]
        OBVIOUS
      <4>3. f = [e EXCEPT !.addr = a, !.lock = FALSE, !.time = 0]
        BY <3>2, <4>1, <4>2
      <4>4. f \in Row /\ f.stat = e.stat /\ f.pid = e.pid /\ f.ppid = e.ppid /\ f.sig = e.sig
            /\ (e.load => f.load)
        BY <1>0, <4>3 DEF Row
      <4> QED
        BY <4>1, <4>2, <4>4
    <3> QED
      BY <1>4, <3>1, <3>2
  <2> QED
    BY <1>2, <1>4, <2>2
<1>6. proc' \in [Slot -> Row]
  BY <1>4, <1>5
<1>7. /\ job' \in [Slot -> Job] /\ job'[0].kind = "none" /\ \A q \in Slot \ {0} : job'[q] = job[q]
      /\ at' \in [Slot -> Places] /\ at'[0] = "loop" /\ \A q \in Slot \ {0} : at'[q] = at[q]
      /\ swbuf' \in Header
  <2>1. NoJob.kind = "none"
    BY DEF NoJob
  <2> QED
    BY <1>0, <1>1, <2>1, NoJobType DEF Table, Types, Places, Header, Idle
<1>8. Types'
  BY <1>1, <1>6, <1>7 DEF Table, Types, rest
<1>9. \A q \in Slot : /\ Woken(proc'[q], proc[q])
                      /\ proc'[q].pid = proc[q].pid /\ proc'[q].ppid = proc[q].ppid
                      /\ proc'[q].sig = proc[q].sig
  BY <1>2, <1>5 DEF SameButStat, Woken
<1>10. \A q \in Slot : /\ at[q] = "swapget" => proc'[q].stat # "SSLEEP"
                       /\ proc'[q].stat = "SSLEEP" => proc[q].stat = "SSLEEP"
  BY <1>2, <1>5, <1>9 DEF Woken
<1>11. Headers' /\ \A q \in Slot : BufWake(q)'
  BY <1>0, <1>1, <1>7, <1>10, FreesSwbuf
<1>12. SchedWake'
  BY <1>7 DEF SchedWake
<1>13. proc'[0].load /\ proc'[0].stat \in {"SRUN", "SSLEEP"}
  BY <1>0, <1>2, <1>5, <1>9 DEF SameButStat, Woken, Table, Founders
<1> QED
  BY <1>7, <1>8, <1>9, <1>11, <1>12, <1>13, SchedulerStep

LEMMA SwapEndStep ==
    ASSUME Table, SwapInEnd \/ SwapOutEnd
    PROVE  Table'
<1>0. 0 \in Slot
  BY SlotIs
<1>1. PICK p \in Slot : p = job[0].who
  BY <1>0 DEF Table, Types, Job
<1>2. PICK a \in Nat : a = job[0].a
  BY <1>0 DEF Table, Types, Job
<1>3. proc[p].addr \in Nat /\ coremap \in Seq(Entries) /\ swapmap \in Seq(Entries)
  BY DEF Table, Types, Row
<1>4. CASE SwapInEnd
  <2>1. /\ SwapDone(0) /\ at' = [at EXCEPT ![0] = "loop"] /\ UNCHANGED <<hand, rawbuf, mpid, rest, todo>>
        /\ coremap' = coremap /\ swapmap' = Mfree(swapmap, ImageSwap, proc[p].addr)
        /\ proc' = [Wakeup(proc, {"swapget", "swapmap"}) EXCEPT ![p].addr = a, ![p].load = TRUE, ![p].time = 0]
    BY <1>1, <1>2, <1>4 DEF SwapInEnd
  <2>2. swapmap' \in Seq(Entries)
    BY <1>3, <2>1, MfreeType, ProcsAssumption
  <2> QED
    BY <1>3, <2>1, <2>2, SwapEndMoves
<1>5. CASE SwapOutEnd
  <2>1. /\ SwapDone(0) /\ at' = [at EXCEPT ![0] = "loop"] /\ UNCHANGED <<hand, rawbuf, mpid, rest, todo>>
        /\ swapmap' = swapmap /\ coremap' = Mfree(coremap, 1, proc[p].addr)
        /\ proc' = [Wakeup(proc, {"swapget"}) EXCEPT ![p].addr = a, ![p].lock = FALSE, ![p].time = 0]
    BY <1>1, <1>2, <1>5 DEF SwapOutEnd
  <2>2. coremap' \in Seq(Entries)
    BY <1>3, <2>1, MfreeType
  <2> QED
    BY <1>3, <2>1, <2>2, SwapEndMoves
<1> QED
  BY <1>4, <1>5

-----------------------------------------------------------------------------
(* Calls. *)

\* A step of a call that holds no buffer of swap or physio.
LEMMA CallStep ==
    ASSUME Table, Types', NEW p \in Slot, proc[p].stat = "SRUN",
           at[p] \in {"user", "psig", "exitio", "wait", "waitio", "psread"},
           at'[p] \in {"user", "psig", "exitio", "wait", "waitio", "psread"},
           p = 1 => at'[p] # "exitio",
           OthersStay(p), SameFamily, UNCHANGED bufs,
           \A q \in Slot : proc'[q].load = proc[q].load,
           at[0] = "runout" /\ proc'[0].stat = "SSLEEP" =>
             \A q \in Slot : proc'[q].stat = "SRUN" /\ ~proc'[q].load => proc[q].stat = "SRUN",
           proc'[p].stat \in {"SRUN", "SSLEEP"} \/ (proc'[p].stat = "SWAIT" /\ at'[p] = "wait"),
           proc'[1].sig = "none", todo'[1] \subseteq todo[1],
           job'[p] = job[p] \/ job'[p].kind # "copy", CollectInv(p)', WaitWake(p)'
    PROVE  Table'
<1>0. 0 \in Slot /\ 1 \in Slot
  BY SlotIs
<1>1. p # 0 /\ job'[p].kind # "copy"
  BY <1>0 DEF Table, PlaceInv, CopyInv, InCopy
<1>2. Headers' /\ \A q \in Slot : BufWake(q)'
  BY NoBuffer
<1>3. SchedWake'
  <2>1. at'[0] = at[0] /\ Woken(proc'[0], proc[0])
    BY <1>0, <1>1 DEF OthersStay
  <2> QED
    BY <2>1, NobodyReady
<1>4. (InCopy(p)' <=> job'[p].kind = "copy") /\ (InCopy(p)' => InCopy(p) /\ job'[p].pid = job[p].pid)
  BY <1>1 DEF InCopy
<1>5. proc[p].stat \notin {Null, "SZOMB", "SIDL"} /\ at'[p] \notin {"free", "dead"}
  BY DEF Null
<1>6. p = 0 <=> at'[p] \in {"loop", "runin", "runout"} \/ (p = 0 /\ at'[p] \in {"swapget", "swapio"})
  BY <1>1
<1>7. proc'[0].load
  BY <1>0 DEF Table, Founders
<1> QED
  BY <1>1, <1>2, <1>3, <1>4, <1>5, <1>6, <1>7, OneMoves

LEMMA BackIs ==
    ASSUME NEW P, NEW p
    PROVE  Back(P, p) \in {"user", "psig"}
BY DEF Back

\* A call returns at once.
LEMMA ReturnStep ==
    ASSUME Table, NEW p \in Slot, Run(p), at[p] \in {"user", "wait", "psread"}, NEW x \in {"user", "psig"},
           at' = [at EXCEPT ![p] = x], UNCHANGED <<proc, coremap, swapmap, bufs, mpid, panic>>,
           hand' \in [Slot -> {"dfl", "ign", "fun"}], psok' \in BOOLEAN,
           job' = job \/ job' = [job EXCEPT ![p] = NoJob],
           todo' \in [Slot -> SUBSET Calls], todo'[1] \subseteq todo[1]
    PROVE  Table'
<1>1. at' \in [Slot -> Places] /\ at'[p] = x /\ \A q \in Slot \ {p} : at'[q] = at[q]
  BY DEF Table, Types, Places
<1>2. job' \in [Slot -> Job] /\ (job'[p] = job[p] \/ job'[p].kind # "copy")
      /\ \A q \in Slot \ {p} : job'[q] = job[q]
  <2>1. NoJob.kind = "none"
    BY DEF NoJob
  <2> QED
    BY <2>1, NoJobType DEF Table, Types
<1>3. Types'
  BY <1>1, <1>2 DEF Table, Types, bufs
<1>4. OthersStay(p) /\ SameFamily
  BY <1>1, <1>2 DEF OthersStay, SameFamily, Woken
<1>5. CollectInv(p)' /\ WaitWake(p)'
  BY <1>1 DEF CollectInv, WaitWake
<1>6. proc[p].stat = "SRUN" /\ proc[1].sig = "none"
  BY DEF Run, Table, Founders
<1> QED
  BY <1>1, <1>2, <1>3, <1>4, <1>5, <1>6, CallStep

\* A call sleeps at a place where an interrupt wakes it.
LEMMA SleepStep ==
    ASSUME Table, NEW p \in Slot, Run(p), at[p] \in {"user", "psig", "wait", "psread"},
           NEW P \in [Slot -> Row], proc' = Sleep(P, p),
           \A q \in Slot : /\ P[q].stat = proc[q].stat /\ P[q].pid = proc[q].pid /\ P[q].ppid = proc[q].ppid
                           /\ P[q].load = proc[q].load,
           P[1].sig = "none",
           NEW x \in {"exitio", "waitio", "psread"}, at' = [at EXCEPT ![p] = x], p = 1 => x # "exitio",
           NEW j \in Job, j.kind # "copy", job' = [job EXCEPT ![p] = j],
           x = "waitio" => proc[j.who].stat = "SZOMB" /\ proc[j.who].ppid = proc[p].pid,
           coremap' \in Seq(Entries), swapmap' \in Seq(Entries), panic' \in BOOLEAN, psok' \in BOOLEAN,
           hand' \in [Slot -> {"dfl", "ign", "fun"}], UNCHANGED <<bufs, mpid>>,
           todo' \in [Slot -> SUBSET Calls], todo'[1] \subseteq todo[1]
    PROVE  Table'
<1>0. 1 \in Slot /\ proc[p].stat = "SRUN"
  BY SlotIs DEF Run
<1>1. /\ proc' \in [Slot -> Row] /\ proc'[p].stat = "SSLEEP"
      /\ \A q \in Slot : SameButStat(proc'[q], P[q]) /\ (q # p => proc'[q] = P[q])
  BY SleepOf
<1>2. at' \in [Slot -> Places] /\ at'[p] = x /\ \A q \in Slot \ {p} : at'[q] = at[q]
  BY DEF Table, Types, Places
<1>3. job' \in [Slot -> Job] /\ job'[p] = j /\ \A q \in Slot \ {p} : job'[q] = job[q]
  BY DEF Table, Types
<1>4. Types'
  BY <1>1, <1>2, <1>3 DEF Table, Types, bufs
<1>5. OthersStay(p) /\ SameFamily
  BY <1>1, <1>2, <1>3 DEF OthersStay, SameFamily, SameButStat, Woken
<1>6. WaitWake(p)'
  BY <1>2 DEF WaitWake
<1>7. CollectInv(p)'
  <2>1. PICK w \in Slot : w = j.who
    BY DEF Job
  <2>2. x = "waitio" => proc[w].stat = "SZOMB" /\ proc[w].ppid = proc[p].pid
    BY <2>1
  <2>3. x = "waitio" => proc'[w].stat = "SZOMB" /\ proc'[w].ppid = proc'[p].pid
    BY <1>0, <1>1, <2>2 DEF SameButStat
  <2> QED
    BY <1>2, <1>3, <2>1, <2>3 DEF CollectInv
<1>8. \A q \in Slot : /\ proc'[q].load = proc[q].load
                      /\ proc'[q].stat = "SRUN" /\ ~proc'[q].load => proc[q].stat = "SRUN"
  <2>1. \A q \in Slot : proc'[q].load = proc[q].load
    BY <1>1 DEF SameButStat
  <2>2. \A q \in Slot : proc'[q].stat = "SRUN" => proc[q].stat = "SRUN"
    BY <1>0, <1>1
  <2> QED
    BY <2>1, <2>2
<1>9. proc'[1].sig = "none"
  BY <1>0, <1>1 DEF SameButStat
<1>10. /\ at[p] \in {"user", "psig", "exitio", "wait", "waitio", "psread"}
       /\ at'[p] \in {"user", "psig", "exitio", "wait", "waitio", "psread"} /\ (p = 1 => at'[p] # "exitio")
       /\ proc'[p].stat \in {"SRUN", "SSLEEP"} \/ (proc'[p].stat = "SWAIT" /\ at'[p] = "wait")
       /\ job'[p] = job[p] \/ job'[p].kind # "copy"
  BY <1>1, <1>2, <1>3
<1>11. at[0] = "runout" /\ proc'[0].stat = "SSLEEP" =>
         \A q \in Slot : proc'[q].stat = "SRUN" /\ ~proc'[q].load => proc[q].stat = "SRUN"
  BY <1>8
<1>12. \A q \in Slot : proc'[q].load = proc[q].load
  BY <1>8
<1> QED
  BY <1>0, <1>4, <1>5, <1>6, <1>7, <1>9, <1>10, <1>11, <1>12, CallStep

\* exit sleeps until its block is written.
LEMMA ExitStartStep ==
    ASSUME Table, NEW p \in Slot \ {1}, Run(p), at[p] \in {"user", "psig"}, ExitStart(p),
           NEW P \in [Slot -> Row], proc' = Sleep(P, p),
           \A q \in Slot : /\ P[q].stat = proc[q].stat /\ P[q].pid = proc[q].pid /\ P[q].ppid = proc[q].ppid
                           /\ P[q].load = proc[q].load,
           P[1].sig = "none", todo' \in [Slot -> SUBSET Calls], todo'[1] \subseteq todo[1]
    PROVE  Table'
<1> DEFINE m == Malloc(swapmap, 1)
           j == [NoJob EXCEPT !.kind = "exit", !.a = m.addr]
<1>1. m.addr \in Nat /\ m.map \in Seq(Entries)
  BY MallocType DEF Table, Types
<1>2. j \in Job /\ j.kind # "copy"
  <2> HIDE DEF m
  <2> QED
    BY <1>1, NoJobType DEF Job
<1>3. /\ hand' = [hand EXCEPT ![p] = "ign"] /\ panic' = (m.addr = 0) /\ swapmap' = m.map
      /\ job' = [job EXCEPT ![p] = j] /\ at' = [at EXCEPT ![p] = "exitio"]
      /\ UNCHANGED <<coremap, bufs, mpid, psok>>
  BY DEF ExitStart
<1> HIDE DEF m, j
<1>4. /\ hand' \in [Slot -> {"dfl", "ign", "fun"}] /\ panic' \in BOOLEAN
      /\ coremap' \in Seq(Entries) /\ swapmap' \in Seq(Entries) /\ psok' \in BOOLEAN
  BY <1>1, <1>3 DEF Table, Types
<1> QED
  BY <1>2, <1>3, <1>4, SleepStep

LEMMA CallTodo ==
    ASSUME Types, NEW p \in Slot, NEW c, UserCall(p, c)
    PROVE  /\ todo' \in [Slot -> SUBSET Calls] /\ \A q \in Slot : todo'[q] \subseteq todo[q]
           /\ Run(p) /\ at[p] = "user" /\ c \in todo[p]
BY DEF Types, UserCall

LEMMA ExitStep ==
    ASSUME Table, NEW p \in Slot, Exit(p)
    PROVE  Table'
<1>1. /\ todo' \in [Slot -> SUBSET Calls] /\ todo'[1] \subseteq todo[1]
      /\ Run(p) /\ at[p] = "user" /\ "exit" \in todo[p] /\ ExitStart(p) /\ proc' = Sleep(proc, p)
  BY CallTodo, SlotIs DEF Exit, Table
<1>2. p # 1
  BY <1>1 DEF Table, Founders
<1>3. proc \in [Slot -> Row] /\ proc[1].sig = "none"
  BY DEF Table, Types, Founders
<1> QED
  BY <1>1, <1>2, <1>3, ExitStartStep

\* A signal is caught, or ends the process.
LEMMA PsigStep ==
    ASSUME Table, NEW p \in Slot, Psig(p)
    PROVE  Table'
<1>0. 1 \in Slot
  BY SlotIs
<1>1. Run(p) /\ at[p] \in {"user", "psig"} /\ Issig(proc, p) /\ UNCHANGED todo
  BY DEF Psig
<1>2. p # 1
  BY <1>1 DEF Issig, Table, Founders
<1> DEFINE P == [proc EXCEPT ![p].sig = "none"]
<1>3. /\ P \in [Slot -> Row] /\ P[1].sig = "none"
      /\ \A q \in Slot : /\ P[q].stat = proc[q].stat /\ P[q].pid = proc[q].pid /\ P[q].ppid = proc[q].ppid
                         /\ P[q].load = proc[q].load
  <2>1. [proc[p] EXCEPT !.sig = "none"] \in Row
    <3>1. proc[p] \in Row
      BY DEF Table, Types
    <3> QED
      BY <3>1 DEF Row
  <2>2. proc \in [Slot -> Row] /\ proc[1].sig = "none"
    BY DEF Table, Types, Founders
  <2>3. \A q \in Slot : q # p => P[q] = proc[q]
    BY <2>2
  <2>4. P[p] = [proc[p] EXCEPT !.sig = "none"]
    BY <2>2
  <2>5. P \in [Slot -> Row]
    BY <2>1, <2>2
  <2>6. proc[p] \in Row
    BY <2>2
  <2>7. P[p].stat = proc[p].stat /\ P[p].pid = proc[p].pid /\ P[p].ppid = proc[p].ppid /\ P[p].load = proc[p].load
    BY <2>4, <2>6 DEF Row
  <2> QED
    BY <1>0, <1>2, <2>2, <2>3, <2>5, <2>7
<1> HIDE DEF P
<1>4. CASE /\ hand' = [hand EXCEPT ![p] = "dfl"] /\ proc' = P /\ at' = [at EXCEPT ![p] = "user"]
           /\ UNCHANGED <<job, maps, memory, bufs, mpid, rest>>
  <2>1. at' \in [Slot -> Places] /\ at'[p] = "user" /\ \A q \in Slot \ {p} : at'[q] = at[q]
    BY <1>4 DEF Table, Types, Places
  <2>2. hand' \in [Slot -> {"dfl", "ign", "fun"}]
    BY <1>4 DEF Table, Types
  <2>3. Types'
    BY <1>1, <1>3, <1>4, <2>1, <2>2 DEF Table, Types, maps, bufs, rest
  <2>4. OthersStay(p) /\ SameFamily
    BY <1>3, <1>4, <2>1 DEF OthersStay, SameFamily, Woken
  <2>5. CollectInv(p)' /\ WaitWake(p)'
    BY <2>1 DEF CollectInv, WaitWake
  <2>6. proc[p].stat = "SRUN" /\ proc'[p].stat = "SRUN"
    BY <1>1, <1>3, <1>4 DEF Run
  <2>7. \A q \in Slot : proc'[q].load = proc[q].load /\ proc'[q].stat = proc[q].stat
    BY <1>3, <1>4
  <2> QED
    BY <1>1, <1>3, <1>4, <2>1, <2>3, <2>4, <2>5, <2>6, <2>7, CallStep
<1>5. CASE ExitStart(p) /\ proc' = Sleep(P, p)
  <2>1. todo' \in [Slot -> SUBSET Calls] /\ todo'[1] \subseteq todo[1]
    BY <1>1 DEF Table, Types
  <2> QED
    BY <1>1, <1>2, <1>3, <1>5, <2>1, ExitStartStep
<1> QED
  BY <1>4, <1>5 DEF Psig, P

\* wait: a zombie's block is read, or a child waited for, or there is none.
LEMMA WaitStep ==
    ASSUME Table, NEW p \in Slot, Wait(p)
    PROVE  Table'
<1>0. 1 \in Slot
  BY SlotIs
<1>1. /\ Run(p) /\ at[p] \in {"user", "wait"} /\ proc[p].stat = "SRUN"
      /\ UNCHANGED <<hand, maps, memory, bufs, mpid, rest, todo>>
  BY DEF Wait, Run
<1>2. /\ hand' \in [Slot -> {"dfl", "ign", "fun"}] /\ panic' \in BOOLEAN /\ coremap' \in Seq(Entries)
      /\ swapmap' \in Seq(Entries) /\ psok' \in BOOLEAN /\ todo' \in [Slot -> SUBSET Calls]
      /\ UNCHANGED <<bufs, mpid, panic, coremap, swapmap>> /\ todo'[1] \subseteq todo[1]
  BY <1>1 DEF Table, Types, maps, rest
<1>3. /\ proc \in [Slot -> Row] /\ proc[1].sig = "none"
  BY DEF Table, Types, Founders
<1>4. CASE /\ Zombies(p) # {} /\ proc' = Sleep(proc, p) /\ at' = [at EXCEPT ![p] = "waitio"]
           /\ LET z == Min(Zombies(p))
              IN  job' = [job EXCEPT ![p] = [NoJob EXCEPT !.kind = "wait", !.who = z, !.a = proc[z].addr]]
  <2>1. Zombies(p) \in SUBSET Slot
    BY DEF Zombies, Children
  <2>2. PICK z \in Slot : z = Min(Zombies(p)) /\ z \in Zombies(p)
    BY <1>4, <2>1, MinOfSlots
  <2>3. proc[z].stat = "SZOMB" /\ proc[z].ppid = proc[p].pid
    BY <2>2 DEF Zombies, Children
  <2>4. PICK a \in Nat : a = proc[z].addr
    BY DEF Table, Types, Row
  <2> DEFINE j == [NoJob EXCEPT !.kind = "wait", !.who = z, !.a = a]
  <2>5. j \in Job /\ j.kind # "copy" /\ j.who = z
    BY NoJobType DEF Job
  <2>6. job' = [job EXCEPT ![p] = j]
    BY <1>4, <2>2, <2>4
  <2> HIDE DEF j
  <2> QED
    BY <1>1, <1>2, <1>3, <1>4, <2>3, <2>5, <2>6, SleepStep
<1>5. CASE /\ Zombies(p) = {} /\ proc' = SleepLow(proc, p) /\ at' = [at EXCEPT ![p] = "wait"] /\ UNCHANGED job
  <2>1. PICK R : R = Wakeup(proc, {"runin"})
    OBVIOUS
  <2>2. /\ R \in [Slot -> Row]
        /\ \A q \in Slot : SameButStat(R[q], proc[q]) /\ Woken(R[q], proc[q])
        /\ at[0] = "runout" /\ R[0].stat = "SSLEEP" =>
             \A q \in Slot : R[q].stat = "SRUN" /\ ~R[q].load => proc[q].stat = "SRUN"
    BY <2>1, WakeupIs DEF Table
  <2>3. proc' = [R EXCEPT ![p].stat = "SWAIT"]
    BY <1>5, <2>1 DEF SleepLow
  <2>4. /\ proc' \in [Slot -> Row] /\ proc'[p].stat = "SWAIT"
        /\ \A q \in Slot : SameButStat(proc'[q], R[q]) /\ (q # p => proc'[q] = R[q])
    <3>1. "SWAIT" \in Stats
      BY DEF Stats
    <3> QED
      BY <2>2, <2>3, <3>1, StatExcept
  <2>5. at' \in [Slot -> Places] /\ at'[p] = "wait" /\ \A q \in Slot \ {p} : at'[q] = at[q]
    BY <1>5 DEF Table, Types, Places
  <2>6. Types'
    BY <1>1, <1>5, <2>4, <2>5 DEF Table, Types, maps, bufs, rest
  <2>7. OthersStay(p) /\ SameFamily
    BY <1>5, <2>2, <2>4, <2>5 DEF OthersStay, SameFamily, SameButStat
  <2>8. CollectInv(p)'
    BY <2>5 DEF CollectInv
  <2>9. WaitWake(p)'
    <3>1. \A q \in Slot : proc'[q].stat = "SZOMB" => proc[q].stat = "SZOMB" /\ proc[q].stat # Null
      BY <2>2, <2>4 DEF Woken, Null
    <3>2. Zombies(p)' \subseteq Zombies(p)
      BY <2>7, <3>1 DEF Zombies, Children, SameFamily
    <3> QED
      BY <1>5, <3>2 DEF WaitWake
  <2>10. /\ \A q \in Slot : proc'[q].load = proc[q].load
         /\ p # 0
    BY <1>1, <2>2, <2>4 DEF SameButStat, Table, PlaceInv
  <2>11. at[0] = "runout" /\ proc'[0].stat = "SSLEEP" =>
           \A q \in Slot : proc'[q].stat = "SRUN" /\ ~proc'[q].load => proc[q].stat = "SRUN"
    BY <2>2, <2>4, <2>10, SlotIs
  <2>12. proc'[1].sig = "none"
    BY <1>0, <1>3, <2>2, <2>4 DEF SameButStat
  <2> QED
    BY <1>1, <1>2, <1>5, <2>4, <2>5, <2>6, <2>7, <2>8, <2>9, <2>10, <2>11, <2>12, CallStep
<1>6. CASE at' = [at EXCEPT ![p] = Back(proc, p)] /\ UNCHANGED <<proc, job>>
  <2>1. Back(proc, p) \in {"user", "psig"}
    BY BackIs
  <2> QED
    BY <1>1, <1>2, <1>6, <2>1, ReturnStep
<1> QED
  BY <1>4, <1>5, <1>6 DEF Wait

LEMMA WaitIntrStep ==
    ASSUME Table, NEW p \in Slot, WaitIntr(p)
    PROVE  Table'
<1>1. /\ Run(p) /\ at[p] = "wait" /\ at' = [at EXCEPT ![p] = "psig"]
      /\ UNCHANGED <<proc, job, hand, coremap, swapmap, bufs, mpid, panic, psok, todo>>
  BY DEF WaitIntr, maps, rest
<1>2. hand' \in [Slot -> {"dfl", "ign", "fun"}] /\ psok' \in BOOLEAN /\ todo' \in [Slot -> SUBSET Calls]
  BY <1>1 DEF Table, Types
<1> QED
  BY <1>1, <1>2, ReturnStep

\* Who gets a signal: it ends a sleep in wait.
LEMMA SignalledIs ==
    ASSUME NEW q \in Slot, proc[q] \in Row, NEW g \in {"INT", "KIL"}, NEW f, f = Signalled(q, g)
    PROVE  /\ f \in Row /\ f.pid = proc[q].pid /\ f.ppid = proc[q].ppid /\ f.load = proc[q].load
           /\ f.stat = IF proc[q].stat = "SWAIT" THEN "SRUN" ELSE proc[q].stat
<1> DEFINE e == proc[q]
           x == IF e.sig = "KIL" THEN e.sig ELSE g
           y == IF e.stat = "SWAIT" THEN "SRUN" ELSE e.stat
<1>1. f = [e EXCEPT !.sig = x, !.stat = y]
  BY DEF Signalled
<1>2. e.sig \in {"none", "INT", "KIL"} /\ e.stat \in Stats
  BY DEF Row
<1>3. x \in {"none", "INT", "KIL"} /\ y \in Stats
  BY <1>2 DEF Stats
<1>4. e \in Row
  OBVIOUS
<1> HIDE DEF e, x
<1>5. f \in Row /\ f.pid = e.pid /\ f.ppid = e.ppid /\ f.load = e.load /\ f.stat = y
  <2> HIDE DEF y
  <2> QED
    BY <1>1, <1>3, <1>4 DEF Row
<1> QED
  BY <1>5 DEF e

LEMMA KillStep ==
    ASSUME Table, NEW p \in Slot, NEW T \in Targets(p), NEW g \in {"INT", "KIL"}, Kill(p, T, g)
    PROVE  Table'
<1>0. 0 \in Slot /\ 1 \in Slot
  BY SlotIs
<1>1. T \in SUBSET Slot /\ 0 \notin T /\ 1 \notin T /\ p \notin T
  BY DEF Targets, Others
<1>2. /\ todo' \in [Slot -> SUBSET Calls] /\ todo'[1] \subseteq todo[1]
      /\ Run(p) /\ at[p] = "user" /\ proc[p].stat = "SRUN"
  BY <1>0, CallTodo DEF Kill, Table, Run
<1> DEFINE P == [q \in Slot |-> IF q \in T THEN Signalled(q, g) ELSE proc[q]]
           W == {q \in T : proc[q].stat = "SWAIT"}
<1>3. /\ P \in [Slot -> Row]
      /\ \A q \in Slot : /\ P[q].pid = proc[q].pid /\ P[q].ppid = proc[q].ppid /\ P[q].load = proc[q].load
                         /\ P[q].stat = IF q \in W THEN "SRUN" ELSE proc[q].stat
                         /\ q \notin T => P[q] = proc[q]
  <2>1. proc \in [Slot -> Row]
    BY DEF Table, Types
  <2>2. \A q \in T : P[q] = Signalled(q, g)
    BY <1>1
  <2>3. \A q \in Slot \ T : P[q] = proc[q]
    OBVIOUS
  <2>4. P = [q \in Slot |-> P[q]]
    OBVIOUS
  <2> HIDE DEF P
  <2>5. \A q \in T : /\ P[q] \in Row /\ P[q].pid = proc[q].pid /\ P[q].ppid = proc[q].ppid
                     /\ P[q].load = proc[q].load
                     /\ P[q].stat = IF proc[q].stat = "SWAIT" THEN "SRUN" ELSE proc[q].stat
    BY <1>1, <2>1, <2>2, SignalledIs
  <2>6. \A q \in Slot : P[q] \in Row
    BY <2>1, <2>3, <2>5
  <2>7. P \in [Slot -> Row]
    BY <2>4, <2>6
  <2> QED
    BY <2>3, <2>5, <2>7
<1>4. proc' = SetRun(P, W)
  BY DEF Kill
<1>5. W \in SUBSET Slot /\ \A q \in W : q \in T
  BY <1>1
<1> HIDE DEF P, W
<1>6. /\ proc' \in [Slot -> Row]
      /\ \A q \in Slot : SameButStat(proc'[q], P[q]) /\ proc'[q].stat \in {P[q].stat, "SRUN"}
      /\ \A q \in W : proc'[q].stat = "SRUN"
      /\ \A q \in Slot \ W : q # 0 \/ at[0] # "runout" => proc'[q] = P[q]
      /\ at[0] = "runout" /\ (\E q \in W : ~P[q].load) => proc'[0].stat = "SRUN"
  BY <1>3, <1>4, <1>5, SetRunIs DEF Table
<1>7. \A q \in W : proc[q].stat = "SWAIT"
  BY DEF W
<1>8. \A q \in Slot : Woken(proc'[q], proc[q])
  <2>1. ASSUME NEW q \in Slot PROVE Woken(proc'[q], proc[q])
    <3>1. CASE q \in W
      BY <1>6, <1>7, <3>1 DEF Woken
    <3>2. CASE q \notin W /\ q # 0
      BY <1>3, <1>6, <3>2 DEF Woken
    <3>3. CASE q = 0
      <4>1. P[0] = proc[0] /\ proc[0].stat \in {"SRUN", "SSLEEP"}
        BY <1>0, <1>1, <1>3 DEF Table, Founders
      <4> QED
        BY <1>0, <1>6, <3>3, <4>1 DEF Woken
    <3> QED
      BY <3>1, <3>2, <3>3
  <2> QED
    BY <2>1
<1>9. \A q \in Slot : proc'[q].pid = proc[q].pid /\ proc'[q].ppid = proc[q].ppid /\ proc'[q].load = proc[q].load
  BY <1>3, <1>6 DEF SameButStat
<1>10. at[0] = "runout" /\ proc'[0].stat = "SSLEEP" =>
         \A q \in Slot : proc'[q].stat = "SRUN" /\ ~proc'[q].load => proc[q].stat = "SRUN"
  <2> SUFFICES ASSUME at[0] = "runout", proc'[0].stat = "SSLEEP", NEW q \in Slot, proc'[q].stat = "SRUN", ~proc'[q].load
               PROVE  proc[q].stat = "SRUN"
    OBVIOUS
  <2>1. q \notin W
    BY <1>3, <1>6, <1>9
  <2> QED
    BY <1>3, <1>6, <2>1
<1>11. proc'[1].sig = "none" /\ proc'[p].stat = "SRUN"
  <2>1. proc[1].sig = "none" /\ P[1] = proc[1] /\ P[p] = proc[p]
    BY <1>0, <1>1, <1>3 DEF Table, Founders
  <2> QED
    BY <1>0, <1>2, <1>6, <2>1 DEF SameButStat
<1>12. PICK x \in {"user", "psig"} : at' = [at EXCEPT ![p] = x]
  BY BackIs DEF Kill
<1>13. at' \in [Slot -> Places] /\ at'[p] = x /\ \A q \in Slot \ {p} : at'[q] = at[q]
  BY <1>12 DEF Table, Types, Places
<1>14. UNCHANGED <<job, hand, maps, memory, bufs, mpid, rest>>
  BY DEF Kill
<1>15. Types'
  BY <1>2, <1>6, <1>13, <1>14 DEF Table, Types, maps, bufs, rest
<1>16. OthersStay(p) /\ SameFamily
  BY <1>8, <1>9, <1>13, <1>14 DEF OthersStay, SameFamily
<1>17. CollectInv(p)' /\ WaitWake(p)'
  BY <1>13 DEF CollectInv, WaitWake
<1> QED
  BY <1>2, <1>9, <1>10, <1>11, <1>13, <1>14, <1>15, <1>16, <1>17, CallStep

LEMMA SsigStep ==
    ASSUME Table, NEW p \in Slot, NEW h \in {"dfl", "ign", "fun"}, Ssig(p, h)
    PROVE  Table'
<1>0. 1 \in Slot
  BY SlotIs
<1>1. /\ todo' \in [Slot -> SUBSET Calls] /\ todo'[1] \subseteq todo[1]
      /\ Run(p) /\ at[p] = "user" /\ proc[p].stat = "SRUN"
  BY <1>0, CallTodo DEF Ssig, Table, Run
<1>2. /\ proc' \in [Slot -> Row] /\ proc'[1].sig = "none"
      /\ \A q \in Slot : /\ proc'[q].stat = proc[q].stat /\ proc'[q].pid = proc[q].pid
                         /\ proc'[q].ppid = proc[q].ppid /\ proc'[q].load = proc[q].load
  <2>1. proc \in [Slot -> Row] /\ proc[1].sig = "none"
    BY DEF Table, Types, Founders
  <2>2. CASE proc' = proc
    BY <2>1, <2>2
  <2>3. CASE proc' = [proc EXCEPT ![p].sig = "none"]
    <3>1. PICK e \in Row : e = proc[p]
      BY <2>1
    <3>2. PICK f : f = [e EXCEPT !.sig = "none"]
      OBVIOUS
    <3>3. f \in Row /\ f.stat = e.stat /\ f.pid = e.pid /\ f.ppid = e.ppid /\ f.load = e.load /\ f.sig = "none"
      BY <3>2 DEF Row
    <3>4. proc' = [proc EXCEPT ![p] = f]
      BY <2>3, <3>1, <3>2
    <3>5. proc'[p] = f /\ \A q \in Slot : q # p => proc'[q] = proc[q]
      BY <2>1, <3>4
    <3>6. proc' \in [Slot -> Row]
      BY <2>1, <3>3, <3>4
    <3> QED
      BY <1>0, <2>1, <3>1, <3>3, <3>5, <3>6
  <2> QED
    BY <2>2, <2>3 DEF Ssig
<1>3. PICK x \in {"user", "psig"} : at' = [at EXCEPT ![p] = x]
  BY BackIs DEF Ssig
<1>4. at' \in [Slot -> Places] /\ at'[p] = x /\ \A q \in Slot \ {p} : at'[q] = at[q]
  BY <1>3 DEF Table, Types, Places
<1>5. UNCHANGED <<job, maps, memory, bufs, mpid, rest>> /\ hand' \in [Slot -> {"dfl", "ign", "fun"}]
  BY DEF Ssig, Table, Types
<1>6. Types'
  BY <1>1, <1>2, <1>4, <1>5 DEF Table, Types, maps, bufs, rest
<1>7. OthersStay(p) /\ SameFamily
  BY <1>2, <1>4, <1>5 DEF OthersStay, SameFamily, Woken
<1>8. CollectInv(p)' /\ WaitWake(p)'
  BY <1>4 DEF CollectInv, WaitWake
<1> QED
  BY <1>1, <1>2, <1>4, <1>5, <1>6, <1>7, <1>8, CallStep

-----------------------------------------------------------------------------
(* Raw transfers and psinfo. *)

\* The buffer of physio is taken or waited for.
LEMMA RawTakeStep ==
    ASSUME Table, NEW p \in Slot, Run(p), at[p] \in {"user", "rawget"}, NEW page \in Nat, RawTake(p, page),
           todo' \in [Slot -> SUBSET Calls], todo'[1] \subseteq todo[1]
    PROVE  Table'
<1>0. 0 \in Slot /\ 1 \in Slot
  BY SlotIs
<1>1. proc[p].stat = "SRUN" /\ UNCHANGED <<hand, maps, memory, swbuf, mpid, rest>>
  BY DEF Run, RawTake
<1>2. p # 0
  BY DEF Table, PlaceInv
<1>3. PICK P \in [Slot -> Row] :
        /\ proc' = Sleep(P, p)
        /\ \A q \in Slot : /\ P[q].stat = proc[q].stat /\ P[q].pid = proc[q].pid /\ P[q].ppid = proc[q].ppid
                           /\ P[q].load = proc[q].load /\ P[q].sig = proc[q].sig
  <2>1. proc \in [Slot -> Row]
    BY DEF Table, Types
  <2>2. CASE proc' = Sleep(proc, p)
    BY <2>1, <2>2
  <2>3. CASE proc' = Sleep([proc EXCEPT ![p].lock = TRUE], p)
    <3>1. PICK e \in Row : e = proc[p]
      BY <2>1
    <3>2. PICK f : f = [e EXCEPT !.lock = TRUE]
      OBVIOUS
    <3>3. f \in Row /\ f.stat = e.stat /\ f.pid = e.pid /\ f.ppid = e.ppid /\ f.load = e.load /\ f.sig = e.sig
      BY <3>2 DEF Row
    <3>4. PICK P : P = [proc EXCEPT ![p] = f]
      OBVIOUS
    <3>5. P[p] = f /\ (\A q \in Slot : q # p => P[q] = proc[q]) /\ P \in [Slot -> Row]
      BY <2>1, <3>3, <3>4
    <3>6. proc' = Sleep(P, p)
      BY <2>3, <3>1, <3>2, <3>4
    <3> QED
      BY <3>1, <3>3, <3>5, <3>6
  <2> QED
    BY <2>2, <2>3 DEF RawTake
<1>4. /\ proc' \in [Slot -> Row] /\ proc'[p].stat = "SSLEEP"
      /\ \A q \in Slot : SameButStat(proc'[q], P[q]) /\ (q # p => proc'[q] = P[q])
  BY <1>3, SleepOf
<1>5. PICK j \in Job : j.kind = "raw" /\ job' = [job EXCEPT ![p] = j]
  <2>1. [NoJob EXCEPT !.kind = "raw", !.a = page] \in Job /\ [NoJob EXCEPT !.kind = "raw", !.a = page].kind = "raw"
    BY NoJobType DEF Job
  <2> QED
    BY <2>1 DEF RawTake
<1>6. job' \in [Slot -> Job] /\ job'[p].kind = "raw" /\ \A q \in Slot \ {p} : job'[q] = job[q]
  BY <1>5 DEF Table, Types
<1>7. /\ at' \in [Slot -> Places] /\ at'[p] = (IF rawbuf.busy THEN "rawget" ELSE "rawio")
      /\ \A q \in Slot \ {p} : at'[q] = at[q]
  BY DEF RawTake, Table, Types, Places
<1>8. /\ rawbuf' \in Header /\ (rawbuf.busy => rawbuf' = rawbuf)
      /\ ~rawbuf.busy => rawbuf'.busy = TRUE /\ rawbuf'.by = p
  BY DEF RawTake, Table, Types, Header
<1>9. Types'
  BY <1>1, <1>4, <1>6, <1>7, <1>8 DEF Table, Types, maps, rest
<1>10. OthersStay(p) /\ SameFamily
  BY <1>3, <1>4, <1>6, <1>7 DEF OthersStay, SameFamily, SameButStat, Woken
<1>11. \A q \in Slot \ {p} : at'[q] = at[q] /\ (proc'[q].stat = "SSLEEP" => proc[q].stat = "SSLEEP")
  BY <1>10 DEF OthersStay, Woken
<1>12. Headers'
  BY <1>1, <1>7, <1>8, <1>11 DEF Table, Headers
<1>13. \A q \in Slot : BufWake(q)'
  BY <1>1, <1>7, <1>8, <1>11 DEF Table, BufWake, Header, Types
<1>14. SchedWake'
  <2>1. at'[0] = at[0] /\ Woken(proc'[0], proc[0])
    BY <1>0, <1>2, <1>10 DEF OthersStay
  <2>2. \A q \in Slot : proc'[q].stat = "SRUN" /\ ~proc'[q].load => proc[q].stat = "SRUN" /\ ~proc[q].load
    BY <1>3, <1>4 DEF SameButStat
  <2> QED
    BY <2>1, <2>2, NobodyReady
<1>15. proc'[0].load /\ proc'[1].sig = "none"
  BY <1>0, <1>3, <1>4 DEF SameButStat, Table, Founders
<1>16. CollectInv(p)' /\ WaitWake(p)'
  BY <1>7 DEF CollectInv, WaitWake
<1>17. /\ InCopy(p)' <=> job'[p].kind = "copy"
       /\ InCopy(p)' => InCopy(p) /\ job'[p].pid = job[p].pid
  BY <1>6, <1>7 DEF InCopy
<1>18. /\ proc[p].stat \notin {Null, "SZOMB", "SIDL"} /\ at'[p] \notin {"free", "dead"}
       /\ p = 0 <=> at'[p] \in {"loop", "runin", "runout"} \/ (p = 0 /\ at'[p] \in {"swapget", "swapio"})
       /\ p = 1 => at'[p] # "exitio"
  BY <1>1, <1>2, <1>7 DEF Null
<1> QED
  BY <1>4, <1>9, <1>10, <1>12, <1>13, <1>14, <1>15, <1>16, <1>17, <1>18, OneMoves

LEMMA RawStep ==
    ASSUME Table, NEW p \in Slot, Raw(p) \/ RawGet(p)
    PROVE  Table'
<1>1. CASE Raw(p)
  <2>1. /\ todo' \in [Slot -> SUBSET Calls] /\ todo'[1] \subseteq todo[1]
        /\ Run(p) /\ at[p] = "user" /\ RawTake(p, proc[p].addr)
    BY <1>1, CallTodo, SlotIs DEF Raw, Table
  <2>2. PICK page \in Nat : page = proc[p].addr
    BY DEF Table, Types, Row
  <2> QED
    BY <2>1, <2>2, RawTakeStep
<1>2. CASE RawGet(p)
  <2>1. /\ todo' \in [Slot -> SUBSET Calls] /\ todo'[1] \subseteq todo[1]
        /\ Run(p) /\ at[p] = "rawget" /\ RawTake(p, job[p].a)
    BY <1>2 DEF RawGet, Table, Types
  <2>2. PICK page \in Nat : page = job[p].a
    BY DEF Table, Types, Job
  <2> QED
    BY <2>1, <2>2, RawTakeStep
<1> QED
  BY <1>1, <1>2

\* The transfer is over: those who want the buffer are woken.
LEMMA RawEndStep ==
    ASSUME Table, NEW p \in Slot, RawEnd(p)
    PROVE  Table'
<1>0. 0 \in Slot /\ 1 \in Slot
  BY SlotIs
<1>1. /\ Run(p) /\ proc[p].stat = "SRUN" /\ at[p] = "rawio" /\ rawbuf' = Idle /\ job' = [job EXCEPT ![p] = NoJob]
      /\ UNCHANGED <<hand, maps, memory, swbuf, mpid, rest, todo>>
  BY DEF Run, RawEnd
<1>2. p # 0
  BY <1>1 DEF Table, PlaceInv
<1>3. PICK R : R = Wakeup(proc, {"rawget"})
  OBVIOUS
<1>4. /\ R \in [Slot -> Row]
      /\ \A q \in Slot : SameButStat(R[q], proc[q]) /\ Woken(R[q], proc[q])
      /\ \A q \in Slot : at[q] \in {"rawget"} => R[q].stat \notin {"SSLEEP", "SWAIT"}
      /\ at[0] = "runout" /\ R[0].stat = "SSLEEP" =>
           \A q \in Slot : R[q].stat = "SRUN" /\ ~R[q].load => proc[q].stat = "SRUN"
  BY <1>3, WakeupIs DEF Table
<1>5. PICK e \in Row : e = R[p]
  BY <1>4
<1>6. PICK f : f = [e EXCEPT !.lock = FALSE]
  OBVIOUS
<1>7. /\ f \in Row /\ f.stat = e.stat /\ f.pid = e.pid /\ f.ppid = e.ppid /\ f.load = e.load /\ f.sig = e.sig
  BY <1>6 DEF Row
<1>8. proc' = [R EXCEPT ![p] = f]
  BY <1>3, <1>5, <1>6 DEF RawEnd
<1>9. proc'[p] = f /\ (\A q \in Slot : q # p => proc'[q] = R[q]) /\ proc' \in [Slot -> Row]
  BY <1>4, <1>7, <1>8
<1>10. \A q \in Slot : /\ proc'[q].stat = R[q].stat /\ proc'[q].pid = proc[q].pid /\ proc'[q].ppid = proc[q].ppid
                       /\ proc'[q].load = proc[q].load /\ proc'[q].sig = proc[q].sig
                       /\ Woken(proc'[q], proc[q])
  BY <1>4, <1>5, <1>7, <1>9 DEF SameButStat, Woken
<1>11. PICK x \in {"user", "psig"} : at' = [at EXCEPT ![p] = x]
  BY BackIs DEF RawEnd
<1>12. at' \in [Slot -> Places] /\ at'[p] = x /\ \A q \in Slot \ {p} : at'[q] = at[q]
  BY <1>11 DEF Table, Types, Places
<1>13. job' \in [Slot -> Job] /\ job'[p].kind = "none" /\ \A q \in Slot \ {p} : job'[q] = job[q]
  <2>1. NoJob.kind = "none"
    BY DEF NoJob
  <2> QED
    BY <1>1, <2>1, NoJobType DEF Table, Types
<1>14. Types'
  <2>1. rawbuf' \in Header
    BY <1>0, <1>1 DEF Idle, Header
  <2> QED
    BY <1>1, <1>9, <1>12, <1>13, <2>1 DEF Table, Types, maps, rest
<1>15. OthersStay(p) /\ SameFamily
  BY <1>10, <1>12, <1>13 DEF OthersStay, SameFamily
<1>16. \A q \in Slot \ {p} : /\ at'[q] = at[q] /\ at[q] # "rawio"
                             /\ proc'[q].stat = "SSLEEP" => proc[q].stat = "SSLEEP" /\ at[q] # "rawget"
  BY <1>1, <1>4, <1>10, <1>12 DEF Table, Headers, Woken
<1>17. Headers'
  BY <1>1, <1>12, <1>16 DEF Table, Headers
<1>18. \A q \in Slot : BufWake(q)'
  BY <1>1, <1>12, <1>16 DEF Table, BufWake
<1>19. SchedWake'
  <2>1. at'[0] = at[0] /\ Woken(proc'[0], proc[0])
    BY <1>0, <1>2, <1>15 DEF OthersStay
  <2>2. at[0] = "runout" /\ proc'[0].stat = "SSLEEP" =>
          \A q \in Slot : proc'[q].stat = "SRUN" /\ ~proc'[q].load => proc[q].stat = "SRUN" /\ ~proc[q].load
    BY <1>0, <1>4, <1>10 DEF SameButStat
  <2> QED
    BY <2>1, <2>2, NobodyReady
<1>20. proc'[0].load /\ proc'[1].sig = "none" /\ todo'[1] \subseteq todo[1]
  BY <1>0, <1>1, <1>10 DEF Table, Founders
<1>21. CollectInv(p)' /\ WaitWake(p)'
  BY <1>12 DEF CollectInv, WaitWake
<1>22. /\ InCopy(p)' <=> job'[p].kind = "copy"
       /\ InCopy(p)' => InCopy(p) /\ job'[p].pid = job[p].pid
  BY <1>12, <1>13 DEF InCopy
<1>23. /\ proc[p].stat \notin {Null, "SZOMB", "SIDL"} /\ at'[p] \notin {"free", "dead"}
       /\ p = 0 <=> at'[p] \in {"loop", "runin", "runout"} \/ (p = 0 /\ at'[p] \in {"swapget", "swapio"})
       /\ p = 1 => at'[p] # "exitio"
  BY <1>1, <1>2, <1>12 DEF Null
<1>24. proc'[p].stat \in {"SRUN", "SSLEEP"}
  BY <1>1, <1>10 DEF Woken
<1> QED
  BY <1>14, <1>15, <1>17, <1>18, <1>19, <1>20, <1>21, <1>22, <1>23, <1>24, OneMoves

\* psinfo returns, or sleeps until a frame has been read.
LEMMA PsinfoLoopStep ==
    ASSUME Table, NEW p \in Slot, Run(p), at[p] \in {"user", "psread"}, NEW s \in Slot, PsinfoLoop(p, s),
           todo' \in [Slot -> SUBSET Calls], todo'[1] \subseteq todo[1]
    PROVE  Table'
<1>1. UNCHANGED <<hand, maps, memory, bufs, mpid, panic, start>>
  BY DEF PsinfoLoop
<1>2. /\ hand' \in [Slot -> {"dfl", "ign", "fun"}] /\ panic' \in BOOLEAN /\ coremap' \in Seq(Entries)
      /\ swapmap' \in Seq(Entries) /\ UNCHANGED <<bufs, mpid, panic, coremap, swapmap>>
  BY <1>1 DEF Table, Types, maps
<1>3. CASE \E frame : PsinfoOut(p, s, frame)
  <2>1. PICK frame : PsinfoOut(p, s, frame)
    BY <1>3
  <2>2. psok' \in BOOLEAN
    BY <2>1 DEF PsinfoOut
  <2>3. Back(proc, p) \in {"user", "psig"}
    BY BackIs
  <2>4. at' = [at EXCEPT ![p] = Back(proc, p)] /\ job' = [job EXCEPT ![p] = NoJob] /\ UNCHANGED proc
    BY <2>1 DEF PsinfoOut
  <2> QED
    BY <1>2, <2>2, <2>3, <2>4, ReturnStep
<1>4. CASE /\ proc' = Sleep(proc, p) /\ at' = [at EXCEPT ![p] = "psread"]
           /\ job' = [job EXCEPT ![p] = [kind |-> "ps", who |-> s, a |-> Frame(proc[s].addr), pid |-> proc[s].pid]]
           /\ UNCHANGED psok
  <2>1. proc[s].addr \in Nat /\ proc[s].pid \in 0 .. MaxPid
    BY DEF Table, Types, Row
  <2>2. Frame(proc[s].addr) \in Nat
    BY <2>1, ProcsAssumption DEF Frame
  <2>3. PICK j \in Job : j.kind = "ps" /\ job' = [job EXCEPT ![p] = j]
    BY <1>4, <2>1, <2>2 DEF Job
  <2>4. psok' \in BOOLEAN /\ proc \in [Slot -> Row] /\ proc[1].sig = "none"
    BY <1>4 DEF Table, Types, Founders
  <2> QED
    BY <1>2, <1>4, <2>3, <2>4, SleepStep
<1> QED
  BY <1>3, <1>4 DEF PsinfoLoop

LEMMA PsinfoStep ==
    ASSUME Table, NEW p \in Slot, (\E s \in Slot : Psinfo(p, s)) \/ PsinfoRead(p)
    PROVE  Table'
<1>1. CASE \E s \in Slot : Psinfo(p, s)
  <2>1. PICK s \in Slot : Psinfo(p, s)
    BY <1>1
  <2>2. /\ todo' \in [Slot -> SUBSET Calls] /\ todo'[1] \subseteq todo[1]
        /\ Run(p) /\ at[p] = "user" /\ PsinfoLoop(p, s)
    BY <2>1, CallTodo, SlotIs DEF Psinfo, Table
  <2> QED
    BY <2>2, PsinfoLoopStep
<1>2. CASE PsinfoRead(p)
  <2>1. /\ todo' \in [Slot -> SUBSET Calls] /\ todo'[1] \subseteq todo[1]
        /\ Run(p) /\ at[p] = "psread"
    BY <1>2 DEF PsinfoRead, Table, Types
  <2>2. PICK s \in Slot : s = job[p].who
    BY DEF Table, Types, Job
  <2>3. CASE PsinfoLoop(p, s)
    BY <2>1, <2>3, PsinfoLoopStep
  <2>4. CASE /\ \E frame : PsinfoOut(p, s, frame)
             /\ UNCHANGED <<hand, maps, memory, bufs, mpid, panic, start>>
    <3>1. PICK frame : PsinfoOut(p, s, frame)
      BY <2>4
    <3>2. psok' \in BOOLEAN /\ Back(proc, p) \in {"user", "psig"}
      BY <3>1, BackIs DEF PsinfoOut
    <3>3. at' = [at EXCEPT ![p] = Back(proc, p)] /\ job' = [job EXCEPT ![p] = NoJob] /\ UNCHANGED proc
      BY <3>1 DEF PsinfoOut
    <3>4. hand' \in [Slot -> {"dfl", "ign", "fun"}] /\ UNCHANGED <<bufs, mpid, panic, coremap, swapmap>>
      BY <2>4 DEF Table, Types, maps
    <3> QED
      BY <2>1, <3>2, <3>3, <3>4, ReturnStep
  <2> QED
    BY <1>2, <2>2, <2>3, <2>4 DEF PsinfoRead
<1> QED
  BY <1>1, <1>2

-----------------------------------------------------------------------------
(* newproc. *)

\* The child has its space on the swap device, or waits for space.
LEMMA NewprocRoomIs ==
    ASSUME Table, NEW c \in Slot, NEW P \in [Slot -> Row], NEW pid \in 0 .. MaxPid, NewprocRoom(P, c, pid),
           UNCHANGED rawbuf,
           \A q \in Slot \ {c} : P[q].stat = "SSLEEP" => proc[q].stat = "SSLEEP"
    PROVE  /\ proc' \in [Slot -> Row] /\ swapmap' \in Seq(Entries) /\ job' \in [Slot -> Job]
           /\ at' \in [Slot -> Places] /\ swbuf' \in Header
           /\ proc'[c].stat = "SSLEEP" /\ proc'[c].pid = P[c].pid /\ proc'[c].ppid = P[c].ppid
           /\ proc'[c].load = P[c].load /\ proc'[c].sig = P[c].sig
           /\ at'[c] \in {"swapget", "swapio", "swapmap"}
           /\ job'[c].kind = "copy" /\ job'[c].pid = pid
           /\ \A q \in Slot \ {c} : proc'[q] = P[q] /\ at'[q] = at[q] /\ job'[q] = job[q]
           /\ Headers' /\ \A q \in Slot : BufWake(q)'
<1>1. PICK m : m = Malloc(swapmap, ImageSwap)
  OBVIOUS
<1>2. m.addr \in Nat /\ m.map \in Seq(Entries)
  BY <1>1, MallocType, ProcsAssumption DEF Table, Types
<1>3. /\ swapmap' = m.map
      /\ job' = [job EXCEPT ![c] = [kind |-> "copy", who |-> c, a |-> m.addr, pid |-> pid]]
      /\ proc' = Sleep([P EXCEPT ![c].lock = m.addr # 0], c)
      /\ IF m.addr # 0 THEN GetSwbuf(c) ELSE at' = [at EXCEPT ![c] = "swapmap"] /\ UNCHANGED swbuf
  BY <1>1 DEF NewprocRoom
<1>4. PICK j \in Job : j.kind = "copy" /\ j.pid = pid /\ job' = [job EXCEPT ![c] = j]
  BY <1>2, <1>3 DEF Job
<1>5. job' \in [Slot -> Job] /\ job'[c] = j /\ \A q \in Slot \ {c} : job'[q] = job[q]
  BY <1>4 DEF Table, Types
<1>6. PICK e \in Row : e = P[c]
  OBVIOUS
<1>7. PICK f : f = [e EXCEPT !.lock = m.addr # 0]
  OBVIOUS
<1>8. f \in Row /\ f.stat = e.stat /\ f.pid = e.pid /\ f.ppid = e.ppid /\ f.load = e.load /\ f.sig = e.sig
  BY <1>7 DEF Row
<1>9. PICK Q : Q = [P EXCEPT ![c] = f]
  OBVIOUS
<1>10. Q \in [Slot -> Row] /\ Q[c] = f /\ \A q \in Slot : q # c => Q[q] = P[q]
  BY <1>8, <1>9
<1>11. proc' = Sleep(Q, c)
  BY <1>3, <1>6, <1>7, <1>9
<1>12. /\ proc' \in [Slot -> Row] /\ proc'[c].stat = "SSLEEP"
       /\ \A q \in Slot : SameButStat(proc'[q], Q[q]) /\ (q # c => proc'[q] = Q[q])
  BY <1>10, <1>11, SleepOf
<1>13. /\ proc'[c].pid = P[c].pid /\ proc'[c].ppid = P[c].ppid /\ proc'[c].load = P[c].load
       /\ proc'[c].sig = P[c].sig /\ \A q \in Slot \ {c} : proc'[q] = P[q]
  BY <1>6, <1>8, <1>10, <1>12 DEF SameButStat
<1>14. CASE m.addr # 0
  <2>1. GetSwbuf(c)
    BY <1>3, <1>14
  <2>2. /\ at' \in [Slot -> Places] /\ swbuf' \in Header /\ at'[c] \in {"swapget", "swapio"}
        /\ \A q \in Slot \ {c} : at'[q] = at[q]
    BY <2>1, GetSwbufType DEF Table
  <2>3. Headers' /\ \A q \in Slot : BufWake(q)'
    BY <1>13, <2>1, <2>2, TakesSwbuf
  <2> QED
    BY <1>2, <1>3, <1>4, <1>5, <1>12, <1>13, <2>2, <2>3
<1>15. CASE m.addr = 0
  <2>1. at' = [at EXCEPT ![c] = "swapmap"] /\ swbuf' = swbuf
    BY <1>3, <1>15
  <2>2. /\ at' \in [Slot -> Places] /\ at'[c] = "swapmap" /\ \A q \in Slot \ {c} : at'[q] = at[q]
    BY <2>1 DEF Table, Types, Places
  <2>3. Headers' /\ \A q \in Slot : BufWake(q)'
    BY <1>13, <2>1, <2>2, BuffersStay DEF bufs
  <2> QED
    BY <1>2, <1>3, <1>4, <1>5, <1>12, <1>13, <2>1, <2>2, <2>3 DEF Table, Types
<1> QED
  BY <1>14, <1>15

LEMMA NewprocSwapStep ==
    ASSUME Table, NEW c \in Slot, NewprocSwap(c)
    PROVE  Table'
<1>0. 0 \in Slot /\ 1 \in Slot
  BY SlotIs
<1>1. /\ proc[c].stat = "SRUN" /\ at[c] = "swapmap"
      /\ UNCHANGED <<hand, coremap, memory, rawbuf, mpid, rest, todo>>
  BY DEF Run, NewprocSwap
<1>2. c # 0
  BY <1>1 DEF Table, PlaceInv
<1>3. PICK pid \in 0 .. MaxPid : pid = job[c].pid
  BY DEF Table, Types, Job
<1>4. NewprocRoom(proc, c, pid)
  BY <1>3 DEF NewprocSwap
<1>5. proc \in [Slot -> Row]
  BY DEF Table, Types
<1>6. /\ proc' \in [Slot -> Row] /\ swapmap' \in Seq(Entries) /\ job' \in [Slot -> Job]
      /\ at' \in [Slot -> Places] /\ swbuf' \in Header
      /\ proc'[c].stat = "SSLEEP" /\ proc'[c].pid = proc[c].pid /\ proc'[c].ppid = proc[c].ppid
      /\ proc'[c].load = proc[c].load /\ proc'[c].sig = proc[c].sig
      /\ at'[c] \in {"swapget", "swapio", "swapmap"}
      /\ job'[c].kind = "copy" /\ job'[c].pid = pid
      /\ \A q \in Slot \ {c} : proc'[q] = proc[q] /\ at'[q] = at[q] /\ job'[q] = job[q]
      /\ Headers' /\ \A q \in Slot : BufWake(q)'
  BY <1>1, <1>4, <1>5, NewprocRoomIs
<1>7. Types'
  BY <1>1, <1>6 DEF Table, Types, rest
<1>8. OthersStay(c) /\ SameFamily
  BY <1>6 DEF OthersStay, SameFamily, Woken
<1>9. SchedWake'
  <2>1. at'[0] = at[0] /\ Woken(proc'[0], proc[0])
    BY <1>0, <1>2, <1>8 DEF OthersStay
  <2>2. \A q \in Slot : proc'[q].stat = "SRUN" /\ ~proc'[q].load => proc[q].stat = "SRUN" /\ ~proc[q].load
    BY <1>6
  <2> QED
    BY <2>1, <2>2, NobodyReady
<1>10. proc'[0].load /\ proc'[1].sig = "none" /\ todo'[1] \subseteq todo[1]
  BY <1>0, <1>1, <1>6 DEF Table, Founders
<1>11. CollectInv(c)' /\ WaitWake(c)'
  BY <1>6 DEF CollectInv, WaitWake
<1>12. (InCopy(c)' <=> job'[c].kind = "copy") /\ (InCopy(c)' => InCopy(c) /\ job'[c].pid = job[c].pid)
  BY <1>1, <1>2, <1>3, <1>6 DEF InCopy
<1>13. /\ proc[c].stat \notin {Null, "SZOMB", "SIDL"} /\ at'[c] \notin {"free", "dead"}
       /\ c = 0 <=> at'[c] \in {"loop", "runin", "runout"} \/ (c = 0 /\ at'[c] \in {"swapget", "swapio"})
       /\ c = 1 => at'[c] # "exitio"
  BY <1>1, <1>2, <1>6 DEF Null
<1> QED
  BY <1>6, <1>7, <1>8, <1>9, <1>10, <1>11, <1>12, <1>13, OneMoves

\* A child is there: in core at once, or with its parent as it is written to
\* the swap device.
LEMMA ChildComes ==
    ASSUME Table, Types', NEW p \in Slot, NEW c \in Slot, proc[c].stat = Null, Run(p), at[p] = "user",
           \A q \in Slot \ {p, c} : proc'[q] = proc[q] /\ at'[q] = at[q] /\ job'[q] = job[q],
           proc'[p].pid = proc[p].pid, proc'[p].ppid = proc[p].ppid, proc'[p].sig = proc[p].sig,
           proc'[p].load = proc[p].load, job'[p] = job[p],
           proc'[c].pid = NextPid, proc'[c].ppid = proc[p].pid, proc'[c].load,
           \/ /\ proc'[p].stat = "SRUN" /\ at'[p] \in {"user", "psig"}
              /\ proc'[c].stat = "SRUN" /\ at'[c] = "user" /\ job'[c] = job[c]
           \/ /\ proc'[p].stat = "SIDL" /\ at'[p] = "user"
              /\ proc'[c].stat = "SSLEEP" /\ at'[c] \in {"swapget", "swapio", "swapmap"}
              /\ job'[c].kind = "copy" /\ job'[c].pid = proc[p].pid,
           todo'[1] \subseteq todo[1], Headers', \A q \in Slot : BufWake(q)'
    PROVE  Table'
<1>0. 0 \in Slot /\ 1 \in Slot
  BY SlotIs
<1>1. NextPid \in 1 .. MaxPid /\ \A q \in Slot : NextPid # proc[q].pid
  BY NextPidIsNew DEF Table, Used
<1>2. NextPid # 0
  BY <1>1
<1>3. /\ proc[p].stat = "SRUN" /\ proc[p].load /\ p # c /\ p # 0 /\ c # 0 /\ c # 1
      /\ proc'[p].stat \in {"SRUN", "SIDL"} /\ proc'[c].stat \in {"SRUN", "SSLEEP"}
      /\ at'[p] \in {"user", "psig"} /\ at'[c] \in {"user", "swapget", "swapio", "swapmap"}
  BY DEF Run, Null, Table, Founders, PlaceInv
<1>4. ParentLives'
  <2> SUFFICES ASSUME NEW q \in Slot \ {0}, proc'[q].stat # Null
               PROVE  /\ \E r \in Slot : proc'[r].pid = proc'[q].ppid /\ proc'[r].stat \notin {Null, "SZOMB"}
                      /\ \A r \in Slot \ {q} : proc'[r].pid # proc'[q].pid
    BY DEF ParentLives
  <2>1. CASE q = c
    <3>1. proc'[p].pid = proc'[q].ppid /\ proc'[p].stat \notin {Null, "SZOMB"}
      BY <1>3, <2>1 DEF Null
    <3>2. \A r \in Slot \ {q} : proc'[r].pid = proc[r].pid
      BY <2>1
    <3> QED
      BY <1>1, <2>1, <3>1, <3>2
  <2>2. CASE q # c
    <3>1. proc[q].stat # Null /\ proc'[q].pid = proc[q].pid /\ proc'[q].ppid = proc[q].ppid
      BY <1>3, <2>2 DEF Null
    <3>2. PICK r \in Slot : proc[r].pid = proc[q].ppid /\ proc[r].stat \notin {Null, "SZOMB"}
      BY <3>1 DEF Table, ParentLives
    <3>3. proc'[r].pid = proc'[q].ppid /\ proc'[r].stat \notin {Null, "SZOMB"}
      BY <1>3, <3>1, <3>2 DEF Null
    <3>4. ASSUME NEW t \in Slot \ {q} PROVE proc'[t].pid # proc'[q].pid
      <4>1. CASE t = c
        BY <1>1, <3>1, <4>1
      <4>2. CASE t # c
        <5>1. proc'[t].pid = proc[t].pid /\ proc[t].pid # proc[q].pid
          BY <3>1, <4>2 DEF Table, ParentLives
        <5> QED
          BY <3>1, <5>1
      <4> QED
        BY <4>1, <4>2
    <3> QED
      BY <3>3, <3>4
  <2> QED
    BY <2>1, <2>2
<1>5. Founders'
  <2>1. proc'[0] = proc[0]
    BY <1>0, <1>3
  <2>2. proc'[1].pid = proc[1].pid /\ proc'[1].sig = proc[1].sig /\ proc'[1].stat \notin {Null, "SZOMB"}
        /\ at'[1] # "exitio"
    BY <1>0, <1>3 DEF Table, Founders, Null
  <2> QED
    BY <2>1, <2>2 DEF Table, Founders
<1>6. ASSUME NEW q \in Slot PROVE PlaceInv(q)'
  <2>1. CASE q = p
    BY <1>3, <2>1 DEF Table, PlaceInv, Null
  <2>2. CASE q = c
    BY <1>2, <1>3, <2>2 DEF Table, PlaceInv, Null
  <2>3. CASE q \notin {p, c}
    BY <2>3 DEF Table, PlaceInv
  <2> QED
    BY <2>1, <2>2, <2>3
<1>7. ASSUME NEW q \in Slot PROVE CollectInv(q)'
  <2>1. CASE q \in {p, c}
    BY <1>3, <2>1 DEF CollectInv
  <2>2. CASE q \notin {p, c}
    <3>1. at'[q] = at[q] /\ job'[q] = job[q] /\ proc'[q] = proc[q]
      BY <2>2
    <3>2. PICK w \in Slot : w = job[q].who
      BY DEF Table, Types, Job
    <3>3. at[q] = "waitio" => proc[w].stat = "SZOMB" /\ proc[w].ppid = proc[q].pid
      BY <3>2 DEF Table, CollectInv
    <3>4. at[q] = "waitio" => w \notin {p, c}
      BY <1>3, <3>3 DEF Null
    <3> QED
      BY <3>1, <3>2, <3>3, <3>4 DEF CollectInv
  <2> QED
    BY <2>1, <2>2
<1>8. ASSUME NEW d \in Slot, InCopy(d)
      PROVE  /\ d # c /\ d # p /\ InCopy(d)' /\ job'[d] = job[d]
             /\ \E r \in Slot \ {p, c} : proc'[r].pid = job[d].pid /\ proc'[r].stat = "SIDL"
             /\ job[d].pid # proc[p].pid
  <2>1. d # c /\ d # p
    BY <1>8 DEF InCopy, Table, PlaceInv
  <2>2. PICK r \in Slot : proc[r].pid = job[d].pid /\ proc[r].stat = "SIDL"
    BY <1>8 DEF Table, CopyInv
  <2>3. r # p /\ r # c /\ r # 0
    BY <1>3, <2>2 DEF Null, Table, Founders
  <2>4. proc[p].pid # proc[r].pid
    BY <2>2, <2>3 DEF Table, ParentLives, Null
  <2>5. proc'[r] = proc[r] /\ at'[d] = at[d] /\ job'[d] = job[d]
    BY <2>1, <2>3
  <2> QED
    BY <1>8, <2>1, <2>2, <2>3, <2>4, <2>5 DEF InCopy
<1>9. ASSUME NEW q \in Slot, q # c PROVE InCopy(q)' <=> InCopy(q)
  BY <1>3, <1>8, <1>9 DEF InCopy
<1>10. InCopy(c)' => job'[c].pid = proc[p].pid /\ proc'[p].stat = "SIDL"
  BY <1>3 DEF InCopy
<1>11. ASSUME NEW q \in Slot PROVE CopyInv(q)'
  <2>1. CASE q = c
    <3>1. InCopy(c)' <=> job'[c].kind = "copy"
      <4>1. job[c].kind # "copy"
        BY DEF Table, CopyInv, InCopy, PlaceInv
      <4> QED
        BY <1>3, <4>1 DEF InCopy
    <3>2. InCopy(c)' => \E r \in Slot : proc'[r].pid = job'[c].pid /\ proc'[r].stat = "SIDL"
      BY <1>10
    <3>3. \A d \in Slot \ {c} : InCopy(c)' /\ InCopy(d)' => job'[d].pid # job'[c].pid
      BY <1>8, <1>9, <1>10
    <3> QED
      BY <2>1, <3>1, <3>2, <3>3 DEF CopyInv
  <2>2. CASE q # c
    <3>1. InCopy(q)' <=> job'[q].kind = "copy"
      BY <1>9, <2>2 DEF Table, CopyInv
    <3>2. InCopy(q)' => \E r \in Slot : proc'[r].pid = job'[q].pid /\ proc'[r].stat = "SIDL"
      BY <1>8, <1>9, <2>2
    <3>3. \A d \in Slot \ {q} : InCopy(q)' /\ InCopy(d)' => job'[d].pid # job'[q].pid
      <4>1. ASSUME NEW d \in Slot \ {q}, InCopy(q)', InCopy(d)' PROVE job'[d].pid # job'[q].pid
        <5>1. InCopy(q) /\ job'[q] = job[q] /\ job[q].pid # proc[p].pid
          BY <1>8, <1>9, <2>2, <4>1
        <5>2. CASE d = c
          BY <1>10, <4>1, <5>1, <5>2
        <5>3. CASE d # c
          BY <1>8, <1>9, <4>1, <5>1, <5>3 DEF Table, CopyInv
        <5> QED
          BY <5>2, <5>3
      <4> QED
        BY <4>1
    <3> QED
      BY <3>1, <3>2, <3>3 DEF CopyInv
  <2> QED
    BY <2>1, <2>2
<1>12. ASSUME NEW q \in Slot PROVE WaitWake(q)'
  <2>1. CASE q \in {p, c}
    BY <1>3, <2>1 DEF WaitWake
  <2>2. CASE q \notin {p, c}
    <3>1. Zombies(q)' \subseteq Zombies(q)
      <4>1. ASSUME NEW z \in Zombies(q)' PROVE z \in Zombies(q)
        <5>1. z \in Slot \ {0} /\ proc'[z].stat = "SZOMB" /\ proc'[z].ppid = proc'[q].pid
          BY DEF Zombies, Children
        <5>2. z \notin {p, c}
          BY <1>3, <5>1
        <5> QED
          BY <2>2, <5>1, <5>2 DEF Zombies, Children, Null
      <4> QED
        BY <4>1
    <3> QED
      BY <2>2, <3>1 DEF Table, WaitWake
  <2> QED
    BY <2>1, <2>2
<1>13. SchedWake'
  <2>1. at'[0] = at[0] /\ proc'[0] = proc[0]
    BY <1>0, <1>3
  <2>2. \A q \in Slot : proc'[q].stat = "SRUN" /\ ~proc'[q].load => proc[q].stat = "SRUN" /\ ~proc[q].load
    BY <1>3
  <2> QED
    BY <2>1, <2>2, NobodyReady DEF Woken
<1> QED
  BY <1>4, <1>5, <1>6, <1>7, <1>11, <1>12, <1>13 DEF Table

LEMMA NewEntryIs ==
    ASSUME Types, NEW p \in Slot, NEW addr \in Nat, NEW f,
           f = [stat |-> "SRUN", pid |-> NextPid, ppid |-> proc[p].pid, addr |-> addr,
                load |-> TRUE, lock |-> FALSE, time |-> 0, sig |-> "none"]
    PROVE  f \in Row /\ f.stat = "SRUN" /\ f.pid = NextPid /\ f.ppid = proc[p].pid /\ f.load /\ f.sig = "none"
<1>1. 0 \in 0 .. 3 + NPROC
  BY ProcsAssumption
<1>2. NextPid \in 0 .. MaxPid
  BY NextPidIsNew
<1>3. proc[p].pid \in 0 .. MaxPid
  BY DEF Types, Row
<1> QED
  BY <1>1, <1>2, <1>3 DEF Row, Stats

LEMMA ForkStep ==
    ASSUME Table, NEW p \in Slot, Fork(p)
    PROVE  Table'
<1>0. 1 \in Slot
  BY SlotIs
<1>1. /\ todo' \in [Slot -> SUBSET Calls] /\ todo'[1] \subseteq todo[1]
      /\ Run(p) /\ at[p] = "user" /\ proc[p].stat = "SRUN"
      /\ UNCHANGED <<swp, cached, rawbuf, rest>>
  BY <1>0, CallTodo DEF Fork, Table, Run
<1>2. proc \in [Slot -> Row]
  BY DEF Table, Types
<1> DEFINE free == {q \in Slot : proc[q].stat = Null}
<1>3. CASE /\ at' = [at EXCEPT ![p] = Back(proc, p)]
           /\ UNCHANGED <<proc, job, hand, maps, core, swbuf, mpid>>
  <2>1. Back(proc, p) \in {"user", "psig"}
    BY BackIs
  <2>2. /\ hand' \in [Slot -> {"dfl", "ign", "fun"}] /\ psok' \in BOOLEAN
        /\ UNCHANGED <<proc, coremap, swapmap, bufs, mpid, panic>> /\ job' = job
    BY <1>1, <1>3 DEF Table, Types, maps, bufs, rest
  <2> QED
    BY <1>1, <1>3, <2>1, <2>2, ReturnStep
<1>4. ASSUME free # {}, NEW c, c = Min(free) PROVE c \in Slot /\ proc[c].stat = Null
  <2>1. free \in SUBSET Slot
    OBVIOUS
  <2>2. c \in free
    <3> HIDE DEF free
    <3> QED
      BY <1>4, <2>1, MinOfSlots
  <2> QED
    BY <2>2
<1>5. CASE /\ free # {}
           /\ LET c == Min(free)
                  m == Malloc(coremap, 1)
              IN  /\ proc' = [proc EXCEPT ![c] = NewEntry(p, m.addr, TRUE)]
                  /\ coremap' = m.map
                  /\ at' = [at EXCEPT ![c] = "user", ![p] = Back(proc, p)]
                  /\ mpid' = NextPid /\ hand' = [hand EXCEPT ![c] = hand[p]]
                  /\ UNCHANGED <<job, swapmap, swbuf>>
  <2>1. PICK c : c = Min(free)
    OBVIOUS
  <2>2. PICK m : m = Malloc(coremap, 1)
    OBVIOUS
  <2>3. PICK f : f = NewEntry(p, m.addr, TRUE)
    OBVIOUS
  <2>4. /\ proc' = [proc EXCEPT ![c] = f] /\ coremap' = m.map
        /\ at' = [at EXCEPT ![c] = "user", ![p] = Back(proc, p)]
        /\ mpid' = NextPid /\ hand' = [hand EXCEPT ![c] = hand[p]] /\ UNCHANGED <<job, swapmap, swbuf>>
    BY <1>5, <2>1, <2>2, <2>3
  <2>5. c \in Slot /\ proc[c].stat = Null /\ c # p
    BY <1>1, <1>4, <1>5, <2>1 DEF Null
  <2>6. m.addr \in Nat /\ m.map \in Seq(Entries)
    BY <2>2, MallocType DEF Table, Types
  <2>7. f \in Row /\ f.stat = "SRUN" /\ f.pid = NextPid /\ f.ppid = proc[p].pid /\ f.load
    <3>1. Types
      BY DEF Table
    <3>2. PICK a \in Nat : a = m.addr
      BY <2>6
    <3>3. f = [stat |-> "SRUN", pid |-> NextPid, ppid |-> proc[p].pid, addr |-> a,
               load |-> TRUE, lock |-> FALSE, time |-> 0, sig |-> "none"]
      BY <2>3, <3>2 DEF NewEntry
    <3> QED
      BY <3>1, <3>3, NewEntryIs
  <2>8. proc' \in [Slot -> Row] /\ proc'[c] = f /\ \A q \in Slot : q # c => proc'[q] = proc[q]
    BY <1>2, <2>4, <2>5, <2>7
  <2>9. PICK x \in {"user", "psig"} : x = Back(proc, p)
    BY BackIs
  <2>10. /\ at' \in [Slot -> Places] /\ at'[c] = "user" /\ at'[p] = x
         /\ \A q \in Slot \ {p, c} : at'[q] = at[q]
    BY <2>4, <2>5, <2>9 DEF Table, Types, Places
  <2>11. hand' \in [Slot -> {"dfl", "ign", "fun"}] /\ mpid' \in 0 .. MaxPid
    BY <2>4, <2>5, NextPidIsNew DEF Table, Types
  <2>12. Types'
    BY <1>1, <2>4, <2>6, <2>8, <2>10, <2>11 DEF Table, Types, rest
  <2>13. Headers' /\ \A q \in Slot : BufWake(q)'
    <3>1. \A q \in Slot : at'[q] \in {"swapget", "swapio", "rawget", "rawio"} =>
            at'[q] = at[q] /\ (proc'[q].stat = "SSLEEP" => proc[q].stat = "SSLEEP")
      BY <2>8, <2>10
    <3> QED
      BY <1>1, <2>4, <3>1, BuffersStay DEF bufs
  <2> QED
    BY <1>1, <2>4, <2>5, <2>7, <2>8, <2>10, <2>12, <2>13, ChildComes
<1>6. CASE /\ free # {}
           /\ LET c == Min(free)
              IN  /\ NewprocRoom([proc EXCEPT ![c] = NewEntry(p, proc[p].addr, TRUE), ![p].stat = "SIDL"],
                                 c, proc[p].pid)
                  /\ mpid' = NextPid /\ hand' = [hand EXCEPT ![c] = hand[p]]
                  /\ UNCHANGED <<coremap, core>>
  <2>1. PICK c : c = Min(free)
    OBVIOUS
  <2>2. PICK addr \in Nat : addr = proc[p].addr
    BY <1>2 DEF Row
  <2>3. PICK f : f = NewEntry(p, addr, TRUE)
    OBVIOUS
  <2>4. PICK e \in Row : e = proc[p]
    BY <1>2
  <2>5. PICK g : g = [e EXCEPT !.stat = "SIDL"]
    OBVIOUS
  <2>6. PICK P : P = [proc EXCEPT ![c] = f, ![p].stat = "SIDL"]
    OBVIOUS
  <2>7. PICK pid \in 0 .. MaxPid : pid = proc[p].pid
    BY <1>2 DEF Row
  <2>8. NewprocRoom(P, c, pid) /\ mpid' = NextPid /\ hand' = [hand EXCEPT ![c] = hand[p]] /\ UNCHANGED coremap
    BY <1>6, <2>1, <2>2, <2>3, <2>6, <2>7
  <2>9. c \in Slot /\ proc[c].stat = Null /\ c # p
    BY <1>1, <1>4, <1>6, <2>1 DEF Null
  <2>10. /\ f \in Row /\ f.stat = "SRUN" /\ f.pid = NextPid /\ f.ppid = proc[p].pid /\ f.load
    <3>1. Types
      BY DEF Table
    <3>2. f = [stat |-> "SRUN", pid |-> NextPid, ppid |-> proc[p].pid, addr |-> addr,
               load |-> TRUE, lock |-> FALSE, time |-> 0, sig |-> "none"]
      BY <2>3 DEF NewEntry
    <3> QED
      BY <3>1, <3>2, NewEntryIs
  <2>11. /\ g \in Row /\ g.stat = "SIDL" /\ g.pid = e.pid /\ g.ppid = e.ppid /\ g.sig = e.sig /\ g.load = e.load
    <3>1. "SIDL" \in Stats
      BY DEF Stats
    <3> QED
      BY <2>5, <3>1, RowStat DEF SameButStat
  <2>12. P = [[proc EXCEPT ![c] = f] EXCEPT ![p] = g]
    BY <1>2, <2>4, <2>5, <2>6, <2>9
  <2>13. P \in [Slot -> Row] /\ P[c] = f /\ P[p] = g /\ \A q \in Slot \ {p, c} : P[q] = proc[q]
    BY <1>2, <2>9, <2>10, <2>11, <2>12
  <2>14. \A q \in Slot \ {c} : P[q].stat = "SSLEEP" => proc[q].stat = "SSLEEP"
    BY <2>11, <2>13
  <2>15. /\ proc' \in [Slot -> Row] /\ swapmap' \in Seq(Entries) /\ job' \in [Slot -> Job]
         /\ at' \in [Slot -> Places] /\ swbuf' \in Header
         /\ proc'[c].stat = "SSLEEP" /\ proc'[c].pid = P[c].pid /\ proc'[c].ppid = P[c].ppid
         /\ proc'[c].load = P[c].load /\ proc'[c].sig = P[c].sig
         /\ at'[c] \in {"swapget", "swapio", "swapmap"}
         /\ job'[c].kind = "copy" /\ job'[c].pid = pid
         /\ \A q \in Slot \ {c} : proc'[q] = P[q] /\ at'[q] = at[q] /\ job'[q] = job[q]
         /\ Headers' /\ \A q \in Slot : BufWake(q)'
    BY <1>1, <2>8, <2>9, <2>13, <2>14, NewprocRoomIs
  <2>16. hand' \in [Slot -> {"dfl", "ign", "fun"}] /\ mpid' \in 0 .. MaxPid
    BY <2>8, <2>9, NextPidIsNew DEF Table, Types
  <2>17. Types'
    BY <1>1, <2>8, <2>15, <2>16 DEF Table, Types, rest
  <2>18. /\ proc'[c].pid = NextPid /\ proc'[c].ppid = proc[p].pid /\ proc'[c].load
         /\ proc'[p].pid = proc[p].pid /\ proc'[p].ppid = proc[p].ppid /\ proc'[p].sig = proc[p].sig
         /\ proc'[p].load = proc[p].load /\ proc'[p].stat = "SIDL" /\ at'[p] = "user" /\ job'[p] = job[p]
    BY <1>1, <2>4, <2>9, <2>10, <2>11, <2>13, <2>15
  <2>19. \A q \in Slot \ {p, c} : proc'[q] = proc[q] /\ at'[q] = at[q] /\ job'[q] = job[q]
    BY <2>13, <2>15
  <2> QED
    BY <1>1, <2>7, <2>9, <2>15, <2>17, <2>18, <2>19, ChildComes
<1> QED
  BY <1>3, <1>5, <1>6 DEF Fork

\* The child's image is on the swap device: it and its parent go on.
LEMMA NewprocEndStep ==
    ASSUME Table, NEW c \in Slot, NewprocEnd(c)
    PROVE  Table'
<1>0. 0 \in Slot /\ 1 \in Slot /\ proc[0].stat # "SIDL"
  BY SlotIs DEF Table, Founders
<1>1. /\ c # 0 /\ proc[c].stat = "SRUN" /\ at[c] = "swapio" /\ swbuf' = Idle /\ job' = [job EXCEPT ![c] = NoJob]
      /\ UNCHANGED <<hand, maps, memory, rawbuf, mpid, rest, todo>>
  BY SMTT(30) DEF NewprocEnd, SwapDone, Run
<1>2. PICK p \in Slot :
        /\ proc[p].pid = job[c].pid
        /\ LET P == [Wakeup(proc, {"swapget", "runout"}) EXCEPT
                       ![c].addr = job[c].a, ![c].load = FALSE, ![c].lock = FALSE,
                       ![c].time = 0, ![p].stat = "SRUN"]
           IN  proc' = P /\ at' = [at EXCEPT ![c] = "user", ![p] = Back(P, p)]
  BY DEF NewprocEnd
<1>3. InCopy(c)
  BY <1>1 DEF InCopy
<1>4. proc[p].stat = "SIDL" /\ at[p] = "user" /\ p # c /\ p # 0
  <2>1. PICK r \in Slot : proc[r].pid = job[c].pid /\ proc[r].stat = "SIDL"
    BY <1>3 DEF Table, CopyInv
  <2>2. r # 0
    BY <1>0, <2>1
  <2>3. p = r
    BY <1>2, <2>1, <2>2 DEF Table, ParentLives, Null
  <2> QED
    BY <1>1, <2>1, <2>2, <2>3 DEF Table, PlaceInv
<1>5. PICK R : R = Wakeup(proc, {"swapget", "runout"})
  OBVIOUS
<1>6. /\ R \in [Slot -> Row]
      /\ \A q \in Slot : SameButStat(R[q], proc[q]) /\ Woken(R[q], proc[q])
      /\ \A q \in Slot : at[q] \in {"swapget", "runout"} => R[q].stat \notin {"SSLEEP", "SWAIT"}
  BY <1>5, WakeupIs DEF Table
<1>7. PICK a \in Nat : a = job[c].a
  BY DEF Table, Types, Job
<1>8. PICK e \in Row : e = R[c]
  BY <1>6
<1>9. PICK f : f = [e EXCEPT !.addr = a, !.load = FALSE, !.lock = FALSE, !.time = 0]
  OBVIOUS
<1>10. f \in Row /\ f.stat = e.stat /\ f.pid = e.pid /\ f.ppid = e.ppid /\ f.sig = e.sig
  <2>1. 0 \in 0 .. 3 + NPROC
    BY ProcsAssumption
  <2> QED
    BY <1>9, <2>1 DEF Row
<1>11. PICK d \in Row : d = R[p]
  BY <1>6
<1>12. PICK g : g = [d EXCEPT !.stat = "SRUN"]
  OBVIOUS
<1>13. g \in Row /\ g.stat = "SRUN" /\ SameButStat(g, d)
  <2>1. "SRUN" \in Stats
    BY DEF Stats
  <2> QED
    BY <1>12, <2>1, RowStat
<1>14. proc' = [[R EXCEPT ![c] = f] EXCEPT ![p] = g]
  BY <1>2, <1>4, <1>5, <1>6, <1>7, <1>8, <1>9, <1>11, <1>12
<1>15. /\ proc' \in [Slot -> Row] /\ proc'[c] = f /\ proc'[p] = g
       /\ \A q \in Slot \ {p, c} : proc'[q] = R[q]
  BY <1>4, <1>6, <1>10, <1>13, <1>14
<1>16. PICK x \in {"user", "psig"} : at' = [at EXCEPT ![c] = "user", ![p] = x]
  <2>1. \A P : Back(P, p) \in {"user", "psig"}
    BY BackIs
  <2> QED
    BY <1>2, <2>1
<1>17. /\ at' \in [Slot -> Places] /\ at'[c] = "user" /\ at'[p] = x
       /\ \A q \in Slot \ {p, c} : at'[q] = at[q]
  BY <1>4, <1>16 DEF Table, Types, Places
<1>18. /\ job' \in [Slot -> Job] /\ job'[c].kind = "none" /\ \A q \in Slot \ {c} : job'[q] = job[q]
       /\ swbuf' \in Header
  <2>1. NoJob.kind = "none"
    BY DEF NoJob
  <2> QED
    BY <1>0, <1>1, <2>1, NoJobType DEF Table, Types, Header, Idle
<1>19. Types'
  BY <1>1, <1>15, <1>17, <1>18 DEF Table, Types, maps, rest
<1>20. \A q \in Slot : proc'[q].pid = proc[q].pid /\ proc'[q].ppid = proc[q].ppid /\ proc'[q].sig = proc[q].sig
  BY <1>6, <1>8, <1>10, <1>11, <1>13, <1>15 DEF SameButStat
<1>21. proc'[c].stat = "SRUN" /\ proc'[p].stat = "SRUN" /\ \A q \in Slot \ {p} : Woken(proc'[q], proc[q])
  BY <1>1, <1>6, <1>8, <1>10, <1>13, <1>15 DEF Woken
<1>22. \A q \in Slot : /\ proc[q].stat = Null <=> proc'[q].stat = Null
                       /\ proc[q].stat = "SZOMB" <=> proc'[q].stat = "SZOMB"
  BY <1>4, <1>21 DEF Woken, Null
<1>23. ParentLives'
  BY <1>20, <1>22, FamilyFrame DEF Table, SameFamily
<1>24. Founders'
  <2>1. proc'[0].stat \in {"SRUN", "SSLEEP"} /\ proc'[0].load
    BY <1>0, <1>1, <1>4, <1>6, <1>15 DEF Table, Founders, Woken, SameButStat
  <2>2. at'[1] # "exitio"
    BY <1>0, <1>17 DEF Table, Founders
  <2> QED
    BY <1>0, <1>1, <1>20, <1>22, <2>1, <2>2 DEF Table, Founders
<1>25. ASSUME NEW q \in Slot PROVE PlaceInv(q)'
  <2>1. CASE q \in {p, c}
    BY <1>1, <1>4, <1>17, <1>20, <1>21, <2>1 DEF Table, PlaceInv, Null
  <2>2. CASE q \notin {p, c}
    <3>1. at'[q] = at[q] /\ Woken(proc'[q], proc[q])
      BY <1>17, <1>21, <2>2
    <3> QED
      BY <1>20, <1>22, <3>1 DEF Table, PlaceInv, Woken, Null
  <2> QED
    BY <2>1, <2>2
<1>26. ASSUME NEW q \in Slot PROVE CollectInv(q)'
  <2>1. CASE q \in {p, c}
    BY <1>17, <2>1 DEF CollectInv
  <2>2. CASE q \notin {p, c}
    <3>1. at'[q] = at[q] /\ job'[q] = job[q]
      BY <1>17, <1>18, <2>2
    <3>2. PICK w \in Slot : w = job[q].who
      BY DEF Table, Types, Job
    <3>3. at[q] = "waitio" => proc[w].stat = "SZOMB" /\ proc[w].ppid = proc[q].pid
      BY <3>2 DEF Table, CollectInv
    <3>4. at[q] = "waitio" => proc'[w].stat = "SZOMB" /\ proc'[w].ppid = proc'[q].pid
      BY <1>20, <1>22, <3>3
    <3> QED
      BY <3>1, <3>2, <3>4 DEF CollectInv
  <2> QED
    BY <2>1, <2>2
<1>27. ASSUME NEW q \in Slot, InCopy(q)' PROVE InCopy(q) /\ q # c /\ q # p /\ job'[q] = job[q]
  BY <1>17, <1>18, <1>27 DEF InCopy
<1>28. ASSUME NEW q \in Slot PROVE CopyInv(q)'
  <2>1. InCopy(q)' <=> job'[q].kind = "copy"
    <3>1. CASE q \in {p, c}
      <4>1. job[p].kind # "copy"
        BY <1>4 DEF Table, CopyInv, InCopy
      <4> QED
        BY <1>4, <1>18, <1>27, <3>1, <4>1
    <3>2. CASE q \notin {p, c}
      BY <1>17, <1>18, <3>2 DEF Table, CopyInv, InCopy
    <3> QED
      BY <3>1, <3>2
  <2>2. InCopy(q)' => \E r \in Slot : proc'[r].pid = job'[q].pid /\ proc'[r].stat = "SIDL"
    <3> SUFFICES ASSUME InCopy(q)' PROVE \E r \in Slot : proc'[r].pid = job'[q].pid /\ proc'[r].stat = "SIDL"
      OBVIOUS
    <3>1. InCopy(q) /\ q # c /\ job'[q] = job[q]
      BY <1>27
    <3>2. job[q].pid # job[c].pid
      BY <1>3, <3>1 DEF Table, CopyInv
    <3>3. PICK r \in Slot : proc[r].pid = job[q].pid /\ proc[r].stat = "SIDL"
      BY <3>1 DEF Table, CopyInv
    <3>4. r # p
      BY <1>2, <3>2, <3>3
    <3>5. proc'[r].stat = "SIDL"
      BY <1>21, <3>3, <3>4 DEF Woken
    <3> QED
      BY <1>20, <3>1, <3>3, <3>5
  <2>3. \A t \in Slot \ {q} : InCopy(q)' /\ InCopy(t)' => job'[t].pid # job'[q].pid
    BY <1>27 DEF Table, CopyInv
  <2> QED
    BY <2>1, <2>2, <2>3 DEF CopyInv
<1>29. ASSUME NEW q \in Slot PROVE WaitWake(q)'
  <2>1. Zombies(q)' = Zombies(q)
    BY <1>20, <1>22 DEF Zombies, Children
  <2>2. at'[q] = "wait" /\ proc'[q].stat = "SWAIT" => at[q] = "wait" /\ proc[q].stat = "SWAIT"
    BY <1>17, <1>21 DEF Woken
  <2> QED
    BY <2>1, <2>2 DEF Table, WaitWake
<1>30. Headers' /\ \A q \in Slot : BufWake(q)'
  <2>1. \A q \in Slot \ {c} : /\ at'[q] = at[q] \/ at'[q] \in {"user", "psig"}
                              /\ at[q] = "swapget" => proc'[q].stat # "SSLEEP"
                              /\ proc'[q].stat = "SSLEEP" => proc[q].stat = "SSLEEP"
    BY <1>6, <1>15, <1>17, <1>21 DEF Woken
  <2> QED
    BY <1>1, <1>17, <2>1, FreesSwbuf
<1>31. SchedWake'
  BY <1>0, <1>1, <1>4, <1>6, <1>15, <1>17 DEF SchedWake
<1> QED
  BY <1>19, <1>23, <1>24, <1>25, <1>26, <1>28, <1>29, <1>30, <1>31 DEF Table

-----------------------------------------------------------------------------
(* The end of exit and of wait. *)

\* Process p is a zombie, its children are init's, and who may wait for it is
\* woken.
LEMMA ExitEndStep ==
    ASSUME Table, NEW p \in Slot, ExitEnd(p)
    PROVE  Table'
<1>0. 0 \in Slot /\ 1 \in Slot
  BY SlotIs
<1>1. /\ proc[p].stat = "SRUN" /\ at[p] = "exitio" /\ at' = [at EXCEPT ![p] = "dead"]
      /\ job' = [job EXCEPT ![p] = NoJob] /\ coremap' = Mfree(coremap, 1, proc[p].addr)
      /\ UNCHANGED <<hand, swapmap, memory, bufs, mpid, rest, todo>>
  BY DEF ExitEnd, Run
<1>2. p # 0 /\ p # 1 /\ proc[p].pid # 0
  BY <1>1 DEF Table, Founders, PlaceInv, Null
<1> DEFINE W == {q \in ExitWake(p) : at[q] = "wait" /\ proc[q].stat = "SWAIT"}
<1>3. /\ W \in SUBSET Slot
      /\ \A q \in Slot : q \in W <=> /\ q = 1 \/ proc[q].pid = proc[p].ppid
                                     /\ at[q] = "wait" /\ proc[q].stat = "SWAIT"
  BY <1>0 DEF ExitWake
<1>4. PICK V : V = W
  OBVIOUS
<1>5. PICK R : R = SetRun(proc, V)
  OBVIOUS
<1>6. PICK a \in Nat : a = job[p].a
  BY DEF Table, Types, Job
<1>7. PICK P : P = [R EXCEPT ![p].addr = a, ![p].stat = "SZOMB", ![p].time = 0]
  OBVIOUS
<1>8. proc' = Adopted(P, p)
  BY <1>4, <1>5, <1>6, <1>7 DEF ExitEnd
<1> HIDE DEF W
<1>9. /\ R \in [Slot -> Row]
      /\ \A q \in Slot : SameButStat(R[q], proc[q]) /\ R[q].stat \in {proc[q].stat, "SRUN"}
      /\ \A q \in V : R[q].stat = "SRUN"
      /\ \A q \in Slot \ V : q # 0 \/ at[0] # "runout" => R[q] = proc[q]
      /\ at[0] = "runout" /\ (\E q \in V : ~proc[q].load) => R[0].stat = "SRUN"
  <2>1. proc \in [Slot -> Row] /\ Types
    BY DEF Table, Types
  <2> QED
    BY <1>3, <1>4, <1>5, <2>1, SetRunIs
<1>10. PICK e \in Row : e = R[p]
  BY <1>9
<1>11. PICK f : f = [e EXCEPT !.addr = a, !.stat = "SZOMB", !.time = 0]
  OBVIOUS
<1>12. f \in Row /\ f.stat = "SZOMB" /\ f.pid = e.pid /\ f.ppid = e.ppid /\ f.load = e.load /\ f.sig = e.sig
  <2>1. 0 \in 0 .. 3 + NPROC
    BY ProcsAssumption
  <2> QED
    BY <1>11, <2>1 DEF Row, Stats
<1>13. P = [R EXCEPT ![p] = f]
  BY <1>7, <1>9, <1>10, <1>11
<1>14. P \in [Slot -> Row] /\ P[p] = f /\ \A q \in Slot : q # p => P[q] = R[q]
  BY <1>9, <1>12, <1>13
<1>15. \A q \in Slot : /\ P[q].pid = proc[q].pid /\ P[q].ppid = proc[q].ppid /\ P[q].load = proc[q].load
                       /\ P[q].sig = proc[q].sig
  BY <1>9, <1>10, <1>12, <1>14 DEF SameButStat
<1>16. \A e2 \in Row : /\ [e2 EXCEPT !.ppid = 1] \in Row /\ [e2 EXCEPT !.ppid = 1].ppid = 1
                       /\ [e2 EXCEPT !.ppid = 1].pid = e2.pid /\ [e2 EXCEPT !.ppid = 1].stat = e2.stat
                       /\ [e2 EXCEPT !.ppid = 1].load = e2.load /\ [e2 EXCEPT !.ppid = 1].sig = e2.sig
  <2>1. 1 \in 0 .. MaxPid
    BY ProcsAssumption
  <2> QED
    BY <2>1 DEF Row
<1>17. \A q \in Slot : proc'[q] = IF P[q].ppid = P[p].pid THEN [P[q] EXCEPT !.ppid = 1] ELSE P[q]
  BY <1>8 DEF Adopted
<1>18. \A q \in Slot : /\ proc'[q] \in Row /\ proc'[q].stat = P[q].stat /\ proc'[q].pid = proc[q].pid
                       /\ proc'[q].load = proc[q].load /\ proc'[q].sig = proc[q].sig
                       /\ proc'[q].ppid = IF proc[q].ppid = proc[p].pid THEN 1 ELSE proc[q].ppid
  <2> SUFFICES ASSUME NEW q \in Slot
               PROVE  /\ proc'[q] \in Row /\ proc'[q].stat = P[q].stat /\ proc'[q].pid = proc[q].pid
                      /\ proc'[q].load = proc[q].load /\ proc'[q].sig = proc[q].sig
                      /\ proc'[q].ppid = IF proc[q].ppid = proc[p].pid THEN 1 ELSE proc[q].ppid
    OBVIOUS
  <2>1. PICK r \in Row : r = P[q]
    BY <1>14
  <2>2. /\ r.pid = proc[q].pid /\ r.ppid = proc[q].ppid /\ r.load = proc[q].load
        /\ r.sig = proc[q].sig /\ P[p].pid = proc[p].pid
    BY <1>15, <2>1
  <2>3. CASE proc[q].ppid = proc[p].pid
    <3>1. proc'[q] = [r EXCEPT !.ppid = 1]
      BY <1>17, <2>1, <2>2, <2>3
    <3>2. PICK s : s = [r EXCEPT !.ppid = 1]
      OBVIOUS
    <3>3. s \in Row /\ s.ppid = 1 /\ s.pid = r.pid /\ s.stat = r.stat /\ s.load = r.load /\ s.sig = r.sig
      BY <1>16, <3>2
    <3>4. proc'[q] = s
      BY <3>1, <3>2
    <3> QED
      BY <2>1, <2>2, <2>3, <3>3, <3>4
  <2>4. CASE proc[q].ppid # proc[p].pid
    <3>1. proc'[q] = r
      BY <1>17, <2>1, <2>2, <2>4
    <3> QED
      BY <2>1, <2>2, <2>4, <3>1
  <2> QED
    BY <2>3, <2>4
<1>19. proc' \in [Slot -> Row]
  <2>1. proc' = [q \in Slot |-> proc'[q]]
    BY <1>8 DEF Adopted
  <2> QED
    BY <1>18, <2>1
<1>20. proc'[p].stat = "SZOMB" /\ \A q \in Slot \ {p} : proc'[q].stat = R[q].stat
  BY <1>12, <1>14, <1>18
<1>21. \A q \in Slot : Woken(R[q], proc[q])
  <2>1. ASSUME NEW q \in Slot PROVE Woken(R[q], proc[q])
    <3>1. CASE q \in V
      BY <1>3, <1>4, <1>9, <3>1 DEF Woken
    <3>2. CASE q \notin V /\ q # 0
      BY <1>9, <3>2 DEF Woken
    <3>3. CASE q = 0
      BY <1>0, <1>9, <3>3 DEF Woken, Table, Founders
    <3> QED
      BY <3>1, <3>2, <3>3
  <2> QED
    BY <2>1
<1>22. \A q \in Slot \ {p} : Woken(proc'[q], proc[q])
  BY <1>20, <1>21 DEF Woken
<1>23. /\ at' \in [Slot -> Places] /\ at'[p] = "dead" /\ \A q \in Slot \ {p} : at'[q] = at[q]
  BY <1>1 DEF Table, Types, Places
<1>24. /\ job' \in [Slot -> Job] /\ job'[p].kind = "none" /\ \A q \in Slot \ {p} : job'[q] = job[q]
  <2>1. NoJob.kind = "none"
    BY DEF NoJob
  <2> QED
    BY <1>1, <2>1, NoJobType DEF Table, Types
<1>25. coremap' \in Seq(Entries)
  <2>1. proc[p].addr \in Nat /\ coremap \in Seq(Entries)
    BY DEF Table, Types, Row
  <2> QED
    BY <1>1, <2>1, MfreeType
<1>26. Types'
  BY <1>1, <1>19, <1>23, <1>24, <1>25 DEF Table, Types, bufs, rest
<1>27. OthersStay(p)
  BY <1>22, <1>23, <1>24 DEF OthersStay
<1>28. Headers' /\ \A q \in Slot : BufWake(q)'
  BY <1>1, <1>23, <1>27, NoBuffer
<1>29. SchedWake'
  <2>1. at'[0] = at[0] /\ Woken(proc'[0], proc[0])
    BY <1>0, <1>2, <1>27 DEF OthersStay
  <2>2. ASSUME at[0] = "runout", proc'[0].stat = "SSLEEP", NEW q \in Slot, proc'[q].stat = "SRUN", ~proc'[q].load
        PROVE  proc[q].stat = "SRUN" /\ ~proc[q].load
    <3>1. R[0].stat = "SSLEEP" /\ q # p /\ ~proc[q].load /\ R[q].stat = "SRUN"
      BY <1>0, <1>2, <1>18, <1>20, <2>2
    <3>2. q \notin V /\ q # 0
      BY <1>9, <2>2, <3>1
    <3> QED
      BY <1>9, <3>1, <3>2
  <2> QED
    BY <2>1, <2>2, NobodyReady
<1>30. \A q \in Slot \ {0} : proc[q].stat # Null => \A r \in Slot \ {q} : proc[r].pid # proc[q].pid
  BY DEF Table, ParentLives
<1>31. \A q \in Slot \ {p} : /\ proc[q].stat = Null <=> proc'[q].stat = Null
                             /\ proc[q].stat = "SZOMB" <=> proc'[q].stat = "SZOMB"
                             /\ proc[q].stat = "SIDL" => proc'[q].stat = "SIDL"
  BY <1>22 DEF Woken, Null
<1>32. ParentLives'
  <2> SUFFICES ASSUME NEW q \in Slot \ {0}, proc'[q].stat # Null
               PROVE  /\ \E r \in Slot : proc'[r].pid = proc'[q].ppid /\ proc'[r].stat \notin {Null, "SZOMB"}
                      /\ \A r \in Slot \ {q} : proc'[r].pid # proc'[q].pid
    BY DEF ParentLives
  <2>1. proc[q].stat # Null
    BY <1>1, <1>31 DEF Null
  <2>2. \A r \in Slot \ {q} : proc'[r].pid # proc'[q].pid
    BY <1>18, <1>30, <2>1
  <2>3. CASE proc[q].ppid = proc[p].pid
    <3>1. proc'[q].ppid = 1
      BY <1>18, <2>3
    <3>2. proc'[1].pid = 1 /\ proc'[1].stat \notin {Null, "SZOMB"}
      BY <1>0, <1>2, <1>18, <1>31 DEF Table, Founders
    <3> QED
      BY <1>0, <2>2, <3>1, <3>2
  <2>4. CASE proc[q].ppid # proc[p].pid
    <3>1. PICK r \in Slot : proc[r].pid = proc[q].ppid /\ proc[r].stat \notin {Null, "SZOMB"}
      BY <2>1 DEF Table, ParentLives
    <3>2. r # p /\ proc'[r].stat \notin {Null, "SZOMB"}
      BY <1>31, <2>4, <3>1
    <3> QED
      BY <1>18, <2>2, <2>4, <3>1, <3>2
  <2> QED
    BY <2>3, <2>4
<1>33. Founders'
  <2>1. proc'[0].stat \in {"SRUN", "SSLEEP"}
    BY <1>0, <1>2, <1>22 DEF Table, Founders, Woken
  <2> QED
    BY <1>0, <1>1, <1>2, <1>18, <1>23, <1>31, <2>1 DEF Table, Founders
<1>34. ASSUME NEW q \in Slot PROVE PlaceInv(q)'
  <2>1. CASE q = p
    BY <1>2, <1>18, <1>20, <1>23, <2>1 DEF PlaceInv, Null
  <2>2. CASE q # p
    <3>1. at'[q] = at[q] /\ Woken(proc'[q], proc[q])
      BY <1>22, <1>23, <2>2
    <3> QED
      BY <1>18, <1>31, <2>2, <3>1 DEF Table, PlaceInv, Woken, Null
  <2> QED
    BY <2>1, <2>2
<1>35. ASSUME NEW q \in Slot PROVE CollectInv(q)'
  <2>1. CASE q = p
    BY <1>23, <2>1 DEF CollectInv
  <2>2. CASE q # p
    <3>1. at'[q] = at[q] /\ job'[q] = job[q]
      BY <1>23, <1>24, <2>2
    <3>2. PICK w \in Slot : w = job[q].who
      BY DEF Table, Types, Job
    <3>3. at[q] = "waitio" => proc[w].stat = "SZOMB" /\ proc[w].ppid = proc[q].pid
      BY <3>2 DEF Table, CollectInv
    <3>4. proc[q].pid # proc[p].pid
      BY <1>1, <1>2, <1>30, <2>2 DEF Null
    <3>5. at[q] = "waitio" => proc'[w].stat = "SZOMB" /\ proc'[w].ppid = proc'[q].pid
      BY <1>1, <1>18, <1>31, <3>3, <3>4
    <3> QED
      BY <3>1, <3>2, <3>5 DEF CollectInv
  <2> QED
    BY <2>1, <2>2
<1>36. ASSUME NEW q \in Slot, InCopy(q)' PROVE InCopy(q) /\ q # p /\ job'[q] = job[q]
  BY <1>23, <1>24, <1>36 DEF InCopy
<1>37. ASSUME NEW q \in Slot PROVE CopyInv(q)'
  <2>1. InCopy(q)' <=> job'[q].kind = "copy"
    <3>1. CASE q = p
      BY <1>24, <1>36, <3>1
    <3>2. CASE q # p
      BY <1>23, <1>24, <3>2 DEF Table, CopyInv, InCopy
    <3> QED
      BY <3>1, <3>2
  <2>2. InCopy(q)' => \E r \in Slot : proc'[r].pid = job'[q].pid /\ proc'[r].stat = "SIDL"
    <3> SUFFICES ASSUME InCopy(q)' PROVE \E r \in Slot : proc'[r].pid = job'[q].pid /\ proc'[r].stat = "SIDL"
      OBVIOUS
    <3>1. InCopy(q) /\ job'[q] = job[q]
      BY <1>36
    <3>2. PICK r \in Slot : proc[r].pid = job[q].pid /\ proc[r].stat = "SIDL"
      BY <3>1 DEF Table, CopyInv
    <3>3. r # p
      BY <1>1, <3>2
    <3> QED
      BY <1>18, <1>31, <3>1, <3>2, <3>3
  <2>3. \A t \in Slot \ {q} : InCopy(q)' /\ InCopy(t)' => job'[t].pid # job'[q].pid
    BY <1>36 DEF Table, CopyInv
  <2> QED
    BY <2>1, <2>2, <2>3 DEF CopyInv
<1>38. ASSUME NEW q \in Slot PROVE WaitWake(q)'
  <2> SUFFICES ASSUME at'[q] = "wait", proc'[q].stat = "SWAIT", NEW z \in Zombies(q)' PROVE FALSE
    BY DEF WaitWake
  <2>1. q # p /\ at[q] = "wait" /\ R[q].stat = "SWAIT" /\ proc[q].stat = "SWAIT"
    BY <1>20, <1>21, <1>23 DEF Woken
  <2>2. q \notin V
    BY <1>9, <2>1
  <2>3. ~(q = 1 \/ proc[q].pid = proc[p].ppid)
    BY <1>3, <1>4, <2>1, <2>2
  <2>4. z \in Slot \ {0} /\ proc'[z].stat = "SZOMB" /\ proc'[z].ppid = proc'[q].pid
    BY DEF Zombies, Children
  <2>5. proc[q].pid # 1
    <3>1. proc[1].pid = 1 /\ proc[1].stat # Null
      BY DEF Table, Founders
    <3> QED
      BY <1>0, <1>30, <2>3, <3>1
  <2>6. proc[z].ppid = proc[q].pid
    BY <1>18, <2>4, <2>5
  <2>7. z # p
    BY <2>3, <2>6
  <2>8. z \in Zombies(q)
    BY <1>31, <2>4, <2>6, <2>7 DEF Zombies, Children, Null
  <2> QED
    BY <2>1, <2>8 DEF Table, WaitWake
<1> QED
  BY <1>26, <1>28, <1>29, <1>32, <1>33, <1>34, <1>35, <1>37, <1>38 DEF Table

\* The zombie's slot is free.
LEMMA WaitEndStep ==
    ASSUME Table, NEW p \in Slot, WaitEnd(p)
    PROVE  Table'
<1>0. 0 \in Slot /\ 1 \in Slot
  BY SlotIs
<1>1. PICK w \in Slot : w = job[p].who
  BY DEF Table, Types, Job
<1>2. /\ proc[p].stat = "SRUN" /\ at[p] = "waitio" /\ swapmap' = Mfree(swapmap, 1, job[p].a)
      /\ proc' = [proc EXCEPT ![w] = FreeSlot] /\ job' = [job EXCEPT ![p] = NoJob]
      /\ at' = [at EXCEPT ![p] = Back(proc, p), ![w] = "free"]
      /\ UNCHANGED <<hand, coremap, memory, bufs, mpid, rest, todo>>
  BY <1>1 DEF WaitEnd, Run
<1>3. proc[w].stat = "SZOMB" /\ proc[w].ppid = proc[p].pid /\ at[w] = "dead"
  BY <1>1, <1>2 DEF Table, CollectInv, PlaceInv
<1>4. w # p /\ w # 0 /\ w # 1 /\ p # 0
  BY <1>2, <1>3 DEF Table, Founders, PlaceInv
<1>5. FreeSlot \in Row /\ FreeSlot.stat = Null /\ FreeSlot.pid = 0
  <2>1. 0 \in 0 .. 3 + NPROC /\ 0 \in 0 .. MaxPid
    BY ProcsAssumption
  <2> QED
    BY <2>1 DEF FreeSlot, Row, Stats
<1>6. /\ proc' \in [Slot -> Row] /\ proc'[w].stat = Null /\ proc'[w].pid = 0
      /\ \A q \in Slot \ {w} : proc'[q] = proc[q]
  BY <1>2, <1>5 DEF Table, Types
<1>7. PICK x \in {"user", "psig"} : x = Back(proc, p)
  BY BackIs
<1>8. /\ at' \in [Slot -> Places] /\ at'[p] = x /\ at'[w] = "free"
      /\ \A q \in Slot \ {p, w} : at'[q] = at[q]
  BY <1>2, <1>4, <1>7 DEF Table, Types, Places
<1>9. job' \in [Slot -> Job] /\ job'[p].kind = "none" /\ \A q \in Slot \ {p} : job'[q] = job[q]
  <2>1. NoJob.kind = "none"
    BY DEF NoJob
  <2> QED
    BY <1>2, <2>1, NoJobType DEF Table, Types
<1>10. swapmap' \in Seq(Entries)
  <2>1. job[p].a \in Nat /\ swapmap \in Seq(Entries)
    BY DEF Table, Types, Job
  <2> QED
    BY <1>2, <2>1, MfreeType
<1>11. Types'
  BY <1>2, <1>6, <1>8, <1>9, <1>10 DEF Table, Types, bufs, rest
<1>12. Headers' /\ \A q \in Slot : BufWake(q)'
  <2>1. \A q \in Slot : at'[q] \in {"swapget", "swapio", "rawget", "rawio"} =>
          at'[q] = at[q] /\ (proc'[q].stat = "SSLEEP" => proc[q].stat = "SSLEEP")
    BY <1>6, <1>8
  <2> QED
    BY <1>2, <2>1, BuffersStay
<1>13. \A q \in Slot \ {0} : proc[q].stat # Null => \A r \in Slot \ {q} : proc[r].pid # proc[q].pid
  BY DEF Table, ParentLives
<1>14. ParentLives'
  <2> SUFFICES ASSUME NEW q \in Slot \ {0}, proc'[q].stat # Null
               PROVE  /\ \E r \in Slot : proc'[r].pid = proc'[q].ppid /\ proc'[r].stat \notin {Null, "SZOMB"}
                      /\ \A r \in Slot \ {q} : proc'[r].pid # proc'[q].pid
    BY DEF ParentLives
  <2>1. q # w /\ proc'[q] = proc[q]
    BY <1>6
  <2>2. PICK r \in Slot : proc[r].pid = proc[q].ppid /\ proc[r].stat \notin {Null, "SZOMB"}
    BY <2>1 DEF Table, ParentLives
  <2>3. proc'[r] = proc[r]
    BY <1>3, <1>6, <2>2
  <2>4. ASSUME NEW t \in Slot \ {q} PROVE proc'[t].pid # proc'[q].pid
    <3>1. CASE t = w
      <4>1. proc[q].pid # 0
        BY <2>1 DEF Table, PlaceInv
      <4> QED
        BY <1>6, <2>1, <3>1, <4>1
    <3>2. CASE t # w
      BY <1>6, <1>13, <2>1, <3>2
    <3> QED
      BY <3>1, <3>2
  <2> QED
    BY <2>1, <2>2, <2>3, <2>4
<1>15. Founders'
  <2>1. at'[1] # "exitio"
    BY <1>0, <1>4, <1>8 DEF Table, Founders
  <2> QED
    BY <1>0, <1>2, <1>4, <1>6, <2>1 DEF Table, Founders
<1>16. ASSUME NEW q \in Slot PROVE PlaceInv(q)'
  <2>1. CASE q = w
    BY <1>4, <1>6, <1>8, <2>1 DEF PlaceInv, Null
  <2>2. CASE q = p
    BY <1>2, <1>4, <1>6, <1>8, <2>2 DEF Table, PlaceInv, Null
  <2>3. CASE q \notin {p, w}
    BY <1>6, <1>8, <2>3 DEF Table, PlaceInv
  <2> QED
    BY <2>1, <2>2, <2>3
<1>17. ASSUME NEW q \in Slot PROVE CollectInv(q)'
  <2>1. CASE q \in {p, w}
    BY <1>8, <2>1 DEF CollectInv
  <2>2. CASE q \notin {p, w}
    <3>1. at'[q] = at[q] /\ job'[q] = job[q] /\ proc'[q] = proc[q]
      BY <1>6, <1>8, <1>9, <2>2
    <3>2. PICK v \in Slot : v = job[q].who
      BY DEF Table, Types, Job
    <3>3. at[q] = "waitio" => proc[v].stat = "SZOMB" /\ proc[v].ppid = proc[q].pid
      BY <3>2 DEF Table, CollectInv
    <3>4. proc[p].pid # proc[q].pid
      BY <1>2, <1>4, <1>13, <2>2 DEF Null
    <3>5. at[q] = "waitio" => v # w
      BY <1>3, <3>3, <3>4
    <3> QED
      BY <1>6, <3>1, <3>2, <3>3, <3>5 DEF CollectInv
  <2> QED
    BY <2>1, <2>2
<1>18. ASSUME NEW q \in Slot, InCopy(q)' PROVE InCopy(q) /\ q # p /\ q # w /\ job'[q] = job[q]
  BY <1>8, <1>9, <1>18 DEF InCopy
<1>19. ASSUME NEW q \in Slot PROVE CopyInv(q)'
  <2>1. InCopy(q)' <=> job'[q].kind = "copy"
    <3>1. CASE q = p
      BY <1>9, <1>18, <3>1
    <3>2. CASE q = w
      <4>1. job[w].kind # "copy"
        BY <1>3 DEF Table, CopyInv, InCopy
      <4> QED
        BY <1>4, <1>9, <1>18, <3>2, <4>1
    <3>3. CASE q \notin {p, w}
      BY <1>8, <1>9, <3>3 DEF Table, CopyInv, InCopy
    <3> QED
      BY <3>1, <3>2, <3>3
  <2>2. InCopy(q)' => \E r \in Slot : proc'[r].pid = job'[q].pid /\ proc'[r].stat = "SIDL"
    <3> SUFFICES ASSUME InCopy(q)' PROVE \E r \in Slot : proc'[r].pid = job'[q].pid /\ proc'[r].stat = "SIDL"
      OBVIOUS
    <3>1. InCopy(q) /\ job'[q] = job[q]
      BY <1>18
    <3>2. PICK r \in Slot : proc[r].pid = job[q].pid /\ proc[r].stat = "SIDL"
      BY <3>1 DEF Table, CopyInv
    <3>3. r # w
      BY <1>3, <3>2
    <3> QED
      BY <1>6, <3>1, <3>2, <3>3
  <2>3. \A t \in Slot \ {q} : InCopy(q)' /\ InCopy(t)' => job'[t].pid # job'[q].pid
    BY <1>18 DEF Table, CopyInv
  <2> QED
    BY <2>1, <2>2, <2>3 DEF CopyInv
<1>20. ASSUME NEW q \in Slot PROVE WaitWake(q)'
  <2>1. CASE q \in {p, w}
    BY <1>8, <2>1 DEF WaitWake
  <2>2. CASE q \notin {p, w}
    <3>1. ASSUME NEW z \in Zombies(q)' PROVE z \in Zombies(q)
      <4>1. z \in Slot \ {0} /\ proc'[z].stat = "SZOMB" /\ proc'[z].ppid = proc'[q].pid
        BY DEF Zombies, Children
      <4>2. z # w
        BY <1>6, <4>1 DEF Null
      <4> QED
        BY <1>6, <2>2, <4>1, <4>2 DEF Zombies, Children, Null
    <3> QED
      BY <1>6, <1>8, <2>2, <3>1 DEF Table, WaitWake
  <2> QED
    BY <2>1, <2>2
<1>21. SchedWake'
  <2>1. at'[0] = at[0] /\ proc'[0] = proc[0]
    BY <1>0, <1>4, <1>6, <1>8
  <2>2. \A q \in Slot : proc'[q].stat = "SRUN" /\ ~proc'[q].load => proc[q].stat = "SRUN" /\ ~proc[q].load
    BY <1>6 DEF Null
  <2> QED
    BY <2>1, <2>2, NobodyReady DEF Woken
<1> QED
  BY <1>11, <1>12, <1>14, <1>15, <1>16, <1>17, <1>19, <1>20, <1>21 DEF Table

-----------------------------------------------------------------------------
(* The invariant holds. *)

LEMMA InitTypes ==
    ASSUME Init
    PROVE  Types
<1>0. 0 \in Slot /\ 0 \in 0 .. MaxPid /\ 0 \in 0 .. 3 + NPROC /\ 1 \in 0 .. MaxPid
  BY SlotIs, ProcsAssumption
<1>1. PICK s \in Starts : s = start
  BY DEF Init
<1>2. /\ s.ops \in [Slot -> SUBSET Calls] /\ s.live \subseteq Slot /\ s.out \subseteq s.live
      /\ s.core \in Nat /\ s.swap \in Nat /\ s.mpid \in 0 .. MaxPid
  BY ProcsAssumption
<1>3. ASSUME NEW S \in SUBSET Slot PROVE Cardinality(S) \in Nat
  BY <1>3, SlotIs, FS_Subset, FS_CardinalityType
<1>4. ASSUME NEW q \in Slot PROVE Entry0(s, q) \in Row
  <2>1. FreeSlot \in Row
    BY <1>0 DEF FreeSlot, Row, Stats
  <2>2. q \in 0 .. MaxPid
    BY ProcsAssumption DEF Slot
  <2>3. PICK a : a = IF q = 0 THEN 0
                     ELSE IF q \in s.out THEN 1 + ImageSwap * Cardinality({r \in s.out : r < q})
                     ELSE Cardinality({r \in InCore(s) : r <= q})
    OBVIOUS
  <2>4. {r \in s.out : r < q} \in SUBSET Slot /\ {r \in InCore(s) : r <= q} \in SUBSET Slot
    BY <1>2 DEF InCore
  <2>5. PICK k \in Nat : k = Cardinality({r \in s.out : r < q})
    BY <1>3, <2>4
  <2>6. 1 + ImageSwap * k \in Nat
    BY ProcsAssumption
  <2>7. a \in Nat
    BY <1>3, <2>3, <2>4, <2>5, <2>6
  <2>8. PICK ppid \in 0 .. MaxPid : ppid = IF q > 1 THEN 1 ELSE 0
    BY <1>0
  <2>9. Entry0(s, q) = IF q \notin s.live THEN FreeSlot
                       ELSE [FreeSlot EXCEPT !.stat = "SRUN", !.pid = q, !.ppid = ppid,
                                 !.load = q \notin s.out, !.addr = a]
    BY <2>3, <2>8 DEF Entry0
  <2>10. [FreeSlot EXCEPT !.stat = "SRUN", !.pid = q, !.ppid = ppid, !.load = q \notin s.out, !.addr = a] \in Row
    BY <2>1, <2>2, <2>7 DEF Row, Stats
  <2> QED
    BY <2>1, <2>9, <2>10
<1>5. proc \in [Slot -> Row]
  BY <1>1, <1>4 DEF Init
<1>6. at \in [Slot -> Places]
  BY DEF Init, Places
<1>7. ASSUME NEW a \in Nat, NEW n \in Nat PROVE FreeFrom(a, n) \in Seq(Entries)
  <2>1. CASE a > n
    BY <2>1 DEF FreeFrom
  <2>2. CASE ~(a > n)
    <3>1. n - a + 1 \in Nat
      BY <2>2
    <3>2. Entry(a, n - a + 1) \in Entries
      BY <3>1 DEF Entry, Entries
    <3> QED
      BY <2>2, <3>2 DEF FreeFrom
  <2> QED
    BY <2>1, <2>2
<1>8. coremap \in Seq(Entries) /\ swapmap \in Seq(Entries)
  <2>1. InCore(s) \in SUBSET Slot /\ s.out \in SUBSET Slot
    BY <1>2 DEF InCore
  <2>2. PICK i \in Nat, o \in Nat : i = Cardinality(InCore(s)) /\ o = Cardinality(s.out)
    BY <1>3, <2>1
  <2>3. i + 1 \in Nat /\ ImageSwap * o + 1 \in Nat
    BY ProcsAssumption
  <2>4. coremap = FreeFrom(i + 1, s.core) /\ swapmap = FreeFrom(ImageSwap * o + 1, s.swap)
    BY <1>1, <2>2 DEF Init
  <2> QED
    BY <1>2, <1>7, <2>3, <2>4
<1>9. job \in [Slot -> Job] /\ swbuf \in Header /\ rawbuf \in Header
  BY <1>0, NoJobType DEF Init, Header, Idle
<1> QED
  BY <1>1, <1>2, <1>5, <1>6, <1>8, <1>9 DEF Init, Types

\* Where everything starts: processes 0 and 1 are there, and the others are
\* children of process 1.
LEMMA InitTable ==
    ASSUME Init, InitStays
    PROVE  Table
<1>0. 0 \in Slot /\ 1 \in Slot
  BY SlotIs
<1>1. Types
  BY InitTypes
<1>2. PICK s \in Starts : s = start
  BY DEF Init
<1>3. {0, 1} \subseteq s.live /\ s.live \subseteq Slot /\ s.out \subseteq s.live \ {0}
  BY ProcsAssumption
<1>4. ASSUME NEW q \in Slot
      PROVE  /\ proc[q].stat = IF q \in s.live THEN "SRUN" ELSE Null
             /\ proc[q].pid = IF q \in s.live THEN q ELSE 0
             /\ proc[q].ppid = IF q \in s.live /\ q > 1 THEN 1 ELSE 0
             /\ proc[q].sig = "none" /\ (q = 0 => proc[q].load)
  <2>1. proc[q] = Entry0(s, q)
    BY <1>2 DEF Init
  <2>2. PICK a : a = IF q = 0 THEN 0
                     ELSE IF q \in s.out THEN 1 + ImageSwap * Cardinality({r \in s.out : r < q})
                     ELSE Cardinality({r \in InCore(s) : r <= q})
    OBVIOUS
  <2>3. PICK pp : pp = IF q > 1 THEN 1 ELSE 0
    OBVIOUS
  <2>4. proc[q] = IF q \notin s.live THEN FreeSlot
                  ELSE [FreeSlot EXCEPT !.stat = "SRUN", !.pid = q, !.ppid = pp,
                            !.load = q \notin s.out, !.addr = a]
    BY <2>1, <2>2, <2>3 DEF Entry0
  <2>5. CASE q \notin s.live
    BY <1>3, <2>4, <2>5 DEF FreeSlot
  <2>6. CASE q \in s.live
    <3>1. proc[q] = [FreeSlot EXCEPT !.stat = "SRUN", !.pid = q, !.ppid = pp,
                            !.load = q \notin s.out, !.addr = a]
      BY <2>4, <2>6
    <3>2. /\ proc[q].stat = "SRUN" /\ proc[q].pid = q /\ proc[q].ppid = pp /\ proc[q].sig = "none"
          /\ proc[q].load = (q \notin s.out)
      BY <3>1 DEF FreeSlot
    <3>3. q = 0 => q \notin s.out
      BY <1>3
    <3> QED
      BY <2>3, <2>6, <3>2, <3>3
  <2> QED
    BY <2>5, <2>6
<1>5. /\ \A q \in Slot : /\ at[q] = IF q = 0 THEN "loop" ELSE IF q \in s.live THEN "user" ELSE "free"
                         /\ job[q].kind = "none"
      /\ todo = s.ops
  BY <1>2 DEF Init, NoJob
<1>6. ParentLives
  <2> SUFFICES ASSUME NEW q \in Slot \ {0}, proc[q].stat # Null
               PROVE  /\ \E r \in Slot : proc[r].pid = proc[q].ppid /\ proc[r].stat \notin {Null, "SZOMB"}
                      /\ \A r \in Slot \ {q} : proc[r].pid # proc[q].pid
    BY DEF ParentLives
  <2>1. q \in s.live /\ proc[q].pid = q
    BY <1>4
  <2>2. \A r \in Slot \ {q} : proc[r].pid # proc[q].pid
    BY <1>4, <2>1
  <2>3. PICK r \in {0, 1} : proc[q].ppid = r
    BY <1>4
  <2>4. proc[r].pid = r /\ proc[r].stat \notin {Null, "SZOMB"} /\ r \in Slot
    BY <1>0, <1>3, <1>4 DEF Null
  <2> QED
    BY <2>2, <2>3, <2>4
<1>7. Founders
  <2>1. "exit" \notin todo[1]
    BY <1>5 DEF InitStays
  <2> QED
    BY <1>0, <1>3, <1>4, <1>5, <2>1 DEF Founders, Null
<1>8. Headers /\ SchedWake
  BY <1>4, <1>5, SlotIs DEF Headers, SchedWake
<1>9. ASSUME NEW p \in Slot PROVE PlaceInv(p) /\ CollectInv(p) /\ CopyInv(p) /\ WaitWake(p) /\ BufWake(p)
  <2>1. PlaceInv(p)
    BY <1>3, <1>4, <1>5 DEF PlaceInv, Null
  <2>2. CollectInv(p) /\ CopyInv(p) /\ WaitWake(p)
    BY <1>5 DEF CollectInv, CopyInv, InCopy, WaitWake
  <2>3. BufWake(p)
    BY <1>4 DEF BufWake, Null
  <2> QED
    BY <2>1, <2>2, <2>3
<1> QED
  BY <1>1, <1>6, <1>7, <1>8, <1>9 DEF Table

LEMMA NextTable ==
    ASSUME Table, [Next]_vars
    PROVE  Table'
<1>1. CASE Clock
  BY <1>1, ClockStep
<1>2. ASSUME NEW p \in Slot, Interrupt(p) PROVE Table'
  <2>1. CASE BioIntr(p)
    BY <2>1, BioIntrStep
  <2>2. CASE SwapIntr
    BY <2>2, SwapIntrStep
  <2>3. CASE RawIntr
    BY <2>3, RawIntrStep
  <2> QED
    BY <1>2, <2>1, <2>2, <2>3 DEF Interrupt
<1>3. ASSUME NEW p \in Slot, Kernel(p) PROVE Table'
  <2>1. CASE Sched
    BY <2>1, SchedStep
  <2>2. CASE SwapInEnd \/ SwapOutEnd
    BY <2>2, SwapEndStep
  <2>3. CASE SwapGet(p)
    BY <2>3, SwapGetStep
  <2>4. CASE NewprocSwap(p)
    BY <2>4, NewprocSwapStep
  <2>5. CASE NewprocEnd(p)
    BY <2>5, NewprocEndStep
  <2>6. CASE ExitEnd(p)
    BY <2>6, ExitEndStep
  <2>7. CASE WaitIntr(p)
    BY <2>7, WaitIntrStep
  <2>8. CASE WaitEnd(p)
    BY <2>8, WaitEndStep
  <2>9. CASE RawGet(p)
    BY <2>9, RawStep
  <2>10. CASE RawEnd(p)
    BY <2>10, RawEndStep
  <2>11. CASE PsinfoRead(p)
    BY <2>11, PsinfoStep
  <2>12. CASE Psig(p)
    BY <2>12, PsigStep
  <2> QED
    BY <1>3, <2>1, <2>2, <2>3, <2>4, <2>5, <2>6, <2>7, <2>8, <2>9, <2>10, <2>11, <2>12 DEF Kernel, Scheduler
<1>4. ASSUME NEW p \in Slot, User(p) PROVE Table'
  <2>1. CASE Fork(p)
    BY <2>1, ForkStep
  <2>2. CASE Exit(p)
    BY <2>2, ExitStep
  <2>3. CASE Raw(p)
    BY <2>3, RawStep
  <2>4. CASE \E s \in Slot : Psinfo(p, s)
    BY <2>4, PsinfoStep
  <2>5. CASE \E T \in Targets(p), g \in {"INT", "KIL"} : Kill(p, T, g)
    BY <2>5, KillStep
  <2>6. CASE \E h \in {"dfl", "ign", "fun"} : Ssig(p, h)
    BY <2>6, SsigStep
  <2> QED
    BY <1>4, <2>1, <2>2, <2>3, <2>4, <2>5, <2>6 DEF User
<1>5. ASSUME NEW p \in Slot, Wait(p) PROVE Table'
  BY <1>5, WaitStep
<1>6. CASE UNCHANGED vars
  <2>1. UNCHANGED <<proc, at, job, hand, coremap, swapmap, swbuf, rawbuf, mpid, psok, panic, todo>>
    BY <1>6 DEF vars, maps, bufs, rest
  <2>2. UNCHANGED <<Types, ParentLives, Founders, Headers, SchedWake>>
    BY <2>1 DEF Types, ParentLives, Founders, Headers, SchedWake, Ready
  <2>3. ASSUME NEW p \in Slot PROVE UNCHANGED <<PlaceInv(p), CollectInv(p), CopyInv(p), WaitWake(p), BufWake(p)>>
    BY <2>1 DEF PlaceInv, CollectInv, CopyInv, InCopy, WaitWake, Zombies, Children, BufWake
  <2> QED
    BY <2>2, <2>3 DEF Table
<1> QED
  BY <1>1, <1>2, <1>3, <1>4, <1>5, <1>6 DEF Next

LEMMA TableSafe ==
    ASSUME Table
    PROVE  TableKept
<1>1. TypeOK
  BY DEF Table, Types, TypeOK, Row, Stats, Job, Header, Entries
<1>2. NoLostWakeup
  BY DEF Table, NoLostWakeup, WaitWake, SchedWake, BufWake
<1> QED
  BY <1>1, <1>2 DEF Table, TableKept

\* TableKept, for every size of the table and every start: whatever the
\* processes call, however they are swapped, signalled and interrupted, every
\* process has a parent who can wait for it and a number that no other has,
\* newproc's parent stands still for one child only, and nobody sleeps in wait,
\* in sched or for a buffer header when what they sleep for has happened.
THEOREM TableStays ==
    ASSUME InitStays
    PROVE  Spec => []TableKept
<1>1. Init => Table
  BY InitTable
<1>2. Table /\ [Next]_vars => Table'
  BY NextTable
<1>3. Table => TableKept
  BY TableSafe
<1> QED
  BY <1>1, <1>2, <1>3, PTL DEF Spec

=============================================================================
