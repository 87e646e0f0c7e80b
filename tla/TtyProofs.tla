------------------------------ MODULE TtyProofs ------------------------------
EXTENDS Tty, NaturalsInduction, WellFoundedInduction, SequenceTheorems, FiniteSetTheorems,
        TLAPS

-----------------------------------------------------------------------------
\* Sequences: Only.

\* Induction, for a set of numbers.
LEMMA Induction ==
    ASSUME NEW S, 0 \in S, \A n \in Nat : n \in S => n + 1 \in S
    PROVE  Nat \subseteq S
<1> SUFFICES ASSUME Nat \ S # {} PROVE FALSE
  OBVIOUS
<1> DEFINE R == OpToRel(<, Nat)
<1>1. IsWellFoundedOn(R, Nat)
  BY NatLessThanWellFounded
<1>2. \A x, y \in Nat : <<x, y>> \in R <=> x < y
  BY DEF OpToRel
<1> HIDE DEF R
<1>3. PICK m \in Nat \ S : \A k \in Nat \ S : ~(<<k, m>> \in R)
  BY <1>1, WFMin
<1>4. m # 0 /\ m - 1 \in Nat /\ m - 1 < m
  BY <1>3
<1>5. m - 1 \in S
  BY <1>2, <1>3, <1>4
<1>6. (m - 1) + 1 \in S
  BY <1>4, <1>5
<1>7. (m - 1) + 1 = m
  BY <1>3
<1> QED
  BY <1>3, <1>6, <1>7

\* f gives what Only collects of the first n elements, for every n.
Collects(f, s, K, n) ==
    f = [i \in 0 .. n |-> IF i = 0 THEN <<>>
                          ELSE IF s[i] \in K THEN Append(f[i - 1], s[i]) ELSE f[i - 1]]

\* The values of such an f.
LEMMA CollectsIs ==
    ASSUME NEW f, NEW s, NEW K, NEW n \in Nat, Collects(f, s, K, n)
    PROVE  /\ f[0] = <<>>
           /\ \A i \in 1 .. n : s[i] \in K => f[i] = Append(f[i - 1], s[i])
           /\ \A i \in 1 .. n : s[i] \notin K => f[i] = f[i - 1]
BY DEF Collects

LEMMA CollectsZero ==
    ASSUME NEW f, NEW s, NEW K, NEW n \in Nat, Collects(f, s, K, n)
    PROVE  f[0] = <<>>
BY CollectsIs

\* The same, from one element to the next.
LEMMA CollectsNext ==
    ASSUME NEW f, NEW s, NEW K, NEW n \in Nat, Collects(f, s, K, n),
           NEW i \in Nat, i + 1 <= n
    PROVE  f[i + 1] = IF s[i + 1] \in K THEN Append(f[i], s[i + 1]) ELSE f[i]
<1> DEFINE k == i + 1
           R(j) == IF j = 0 THEN <<>> ELSE IF s[j] \in K THEN Append(f[j - 1], s[j]) ELSE f[j - 1]
<1>1. k \in 0 .. n /\ k # 0 /\ k - 1 = i
  OBVIOUS
<1>2. f = [j \in 0 .. n |-> R(j)]
  BY DEF Collects
<1> HIDE DEF k, R
<1>3. f[k] = R(k)
  BY <1>1, <1>2
<1>4. R(k) = IF s[k] \in K THEN Append(f[k - 1], s[k]) ELSE f[k - 1]
  BY <1>1 DEF R
<1>5. f[k] = IF s[k] \in K THEN Append(f[i], s[k]) ELSE f[i]
  BY <1>1, <1>3, <1>4
<1> QED
  BY <1>5 DEF k

\* There is one.
LEMMA SomeCollects ==
    ASSUME NEW s, NEW K, NEW n \in Nat
    PROVE  \E f : Collects(f, s, K, n)
<1> DEFINE S == {m \in Nat : \E f : Collects(f, s, K, m)}
<1>1. 0 \in S
  <2> DEFINE f == [i \in 0 .. 0 |-> <<>>]
  <2>1. Collects(f, s, K, 0)
    BY DEF Collects
  <2> QED
    BY <2>1
<1>2. ASSUME NEW m \in Nat, m \in S PROVE m + 1 \in S
  <2>1. PICK f : Collects(f, s, K, m)
    BY <1>2
  <2> DEFINE g == [i \in 0 .. m + 1 |->
                     IF i <= m THEN f[i]
                     ELSE IF s[i] \in K THEN Append(f[i - 1], s[i]) ELSE f[i - 1]]
  <2>2. \A i \in 0 .. m : g[i] = f[i]
    OBVIOUS
  <2>3. ASSUME NEW i \in 0 .. m + 1
        PROVE  g[i] = IF i = 0 THEN <<>>
                      ELSE IF s[i] \in K THEN Append(g[i - 1], s[i]) ELSE g[i - 1]
    <3>1. CASE i = 0
      BY <2>1, <2>2, <3>1, CollectsIs
    <3>2. CASE i \in 1 .. m
      <4>1. i - 1 \in 0 .. m /\ i \in 0 .. m
        BY <3>2
      <4> HIDE DEF g
      <4>2. g[i] = f[i] /\ g[i - 1] = f[i - 1] /\ i # 0
        BY <2>2, <3>2, <4>1
      <4>3. f[i] = IF s[i] \in K THEN Append(f[i - 1], s[i]) ELSE f[i - 1]
        <5>1. /\ s[i] \in K => f[i] = Append(f[i - 1], s[i])
              /\ s[i] \notin K => f[i] = f[i - 1]
          <6>1. \A j \in 1 .. m : s[j] \in K => f[j] = Append(f[j - 1], s[j])
            BY <2>1, CollectsIs
          <6>2. \A j \in 1 .. m : s[j] \notin K => f[j] = f[j - 1]
            BY <2>1, CollectsIs
          <6> QED
            BY <3>2, <6>1, <6>2
        <5> DEFINE x == Append(f[i - 1], s[i])
                   b == s[i] \in K
        <5> HIDE DEF x, b
        <5>2. CASE s[i] \in K
          BY <5>1, <5>2
        <5>3. CASE s[i] \notin K
          BY <5>1, <5>3
        <5> QED
          BY <5>2, <5>3
      <4> QED
        BY <4>2, <4>3
    <3>3. CASE i = m + 1
      <4>1. i - 1 \in 0 .. m /\ i \in 0 .. m + 1 /\ ~(i <= m) /\ i # 0
        BY <3>3
      <4>2. g[i - 1] = f[i - 1]
        BY <2>2, <4>1
      <4>3. g[i] = IF s[i] \in K THEN Append(f[i - 1], s[i]) ELSE f[i - 1]
        BY <4>1
      <4> HIDE DEF g
      <4> QED
        BY <4>1, <4>2, <4>3
    <3> QED
      BY <3>1, <3>2, <3>3
  <2>4. Collects(g, s, K, m + 1)
    <3>1. g = [i \in 0 .. m + 1 |-> g[i]]
      OBVIOUS
    <3> HIDE DEF g
    <3>2. g = [i \in 0 .. m + 1 |->
                 IF i = 0 THEN <<>>
                 ELSE IF s[i] \in K THEN Append(g[i - 1], s[i]) ELSE g[i - 1]]
      BY <2>3, <3>1
    <3> QED
      BY <3>2 DEF Collects
  <2> QED
    BY <2>4
<1> HIDE DEF S
<1>3. Nat \subseteq S
  BY <1>1, <1>2, Induction
<1> QED
  BY <1>3 DEF S

\* What Only is, without its recursion.
LEMMA OnlyIs ==
    ASSUME NEW s, NEW K, Len(s) \in Nat
    PROVE  \E f : Collects(f, s, K, Len(s)) /\ Only(s, K) = f[Len(s)]
<1> DEFINE F == CHOOSE f : Collects(f, s, K, Len(s))
<1>1. Collects(F, s, K, Len(s))
  BY SomeCollects
<1>2. Only(s, K) = F[Len(s)]
  BY DEF Only, Collects
<1> QED
  BY <1>1, <1>2

\* Sequences that begin alike.
Alike(s, t, m) == \A i \in 1 .. m : s[i] = t[i]

LEMMA CollectAlike ==
    ASSUME NEW s, NEW t, NEW K, NEW n \in Nat, NEW m \in Nat, m <= n,
           NEW f, NEW g, Collects(f, s, K, m), Collects(g, t, K, n), Alike(s, t, m)
    PROVE  f[m] = g[m]
<1> DEFINE Good(i) == i <= m => f[i] = g[i]
           S == {i \in Nat : Good(i)}
<1>1. f[0] = g[0]
  BY CollectsIs
<1>2. ASSUME NEW i \in Nat, Good(i), i + 1 <= m PROVE f[i + 1] = g[i + 1]
  <2>1. i + 1 \in 1 .. m /\ i + 1 \in 1 .. n /\ (i + 1) - 1 = i
    BY <1>2
  <2>2. f[i] = g[i] /\ s[i + 1] = t[i + 1]
    BY <1>2, <2>1 DEF Alike
  <2>3. f[i + 1] = IF s[i + 1] \in K THEN Append(f[i], s[i + 1]) ELSE f[i]
    BY <1>2, CollectsNext
  <2>4. g[i + 1] = IF t[i + 1] \in K THEN Append(g[i], t[i + 1]) ELSE g[i]
    <3>1. i + 1 <= n
      BY <1>2
    <3> QED
      BY <3>1, CollectsNext
  <2> QED
    BY <2>2, <2>3, <2>4
<1>3. \A i \in Nat : Good(i) => Good(i + 1)
  BY <1>2
<1>4. Good(0)
  BY <1>1
<1>5. Nat \subseteq S
  <2>1. 0 \in S
    BY <1>4
  <2>2. \A i \in Nat : i \in S => i + 1 \in S
    BY <1>3
  <2> HIDE DEF S
  <2> QED
    BY <2>1, <2>2, Induction
<1> HIDE DEF Good
<1>6. \A i \in Nat : Good(i)
  BY <1>5
<1> QED
  BY <1>6 DEF Good

\* What is collected of a sequence over T is one.
LEMMA OnlyType ==
    ASSUME NEW T, NEW s \in Seq(T), NEW K
    PROVE  Only(s, K) \in Seq(T \cap K)
<1>0. Len(s) \in Nat
  BY LenProperties
<1>1. PICK f : Collects(f, s, K, Len(s)) /\ Only(s, K) = f[Len(s)]
  BY <1>0, OnlyIs
<1> DEFINE Good(i) == i <= Len(s) => f[i] \in Seq(T \cap K)
           S == {i \in Nat : Good(i)}
<1>2. f[0] \in Seq(T \cap K)
  <2>1. f[0] = <<>>
    BY <1>0, <1>1, CollectsZero
  <2> QED
    BY <2>1
<1>3. ASSUME NEW i \in Nat, Good(i), i + 1 <= Len(s) PROVE f[i + 1] \in Seq(T \cap K)
  <2>1. i + 1 \in 1 .. Len(s) /\ (i + 1) - 1 = i /\ f[i] \in Seq(T \cap K)
    BY <1>0, <1>3
  <2>2. s[i + 1] \in T
    BY <2>1, ElementOfSeq
  <2>3. CASE s[i + 1] \in K
    <3>1. f[i + 1] = Append(f[i], s[i + 1])
      BY <1>0, <1>1, <1>3, <2>3, CollectsNext
    <3> QED
      BY <2>1, <2>2, <2>3, <3>1, AppendProperties
  <2>4. CASE s[i + 1] \notin K
    <3>1. f[i + 1] = f[i]
      BY <1>0, <1>1, <1>3, <2>4, CollectsNext
    <3> QED
      BY <2>1, <3>1
  <2> QED
    BY <2>3, <2>4
<1>4. \A i \in Nat : Good(i) => Good(i + 1)
  BY <1>3
<1>5. Good(0)
  BY <1>2
<1>6. Nat \subseteq S
  <2>1. 0 \in S
    BY <1>5
  <2>2. \A i \in Nat : i \in S => i + 1 \in S
    BY <1>4
  <2> HIDE DEF S
  <2> QED
    BY <2>1, <2>2, Induction
<1> HIDE DEF Good
<1>7. Good(Len(s))
  BY <1>0, <1>6
<1> QED
  BY <1>0, <1>1, <1>7 DEF Good

\* Only of two sequences, one after the other.
LEMMA OnlyConcat ==
    ASSUME NEW T, NEW s \in Seq(T), NEW t \in Seq(T), NEW K
    PROVE  Only(s \o t, K) = Only(s, K) \o Only(t, K)
<1> DEFINE u == s \o t
<1>0. Len(s) \in Nat /\ Len(t) \in Nat
  BY LenProperties
<1>1. /\ u \in Seq(T) /\ Len(u) = Len(s) + Len(t)
      /\ \A i \in 1 .. Len(s) : u[i] = s[i]
      /\ \A i \in 1 .. Len(t) : u[Len(s) + i] = t[i]
  BY <1>0, ConcatProperties
<1>a. Len(u) \in Nat /\ Len(s) <= Len(u)
  BY <1>0, <1>1
<1> HIDE DEF u
<1>2. PICK f : Collects(f, s, K, Len(s)) /\ Only(s, K) = f[Len(s)]
  BY <1>0, OnlyIs
<1>3. PICK g : Collects(g, t, K, Len(t)) /\ Only(t, K) = g[Len(t)]
  BY <1>0, OnlyIs
<1>4. PICK h : Collects(h, u, K, Len(u)) /\ Only(u, K) = h[Len(u)]
  BY <1>a, OnlyIs
<1>5. f[Len(s)] \in Seq(T)
  <2>1. Only(s, K) \in Seq(T \cap K)
    BY OnlyType
  <2> QED
    BY <1>2, <2>1
<1> DEFINE Good(i) == i <= Len(t) => g[i] \in Seq(T) /\ h[Len(s) + i] = f[Len(s)] \o g[i]
           S == {i \in Nat : Good(i)}
<1>6. Good(0)
  <2>1. g[0] = <<>>
    BY <1>0, <1>3, CollectsZero
  <2>2. Alike(s, u, Len(s))
    BY <1>1 DEF Alike
  <2>3. h[Len(s)] = f[Len(s)]
    BY <1>0, <1>a, <1>2, <1>4, <2>2, CollectAlike
  <2>4. f[Len(s)] \o <<>> = f[Len(s)]
    BY <1>5, ConcatEmptySeq
  <2>5. Len(s) + 0 = Len(s)
    BY <1>0
  <2>6. g[0] \in Seq(T)
    BY <2>1
  <2>7. h[Len(s) + 0] = f[Len(s)] \o g[0]
    BY <2>1, <2>3, <2>4, <2>5
  <2> QED
    BY <2>6, <2>7
<1>7. ASSUME NEW i \in Nat, Good(i), i + 1 <= Len(t)
      PROVE  g[i + 1] \in Seq(T) /\ h[Len(s) + (i + 1)] = f[Len(s)] \o g[i + 1]
  <2>1. /\ i + 1 \in 1 .. Len(t) /\ (i + 1) - 1 = i
        /\ g[i] \in Seq(T) /\ h[Len(s) + i] = f[Len(s)] \o g[i]
    <3>1. i + 1 \in 1 .. Len(t) /\ (i + 1) - 1 = i /\ i <= Len(t)
      BY <1>0, <1>7
    <3> HIDE DEF S
    <3> QED
      BY <1>7, <3>1
  <2>2. t[i + 1] \in T
    BY <2>1, ElementOfSeq
  <2> DEFINE k == Len(s) + (i + 1)
  <2>3. k \in 1 .. Len(u) /\ k - 1 = Len(s) + i /\ u[k] = t[i + 1]
    BY <1>0, <1>1, <2>1
  <2> HIDE DEF k
  <2>4. CASE t[i + 1] \in K
    <3>1. g[i + 1] = Append(g[i], t[i + 1])
      BY <1>0, <1>3, <1>7, <2>4, CollectsNext
    <3>2. h[k] = Append(h[k - 1], u[k])
      <4>1. u[k] \in K
        BY <2>3, <2>4
      <4> QED
        BY <1>a, <1>4, <2>3, <4>1, CollectsIs
    <3>3. Append(f[Len(s)] \o g[i], t[i + 1]) = f[Len(s)] \o Append(g[i], t[i + 1])
      <4> DEFINE a == f[Len(s)]
                 b == g[i]
                 c == t[i + 1]
      <4>1. a \in Seq(T) /\ b \in Seq(T) /\ c \in T
        BY <1>5, <2>1, <2>2
      <4> HIDE DEF a, b, c
      <4>2. Append(a \o b, c) = (a \o b) \o <<c>> /\ Append(b, c) = b \o <<c>>
        BY <4>1, AppendIsConcat, ConcatProperties
      <4>3. (a \o b) \o <<c>> = a \o (b \o <<c>>)
        BY <4>1, ConcatAssociative, SMTT(30)
      <4> QED
        BY <4>2, <4>3 DEF a, b, c
    <3>4. g[i + 1] \in Seq(T)
      BY <2>1, <2>2, <3>1, AppendProperties
    <3> QED
      BY <2>1, <2>3, <3>1, <3>2, <3>3, <3>4 DEF k
  <2>5. CASE t[i + 1] \notin K
    <3>1. g[i + 1] = g[i]
      BY <1>0, <1>3, <1>7, <2>5, CollectsNext
    <3>2. h[k] = h[k - 1]
      <4>1. u[k] \notin K
        BY <2>3, <2>5
      <4> QED
        BY <1>a, <1>4, <2>3, <4>1, CollectsIs
    <3> QED
      BY <2>1, <2>3, <3>1, <3>2 DEF k
  <2> QED
    BY <2>4, <2>5
<1>8. \A i \in Nat : Good(i) => Good(i + 1)
  BY <1>7
<1> HIDE DEF Good
<1>9. Nat \subseteq S
  <2>1. 0 \in S
    BY <1>6
  <2>2. \A i \in Nat : i \in S => i + 1 \in S
    BY <1>8
  <2> HIDE DEF S
  <2> QED
    BY <2>1, <2>2, Induction
<1>10. Good(Len(t))
  BY <1>0, <1>9
<1>11. h[Len(s) + Len(t)] = f[Len(s)] \o g[Len(t)]
  <2>1. Len(t) <= Len(t)
    BY <1>0
  <2> HIDE DEF S
  <2> QED
    BY <1>10, <2>1 DEF Good
<1> QED
  BY <1>1, <1>2, <1>3, <1>4, <1>11 DEF u

\* Only of no element and of one.
LEMMA OnlyEmpty ==
    ASSUME NEW K
    PROVE  Only(<<>>, K) = <<>>
<1>1. Len(<<>>) = 0
  OBVIOUS
<1>2. PICK f : Collects(f, <<>>, K, 0) /\ Only(<<>>, K) = f[0]
  BY <1>1, OnlyIs
<1> QED
  BY <1>2, CollectsIs

LEMMA OnlyOne ==
    ASSUME NEW x, NEW K
    PROVE  Only(<<x>>, K) = IF x \in K THEN <<x>> ELSE <<>>
<1> DEFINE s == <<x>>
<1>1. Len(s) = 1 /\ s[1] = x
  OBVIOUS
<1> HIDE DEF s
<1>2. PICK f : Collects(f, s, K, 1) /\ Only(s, K) = f[1]
  BY <1>1, OnlyIs
<1>3. f[0] = <<>> /\ (x \in K => f[1] = Append(f[1 - 1], x)) /\ (x \notin K => f[1] = f[1 - 1])
  BY <1>1, <1>2, CollectsIs
<1>4. Append(<<>>, x) = <<x>>
  OBVIOUS
<1>5. 1 - 1 = 0
  OBVIOUS
<1> QED
  BY <1>2, <1>3, <1>4, <1>5 DEF s

\* A sequence is its head and its tail.
LEMMA HeadAndTail ==
    ASSUME NEW T, NEW s \in Seq(T), s # <<>>
    PROVE  /\ Head(s) \in T /\ Tail(s) \in Seq(T) /\ Len(Tail(s)) = Len(s) - 1
           /\ s = <<Head(s)>> \o Tail(s)
<1> DEFINE h == Head(s)
           r == Tail(s)
<1>1. /\ h \in T /\ r \in Seq(T) /\ Len(r) = Len(s) - 1 /\ h = s[1]
      /\ \A i \in 1 .. Len(r) : r[i] = s[i + 1]
  BY HeadTailProperties
<1>2. Len(s) \in Nat \ {0} /\ Len(r) \in Nat
  BY <1>1, EmptySeq, LenProperties
<1> HIDE DEF h, r
<1> DEFINE u == <<h>> \o r
<1>3. /\ u \in Seq(T) /\ Len(u) = Len(s)
      /\ \A i \in 1 .. Len(s) : u[i] = s[i]
  <2>1. <<h>> \in Seq(T) /\ Len(<<h>>) = 1 /\ <<h>>[1] = h
    BY <1>1
  <2> DEFINE g == <<h>>
  <2> HIDE DEF g
  <2>2. g \in Seq(T) /\ Len(g) = 1 /\ g[1] = h
    BY <2>1 DEF g
  <2>3. /\ g \o r \in Seq(T) /\ Len(g \o r) = 1 + Len(r)
        /\ \A i \in 1 .. 1 + Len(r) : (g \o r)[i] = IF i <= 1 THEN g[i] ELSE r[i - 1]
    <3>1. r \in Seq(T)
      BY <1>1
    <3>2. /\ g \o r \in Seq(T) /\ Len(g \o r) = Len(g) + Len(r)
          /\ \A i \in 1 .. Len(g) + Len(r) :
               (g \o r)[i] = IF i <= Len(g) THEN g[i] ELSE r[i - Len(g)]
      BY <2>2, <3>1, ConcatProperties
    <3> QED
      BY <2>2, <3>2
  <2>4. Len(g \o r) = Len(s)
    BY <1>1, <1>2, <2>3
  <2>5. ASSUME NEW i \in 1 .. Len(s) PROVE (g \o r)[i] = s[i]
    <3>1. CASE i = 1
      BY <1>1, <1>2, <2>2, <2>3, <3>1
    <3>2. CASE i # 1
      <4> DEFINE k == i - 1
      <4>1. k \in 1 .. Len(r) /\ i \in 1 .. 1 + Len(r) /\ ~(i <= 1) /\ k + 1 = i
        BY <1>1, <1>2, <3>2
      <4>2. (g \o r)[i] = r[k]
        BY <2>3, <4>1
      <4> HIDE DEF k
      <4>3. r[k] = s[k + 1]
        BY <1>1, <4>1
      <4> QED
        BY <4>1, <4>2, <4>3
    <3> QED
      BY <3>1, <3>2
  <2> QED
    BY <2>3, <2>4, <2>5 DEF u, g
<1> HIDE DEF u
<1>4. u = s
  BY <1>3, SeqEqual
<1> QED
  BY <1>1, <1>4 DEF u, h, r

\* Only of what is appended, and of what is left when the head is taken.
LEMMA OnlyAppend ==
    ASSUME NEW T, NEW s \in Seq(T), NEW x \in T, NEW K
    PROVE  Only(Append(s, x), K) = Only(s, K) \o Only(<<x>>, K)
<1>1. Append(s, x) = s \o <<x>> /\ <<x>> \in Seq(T)
  BY AppendIsConcat
<1> DEFINE y == <<x>>
<1>2. y \in Seq(T) /\ Append(s, x) = s \o y
  BY <1>1
<1> HIDE DEF y
<1>3. Only(s \o y, K) = Only(s, K) \o Only(y, K)
  BY <1>2, OnlyConcat
<1> QED
  BY <1>2, <1>3 DEF y

LEMMA OnlyTail ==
    ASSUME NEW T, NEW s \in Seq(T), s # <<>>, NEW K
    PROVE  Only(s, K) = Only(<<Head(s)>>, K) \o Only(Tail(s), K)
<1>1. Head(s) \in T /\ Tail(s) \in Seq(T) /\ s = <<Head(s)>> \o Tail(s)
  BY HeadAndTail
<1> DEFINE h == Head(s)
           r == Tail(s)
<1>2. h \in T /\ r \in Seq(T) /\ s = <<h>> \o r
  BY <1>1
<1> DEFINE y == <<h>>
<1>3. y \in Seq(T)
  BY <1>2
<1> HIDE DEF h, r, y
<1>4. Only(y \o r, K) = Only(y, K) \o Only(r, K)
  BY <1>2, <1>3, OnlyConcat
<1> QED
  BY <1>2, <1>4 DEF h, r, y

-----------------------------------------------------------------------------
\* The types of all variables.

OutChar == Key \cup {Delay, "cr"}
Sent == Key \cup {"cr"}
TtyType == [rawq : Seq(Key \cup {Delim}), canq : Seq(Key), outq : Seq(OutChar), delct : Int,
            raw : BOOLEAN, echo : BOOLEAN, delay : BOOLEAN, timeout : BOOLEAN,
            thr : {None} \cup Sent]

Kernels == {"canon", "get", "dec", "put", "pass", "getc", "more", "cpass", "out",
            "stty", "close", "set"}
Places == {"user"} \cup Waits \cup Kernels

IsLog(l) == \E a, b, c : l = [typing |-> a, due |-> b, out |-> c]

SharedTypes ==
    /\ tp \in TtyType /\ IsLog(log)
    /\ wchan \in [Proc -> {None, "rawq", "outq"}]
    /\ start \in Starts

ProcTypes ==
    /\ pc \in [Proc -> Places] /\ sig \in [Proc -> BOOLEAN]
    /\ line \in [Proc -> Seq(Key)] /\ text \in [Proc -> Seq(Key)]
    /\ expn \in [Proc -> Seq(OutChar)] /\ count \in [Proc -> Int]

Types == SharedTypes /\ ProcTypes

\* What is being sent and what will be.
Sending(t) == (IF t.thr = None THEN <<>> ELSE <<t.thr>>) \o Sendable(t.outq)

\* ttstart leaves what is to be sent as it is.
LEMMA TtstartKeeps ==
    ASSUME NEW t \in TtyType
    PROVE  /\ Ttstart(t) \in TtyType
           /\ Sending(Ttstart(t)) = Sending(t)
           /\ Ttstart(t).rawq = t.rawq /\ Ttstart(t).canq = t.canq /\ Ttstart(t).delct = t.delct
<1> DEFINE u == Ttstart(t)
<1>1. CASE t.thr # None \/ t.timeout \/ t.outq = <<>>
  <2>1. u = t
    BY <1>1 DEF Ttstart
  <2> QED
    BY <2>1
<1>2. CASE t.thr = None /\ ~t.timeout /\ t.outq # <<>>
  <2>1. Head(t.outq) \in OutChar /\ Tail(t.outq) \in Seq(OutChar)
    BY <1>2, HeadAndTail DEF TtyType
  <2>2. Sendable(t.outq) = Sendable(<<Head(t.outq)>>) \o Sendable(Tail(t.outq))
    BY <1>2, OnlyTail DEF TtyType, Sendable
  <2>3. Sendable(Tail(t.outq)) \in Seq(Sent)
    <3>1. Sendable(Tail(t.outq)) \in Seq(OutChar \cap Sent)
      BY <2>1, OnlyType DEF Sendable, Sent
    <3>2. OutChar \cap Sent = Sent
      BY DEF OutChar, Sent
    <3> QED
      BY <3>1, <3>2
  <2>4. <<>> \o Sendable(Tail(t.outq)) = Sendable(Tail(t.outq))
    BY <2>3, ConcatEmptySeq
  <2>5. CASE Head(t.outq) = Delay
    <3>1. u = [t EXCEPT !.outq = Tail(@), !.timeout = TRUE]
      BY <1>2, <2>5 DEF Ttstart
    <3>2. /\ u \in TtyType /\ u.thr = None /\ u.outq = Tail(t.outq)
          /\ u.rawq = t.rawq /\ u.canq = t.canq /\ u.delct = t.delct
      BY <1>2, <2>1, <3>1 DEF TtyType
    <3>3. Sendable(<<Head(t.outq)>>) = <<>>
      BY <2>5, OnlyOne DEF Sendable, Delay, Key
    <3>4. Sending(u) = Sending(t)
      BY <1>2, <2>2, <2>4, <3>2, <3>3 DEF Sending
    <3> QED
      BY <3>2, <3>4
  <2>6. CASE Head(t.outq) # Delay
    <3>1. u = [t EXCEPT !.outq = Tail(@), !.thr = Head(t.outq)]
      BY <1>2, <2>6 DEF Ttstart
    <3>2. Head(t.outq) \in Sent /\ Head(t.outq) # None
      BY <2>1, <2>6 DEF OutChar, Sent, Key, None
    <3>3. /\ u \in TtyType /\ u.thr = Head(t.outq) /\ u.outq = Tail(t.outq)
          /\ u.rawq = t.rawq /\ u.canq = t.canq /\ u.delct = t.delct
      BY <1>2, <2>1, <3>1, <3>2 DEF TtyType
    <3>4. Sendable(<<Head(t.outq)>>) = <<Head(t.outq)>>
      BY <3>2, OnlyOne DEF Sendable, Sent
    <3>5. Sending(u) = <<Head(t.outq)>> \o Sendable(Tail(t.outq))
      BY <3>2, <3>3 DEF Sending
    <3>6. Sending(t) = Sendable(t.outq)
      <4>1. <<Head(t.outq)>> \in Seq(Sent)
        BY <3>2
      <4>2. Sendable(t.outq) \in Seq(OutChar \cap Sent)
        BY OnlyType DEF Sendable, Sent, TtyType
      <4>3. <<>> \o Sendable(t.outq) = Sendable(t.outq)
        BY <4>2, ConcatEmptySeq
      <4> QED
        BY <1>2, <4>3 DEF Sending
    <3> QED
      BY <2>2, <3>3, <3>4, <3>5, <3>6
  <2> QED
    BY <2>5, <2>6
<1> QED
  BY <1>1, <1>2 DEF TtyType

LEMMA FlushttyType ==
    ASSUME NEW t \in TtyType
    PROVE  /\ Flushtty(t) \in TtyType
           /\ Flushtty(t).outq = <<>> /\ Flushtty(t).rawq = <<>> /\ Flushtty(t).delct = 0
           /\ Flushtty(t).thr = t.thr /\ Flushtty(t).timeout = t.timeout
<1> DEFINE u == Flushtty(t)
<1>1. u = [t EXCEPT !.canq = <<>>, !.outq = <<>>, !.rawq = <<>>, !.delct = 0]
  BY DEF Flushtty
<1>2. /\ u.outq = <<>> /\ u.rawq = <<>> /\ u.delct = 0
      /\ u.thr = t.thr /\ u.timeout = t.timeout
  BY <1>1 DEF TtyType
<1>3. u \in TtyType
  <2>1. <<>> \in Seq(Key) /\ <<>> \in Seq(OutChar) /\ <<>> \in Seq(Key \cup {Delim})
    OBVIOUS
  <2> DEFINE a == [t EXCEPT !.canq = <<>>]
             b == [a EXCEPT !.outq = <<>>]
             c == [b EXCEPT !.rawq = <<>>]
  <2>2. a \in TtyType
    BY <2>1 DEF TtyType
  <2> HIDE DEF a
  <2>3. b \in TtyType
    BY <2>1, <2>2 DEF TtyType
  <2> HIDE DEF b
  <2>4. c \in TtyType
    BY <2>1, <2>3 DEF TtyType
  <2> HIDE DEF c
  <2> DEFINE z == 0
  <2>5. z \in Int
    OBVIOUS
  <2> HIDE DEF z
  <2>6. [c EXCEPT !.delct = z] \in TtyType
    BY <2>4, <2>5 DEF TtyType
  <2> QED
    BY <1>1, <2>6 DEF a, b, c, z
<1> QED
  BY <1>2, <1>3

LEMMA TtyoutputType ==
    ASSUME NEW t, NEW c \in Key
    PROVE  Ttyoutput(t, c) \in Seq(OutChar)
<1>1. <<"cr", "nl">> \in Seq(OutChar) /\ <<Delay>> \in Seq(OutChar) /\ <<>> \in Seq(OutChar)
      /\ <<c>> \in Seq(OutChar)
  BY DEF OutChar, Key
<1> DEFINE a == <<"cr", "nl">>
           b == IF t.delay THEN <<Delay>> ELSE <<>>
<1>2. a \o b \in Seq(OutChar)
  <2>1. a \in Seq(OutChar) /\ b \in Seq(OutChar)
    BY <1>1
  <2> HIDE DEF a, b
  <2> QED
    BY <2>1, ConcatProperties
<1> QED
  BY <1>1, <1>2 DEF Ttyoutput

\* canon keeps a line of keys.
LEMMA CanonCharType ==
    ASSUME NEW l \in Seq(Key), NEW c \in Key
    PROVE  CanonChar(l, c) \in Seq(Key)
<1>1. Append(l, c) \in Seq(Key) /\ <<>> \in Seq(Key)
  OBVIOUS
<1>2. l # <<>> => Front(l) \in Seq(Key) /\ Append(Front(l), c) \in Seq(Key)
  <2>1. SUFFICES ASSUME l # <<>> PROVE Front(l) \in Seq(Key) /\ Append(Front(l), c) \in Seq(Key)
    OBVIOUS
  <2>2. Len(l) \in Nat \ {0}
    BY <2>1, EmptySeq
  <2>3. \A i \in 1 .. Len(l) - 1 : l[i] \in Key
    BY <2>2, ElementOfSeq
  <2>4. 1 \in Int /\ Len(l) - 1 \in Int
    BY <2>2
  <2>5. SubSeq(l, 1, Len(l) - 1) \in Seq(Key)
    BY <2>3, <2>4, SubSeqProperties
  <2> QED
    BY <2>5 DEF Front
<1> QED
  BY <1>1, <1>2 DEF CanonChar


LEMMA ReturnTypes ==
    ASSUME ProcTypes, NEW p \in Proc, Return(p)
    PROVE  ProcTypes'
<1>1. <<>> \in Seq(Key) /\ <<>> \in Seq(OutChar) /\ 0 \in Int
  OBVIOUS
<1>2. pc' \in [Proc -> Places] /\ sig' \in [Proc -> BOOLEAN]
  BY DEF Return, Goto, ProcTypes, Places
<1>3. line' \in [Proc -> Seq(Key)] /\ text' \in [Proc -> Seq(Key)]
  BY <1>1 DEF Return, ProcTypes
<1>4. expn' \in [Proc -> Seq(OutChar)] /\ count' \in [Proc -> Int]
  BY <1>1 DEF Return, ProcTypes
<1> QED
  BY <1>2, <1>3, <1>4 DEF ProcTypes

LEMMA SleepOnTypes ==
    ASSUME ProcTypes, NEW p \in Proc, NEW chan \in {"rawq", "outq"}, NEW at \in Waits,
           wchan \in [Proc -> {None, "rawq", "outq"}], SleepOn(p, chan, at)
    PROVE  ProcTypes' /\ wchan' \in [Proc -> {None, "rawq", "outq"}]
<1>1. CASE sig[p]
  BY <1>1, ReturnTypes DEF SleepOn
<1>2. CASE ~sig[p]
  BY <1>2 DEF SleepOn, Goto, ProcTypes, Places, locals
<1> QED
  BY <1>1, <1>2

LEMMA WakeupType ==
    ASSUME NEW C, wchan \in [Proc -> {None, "rawq", "outq"}]
    PROVE  Wakeup(C) \in [Proc -> {None, "rawq", "outq"}]
BY DEF Wakeup

\* A process that goes on, nothing else of it changing.
LEMMA GotoTypes ==
    ASSUME ProcTypes, NEW p \in Proc, NEW at \in Places, Goto(p, at),
           UNCHANGED <<sig, line, text, expn, count>>
    PROVE  ProcTypes'
BY DEF Goto, ProcTypes

LEMMA SameProc ==
    ASSUME ProcTypes, UNCHANGED <<pc, sig, line, text, expn, count>>
    PROVE  ProcTypes'
BY DEF ProcTypes

LEMMA SameShared ==
    ASSUME SharedTypes, UNCHANGED <<tp, log, wchan, start>>
    PROVE  SharedTypes'
BY DEF SharedTypes

LEMMA LogIs ==
    ASSUME NEW q, NEW d, NEW e, NEW f, q = [typing |-> d, due |-> e, out |-> f]
    PROVE  IsLog(q) /\ q.out = f
<1>1. \E i, j, k : q = [typing |-> i, due |-> j, out |-> k]
  OBVIOUS
<1> QED
  BY <1>1 DEF IsLog

\* What is due changes, or what is put out.
LEMMA LogOne ==
    ASSUME NEW l, IsLog(l), NEW x
    PROVE  /\ IsLog([l EXCEPT !.due = x]) /\ [l EXCEPT !.due = x].out = l.out
           /\ IsLog([l EXCEPT !.out = x]) /\ [l EXCEPT !.out = x].out = x
<1>1. PICK a, b, c : l = [typing |-> a, due |-> b, out |-> c]
  BY DEF IsLog
<1>2. [l EXCEPT !.due = x] = [typing |-> a, due |-> x, out |-> c]
  BY <1>1
<1>3. [l EXCEPT !.out = x] = [typing |-> a, due |-> b, out |-> x]
  BY <1>1
<1>4. l.out = c
  BY <1>1
<1> QED
  BY <1>2, <1>3, <1>4, LogIs

\* All of it changes: at a flush, and when a key is taken.
Holding(t) == IF t.thr = None THEN <<>> ELSE <<t.thr>>

LEMMA LogFlush ==
    ASSUME NEW l, IsLog(l), NEW t
    PROVE  IsLog(Flushed(l, t)) /\ Flushed(l, t).out = Holding(t)
<1>1. PICK a, b, c : l = [typing |-> a, due |-> b, out |-> c]
  BY DEF IsLog
<1> DEFINE x == <<>>
           z == Holding(t)
           m1 == [l EXCEPT !.typing = x]
           m2 == [m1 EXCEPT !.due = x]
           m3 == [m2 EXCEPT !.out = z]
<1>2. Flushed(l, t) = m3
  BY DEF Flushed, Holding
<1> HIDE DEF x, z
<1>3. m1 = [typing |-> x, due |-> b, out |-> c]
  BY <1>1
<1> HIDE DEF m1
<1>4. m2 = [typing |-> x, due |-> x, out |-> c]
  BY <1>3
<1> HIDE DEF m2
<1>5. m3 = [typing |-> x, due |-> x, out |-> z]
  BY <1>4
<1> HIDE DEF m3
<1>6. IsLog(m3) /\ m3.out = z
  BY <1>5, LogIs
<1> QED
  BY <1>2, <1>6 DEF z

LogUpdate(l, x, y, z) == [l EXCEPT !.out = x, !.typing = y, !.due = z]

LEMMA LogTyped ==
    ASSUME NEW l, IsLog(l), NEW x, NEW y, NEW z
    PROVE  IsLog(LogUpdate(l, x, y, z)) /\ LogUpdate(l, x, y, z).out = x
<1>1. PICK a, b, c : l = [typing |-> a, due |-> b, out |-> c]
  BY DEF IsLog
<1> DEFINE n1 == [l EXCEPT !.out = x]
           n2 == [n1 EXCEPT !.typing = y]
           n3 == [n2 EXCEPT !.due = z]
<1>2. n1 = [typing |-> a, due |-> b, out |-> x]
  BY <1>1
<1> HIDE DEF n1
<1>3. n2 = [typing |-> y, due |-> b, out |-> x]
  BY <1>2
<1> HIDE DEF n2
<1>4. n3 = [typing |-> y, due |-> z, out |-> x]
  BY <1>3
<1> HIDE DEF n3
<1>5. LogUpdate(l, x, y, z) = n3
  BY DEF n1, n2, n3, LogUpdate
<1> QED
  BY <1>4, <1>5, LogIs

QueueUpdate(t, r, d, o) == [t EXCEPT !.rawq = r, !.delct = d, !.outq = o]

LEMMA TtyUpdates ==
    ASSUME NEW t \in TtyType, NEW r \in Seq(Key \cup {Delim}), NEW d \in Int,
           NEW o \in Seq(OutChar), NEW q \in Seq(Key)
    PROVE  /\ [t EXCEPT !.rawq = r, !.delct = d, !.outq = o] \in TtyType
           /\ [t EXCEPT !.rawq = r] \in TtyType
           /\ [t EXCEPT !.delct = d] \in TtyType
           /\ [t EXCEPT !.outq = o] \in TtyType
           /\ [t EXCEPT !.canq = q] \in TtyType
           /\ \A x : x \in BOOLEAN => [t EXCEPT !.raw = x] \in TtyType
           /\ [t EXCEPT !.thr = None] \in TtyType
           /\ [t EXCEPT !.timeout = FALSE] \in TtyType
<1> DEFINE a == [t EXCEPT !.rawq = r]
           b == [a EXCEPT !.delct = d]
           c == [b EXCEPT !.outq = o]
<1>1. a \in TtyType
  BY DEF TtyType
<1> HIDE DEF a
<1>2. b \in TtyType
  BY <1>1 DEF TtyType
<1> HIDE DEF b
<1>3. c \in TtyType
  BY <1>2 DEF TtyType
<1> HIDE DEF c
<1>4. [t EXCEPT !.rawq = r, !.delct = d, !.outq = o] = c
  BY DEF a, b, c
<1>5. [t EXCEPT !.delct = d] \in TtyType
  BY DEF TtyType
<1>6. [t EXCEPT !.outq = o] \in TtyType
  BY DEF TtyType
<1>7. [t EXCEPT !.canq = q] \in TtyType
  BY DEF TtyType
<1>8. \A x : x \in BOOLEAN => [t EXCEPT !.raw = x] \in TtyType
  BY DEF TtyType
<1>9. [t EXCEPT !.thr = None] \in TtyType
  BY DEF TtyType
<1>10. [t EXCEPT !.timeout = FALSE] \in TtyType
  BY DEF TtyType
<1> QED
  BY <1>1, <1>3, <1>4, <1>5, <1>6, <1>7, <1>8, <1>9, <1>10 DEF a

LEMMA TypesInit ==
    ASSUME Init
    PROVE  Types
<1>1. tp \in TtyType
  BY TtyAssumption DEF Init, TtyType
<1>2. IsLog(log)
  BY DEF Init, IsLog
<1>3. wchan \in [Proc -> {None, "rawq", "outq"}] /\ start \in Starts
  BY DEF Init
<1>4. pc \in [Proc -> Places] /\ sig \in [Proc -> BOOLEAN]
  BY DEF Init, Places
<1>5. /\ line \in [Proc -> Seq(Key)] /\ text \in [Proc -> Seq(Key)]
      /\ expn \in [Proc -> Seq(OutChar)] /\ count \in [Proc -> Int]
  BY DEF Init
<1> QED
  BY <1>1, <1>2, <1>3, <1>4, <1>5 DEF Types, SharedTypes, ProcTypes

LEMMA WaitingTypes ==
    ASSUME Types, NEW p \in Proc, CanonWait(p) \/ Interrupted(p)
    PROVE  Types'
<1>1. CASE CanonWait(p)
  <2>1. UNCHANGED <<tp, log, start>>
    BY <1>1 DEF CanonWait
  <2>2. CASE tp.delct = 0
    <3>1. SleepOn(p, "rawq", "canonsleep") /\ "canonsleep" \in Waits
      BY <1>1, <2>2 DEF CanonWait, Waits
    <3>2. ProcTypes' /\ wchan' \in [Proc -> {None, "rawq", "outq"}]
      BY <3>1, SleepOnTypes DEF Types, SharedTypes
    <3> QED
      BY <2>1, <3>2 DEF Types, SharedTypes
  <2>3. CASE tp.delct # 0
    <3>1. Goto(p, "get") /\ UNCHANGED <<wchan, sig, line, text, expn, count>>
      BY <1>1, <2>3 DEF CanonWait, locals
    <3> QED
      BY <2>1, <3>1, GotoTypes, SameShared DEF Types, Places, Kernels
  <2> QED
    BY <2>2, <2>3
<1>2. CASE Interrupted(p)
  BY <1>2, ReturnTypes, SameShared DEF Types, Interrupted
<1> QED
  BY <1>1, <1>2

LEMMA CanonTypes ==
    ASSUME Types, NEW p \in Proc, CanonGet(p) \/ CanonDec(p) \/ CanonPut(p)
    PROVE  Types'
<1>0. tp \in TtyType /\ line[p] \in Seq(Key) /\ SharedTypes /\ ProcTypes
  BY DEF Types, SharedTypes, ProcTypes
<1>1. CASE CanonGet(p) /\ tp.rawq = <<>>
  <2>1. Goto(p, "put") /\ UNCHANGED <<tp, log, wchan, sig, line, text, expn, count, start>>
    BY <1>1 DEF CanonGet
  <2> QED
    BY <1>0, <2>1, GotoTypes, SameShared DEF Types, Places, Kernels
<1>2. CASE CanonGet(p) /\ tp.rawq # <<>>
  <2> DEFINE c == Head(tp.rawq)
             l == IF tp.raw THEN Append(line[p], c) ELSE CanonChar(line[p], c)
  <2>1. c \in Key \cup {Delim} /\ Tail(tp.rawq) \in Seq(Key \cup {Delim})
    BY <1>0, <1>2, HeadAndTail DEF TtyType
  <2>2. SharedTypes'
    <3>1. [tp EXCEPT !.rawq = Tail(tp.rawq)] \in TtyType
      BY <1>0, <2>1 DEF TtyType
    <3>2. tp' = [tp EXCEPT !.rawq = Tail(tp.rawq)] /\ UNCHANGED <<log, wchan, start>>
      BY <1>2 DEF CanonGet
    <3> QED
      BY <1>0, <3>1, <3>2 DEF SharedTypes
  <2>3. CASE c = Delim
    <3>1. Goto(p, "dec") /\ UNCHANGED <<sig, line, text, expn, count>>
      BY <1>2, <2>3 DEF CanonGet
    <3> QED
      BY <1>0, <2>2, <3>1, GotoTypes DEF Types, Places, Kernels
  <2>4. CASE c # Delim
    <3>1. l \in Seq(Key)
      BY <1>0, <2>1, <2>4, CanonCharType, AppendProperties
    <3>2. /\ line' = [line EXCEPT ![p] = l]
          /\ Goto(p, IF Len(l) >= CANBSIZ THEN "put" ELSE "get")
          /\ UNCHANGED <<sig, text, expn, count>>
      BY <1>2, <2>4 DEF CanonGet
    <3> HIDE DEF l
    <3>3. ProcTypes'
      BY <1>0, <3>1, <3>2 DEF ProcTypes, Goto, Places, Kernels
    <3> QED
      BY <2>2, <3>3 DEF Types
  <2> QED
    BY <2>3, <2>4
<1>3. CASE CanonDec(p)
  <2> DEFINE d == tp.delct - 1
  <2>1. d \in Int
    BY <1>0 DEF TtyType
  <2>2. tp' = [tp EXCEPT !.delct = d]
    BY <1>3 DEF CanonDec
  <2> HIDE DEF d
  <2>3. Goto(p, "put") /\ UNCHANGED <<log, wchan, sig, line, text, expn, count, start>>
    BY <1>3 DEF CanonDec, locals
  <2>4. SharedTypes'
    <3>1. [tp EXCEPT !.delct = d] \in TtyType
      BY <1>0, <2>1 DEF TtyType
    <3> QED
      BY <1>0, <2>2, <2>3, <3>1 DEF SharedTypes
  <2> QED
    BY <1>0, <2>3, <2>4, GotoTypes DEF Types, Places, Kernels
<1>4. CASE CanonPut(p) /\ line[p] = <<>>
  <2>1. Goto(p, "pass") /\ UNCHANGED <<tp, log, wchan, sig, line, text, expn, count, start>>
    BY <1>4 DEF CanonPut
  <2> QED
    BY <1>0, <2>1, GotoTypes, SameShared DEF Types, Places, Kernels
<1>5. CASE CanonPut(p) /\ line[p] # <<>>
  <2>1. Head(line[p]) \in Key /\ Tail(line[p]) \in Seq(Key)
    BY <1>0, <1>5, HeadAndTail
  <2>2. /\ tp' = [tp EXCEPT !.canq = Append(@, Head(line[p]))]
        /\ line' = [line EXCEPT ![p] = Tail(@)]
        /\ UNCHANGED <<log, pc, wchan, sig, text, expn, count, start>>
    BY <1>5 DEF CanonPut
  <2>3. tp' \in TtyType
    <3>1. Append(tp.canq, Head(line[p])) \in Seq(Key)
      BY <1>0, <2>1, AppendProperties DEF TtyType
    <3> QED
      BY <1>0, <2>2, <3>1 DEF TtyType
  <2>4. line' \in [Proc -> Seq(Key)]
    BY <1>0, <2>1, <2>2 DEF ProcTypes
  <2> QED
    BY <1>0, <2>2, <2>3, <2>4 DEF Types, SharedTypes, ProcTypes
<1> QED
  BY <1>1, <1>2, <1>3, <1>4, <1>5


LEMMA ReadTypes ==
    ASSUME Types, NEW p \in Proc,
           (\E n \in Counts : Ttread(p, n)) \/ TtreadTest(p) \/ TtreadPass(p)
    PROVE  Types'
<1>0. tp \in TtyType /\ SharedTypes /\ ProcTypes /\ IsLog(log)
  BY DEF Types, SharedTypes
<1>1. ASSUME NEW n \in Counts, Ttread(p, n) PROVE Types'
  <2>1. n \in Int
    BY TtyAssumption
  <2>2. /\ Goto(p, IF tp.canq # <<>> THEN "pass" ELSE "canon")
        /\ count' = [count EXCEPT ![p] = n]
        /\ UNCHANGED <<tp, log, wchan, sig, line, text, expn, start>>
    BY <1>1 DEF Ttread
  <2>3. ProcTypes'
    BY <1>0, <2>1, <2>2 DEF ProcTypes, Goto, Places, Kernels
  <2> QED
    BY <1>0, <2>2, <2>3, SameShared DEF Types
<1>2. CASE TtreadTest(p)
  <2>1. UNCHANGED <<tp, wchan, start>>
    BY <1>2 DEF TtreadTest
  <2>2. CASE tp.canq # <<>>
    <3>1. Goto(p, "getc") /\ UNCHANGED <<log, sig, line, text, expn, count>>
      BY <1>2, <2>2 DEF TtreadTest, locals
    <3> QED
      BY <1>0, <2>1, <3>1, GotoTypes, SameShared DEF Types, Places, Kernels
  <2>3. CASE tp.canq = <<>>
    <3>1. Return(p) /\ (log' = [log EXCEPT !.due = Taken(@, "eof")] \/ log' = log)
      BY <1>2, <2>3 DEF TtreadTest
    <3>2. IsLog(log')
      <4>1. IsLog([log EXCEPT !.due = Taken(@, "eof")])
        BY <1>0, LogOne
      <4> QED
        BY <1>0, <3>1, <4>1
    <3>3. SharedTypes'
      BY <1>0, <2>1, <3>2 DEF SharedTypes
    <3> QED
      BY <1>0, <3>1, <3>3, ReturnTypes DEF Types
  <2> QED
    BY <2>2, <2>3
<1>3. CASE TtreadPass(p)
  <2>1. /\ \E x : log' = [log EXCEPT !.due = x]
        /\ tp' = [tp EXCEPT !.canq = IF @ = <<>> THEN @ ELSE Tail(@)]
        /\ UNCHANGED <<wchan, start>>
    BY <1>3 DEF TtreadPass
  <2>2. IsLog(log')
    <3>1. PICK x : log' = [log EXCEPT !.due = x]
      BY <2>1
    <3>2. IsLog([log EXCEPT !.due = x])
      BY <1>0, LogOne
    <3> QED
      BY <3>1, <3>2
  <2>3. tp' \in TtyType
    <3>1. (IF tp.canq = <<>> THEN tp.canq ELSE Tail(tp.canq)) \in Seq(Key)
      BY <1>0, HeadAndTail DEF TtyType
    <3> QED
      BY <1>0, <2>1, <3>1 DEF TtyType
  <2>4. SharedTypes'
    BY <1>0, <2>1, <2>2, <2>3 DEF SharedTypes
  <2>5. CASE count[p] = 1
    BY <1>0, <1>3, <2>4, <2>5, ReturnTypes DEF Types, TtreadPass
  <2>6. CASE count[p] # 1
    <3>1. /\ count' = [count EXCEPT ![p] = @ - 1] /\ Goto(p, "more")
          /\ UNCHANGED <<sig, line, text, expn>>
      BY <1>3, <2>6 DEF TtreadPass
    <3>2. ProcTypes'
      BY <1>0, <3>1 DEF ProcTypes, Goto, Places, Kernels
    <3> QED
      BY <2>4, <3>2 DEF Types
  <2> QED
    BY <2>5, <2>6
<1> QED
  BY <1>1, <1>2, <1>3

LEMMA WriteTypes ==
    ASSUME Types, NEW p \in Proc,
           (\E w \in Texts : Ttwrite(p, w)) \/ TtwriteWait(p) \/ TtyoutputPut(p) \/ TtwriteEnd(p)
    PROVE  Types'
<1>0. /\ tp \in TtyType /\ SharedTypes /\ ProcTypes /\ IsLog(log)
      /\ text[p] \in Seq(Key) /\ expn[p] \in Seq(OutChar)
  BY DEF Types, SharedTypes, ProcTypes
<1>1. ASSUME NEW w \in Texts, Ttwrite(p, w) PROVE Types'
  <2>1. w \in Seq(Key)
    BY TtyAssumption
  <2>2. /\ Goto(p, "cpass") /\ text' = [text EXCEPT ![p] = w]
        /\ UNCHANGED <<tp, log, wchan, sig, line, expn, count, start>>
    BY <1>1 DEF Ttwrite
  <2>3. ProcTypes'
    BY <1>0, <2>1, <2>2 DEF ProcTypes, Goto, Places, Kernels
  <2> QED
    BY <1>0, <2>2, <2>3, SameShared DEF Types
<1>2. CASE TtwriteWait(p) /\ Len(tp.outq) > TTHIWAT
  <2>1. SleepOn(p, "outq", "hiwat") /\ tp' = Ttstart(tp) /\ UNCHANGED <<log, start>> /\ "hiwat" \in Waits
    BY <1>2 DEF TtwriteWait, Waits
  <2>2. ProcTypes' /\ wchan' \in [Proc -> {None, "rawq", "outq"}]
    BY <1>0, <2>1, SleepOnTypes DEF SharedTypes
  <2> QED
    BY <1>0, <2>1, <2>2, TtstartKeeps DEF Types, SharedTypes
<1>3. CASE TtwriteWait(p) /\ ~(Len(tp.outq) > TTHIWAT)
  <2>1. /\ expn' = [expn EXCEPT ![p] = Ttyoutput(tp, Head(text[p]))]
        /\ text' = [text EXCEPT ![p] = Tail(@)]
        /\ Goto(p, "out") /\ text[p] # <<>>
        /\ UNCHANGED <<tp, log, wchan, sig, line, count, start>>
    BY <1>3 DEF TtwriteWait
  <2>2. Ttyoutput(tp, Head(text[p])) \in Seq(OutChar) /\ Tail(text[p]) \in Seq(Key)
    BY <1>0, <2>1, HeadAndTail, TtyoutputType
  <2>3. ProcTypes'
    BY <1>0, <2>1, <2>2 DEF ProcTypes, Goto, Places, Kernels
  <2> QED
    BY <1>0, <2>1, <2>3, SameShared DEF Types
<1>4. CASE TtyoutputPut(p) /\ expn[p] = <<>>
  <2>1. Goto(p, "cpass") /\ UNCHANGED <<tp, log, wchan, sig, line, text, expn, count, start>>
    BY <1>4 DEF TtyoutputPut
  <2> QED
    BY <1>0, <2>1, GotoTypes, SameShared DEF Types, Places, Kernels
<1>5. CASE TtyoutputPut(p) /\ expn[p] # <<>>
  <2>1. /\ tp' = [tp EXCEPT !.outq = Append(@, Head(expn[p]))]
        /\ \E x : log' = [log EXCEPT !.out = x]
        /\ expn' = [expn EXCEPT ![p] = Tail(@)]
        /\ UNCHANGED <<pc, wchan, sig, line, text, count, start>>
    BY <1>5 DEF TtyoutputPut
  <2>2. Head(expn[p]) \in OutChar /\ Tail(expn[p]) \in Seq(OutChar)
    BY <1>0, <1>5, HeadAndTail
  <2>3. tp' \in TtyType
    <3>1. Append(tp.outq, Head(expn[p])) \in Seq(OutChar)
      BY <1>0, <2>2, AppendProperties DEF TtyType
    <3> QED
      BY <1>0, <2>1, <3>1 DEF TtyType
  <2>4. ProcTypes'
    BY <1>0, <2>1, <2>2 DEF ProcTypes
  <2>5. IsLog(log')
    <3>1. PICK x : log' = [log EXCEPT !.out = x]
      BY <2>1
    <3>2. IsLog([log EXCEPT !.out = x])
      BY <1>0, LogOne
    <3> QED
      BY <3>1, <3>2
  <2> QED
    BY <1>0, <2>1, <2>3, <2>4, <2>5 DEF Types, SharedTypes
<1>6. CASE TtwriteEnd(p)
  <2>1. tp' = Ttstart(tp) /\ Return(p) /\ UNCHANGED <<log, wchan, start>>
    BY <1>6 DEF TtwriteEnd
  <2> QED
    BY <1>0, <2>1, TtstartKeeps, ReturnTypes DEF Types, SharedTypes
<1> QED
  BY <1>1, <1>2, <1>3, <1>4, <1>5, <1>6

LEMMA FlushTypes ==
    ASSUME Types, NEW C, tp' = Flushtty(tp), log' = Flushed(log, tp), start' = start,
           wchan' = Wakeup(C)
    PROVE  SharedTypes'
<1>1. tp' \in TtyType
  BY FlushttyType DEF Types, SharedTypes
<1>2. IsLog(log')
  BY LogFlush DEF Types, SharedTypes
<1>3. wchan' \in [Proc -> {None, "rawq", "outq"}]
  BY WakeupType DEF Types, SharedTypes
<1> QED
  BY <1>1, <1>2, <1>3 DEF Types, SharedTypes

LEMMA SttyTypes ==
    ASSUME Types, NEW p \in Proc,
           \/ \E c \in {"stty", "close"} : Wflushtty(p, c)
           \/ WflushttyWait(p) \/ \E raw \in BOOLEAN : Ttystty(p, raw)
    PROVE  Types'
<1>0. tp \in TtyType /\ SharedTypes /\ ProcTypes /\ IsLog(log)
  BY DEF Types, SharedTypes
<1>1. ASSUME NEW c \in {"stty", "close"}, Wflushtty(p, c) PROVE Types'
  <2>1. Goto(p, c) /\ UNCHANGED <<tp, log, wchan, sig, line, text, expn, count, start>>
    BY <1>1 DEF Wflushtty, locals
  <2>2. c \in Places
    BY DEF Places, Kernels
  <2> QED
    BY <1>0, <2>1, <2>2, GotoTypes, SameShared DEF Types
<1>2. CASE WflushttyWait(p) /\ tp.outq # <<>>
  <2>1. PICK at \in {"sttydrain", "closedrain"} :
          SleepOn(p, "outq", at) /\ UNCHANGED <<tp, log, start>>
    BY <1>2 DEF WflushttyWait
  <2>2. at \in Waits
    BY DEF Waits
  <2>3. ProcTypes' /\ wchan' \in [Proc -> {None, "rawq", "outq"}]
    BY <1>0, <2>1, <2>2, SleepOnTypes DEF SharedTypes
  <2> QED
    BY <1>0, <2>1, <2>3 DEF Types, SharedTypes
<1>3. CASE WflushttyWait(p) /\ tp.outq = <<>>
  <2>1. /\ tp' = Flushtty(tp) /\ log' = Flushed(log, tp)
        /\ wchan' = Wakeup({"rawq", "outq"}) /\ start' = start
        /\ (Goto(p, "set") /\ UNCHANGED <<sig, line, text, expn, count>>) \/ Return(p)
    BY <1>3 DEF WflushttyWait, locals
  <2>2. SharedTypes'
    BY <2>1, FlushTypes
  <2>3. ProcTypes'
    BY <1>0, <2>1, GotoTypes, ReturnTypes DEF Places, Kernels
  <2> QED
    BY <2>2, <2>3 DEF Types
<1>4. ASSUME NEW raw \in BOOLEAN, Ttystty(p, raw) PROVE Types'
  <2>1. tp' = [tp EXCEPT !.raw = raw] /\ Return(p) /\ UNCHANGED <<log, wchan, start>>
    BY <1>4 DEF Ttystty
  <2>2. tp' \in TtyType
    BY <1>0, <2>1 DEF TtyType
  <2> QED
    BY <1>0, <2>1, <2>2, ReturnTypes DEF Types, SharedTypes
<1> QED
  BY <1>1, <1>2, <1>3, <1>4


\* What a key that is taken leaves in the queues before ttstart.
Echo(t, c) == IF t.echo THEN Ttyoutput(t, c) ELSE <<>>
Ends(t, c) == t.raw \/ c \in {"nl", "eot"}
Typed(t, c) == [t EXCEPT !.rawq = @ \o (IF Ends(t, c) THEN <<c, Delim>> ELSE <<c>>),
                         !.delct = IF Ends(t, c) THEN @ + 1 ELSE @,
                         !.outq = @ \o Echo(t, c)]

LEMMA TypedType ==
    ASSUME NEW t \in TtyType, NEW c \in Key
    PROVE  /\ Typed(t, c) \in TtyType /\ Echo(t, c) \in Seq(OutChar)
           /\ Typed(t, c).rawq = t.rawq \o (IF Ends(t, c) THEN <<c, Delim>> ELSE <<c>>)
           /\ Typed(t, c).delct = (IF Ends(t, c) THEN t.delct + 1 ELSE t.delct)
           /\ Typed(t, c).outq = t.outq \o Echo(t, c)
           /\ Typed(t, c).thr = t.thr /\ Typed(t, c).timeout = t.timeout
<1> DEFINE k == IF Ends(t, c) THEN <<c, Delim>> ELSE <<c>>
           r == t.rawq \o k
           d == IF Ends(t, c) THEN t.delct + 1 ELSE t.delct
           o == t.outq \o Echo(t, c)
<1>1. Echo(t, c) \in Seq(OutChar)
  BY TtyoutputType, EmptySeq DEF Echo
<1>2. k \in Seq(Key \cup {Delim}) /\ t.rawq \in Seq(Key \cup {Delim})
  <2>1. t.rawq \in Seq(Key \cup {Delim})
    BY DEF TtyType
  <2>2. <<c>> \in Seq(Key \cup {Delim}) /\ <<c, Delim>> \in Seq(Key \cup {Delim})
    OBVIOUS
  <2> QED
    BY <2>1, <2>2
<1>3. r \in Seq(Key \cup {Delim})
  <2> HIDE DEF k
  <2> QED
    BY <1>2, ConcatProperties
<1>4. d \in Int
  BY DEF TtyType
<1>5. o \in Seq(OutChar)
  <2> DEFINE e == Echo(t, c)
  <2>1. e \in Seq(OutChar) /\ t.outq \in Seq(OutChar)
    BY <1>1 DEF TtyType
  <2> HIDE DEF e
  <2>2. t.outq \o e \in Seq(OutChar)
    BY <2>1, ConcatProperties
  <2> QED
    BY <2>2 DEF e
<1>6. Typed(t, c) = QueueUpdate(t, r, d, o)
  BY DEF Typed, QueueUpdate
<1> DEFINE u == QueueUpdate(t, r, d, o)
<1> HIDE DEF k, r, d, o
<1>7. u \in TtyType
  <2>1. <<>> \in Seq(Key)
    OBVIOUS
  <2> QED
    BY <1>3, <1>4, <1>5, <2>1, TtyUpdates DEF QueueUpdate
<1>8. u.rawq = r /\ u.delct = d /\ u.outq = o /\ u.thr = t.thr /\ u.timeout = t.timeout
  <2> DEFINE a == [t EXCEPT !.rawq = r]
             b == [a EXCEPT !.delct = d]
             e == [b EXCEPT !.outq = o]
  <2>1. a \in TtyType
    BY <1>3 DEF TtyType
  <2>2. a.rawq = r /\ a.thr = t.thr
    BY DEF TtyType
  <2>3. a.timeout = t.timeout
    BY DEF TtyType
  <2> HIDE DEF a
  <2>4. b \in TtyType
    BY <1>4, <2>1 DEF TtyType
  <2>5. b.delct = d /\ b.rawq = a.rawq /\ b.thr = a.thr
    BY <2>1 DEF TtyType
  <2>6. b.timeout = a.timeout
    BY <2>1 DEF TtyType
  <2> HIDE DEF b
  <2>7. e.outq = o /\ e.delct = b.delct /\ e.rawq = b.rawq /\ e.thr = b.thr
    BY <2>4 DEF TtyType
  <2>8. e.timeout = b.timeout
    BY <2>4 DEF TtyType
  <2>9. u = e
    BY DEF a, b, e, QueueUpdate
  <2> HIDE DEF e, u
  <2>10. u.rawq = r /\ u.delct = d /\ u.outq = o /\ u.thr = t.thr
    BY <2>2, <2>5, <2>7, <2>9
  <2>11. u.timeout = t.timeout
    BY <2>3, <2>6, <2>8, <2>9
  <2> QED
    BY <2>10, <2>11
<1> QED
  BY <1>1, <1>6, <1>7, <1>8 DEF k, r, d, o

LEMMA TtyinputDoes ==
    ASSUME Types, NEW c \in Key, Ttyinput(c)
    PROVE  /\ tp' = (IF tp.echo THEN Ttstart(Typed(tp, c)) ELSE Typed(tp, c))
           /\ IsLog(log') /\ log'.out = log.out \o Sendable(Echo(tp, c))
           /\ wchan' = Wakeup(IF Ends(tp, c) THEN {"rawq"} ELSE {})
           /\ Len(tp.rawq) < TTYHOG
           /\ UNCHANGED <<pc, sig, line, text, expn, count, start>>
<1>1. PICK x, y : log' = [log EXCEPT !.out = @ \o Sendable(Echo(tp, c)), !.typing = x, !.due = y]
  BY DEF Ttyinput, Echo
<1> DEFINE z == log.out \o Sendable(Echo(tp, c))
<1>2. log' = LogUpdate(log, z, x, y)
  BY <1>1 DEF LogUpdate
<1> HIDE DEF z
<1>3. IsLog(log') /\ log'.out = z
  <2>1. IsLog(log)
    BY DEF Types, SharedTypes
  <2> QED
    BY <1>2, <2>1, LogTyped
<1>4. tp' = (IF tp.echo THEN Ttstart(Typed(tp, c)) ELSE Typed(tp, c))
  BY DEF Ttyinput, Typed, Echo, Ends
<1>5. /\ wchan' = Wakeup(IF Ends(tp, c) THEN {"rawq"} ELSE {})
      /\ UNCHANGED <<pc, sig, line, text, expn, count, start>>
  BY DEF Ttyinput, Interrupt, Ends, locals
<1>6. Len(tp.rawq) < TTYHOG
  BY TtyAssumption, LenProperties DEF Ttyinput, Hogged, Types, SharedTypes, TtyType
<1> QED
  BY <1>3, <1>4, <1>5, <1>6 DEF z

LEMMA KlxintDoes ==
    ASSUME Types, Klxint
    PROVE  /\ tp.thr # None /\ tp' = Ttstart([tp EXCEPT !.thr = None])
           /\ IsLog(log') /\ log'.out = Taken(log.out, tp.thr)
           /\ wchan' = Wakeup(Wakes(tp'))
           /\ UNCHANGED <<pc, sig, line, text, expn, count, start>>
<1> DEFINE x == Taken(log.out, tp.thr)
<1>1. log' = [log EXCEPT !.out = x]
  BY DEF Klxint
<1> HIDE DEF x
<1>2. IsLog([log EXCEPT !.out = x]) /\ [log EXCEPT !.out = x].out = x
  <2>1. IsLog(log)
    BY DEF Types, SharedTypes
  <2> QED
    BY <2>1, LogOne
<1> QED
  BY <1>1, <1>2 DEF x, Klxint, Interrupt, locals

LEMMA InterruptTypes ==
    ASSUME Types,
           \/ \E c \in Key : TtyinputHog(c) \/ Ttyinput(c)
           \/ TtyinputIntr \/ Klxint \/ Ttrstrt
    PROVE  Types'
<1>0. tp \in TtyType /\ SharedTypes /\ ProcTypes /\ IsLog(log)
  BY DEF Types, SharedTypes
<1>1. ASSUME NEW c \in Key, TtyinputHog(c) PROVE Types'
  <2>1. /\ tp' = Flushtty(tp) /\ log' = Flushed(log, tp) /\ start' = start
        /\ wchan' = Wakeup({"rawq", "outq"})
        /\ UNCHANGED <<pc, sig, line, text, expn, count>>
    BY <1>1 DEF TtyinputHog, Interrupt, locals
  <2> QED
    BY <1>0, <2>1, FlushTypes, SameProc DEF Types
<1>2. ASSUME NEW c \in Key, Ttyinput(c) PROVE Types'
  <2>1. /\ tp' = (IF tp.echo THEN Ttstart(Typed(tp, c)) ELSE Typed(tp, c))
        /\ IsLog(log') /\ UNCHANGED <<pc, sig, line, text, expn, count, start>>
        /\ wchan' = Wakeup(IF Ends(tp, c) THEN {"rawq"} ELSE {})
    BY <1>2, TtyinputDoes
  <2>2. tp' \in TtyType
    BY <1>0, <2>1, TypedType, TtstartKeeps
  <2>3. wchan' \in [Proc -> {None, "rawq", "outq"}]
    BY <1>0, <2>1, WakeupType DEF SharedTypes
  <2> QED
    BY <1>0, <2>1, <2>2, <2>3, SameProc DEF Types, SharedTypes
<1>3. CASE TtyinputIntr
  <2>1. tp' = Flushtty(tp) /\ log' = Flushed(log, tp) /\ start' = start
    BY <1>3 DEF TtyinputIntr
  <2>2. tp' \in TtyType
    BY <1>0, <2>1, FlushttyType
  <2>3. IsLog(log')
    BY <1>0, <2>1, LogFlush
  <2>4. SharedTypes'
    BY <1>0, <1>3, <2>1, <2>2, <2>3 DEF SharedTypes, TtyinputIntr
  <2>5. ProcTypes'
    BY <1>0, <1>3 DEF ProcTypes, TtyinputIntr, locals
  <2> QED
    BY <2>4, <2>5 DEF Types
<1>4. CASE Klxint
  <2>1. /\ tp' = Ttstart([tp EXCEPT !.thr = None]) /\ IsLog(log')
        /\ wchan' = Wakeup(Wakes(tp'))
        /\ UNCHANGED <<pc, sig, line, text, expn, count, start>>
    BY <1>4, KlxintDoes
  <2>2. tp' \in TtyType
    <3>1. [tp EXCEPT !.thr = None] \in TtyType
      BY <1>0 DEF TtyType
    <3> QED
      BY <2>1, <3>1, TtstartKeeps
  <2>3. wchan' \in [Proc -> {None, "rawq", "outq"}]
    BY <1>0, <2>1, WakeupType DEF SharedTypes
  <2> QED
    BY <1>0, <2>1, <2>2, <2>3, SameProc DEF Types, SharedTypes
<1>5. CASE Ttrstrt
  <2>1. /\ tp' = Ttstart([tp EXCEPT !.timeout = FALSE])
        /\ UNCHANGED <<log, pc, wchan, sig, line, text, expn, count, start>>
    BY <1>5 DEF Ttrstrt, locals
  <2>2. tp' \in TtyType
    <3>1. [tp EXCEPT !.timeout = FALSE] \in TtyType
      BY <1>0 DEF TtyType
    <3> QED
      BY <2>1, <3>1, TtstartKeeps
  <2> QED
    BY <1>0, <2>1, <2>2, SameProc DEF Types, SharedTypes
<1> QED
  BY <1>1, <1>2, <1>3, <1>4, <1>5

LEMMA TypesStep ==
    ASSUME Types, [Next]_vars
    PROVE  Types'
<1>1. ASSUME NEW p \in Proc, Kernel(p) \/ Call(p) PROVE Types'
  BY <1>1, WaitingTypes, CanonTypes, ReadTypes, WriteTypes, SttyTypes DEF Kernel, Call
<1>2. CASE \/ \E c \in Key : TtyinputHog(c) \/ Ttyinput(c)
           \/ TtyinputIntr \/ Klxint \/ Ttrstrt
  BY <1>2, InterruptTypes
<1>3. CASE UNCHANGED vars
  BY <1>3 DEF Types, SharedTypes, ProcTypes, vars, locals
<1> QED
  BY <1>1, <1>2, <1>3 DEF Next


-----------------------------------------------------------------------------
\* OutputInOrder.

LEMMA SendableType ==
    ASSUME NEW o \in Seq(OutChar)
    PROVE  Sendable(o) \in Seq(Sent)
<1>1. Sendable(o) \in Seq(OutChar \cap Sent)
  BY OnlyType DEF Sendable, Sent
<1>2. OutChar \cap Sent = Sent
  BY DEF OutChar, Sent
<1> QED
  BY <1>1, <1>2

LEMMA HoldingType ==
    ASSUME NEW t \in TtyType
    PROVE  Holding(t) \in Seq(Sent) /\ Sending(t) = Holding(t) \o Sendable(t.outq)
BY DEF Holding, TtyType, Sending

LEMMA SendingMore ==
    ASSUME NEW t \in TtyType, NEW u \in TtyType, NEW o \in Seq(OutChar),
           u.thr = t.thr, u.outq = t.outq \o o
    PROVE  Sending(u) = Sending(t) \o Sendable(o)
<1>1. t.outq \in Seq(OutChar)
  BY DEF TtyType
<1>2. Sendable(t.outq \o o) = Sendable(t.outq) \o Sendable(o)
  <2> DEFINE s == t.outq
             K == Key \cup {"cr"}
  <2>1. s \in Seq(OutChar)
    BY <1>1
  <2> HIDE DEF s, K
  <2>2. Only(s \o o, K) = Only(s, K) \o Only(o, K)
    BY <2>1, OnlyConcat
  <2> QED
    BY <2>2 DEF s, K, Sendable
<1>3. Sendable(t.outq) \in Seq(Sent) /\ Sendable(o) \in Seq(Sent) /\ Holding(t) \in Seq(Sent)
  BY <1>1, SendableType, HoldingType
<1>4. Sending(t) = Holding(t) \o Sendable(t.outq)
  BY HoldingType
<1>5. Sending(u) = Holding(t) \o (Sendable(t.outq) \o Sendable(o))
  BY <1>2, HoldingType DEF Holding
<1> DEFINE a == Holding(t)
           b == Sendable(t.outq)
           c == Sendable(o)
<1>6. a \in Seq(Sent) /\ b \in Seq(Sent) /\ c \in Seq(Sent)
  BY <1>3
<1> HIDE DEF a, b, c
<1>7. (a \o b) \o c = a \o (b \o c)
  BY <1>6, ConcatAssociative, SMTT(30)
<1> QED
  BY <1>4, <1>5, <1>7 DEF a, b, c

LEMMA SendingLess ==
    ASSUME NEW t \in TtyType, t.thr # None
    PROVE  Taken(Sending(t), t.thr) = Sending([t EXCEPT !.thr = None])
<1> DEFINE u == [t EXCEPT !.thr = None]
           r == Sendable(t.outq)
           h == t.thr
<1>1. u.thr = None /\ u.outq = t.outq
  BY DEF TtyType
<1>2. r \in Seq(Sent) /\ h \in Sent
  BY SendableType DEF TtyType
<1>3. Sending(t) = <<h>> \o r
  BY DEF Sending
<1>4. Sending(u) = r
  <2>1. Sending(u) = <<>> \o r
    BY <1>1 DEF Sending
  <2> HIDE DEF r
  <2> QED
    BY <1>2, <2>1, ConcatEmptySeq
<1> HIDE DEF r, h, u
<1>5. <<h>> \o r # <<>> /\ Head(<<h>> \o r) = h /\ Tail(<<h>> \o r) = r
  <2> DEFINE g == <<h>>
             w == g \o r
  <2>1. g \in Seq(Sent) /\ Len(g) = 1 /\ g[1] = h
    BY <1>2
  <2> HIDE DEF g
  <2>2. /\ w \in Seq(Sent) /\ Len(w) = Len(g) + Len(r)
        /\ \A i \in 1 .. Len(g) + Len(r) : w[i] = IF i <= Len(g) THEN g[i] ELSE r[i - Len(g)]
    BY <1>2, <2>1, ConcatProperties
  <2>3. Len(r) \in Nat
    BY <1>2, LenProperties
  <2>4. /\ w \in Seq(Sent) /\ Len(w) = 1 + Len(r) /\ w[1] = h
        /\ \A i \in 1 .. Len(r) : w[i + 1] = r[i]
    <3>1. Len(w) = 1 + Len(r) /\ w[1] = h
      BY <2>1, <2>2, <2>3
    <3>2. ASSUME NEW i \in 1 .. Len(r) PROVE w[i + 1] = r[i]
      <4> DEFINE k == i + 1
      <4>1. k \in 1 .. 1 + Len(r) /\ ~(k <= 1) /\ k - 1 = i
        BY <2>3
      <4> HIDE DEF k
      <4>2. w[k] = r[k - 1]
        BY <2>1, <2>2, <4>1
      <4> QED
        BY <4>1, <4>2 DEF k
    <3> QED
      BY <2>2, <3>1, <3>2
  <2> HIDE DEF w
  <2>5. w # <<>>
    BY <2>3, <2>4, EmptySeq
  <2>6. /\ Tail(w) \in Seq(Sent) /\ Len(Tail(w)) = Len(w) - 1 /\ Head(w) = w[1]
        /\ \A i \in 1 .. Len(Tail(w)) : Tail(w)[i] = w[i + 1]
    BY <2>4, <2>5, HeadTailProperties
  <2>7. Len(Tail(w)) = Len(r) /\ \A i \in 1 .. Len(r) : Tail(w)[i] = r[i]
    BY <2>3, <2>4, <2>6
  <2>8. Tail(w) = r
    BY <1>2, <2>6, <2>7, SeqEqual
  <2> QED
    BY <2>4, <2>5, <2>6, <2>8 DEF w, g
<1>6. Taken(<<h>> \o r, h) = r
  BY <1>5 DEF Taken
<1> QED
  BY <1>3, <1>4, <1>6 DEF h, u

\* OutputInOrder, when what is put out and what will be are as they were, or
\* all is flushed.
LEMMA OutputSame ==
    ASSUME OutputInOrder, log'.out = log.out, Sending(tp') = Sending(tp)
    PROVE  OutputInOrder'
BY DEF OutputInOrder, Sending

LEMMA OutputFlushed ==
    ASSUME Types, tp' = Flushtty(tp), log' = Flushed(log, tp)
    PROVE  OutputInOrder'
<1>1. log'.out = Holding(tp)
  BY LogFlush DEF Types, SharedTypes
<1>2. Sendable(<<>>) = <<>>
  BY OnlyEmpty DEF Sendable
<1>3. tp'.outq = <<>> /\ tp'.thr = tp.thr
  BY FlushttyType DEF Types, SharedTypes
<1>4. Holding(tp) \o <<>> = Holding(tp)
  BY HoldingType, ConcatEmptySeq DEF Types, SharedTypes
<1> QED
  BY <1>1, <1>2, <1>3, <1>4 DEF OutputInOrder, Holding

LEMMA OutputProc ==
    ASSUME Types, OutputInOrder, NEW p \in Proc, Kernel(p) \/ Call(p)
    PROVE  OutputInOrder'
<1>0. tp \in TtyType /\ IsLog(log) /\ expn[p] \in Seq(OutChar)
  BY DEF Types, SharedTypes, ProcTypes
<1>1. CASE UNCHANGED <<tp, log>>
  BY <1>1, OutputSame
<1>2. CASE CanonGet(p) \/ CanonDec(p) \/ CanonPut(p) \/ \E raw \in BOOLEAN : Ttystty(p, raw)
  <2>1. log' = log /\ tp'.thr = tp.thr /\ tp'.outq = tp.outq
    <3>1. CASE CanonGet(p)
      BY <1>0, <3>1 DEF CanonGet, TtyType
    <3>2. CASE CanonDec(p)
      BY <1>0, <3>2 DEF CanonDec, TtyType
    <3>3. CASE CanonPut(p)
      BY <1>0, <3>3 DEF CanonPut, TtyType
    <3>4. CASE \E raw \in BOOLEAN : Ttystty(p, raw)
      BY <1>0, <3>4 DEF Ttystty, TtyType
    <3> QED
      BY <1>2, <3>1, <3>2, <3>3, <3>4
  <2> QED
    BY <2>1, OutputSame DEF Sending
<1>3. CASE TtreadTest(p) \/ TtreadPass(p)
  <2>1. tp'.thr = tp.thr /\ tp'.outq = tp.outq
    BY <1>0, <1>3 DEF TtreadTest, TtreadPass, TtyType
  <2>2. log' = log \/ \E x : log' = [log EXCEPT !.due = x]
    BY <1>3 DEF TtreadTest, TtreadPass
  <2>3. log'.out = log.out
    <3>1. CASE log' = log
      BY <3>1
    <3>2. ASSUME NEW x, log' = [log EXCEPT !.due = x] PROVE log'.out = log.out
      <4>1. [log EXCEPT !.due = x].out = log.out
        BY <1>0, LogOne
      <4> QED
        BY <3>2, <4>1
    <3> QED
      BY <2>2, <3>1, <3>2
  <2> QED
    BY <2>1, <2>3, OutputSame DEF Sending
<1>4. CASE TtwriteWait(p) \/ TtwriteEnd(p)
  <2>1. log' = log /\ (tp' = tp \/ tp' = Ttstart(tp))
    BY <1>4 DEF TtwriteWait, TtwriteEnd
  <2> QED
    BY <1>0, <2>1, TtstartKeeps, OutputSame
<1>5. CASE TtyoutputPut(p) /\ expn[p] # <<>>
  <2> DEFINE h == Head(expn[p])
             x == log.out \o Sendable(<<h>>)
  <2>1. h \in OutChar
    BY <1>0, <1>5, HeadAndTail
  <2>2. tp' = [tp EXCEPT !.outq = Append(@, h)] /\ log' = [log EXCEPT !.out = x]
    BY <1>5 DEF TtyoutputPut
  <2> HIDE DEF h
  <2>3. log'.out = x
    <3> HIDE DEF x
    <3>1. [log EXCEPT !.out = x].out = x
      BY <1>0, LogOne
    <3> QED
      BY <2>2, <3>1
  <2>4. tp'.thr = tp.thr /\ tp'.outq = Append(tp.outq, h)
    BY <1>0, <2>2 DEF TtyType
  <2>5. tp.outq \in Seq(OutChar)
    BY <1>0 DEF TtyType
  <2>6. tp'.outq = tp.outq \o <<h>> /\ <<h>> \in Seq(OutChar)
    BY <2>1, <2>4, <2>5, AppendIsConcat
  <2>7. tp' \in TtyType
    BY <1>5, TypesStep DEF Next, Kernel, Types, SharedTypes
  <2>8. Sending(tp') = Sending(tp) \o Sendable(<<h>>)
    <3> DEFINE o == <<h>>
    <3>1. tp'.outq = tp.outq \o o /\ o \in Seq(OutChar)
      BY <2>6
    <3> HIDE DEF o
    <3>2. Sending(tp') = Sending(tp) \o Sendable(o)
      BY <1>0, <2>4, <2>7, <3>1, SendingMore
    <3> QED
      BY <3>2 DEF o
  <2> QED
    BY <2>3, <2>8 DEF OutputInOrder, Sending
<1>6. CASE WflushttyWait(p) /\ tp.outq = <<>>
  BY <1>6, OutputFlushed DEF WflushttyWait
<1>7. CASE CanonWait(p) \/ Interrupted(p) \/ (TtyoutputPut(p) /\ expn[p] = <<>>)
            \/ (WflushttyWait(p) /\ tp.outq # <<>>) \/ Call(p)
  <2>1. UNCHANGED <<tp, log>>
    BY <1>7 DEF CanonWait, Interrupted, TtyoutputPut, WflushttyWait, Call, Ttread, Ttwrite,
                Wflushtty
  <2> QED
    BY <1>1, <2>1
<1> QED
  BY <1>2, <1>3, <1>4, <1>5, <1>6, <1>7 DEF Kernel

LEMMA OutputInterrupt ==
    ASSUME Types, OutputInOrder,
           \/ \E c \in Key : TtyinputHog(c) \/ Ttyinput(c)
           \/ TtyinputIntr \/ Klxint \/ Ttrstrt
    PROVE  OutputInOrder'
<1>0. tp \in TtyType
  BY DEF Types, SharedTypes
<1>1. CASE TtyinputIntr \/ \E c \in Key : TtyinputHog(c)
  BY <1>1, OutputFlushed DEF TtyinputIntr, TtyinputHog
<1>2. ASSUME NEW c \in Key, Ttyinput(c) PROVE OutputInOrder'
  <2>1. /\ tp' = (IF tp.echo THEN Ttstart(Typed(tp, c)) ELSE Typed(tp, c))
        /\ log'.out = log.out \o Sendable(Echo(tp, c))
    BY <1>2, TtyinputDoes
  <2>2. Sending(Typed(tp, c)) = Sending(tp) \o Sendable(Echo(tp, c))
    BY <1>0, TypedType, SendingMore
  <2>3. Sending(tp') = Sending(Typed(tp, c))
    BY <1>0, <2>1, TypedType, TtstartKeeps
  <2> QED
    BY <2>1, <2>2, <2>3 DEF OutputInOrder, Sending
<1>3. CASE Klxint
  <2> DEFINE u == [tp EXCEPT !.thr = None]
  <2>1. tp.thr # None /\ tp' = Ttstart(u) /\ log'.out = Taken(log.out, tp.thr)
    BY <1>3, KlxintDoes
  <2>2. u \in TtyType
    BY <1>0 DEF TtyType
  <2>3. Sending(tp') = Sending(u)
    BY <2>1, <2>2, TtstartKeeps
  <2>4. Taken(Sending(tp), tp.thr) = Sending(u)
    BY <1>0, <2>1, SendingLess
  <2>5. log.out = Sending(tp)
    BY DEF OutputInOrder, Sending
  <2> QED
    BY <2>1, <2>3, <2>4, <2>5 DEF OutputInOrder, Sending
<1>4. CASE Ttrstrt
  <2> DEFINE u == [tp EXCEPT !.timeout = FALSE]
  <2>1. tp' = Ttstart(u) /\ log' = log
    BY <1>4 DEF Ttrstrt
  <2>2. u \in TtyType /\ u.thr = tp.thr /\ u.outq = tp.outq
    BY <1>0 DEF TtyType
  <2>3. Sending(tp') = Sending(u)
    BY <2>1, <2>2, TtstartKeeps
  <2>4. Sending(u) = Sending(tp)
    BY <2>2 DEF Sending
  <2> QED
    BY <2>1, <2>3, <2>4, OutputSame
<1> QED
  BY <1>1, <1>2, <1>3, <1>4

\* What was put out and has not been sent is being sent or queued, whatever the
\* interleaving of ttwrite and ttyoutput, the echo, the delays and the transmit
\* interrupt (tty.c:449-487).
THEOREM OutputKept == Spec => []OutputInOrder
<1>1. Init => Types /\ OutputInOrder
  <2> SUFFICES ASSUME Init PROVE Types /\ OutputInOrder
    OBVIOUS
  <2>1. Sendable(<<>>) = <<>>
    BY OnlyEmpty DEF Sendable
  <2>2. log.out = <<>> /\ tp.thr = None /\ tp.outq = <<>>
    BY DEF Init
  <2>3. <<>> \o <<>> = <<>>
    OBVIOUS
  <2> QED
    BY <2>1, <2>2, <2>3, TypesInit DEF OutputInOrder
<1>2. Types /\ OutputInOrder /\ [Next]_vars => Types' /\ OutputInOrder'
  <2> SUFFICES ASSUME Types, OutputInOrder, [Next]_vars PROVE Types' /\ OutputInOrder'
    OBVIOUS
  <2>1. CASE UNCHANGED vars
    BY <2>1, TypesStep, OutputSame DEF vars
  <2> QED
    BY <2>1, TypesStep, OutputProc, OutputInterrupt DEF Next
<1> QED
  BY <1>1, <1>2, PTL DEF Spec


-----------------------------------------------------------------------------
\* QueuesKept: what keeps it.

Rest == {"user"} \cup Waits
Decs == Cardinality({p \in Proc : pc[p] = "dec"})
Lines(t) == Len(Only(t.rawq, {Delim}))

\* A key that flushes the queues does not come between canon's taking a
\* delimiter and counting it (tty.c:223), nor, as an echoed newline, between a
\* newline and its delay (tty.c:449-470).
Flushes == TtyinputIntr \/ \E c \in Key : TtyinputHog(c)
KeysApart ==
    /\ Flushes => \A p \in Proc : pc[p] # "dec" /\ expn[p] # <<Delay>>
    /\ tp.echo /\ Ttyinput("nl") => \A p \in Proc : expn[p] # <<Delay>>

OneRuns == \A p, q \in Proc : pc[p] \notin Rest /\ pc[q] \notin Rest => p = q

Reading == {"canon", "canonsleep", "get", "dec", "put", "pass", "getc", "more"}
CountPositive == \A p \in Proc : count[p] >= 0 /\ (pc[p] \in Reading => count[p] > 0)

RawSleep == \A p \in Proc : wchan[p] = "rawq" => tp.delct = 0

Input ==
    /\ Len(tp.rawq) <= TTYHOG + 1
    /\ OneRuns /\ DelctCounts /\ RawSleep /\ CountPositive

\* p goes on, and no other process.
Moves(p) == \A q \in Proc \ {p} : pc[q] \in Rest /\ pc'[q] = pc[q]

LEMMA KernelMoves ==
    ASSUME Types, NEW p \in Proc, Kernel(p) \/ Call(p)
    PROVE  Moves(p)
<1>0. pc \in [Proc -> Places]
  BY DEF Types, ProcTypes
<1>1. \A q \in Proc \ {p} : pc[q] \in Rest
  BY DEF Kernel, Call, Runs, Rest, CanonWait, CanonGet, CanonDec, CanonPut, TtreadTest,
         TtreadPass, TtwriteWait, TtyoutputPut, TtwriteEnd, WflushttyWait, Interrupted, Ttystty,
         Ttread, Ttwrite, Wflushtty
<1>2. pc' = pc \/ \E at : pc' = [pc EXCEPT ![p] = at]
  <2>1. CASE CanonWait(p) \/ CanonGet(p) \/ CanonDec(p) \/ CanonPut(p)
    BY <2>1 DEF CanonWait, CanonGet, CanonDec, CanonPut, Goto, SleepOn, Return
  <2>2. CASE TtreadTest(p) \/ TtreadPass(p)
    BY <2>2 DEF TtreadTest, TtreadPass, Goto, Return
  <2>3. CASE TtwriteWait(p) \/ TtyoutputPut(p) \/ TtwriteEnd(p)
    BY <2>3 DEF TtwriteWait, TtyoutputPut, TtwriteEnd, Goto, SleepOn, Return
  <2>4. CASE WflushttyWait(p) \/ Interrupted(p) \/ \E raw \in BOOLEAN : Ttystty(p, raw)
    BY <2>4 DEF WflushttyWait, Interrupted, Ttystty, Goto, SleepOn, Return
  <2>5. CASE Call(p)
    BY <2>5 DEF Call, Ttread, Ttwrite, Wflushtty, Goto
  <2> QED
    BY <2>1, <2>2, <2>3, <2>4, <2>5 DEF Kernel
<1> QED
  BY <1>0, <1>1, <1>2 DEF Moves

LEMMA MovesOne ==
    ASSUME NEW p \in Proc, Moves(p)
    PROVE  OneRuns'
BY DEF Moves, OneRuns

\* How many processes are at "dec".
LEMMA DecsIs ==
    ASSUME NEW p \in Proc, Moves(p)
    PROVE  /\ Decs = IF pc[p] = "dec" THEN 1 ELSE 0
           /\ Decs' = IF pc'[p] = "dec" THEN 1 ELSE 0
<1> DEFINE D == {q \in Proc : pc[q] = "dec"}
<1>1. "dec" \notin Rest
  BY DEF Rest, Waits
<1>2. D = IF pc[p] = "dec" THEN {p} ELSE {}
  BY <1>1 DEF Moves
<1>3. D' = IF pc'[p] = "dec" THEN {p} ELSE {}
  BY <1>1 DEF Moves
<1>4. Cardinality({p}) = 1 /\ Cardinality({}) = 0
  BY FS_EmptySet, FS_Singleton
<1> QED
  BY <1>2, <1>3, <1>4 DEF Decs

LEMMA DecsSmall ==
    ASSUME OneRuns
    PROVE  Decs \in {0, 1} /\ ((\A p \in Proc : pc[p] # "dec") => Decs = 0)
<1> DEFINE D == {q \in Proc : pc[q] = "dec"}
<1>1. "dec" \notin Rest
  BY DEF Rest, Waits
<1>2. D = {} \/ \E p \in Proc : D = {p}
  BY <1>1 DEF OneRuns
<1>3. Cardinality({}) = 0 /\ \A p \in Proc : Cardinality({p}) = 1
  BY FS_EmptySet, FS_Singleton
<1>4. (\A p \in Proc : pc[p] # "dec") => D = {}
  OBVIOUS
<1> HIDE DEF D
<1>5. Cardinality(D) \in {0, 1} /\ (D = {} => Cardinality(D) = 0)
  BY <1>2, <1>3
<1> QED
  BY <1>4, <1>5 DEF D, Decs

LEMMA DelctIs == DelctCounts <=> tp.delct = Lines(tp) + Decs
BY DEF DelctCounts, Lines, Decs

\* The lines in the raw queue: when a character is taken, and one is typed.
LEMMA LinesType ==
    ASSUME NEW t \in TtyType
    PROVE  Lines(t) \in Nat
<1> DEFINE r == Only(t.rawq, {Delim})
<1>1. t.rawq \in Seq(Key \cup {Delim})
  BY DEF TtyType
<1>2. r \in Seq((Key \cup {Delim}) \cap {Delim})
  BY <1>1, OnlyType
<1> HIDE DEF r
<1>3. Len(r) \in Nat
  BY <1>2, LenProperties
<1> QED
  BY <1>3 DEF r, Lines

LEMMA LenTwo ==
    ASSUME NEW T, NEW s, NEW a \in Seq(T), NEW b \in Seq(T), s = a \o b
    PROVE  Len(s) = Len(a) + Len(b)
BY ConcatProperties

LEMMA LinesTail ==
    ASSUME NEW t \in TtyType, t.rawq # <<>>, NEW u, u.rawq = Tail(t.rawq)
    PROVE  Lines(t) = Lines(u) + IF Head(t.rawq) = Delim THEN 1 ELSE 0
<1> DEFINE T == Key \cup {Delim}
           s == t.rawq
           h == <<Head(t.rawq)>>
           r == Tail(t.rawq)
<1>1. s \in Seq(T) /\ s # <<>>
  BY DEF TtyType
<1>2. Head(s) \in T /\ r \in Seq(T)
  BY <1>1, HeadAndTail
<1>3. h \in Seq(T)
  BY <1>2
<1>4. Only(s, {Delim}) = Only(h, {Delim}) \o Only(r, {Delim})
  <2> HIDE DEF T
  <2> QED
    BY <1>1, OnlyTail
<1>5. Only(h, {Delim}) = IF Head(s) = Delim THEN <<Head(s)>> ELSE <<>>
  BY OnlyOne
<1>6. Len(Only(h, {Delim})) = IF Head(s) = Delim THEN 1 ELSE 0
  BY <1>5
<1>7. Only(h, {Delim}) \in Seq(T \cap {Delim}) /\ Only(r, {Delim}) \in Seq(T \cap {Delim})
  <2> HIDE DEF T, h, r
  <2> QED
    BY <1>2, <1>3, OnlyType
<1> DEFINE a == Only(h, {Delim})
           b == Only(r, {Delim})
           k == Only(s, {Delim})
           S == T \cap {Delim}
<1>8. a \in Seq(S) /\ b \in Seq(S) /\ k = a \o b
  BY <1>4, <1>7
<1> HIDE DEF a, b, k, S
<1>9. Len(k) = Len(a) + Len(b)
  BY <1>8, LenTwo
<1>10. Len(b) \in Nat /\ Lines(u) = Len(b) /\ Lines(t) = Len(k)
  <2>1. Len(b) \in Nat
    BY <1>8, LenProperties
  <2> QED
    BY <2>1 DEF Lines, b, k
<1>11. Len(a) = IF Head(t.rawq) = Delim THEN 1 ELSE 0
  BY <1>6 DEF a
<1> QED
  BY <1>9, <1>10, <1>11

LEMMA LinesTyped ==
    ASSUME NEW t \in TtyType, NEW c \in Key, NEW u, u.rawq = Typed(t, c).rawq
    PROVE  /\ Lines(u) = Lines(t) + IF Ends(t, c) THEN 1 ELSE 0
           /\ Len(u.rawq) = Len(t.rawq) + IF Ends(t, c) THEN 2 ELSE 1
<1> DEFINE T == Key \cup {Delim}
           s == t.rawq
           e == IF Ends(t, c) THEN <<c, Delim>> ELSE <<c>>
<1>1. s \in Seq(T)
  BY DEF TtyType
<1>2. e \in Seq(T) /\ Len(e) = IF Ends(t, c) THEN 2 ELSE 1
  <2>1. <<c>> \in Seq(T) /\ <<c, Delim>> \in Seq(T)
    OBVIOUS
  <2>2. Len(<<c>>) = 1 /\ Len(<<c, Delim>>) = 2
    OBVIOUS
  <2> HIDE DEF T
  <2> QED
    BY <2>1, <2>2
<1>3. u.rawq = s \o e
  BY TypedType
<1>4. Only(s \o e, {Delim}) = Only(s, {Delim}) \o Only(e, {Delim})
  <2> HIDE DEF T, e, s
  <2> QED
    BY <1>1, <1>2, OnlyConcat
<1>5. Only(<<c>>, {Delim}) = <<>>
  <2>1. c \notin {Delim}
    BY DEF Key, Delim
  <2> QED
    BY <2>1, OnlyOne
<1>6. Only(<<c, Delim>>, {Delim}) = <<Delim>>
  <2> DEFINE g == <<c>>
  <2>1. g \in Seq(T) /\ Delim \in T /\ <<c, Delim>> = Append(g, Delim)
    OBVIOUS
  <2>2. Only(g, {Delim}) = <<>>
    BY <1>5
  <2> HIDE DEF g, T
  <2>3. Only(Append(g, Delim), {Delim}) = Only(g, {Delim}) \o Only(<<Delim>>, {Delim})
    BY <2>1, OnlyAppend
  <2>4. Only(<<Delim>>, {Delim}) = <<Delim>>
    BY OnlyOne
  <2>5. <<>> \o <<Delim>> = <<Delim>>
    OBVIOUS
  <2> QED
    BY <2>1, <2>2, <2>3, <2>4, <2>5
<1>7. Len(Only(e, {Delim})) = IF Ends(t, c) THEN 1 ELSE 0
  BY <1>5, <1>6
<1>8. Only(s, {Delim}) \in Seq(T \cap {Delim}) /\ Only(e, {Delim}) \in Seq(T \cap {Delim})
  <2> HIDE DEF T, e, s
  <2> QED
    BY <1>1, <1>2, OnlyType
<1> DEFINE a == Only(s, {Delim})
           b == Only(e, {Delim})
           k == Only(s \o e, {Delim})
           S == T \cap {Delim}
<1>9. a \in Seq(S) /\ b \in Seq(S) /\ k = a \o b
  BY <1>4, <1>8
<1>10. Lines(u) = Len(k) /\ Lines(t) = Len(a)
  BY <1>3 DEF Lines
<1>11. Len(b) = IF Ends(t, c) THEN 1 ELSE 0
  BY <1>7
<1>12. Len(u.rawq) = Len(s) + Len(e)
  <2> HIDE DEF T, e, s
  <2> QED
    BY <1>1, <1>2, <1>3, LenTwo
<1>13. Len(u.rawq) = Len(t.rawq) + IF Ends(t, c) THEN 2 ELSE 1
  BY <1>2, <1>12
<1> HIDE DEF a, b, k, S, e
<1>14. Len(k) = Len(a) + Len(b)
  BY <1>9, LenTwo
<1> QED
  BY <1>10, <1>11, <1>13, <1>14


\* What a process does that leaves the raw queue and its count, and is not at
\* canon's counting.
LEMMA InputSame ==
    ASSUME Types, Input, NEW p \in Proc, Moves(p), pc[p] # "dec", pc'[p] # "dec",
           tp'.rawq = tp.rawq, tp'.delct = tp.delct
    PROVE  Len(tp'.rawq) <= TTYHOG + 1 /\ OneRuns' /\ DelctCounts'
<1>1. Decs' = Decs
  BY DecsIs
<1>2. Lines(tp') = Lines(tp)
  BY DEF Lines
<1>3. tp'.delct = Lines(tp') + Decs'
  BY <1>1, <1>2, DelctIs DEF Input
<1>4. DelctCounts'
  BY <1>3 DEF DelctCounts, Lines, Decs
<1> QED
  BY <1>4, MovesOne DEF Input

\* The processes that sleep for a line, when p moves and nobody else.
LEMMA SleepersSame ==
    ASSUME Input, tp'.delct = tp.delct,
           \A q \in Proc : wchan'[q] = "rawq" => wchan[q] = "rawq" \/ tp.delct = 0
    PROVE  RawSleep'
BY DEF Input, RawSleep

LEMMA SleepOnDoes ==
    ASSUME Types, NEW p \in Proc, NEW chan \in {"rawq", "outq"}, NEW at \in Waits,
           SleepOn(p, chan, at)
    PROVE  /\ pc'[p] \in {"user", at}
           /\ \A q \in Proc : wchan'[q] # wchan[q] => q = p /\ wchan'[q] = chan
           /\ \A q \in Proc \ {p} : count'[q] = count[q] /\ expn'[q] = expn[q]
           /\ pc'[p] = at => count'[p] = count[p] /\ expn'[p] = expn[p]
           /\ pc'[p] = "user" => count'[p] = 0 /\ expn'[p] = <<>>
<1>0. /\ pc \in [Proc -> Places] /\ wchan \in [Proc -> {None, "rawq", "outq"}]
      /\ expn \in [Proc -> Seq(OutChar)] /\ count \in [Proc -> Int]
  BY DEF Types, SharedTypes, ProcTypes
<1>1. CASE sig[p]
  <2>1. Return(p) /\ UNCHANGED wchan
    BY <1>1 DEF SleepOn
  <2>2. pc'[p] = "user"
    BY <1>0, <2>1 DEF Return, Goto
  <2>3. "user" \notin Waits
    BY DEF Waits
  <2> QED
    BY <1>0, <2>1, <2>2, <2>3 DEF Return
<1>2. CASE ~sig[p]
  <2>1. Goto(p, at) /\ wchan' = [wchan EXCEPT ![p] = chan] /\ UNCHANGED <<expn, count>>
    BY <1>2 DEF SleepOn, locals
  <2>2. pc'[p] = at /\ at # "user"
    BY <1>0, <2>1 DEF Goto, Waits
  <2> QED
    BY <1>0, <2>1, <2>2
<1> QED
  BY <1>1, <1>2

LEMMA ReturnDoes ==
    ASSUME Types, NEW p \in Proc, Return(p)
    PROVE  /\ pc'[p] = "user" /\ count'[p] = 0 /\ expn'[p] = <<>>
           /\ \A q \in Proc \ {p} : count'[q] = count[q] /\ expn'[q] = expn[q]
BY DEF Types, ProcTypes, Return, Goto

\* A process that reads has something to read still.
LEMMA CountStep ==
    ASSUME Types, CountPositive, NEW p \in Proc, Kernel(p) \/ Call(p)
    PROVE  CountPositive'
<1>0. pc \in [Proc -> Places] /\ count \in [Proc -> Int]
  BY DEF Types, ProcTypes
<1>1. "user" \notin Reading
  BY DEF Reading
<1>2. Moves(p)
  BY KernelMoves
<1> DEFINE Goal == /\ \A q \in Proc \ {p} : count'[q] = count[q]
                   /\ count'[p] >= 0 /\ (pc'[p] \in Reading => count'[p] > 0)
<1>3. Goal => CountPositive'
  BY <1>2 DEF CountPositive, Moves
<1>4. ASSUME count' = count, pc'[p] \in Reading => pc[p] \in Reading PROVE Goal
  BY <1>4 DEF CountPositive
<1>5. ASSUME Return(p) PROVE Goal
  BY <1>1, <1>5, ReturnDoes
<1>6. ASSUME CanonWait(p) PROVE Goal
  <2>1. CASE tp.delct = 0
    <3>1. SleepOn(p, "rawq", "canonsleep") /\ pc[p] \in {"canon", "canonsleep"}
      BY <1>6, <2>1 DEF CanonWait, Runs
    <3>2. "canonsleep" \in Waits
      BY DEF Waits
    <3> QED
      BY <1>1, <3>1, <3>2, SleepOnDoes DEF CountPositive, Reading
  <2>2. CASE tp.delct # 0
    BY <1>0, <1>4, <1>6, <2>2 DEF CanonWait, Runs, Goto, locals, Reading
  <2> QED
    BY <2>1, <2>2
<1>7. ASSUME CanonGet(p) \/ CanonDec(p) \/ CanonPut(p) PROVE Goal
  <2>1. count' = count /\ pc[p] \in Reading
    BY <1>7 DEF CanonGet, CanonDec, CanonPut, Runs, locals, Reading
  <2> QED
    BY <1>4, <2>1
<1>8. ASSUME TtreadTest(p) /\ ~Return(p) PROVE Goal
  <2>1. count' = count /\ pc[p] \in Reading
    BY <1>8 DEF TtreadTest, Runs, locals, Reading
  <2> QED
    BY <1>4, <2>1
<1>9. ASSUME TtreadPass(p) /\ ~Return(p) PROVE Goal
  <2>1. count[p] # 1 /\ count' = [count EXCEPT ![p] = @ - 1] /\ pc[p] \in Reading
    BY <1>9 DEF TtreadPass, Runs, Reading
  <2>2. count[p] > 0 /\ count[p] \in Int
    BY <1>0, <2>1 DEF CountPositive
  <2> QED
    BY <1>0, <2>1, <2>2
<1>10. ASSUME TtwriteWait(p) PROVE Goal
  <2>1. CASE Len(tp.outq) > TTHIWAT
    <3>1. SleepOn(p, "outq", "hiwat") /\ "hiwat" \in Waits /\ "hiwat" \notin Reading
      BY <1>10, <2>1 DEF TtwriteWait, Waits, Reading
    <3> QED
      BY <1>1, <3>1, SleepOnDoes DEF CountPositive
  <2>2. CASE ~(Len(tp.outq) > TTHIWAT)
    <3>1. count' = count /\ pc'[p] = "out"
      BY <1>0, <1>10, <2>2 DEF TtwriteWait, Goto
    <3> QED
      BY <1>4, <3>1 DEF Reading
  <2> QED
    BY <2>1, <2>2
<1>11. ASSUME TtyoutputPut(p) PROVE Goal
  <2>1. count' = count /\ (pc'[p] = "cpass" \/ pc'[p] = pc[p])
    BY <1>0, <1>11 DEF TtyoutputPut, Goto
  <2> QED
    BY <1>4, <2>1 DEF Reading
<1>12. ASSUME WflushttyWait(p) /\ ~Return(p) PROVE Goal
  <2>1. CASE tp.outq # <<>>
    <3>1. PICK at \in {"sttydrain", "closedrain"} : SleepOn(p, "outq", at)
      BY <1>12, <2>1 DEF WflushttyWait
    <3>2. at \in Waits /\ at \notin Reading
      BY DEF Waits, Reading
    <3> QED
      BY <1>1, <3>1, <3>2, SleepOnDoes DEF CountPositive
  <2>2. CASE tp.outq = <<>>
    <3>1. count' = count /\ pc'[p] = "set"
      BY <1>0, <1>12, <2>2 DEF WflushttyWait, Goto, locals
    <3> QED
      BY <1>4, <3>1 DEF Reading
  <2> QED
    BY <2>1, <2>2
<1>13. ASSUME NEW n \in Counts, Ttread(p, n) PROVE Goal
  <2>1. n > 0 /\ n >= 0 /\ count' = [count EXCEPT ![p] = n]
    BY <1>13, TtyAssumption DEF Ttread
  <2> QED
    BY <1>0, <2>1
<1>14. ASSUME NEW w \in Texts, Ttwrite(p, w) PROVE Goal
  <2>1. count' = count /\ pc'[p] = "cpass"
    BY <1>0, <1>14 DEF Ttwrite, Goto
  <2> QED
    BY <1>4, <2>1 DEF Reading
<1>15. ASSUME NEW c \in {"stty", "close"}, Wflushtty(p, c) PROVE Goal
  <2>1. count' = count /\ pc'[p] = c
    BY <1>0, <1>15 DEF Wflushtty, Goto, locals
  <2> QED
    BY <1>4, <2>1 DEF Reading
<1>16. TtwriteEnd(p) \/ Interrupted(p) \/ (\E raw \in BOOLEAN : Ttystty(p, raw)) => Return(p)
  BY DEF TtwriteEnd, Interrupted, Ttystty
<1> QED
  BY <1>3, <1>5, <1>6, <1>7, <1>8, <1>9, <1>10, <1>11, <1>12, <1>13, <1>14, <1>15, <1>16
     DEF Kernel, Call


\* What the other steps of a process do to the raw queue and its readers: nothing.
LEMMA RawSame ==
    ASSUME Types, NEW p \in Proc, Kernel(p) \/ Call(p), ~CanonGet(p), ~CanonDec(p),
           ~(WflushttyWait(p) /\ tp.outq = <<>>)
    PROVE  /\ pc[p] # "dec" /\ pc'[p] # "dec"
           /\ tp'.rawq = tp.rawq /\ tp'.delct = tp.delct
           /\ \A q \in Proc : wchan'[q] = "rawq" => wchan[q] = "rawq" \/ tp.delct = 0
<1>0. /\ pc \in [Proc -> Places] /\ wchan \in [Proc -> {None, "rawq", "outq"}]
      /\ tp \in TtyType
  BY DEF Types, SharedTypes, ProcTypes
<1> DEFINE Goal == /\ pc[p] # "dec" /\ pc'[p] # "dec"
                   /\ tp'.rawq = tp.rawq /\ tp'.delct = tp.delct
                   /\ \A q \in Proc : wchan'[q] = "rawq" => wchan[q] = "rawq" \/ tp.delct = 0
<1>1. ASSUME CanonWait(p) PROVE Goal
  <2>1. tp' = tp /\ pc[p] \in {"canon", "canonsleep"}
    BY <1>1 DEF CanonWait, Runs
  <2>2. CASE tp.delct = 0
    <3>1. SleepOn(p, "rawq", "canonsleep") /\ "canonsleep" \in Waits
      BY <1>1, <2>2 DEF CanonWait, Waits
    <3>2. pc'[p] \in {"user", "canonsleep"}
      BY <3>1, SleepOnDoes
    <3> QED
      BY <2>1, <2>2, <3>2
  <2>3. CASE tp.delct # 0
    <3>1. pc'[p] = "get" /\ wchan' = wchan
      BY <1>0, <1>1, <2>3 DEF CanonWait, Goto
    <3> QED
      BY <2>1, <3>1
  <2> QED
    BY <2>2, <2>3
<1>2. ASSUME CanonPut(p) PROVE Goal
  <2>1. pc[p] = "put" /\ pc'[p] \in {"put", "pass"} /\ wchan' = wchan
    BY <1>0, <1>2 DEF CanonPut, Runs, Goto
  <2>2. tp'.rawq = tp.rawq /\ tp'.delct = tp.delct
    BY <1>0, <1>2 DEF CanonPut, TtyType
  <2> QED
    BY <2>1, <2>2
<1>3. ASSUME TtreadTest(p) \/ TtreadPass(p) PROVE Goal
  <2>1. tp'.rawq = tp.rawq /\ tp'.delct = tp.delct
    BY <1>0, <1>3 DEF TtreadTest, TtreadPass, TtyType
  <2>2. pc[p] # "dec" /\ wchan' = wchan
    BY <1>3 DEF TtreadTest, TtreadPass, Runs
  <2>3. pc'[p] # "dec"
    BY <1>0, <1>3 DEF TtreadTest, TtreadPass, Goto, Return
  <2> QED
    BY <2>1, <2>2, <2>3
<1>4. ASSUME TtwriteWait(p) \/ TtyoutputPut(p) \/ TtwriteEnd(p) PROVE Goal
  <2>1. tp'.rawq = tp.rawq /\ tp'.delct = tp.delct
    <3>1. tp' = tp \/ tp' = Ttstart(tp) \/ \E o : tp' = [tp EXCEPT !.outq = o]
      BY <1>4 DEF TtwriteWait, TtyoutputPut, TtwriteEnd
    <3>2. CASE \E o : tp' = [tp EXCEPT !.outq = o]
      BY <1>0, <3>2 DEF TtyType
    <3> QED
      BY <1>0, <3>1, <3>2, TtstartKeeps
  <2>2. pc[p] # "dec"
    BY <1>4 DEF TtwriteWait, TtyoutputPut, TtwriteEnd, Runs
  <2>3. CASE TtwriteWait(p) /\ Len(tp.outq) > TTHIWAT
    <3>1. SleepOn(p, "outq", "hiwat") /\ "hiwat" \in Waits
      BY <2>3 DEF TtwriteWait, Waits
    <3>2. /\ pc'[p] \in {"user", "hiwat"}
          /\ \A q \in Proc : wchan'[q] # wchan[q] => wchan'[q] = "outq"
      BY <3>1, SleepOnDoes
    <3> QED
      BY <2>1, <2>2, <3>2
  <2>4. CASE ~(TtwriteWait(p) /\ Len(tp.outq) > TTHIWAT)
    <3>1. wchan' = wchan /\ pc'[p] # "dec"
      BY <1>0, <1>4, <2>2, <2>4 DEF TtwriteWait, TtyoutputPut, TtwriteEnd, Goto, Return
    <3> QED
      BY <2>1, <2>2, <3>1
  <2> QED
    BY <2>3, <2>4
<1>5. ASSUME WflushttyWait(p) PROVE Goal
  <2>1. PICK at \in {"sttydrain", "closedrain"} : SleepOn(p, "outq", at) /\ tp' = tp
    BY <1>5 DEF WflushttyWait
  <2>2. at \in Waits /\ at # "dec"
    BY DEF Waits
  <2>3. /\ pc'[p] \in {"user", at}
        /\ \A q \in Proc : wchan'[q] # wchan[q] => wchan'[q] = "outq"
    BY <2>1, <2>2, SleepOnDoes
  <2>4. pc[p] # "dec"
    BY <1>5 DEF WflushttyWait, Runs
  <2> QED
    BY <2>1, <2>2, <2>3, <2>4
<1>6. ASSUME Interrupted(p) \/ \E raw \in BOOLEAN : Ttystty(p, raw) PROVE Goal
  <2>1. tp'.rawq = tp.rawq /\ tp'.delct = tp.delct
    BY <1>0, <1>6 DEF Interrupted, Ttystty, TtyType
  <2>2. pc[p] # "dec" /\ wchan' = wchan /\ pc'[p] = "user"
    BY <1>0, <1>6 DEF Interrupted, Ttystty, Runs, Waits, Return, Goto
  <2> QED
    BY <2>1, <2>2
<1>7. ASSUME Call(p) PROVE Goal
  <2>1. tp' = tp /\ wchan' = wchan /\ pc[p] = "user"
    BY <1>7 DEF Call, Ttread, Ttwrite, Wflushtty, Runs
  <2>2. pc'[p] # "dec"
    BY <1>0, <1>7 DEF Call, Ttread, Ttwrite, Wflushtty, Goto
  <2> QED
    BY <2>1, <2>2
<1> QED
  BY <1>1, <1>2, <1>3, <1>4, <1>5, <1>6, <1>7 DEF Kernel

LEMMA InputProc ==
    ASSUME Types, Input, NEW p \in Proc, Kernel(p) \/ Call(p)
    PROVE  Input'
<1>0. pc \in [Proc -> Places] /\ tp \in TtyType /\ wchan \in [Proc -> {None, "rawq", "outq"}]
  BY DEF Types, SharedTypes, ProcTypes
<1>1. Moves(p) /\ CountPositive' /\ OneRuns'
  BY KernelMoves, CountStep, MovesOne DEF Input
<1>2. /\ Decs = IF pc[p] = "dec" THEN 1 ELSE 0
      /\ Decs' = IF pc'[p] = "dec" THEN 1 ELSE 0
  BY <1>1, DecsIs
<1>3. tp.delct = Lines(tp) + Decs /\ Lines(tp) \in Nat
  BY <1>0, DelctIs, LinesType DEF Input
<1>4. Len(tp.rawq) \in Nat /\ Len(tp.rawq) <= TTYHOG + 1 /\ TTYHOG \in Nat
  BY <1>0, TtyAssumption, LenProperties DEF Input, TtyType
<1>5. CASE ~CanonGet(p) /\ ~CanonDec(p) /\ ~(WflushttyWait(p) /\ tp.outq = <<>>)
  <2>1. /\ pc[p] # "dec" /\ pc'[p] # "dec"
        /\ tp'.rawq = tp.rawq /\ tp'.delct = tp.delct
        /\ \A q \in Proc : wchan'[q] = "rawq" => wchan[q] = "rawq" \/ tp.delct = 0
    BY <1>5, RawSame
  <2> QED
    BY <1>1, <2>1, InputSame, SleepersSame DEF Input
<1>6. CASE CanonGet(p) /\ tp.rawq = <<>>
  <2>1. pc[p] # "dec" /\ pc'[p] # "dec" /\ UNCHANGED <<tp, wchan>>
    BY <1>0, <1>6 DEF CanonGet, Goto, Runs
  <2> QED
    BY <1>1, <2>1, InputSame, SleepersSame DEF Input
<1>7. CASE CanonGet(p) /\ tp.rawq # <<>>
  <2>1. /\ tp' = [tp EXCEPT !.rawq = Tail(@)] /\ wchan' = wchan
        /\ pc[p] = "get" /\ (pc'[p] = "dec" <=> Head(tp.rawq) = Delim)
    BY <1>0, <1>7 DEF CanonGet, Goto, Runs
  <2>2. tp'.rawq = Tail(tp.rawq) /\ tp'.delct = tp.delct
    BY <1>0, <2>1 DEF TtyType
  <2>3. Lines(tp) = Lines(tp') + IF Head(tp.rawq) = Delim THEN 1 ELSE 0
    BY <1>0, <1>7, <2>2, LinesTail
  <2>4. Lines(tp') \in Nat
    BY <1>1, <1>7, TypesStep, LinesType DEF Next, Kernel, Types, SharedTypes
  <2>5. tp'.delct = Lines(tp') + Decs'
    BY <1>2, <1>3, <2>1, <2>2, <2>3, <2>4
  <2>6. Len(tp'.rawq) = Len(tp.rawq) - 1
    BY <1>0, <1>7, <2>2, HeadAndTail DEF TtyType
  <2>7. DelctCounts'
    BY <2>5 DEF DelctCounts, Lines, Decs
  <2>8. RawSleep'
    BY <2>1, <2>2, SleepersSame
  <2> QED
    BY <1>1, <1>4, <2>6, <2>7, <2>8 DEF Input
<1>8. CASE CanonDec(p)
  <2>1. tp' = [tp EXCEPT !.delct = @ - 1] /\ wchan' = wchan /\ pc[p] = "dec" /\ pc'[p] = "put"
    BY <1>0, <1>8 DEF CanonDec, Goto, Runs
  <2>2. tp'.rawq = tp.rawq /\ tp'.delct = tp.delct - 1
    BY <1>0, <2>1 DEF TtyType
  <2>3. Lines(tp') = Lines(tp)
    BY <2>2 DEF Lines
  <2>4. tp'.delct = Lines(tp') + Decs'
    BY <1>2, <1>3, <2>1, <2>2, <2>3
  <2>5. DelctCounts'
    BY <2>4 DEF DelctCounts, Lines, Decs
  <2>6. tp.delct > 0
    BY <1>2, <1>3, <2>1
  <2>7. RawSleep'
    BY <2>1, <2>6 DEF RawSleep, Input
  <2> QED
    BY <1>1, <1>4, <2>2, <2>5, <2>7 DEF Input
<1>9. CASE WflushttyWait(p) /\ tp.outq = <<>>
  <2>1. /\ tp' = Flushtty(tp) /\ wchan' = Wakeup({"rawq", "outq"})
        /\ pc[p] # "dec" /\ pc'[p] # "dec"
    BY <1>0, <1>9 DEF WflushttyWait, Runs, Goto, Return
  <2>2. tp'.rawq = <<>> /\ tp'.delct = 0
    BY <1>0, <2>1, FlushttyType
  <2>3. Only(tp'.rawq, {Delim}) = <<>>
    BY <2>2, OnlyEmpty
  <2>4. Lines(tp') = 0
    BY <2>3 DEF Lines
  <2>5. DelctCounts'
    BY <1>2, <2>1, <2>2, <2>4 DEF DelctCounts, Lines, Decs
  <2>6. RawSleep'
    BY <2>2 DEF RawSleep
  <2>7. Len(tp'.rawq) = 0
    BY <2>2
  <2> QED
    BY <1>1, <1>4, <2>5, <2>6, <2>7 DEF Input
<1> QED
  BY <1>5, <1>6, <1>7, <1>8, <1>9

\* A key, or the end of a character or of a delay.
LEMMA InputInterrupt ==
    ASSUME Types, Input, KeysApart,
           \/ \E c \in Key : TtyinputHog(c) \/ Ttyinput(c)
           \/ TtyinputIntr \/ Klxint \/ Ttrstrt
    PROVE  Input'
<1>0. tp \in TtyType /\ wchan \in [Proc -> {None, "rawq", "outq"}]
  BY DEF Types, SharedTypes
<1>1. pc' = pc /\ count' = count
  BY DEF TtyinputHog, Ttyinput, TtyinputIntr, Klxint, Ttrstrt, Interrupt, locals
<1>2. Decs' = Decs /\ OneRuns' /\ CountPositive'
  BY <1>1 DEF Decs, Input, OneRuns, CountPositive
<1>3. tp.delct = Lines(tp) + Decs /\ Lines(tp) \in Nat /\ Decs \in {0, 1}
  BY <1>0, DelctIs, LinesType, DecsSmall DEF Input
<1>4. Len(tp.rawq) \in Nat /\ Len(tp.rawq) <= TTYHOG + 1 /\ TTYHOG \in Nat
  BY <1>0, TtyAssumption, LenProperties DEF Input, TtyType
<1>5. CASE TtyinputIntr \/ \E c \in Key : TtyinputHog(c)
  <2>1. tp' = Flushtty(tp)
    BY <1>5 DEF TtyinputIntr, TtyinputHog
  <2>2. Decs = 0
    BY <1>5, DecsSmall DEF KeysApart, Flushes, Input
  <2>3. tp'.rawq = <<>> /\ tp'.delct = 0
    BY <1>0, <2>1, FlushttyType
  <2>4. Only(tp'.rawq, {Delim}) = <<>>
    BY <2>3, OnlyEmpty
  <2>5. Lines(tp') = 0
    BY <2>4 DEF Lines
  <2>6. DelctCounts'
    BY <1>2, <2>2, <2>3, <2>5 DEF DelctCounts, Lines, Decs
  <2>7. RawSleep'
    BY <2>3 DEF RawSleep
  <2>8. Len(tp'.rawq) = 0
    BY <2>3
  <2> QED
    BY <1>2, <1>4, <2>6, <2>7, <2>8 DEF Input
<1>6. ASSUME NEW c \in Key, Ttyinput(c) PROVE Input'
  <2>1. /\ tp' = (IF tp.echo THEN Ttstart(Typed(tp, c)) ELSE Typed(tp, c))
        /\ wchan' = Wakeup(IF Ends(tp, c) THEN {"rawq"} ELSE {})
        /\ Len(tp.rawq) < TTYHOG
    BY <1>6, TtyinputDoes
  <2>2. /\ Typed(tp, c) \in TtyType
        /\ Typed(tp, c).delct = (IF Ends(tp, c) THEN tp.delct + 1 ELSE tp.delct)
    BY <1>0, TypedType
  <2>3. tp'.rawq = Typed(tp, c).rawq /\ tp'.delct = Typed(tp, c).delct
    BY <2>1, <2>2, TtstartKeeps
  <2>4. /\ Lines(tp') = Lines(tp) + IF Ends(tp, c) THEN 1 ELSE 0
        /\ Len(tp'.rawq) = Len(tp.rawq) + IF Ends(tp, c) THEN 2 ELSE 1
    BY <1>0, <2>3, LinesTyped
  <2>5. tp'.delct = Lines(tp') + Decs'
    BY <1>2, <1>3, <2>2, <2>3, <2>4
  <2>6. DelctCounts'
    BY <2>5 DEF DelctCounts, Lines, Decs
  <2>7. Len(tp'.rawq) <= TTYHOG + 1
    <3> DEFINE n == Len(tp.rawq)
               m == Len(tp'.rawq)
    <3>1. n \in Nat /\ TTYHOG \in Nat /\ n < TTYHOG /\ (m = n + 2 \/ m = n + 1)
      BY <1>4, <2>1, <2>4
    <3> HIDE DEF n, m
    <3>2. m <= TTYHOG + 1
      BY <3>1
    <3> QED
      BY <3>2 DEF m
  <2>8. RawSleep'
    <3>1. CASE Ends(tp, c)
      <4>1. \A q \in Proc : wchan'[q] # "rawq"
        BY <1>0, <2>1, <3>1 DEF Wakeup, None
      <4> QED
        BY <4>1 DEF RawSleep
    <3>2. CASE ~Ends(tp, c)
      <4>1. \A q \in Proc : wchan'[q] = "rawq" => wchan[q] = "rawq"
        BY <1>0, <2>1, <3>2 DEF Wakeup, None
      <4>2. tp'.delct = tp.delct
        BY <2>2, <2>3, <3>2
      <4> QED
        BY <4>1, <4>2, SleepersSame
    <3> QED
      BY <3>1, <3>2
  <2> QED
    BY <1>2, <2>6, <2>7, <2>8 DEF Input
<1>7. CASE Klxint \/ Ttrstrt
  <2>1. tp'.rawq = tp.rawq /\ tp'.delct = tp.delct
    <3>1. CASE Klxint
      <4>1. [tp EXCEPT !.thr = None] \in TtyType /\ tp' = Ttstart([tp EXCEPT !.thr = None])
        BY <1>0, <3>1, KlxintDoes DEF TtyType
      <4>2. [tp EXCEPT !.thr = None].rawq = tp.rawq /\ [tp EXCEPT !.thr = None].delct = tp.delct
        BY <1>0 DEF TtyType
      <4> QED
        BY <4>1, <4>2, TtstartKeeps
    <3>2. CASE Ttrstrt
      <4>1. [tp EXCEPT !.timeout = FALSE] \in TtyType /\ tp' = Ttstart([tp EXCEPT !.timeout = FALSE])
        BY <1>0, <3>2 DEF TtyType, Ttrstrt
      <4>2. /\ [tp EXCEPT !.timeout = FALSE].rawq = tp.rawq
            /\ [tp EXCEPT !.timeout = FALSE].delct = tp.delct
        BY <1>0 DEF TtyType
      <4> QED
        BY <4>1, <4>2, TtstartKeeps
    <3> QED
      BY <1>7, <3>1, <3>2
  <2>2. Lines(tp') = Lines(tp)
    BY <2>1 DEF Lines
  <2>3. DelctCounts'
    BY <1>2, <1>3, <2>1, <2>2 DEF DelctCounts, Lines, Decs
  <2>4. \A q \in Proc : wchan'[q] = "rawq" => wchan[q] = "rawq"
    <3>1. wchan' = wchan \/ wchan' = Wakeup(Wakes(tp'))
      BY <1>7, KlxintDoes DEF Ttrstrt
    <3> QED
      BY <1>0, <3>1 DEF Wakeup, None
  <2> QED
    BY <1>2, <1>4, <2>1, <2>3, <2>4, SleepersSame DEF Input
<1> QED
  BY <1>5, <1>6, <1>7


-----------------------------------------------------------------------------
\* Delays in the output queue: no two without a character between them, those
\* that are over and those to come included.

SpacedQueue(o, b) ==
    /\ b /\ o # <<>> => o[1] # Delay
    /\ \A i \in 1 .. Len(o) - 1 : ~(o[i] = Delay /\ o[i + 1] = Delay)
Spaced(t) == (t.timeout => t.thr = None) /\ SpacedQueue(t.outq, t.timeout)

\* There may be a delay next.
RoomQueue(o, b) == IF o = <<>> THEN ~b ELSE o[Len(o)] # Delay
Room(t) == RoomQueue(t.outq, t.timeout)

Shapes == {<<>>, <<Delay>>, <<"nl">>, <<"nl", Delay>>, <<"cr", "nl">>, <<"cr", "nl", Delay>>}
            \cup {<<c>> : c \in Key}

Started ==
    (\A p \in Proc : pc[p] \notin {"cpass", "out"})
        => tp.outq = <<>> \/ tp.thr # None \/ tp.timeout

\* An interrupt will come that wakes whoever waits for the output queue.
Awake(t) == t.thr # None \/ (t.timeout /\ Sendable(t.outq) # <<>>)

Output ==
    /\ Spaced(tp)
    /\ \A p \in Proc : /\ expn[p] \in Shapes /\ (expn[p] # <<>> => pc[p] = "out")
                       /\ expn[p] = <<Delay>> => Room(tp)
    /\ Started
    /\ \A p \in Proc : wchan[p] = "outq" => Awake(tp)

LEMMA PutSpaced ==
    ASSUME NEW o \in Seq(OutChar), NEW b, SpacedQueue(o, b), NEW x \in OutChar,
           x = Delay => RoomQueue(o, b)
    PROVE  SpacedQueue(Append(o, x), b) /\ (x # Delay => RoomQueue(Append(o, x), b))
<1> DEFINE s == Append(o, x)
           n == Len(o)
<1>1. n \in Nat
  BY LenProperties
<1>2. s \in Seq(OutChar) /\ s # <<>> /\ Len(s) = n + 1 /\ s[n + 1] = x
      /\ \A i \in 1 .. n : s[i] = o[i]
  BY AppendProperties
<1>3. o = <<>> <=> n = 0
  BY EmptySeq
<1> HIDE DEF s, n
<1>4. n # 0 => (x = Delay => o[n] # Delay)
  BY <1>3 DEF RoomQueue, n
<1>5. n = 0 => (x = Delay => ~b)
  BY <1>3 DEF RoomQueue
<1>6. b => s[1] # Delay
  <2>1. CASE n = 0
    BY <1>2, <1>5, <2>1
  <2>2. CASE n # 0
    <3>1. 1 \in 1 .. n /\ o # <<>>
      BY <1>1, <1>3, <2>2
    <3> QED
      BY <1>2, <3>1 DEF SpacedQueue
  <2> QED
    BY <2>1, <2>2
<1>7. ASSUME NEW i \in 1 .. n, s[i] = Delay, s[i + 1] = Delay PROVE FALSE
  <2>1. CASE i = n
    <3>1. n # 0 /\ s[n] = o[n]
      BY <1>1, <1>2, <2>1
    <3>2. o[n] = Delay /\ x = Delay
      BY <1>2, <1>7, <2>1, <3>1
    <3> QED
      BY <1>4, <3>1, <3>2
  <2>2. CASE i # n
    <3> DEFINE k == i + 1
    <3>1. i \in 1 .. n - 1 /\ k \in 1 .. n
      BY <1>1, <2>2
    <3> HIDE DEF k
    <3>2. s[k] = o[k] /\ s[i] = o[i]
      BY <1>2, <3>1
    <3>3. o[i] = Delay /\ o[i + 1] = Delay
      BY <1>7, <3>2 DEF k
    <3> QED
      BY <3>1, <3>3 DEF SpacedQueue, n
  <2> QED
    BY <2>1, <2>2
<1>8. SpacedQueue(s, b)
  <2>1. Len(s) - 1 = n
    BY <1>1, <1>2
  <2> QED
    BY <1>6, <1>7, <2>1 DEF SpacedQueue
<1>9. x # Delay => RoomQueue(s, b)
  BY <1>2 DEF RoomQueue
<1> QED
  BY <1>8, <1>9 DEF s

\* A character is not a delay.
LEMMA KeyNoDelay ==
    ASSUME NEW c \in Key
    PROVE  c # Delay /\ c \in OutChar
BY DEF Key, Delay, OutChar

LEMMA EchoSpaced ==
    ASSUME NEW o \in Seq(OutChar), NEW b, SpacedQueue(o, b), NEW t, NEW c \in Key
    PROVE  /\ SpacedQueue(o \o Echo(t, c), b)
           /\ (c = "nl" => ~t.echo) /\ RoomQueue(o, b) => RoomQueue(o \o Echo(t, c), b)
<1>1. CASE Echo(t, c) = <<>>
  BY <1>1, ConcatEmptySeq
<1>2. CASE Echo(t, c) = <<c>> /\ c # "nl"
  <2>1. o \o <<c>> = Append(o, c) /\ c # Delay /\ c \in OutChar
    BY KeyNoDelay, AppendIsConcat
  <2> QED
    BY <1>2, <2>1, PutSpaced
<1>3. CASE Echo(t, c) = <<"cr", "nl">> \o (IF t.delay THEN <<Delay>> ELSE <<>>) /\ c = "nl" /\ t.echo
  <2> DEFINE o1 == Append(o, "cr")
             o2 == Append(o1, "nl")
             o3 == Append(o2, Delay)
             x == "cr"
             y == "nl"
             z == Delay
  <2>0. x \in OutChar /\ y \in OutChar /\ z \in OutChar /\ x # Delay /\ y # Delay /\ z = Delay
    BY DEF OutChar, Key, Delay
  <2>1. o1 \in Seq(OutChar) /\ o2 \in Seq(OutChar)
    BY <2>0, AppendProperties
  <2>2. SpacedQueue(Append(o, x), b)
    <3> HIDE DEF x
    <3> QED
      BY <2>0, PutSpaced
  <2>3. SpacedQueue(Append(o1, y), b) /\ RoomQueue(Append(o1, y), b)
    <3>1. SpacedQueue(o1, b)
      BY <2>2
    <3> HIDE DEF y, o1
    <3> QED
      BY <2>0, <2>1, <3>1, PutSpaced
  <2>4. SpacedQueue(Append(o2, z), b)
    <3>1. SpacedQueue(o2, b) /\ RoomQueue(o2, b)
      BY <2>3
    <3> HIDE DEF z, o2
    <3> QED
      BY <2>0, <2>1, <3>1, PutSpaced
  <2>5. <<x, y>> = Append(<<x>>, y) /\ <<"cr", "nl">> \in Seq(OutChar)
    BY <2>0
  <2>6. o \o <<x, y>> = o2
    <3> DEFINE g == <<x>>
    <3>1. o1 = o \o <<x>>
      BY <2>0, AppendIsConcat
    <3>2. o2 = o1 \o <<y>>
      BY <2>0, <2>1, AppendIsConcat
    <3>3. (o \o <<x>>) \o <<y>> = o \o (<<x>> \o <<y>>)
      <4> DEFINE k == <<y>>
      <4>1. g \in Seq(OutChar) /\ k \in Seq(OutChar)
        BY <2>0
      <4> HIDE DEF g, k
      <4>2. (o \o g) \o k = o \o (g \o k)
        BY <4>1, ConcatAssociative, SMTT(30)
      <4> QED
        BY <4>2 DEF g, k
    <3>4. <<x>> \o <<y>> = <<x, y>>
      <4>1. g \in Seq(OutChar) /\ y \in OutChar /\ <<x, y>> = Append(g, y)
        BY <2>0, <2>5
      <4> HIDE DEF g
      <4>2. Append(g, y) = g \o <<y>>
        BY <4>1, AppendIsConcat
      <4> QED
        BY <4>1, <4>2 DEF g
    <3> QED
      BY <3>1, <3>2, <3>3, <3>4
  <2>7. CASE t.delay
    <3>1. Echo(t, c) = <<"cr", "nl">> \o <<Delay>>
      BY <1>3, <2>7
    <3>2. o \o (<<"cr", "nl">> \o <<Delay>>) = (o \o <<"cr", "nl">>) \o <<Delay>>
      <4> DEFINE g == <<"cr", "nl">>
                 k == <<Delay>>
      <4>1. g \in Seq(OutChar) /\ k \in Seq(OutChar)
        BY <2>0, <2>5
      <4> HIDE DEF g, k
      <4>2. (o \o g) \o k = o \o (g \o k)
        BY <4>1, ConcatAssociative, SMTT(30)
      <4> QED
        BY <4>2 DEF g, k
    <3>3. o2 \o <<Delay>> = Append(o2, Delay)
      BY <2>0, <2>1, AppendIsConcat
    <3>4. o \o Echo(t, c) = o3
      BY <2>6, <3>1, <3>2, <3>3
    <3> QED
      BY <1>3, <2>4, <3>4
  <2>8. CASE ~t.delay
    <3>1. <<"cr", "nl">> \o <<>> = <<"cr", "nl">>
      BY <2>5, ConcatEmptySeq
    <3>2. o \o Echo(t, c) = o2
      BY <1>3, <2>6, <2>8, <3>1
    <3> QED
      BY <1>3, <2>3, <3>2
  <2> QED
    BY <2>7, <2>8
<1> QED
  BY <1>1, <1>2, <1>3 DEF Echo, Ttyoutput


\* Something is sent of a queue that does not begin with a delay.
LEMMA SendableHead ==
    ASSUME NEW o \in Seq(OutChar), o # <<>>, o[1] # Delay
    PROVE  Sendable(o) # <<>>
<1> DEFINE K == Key \cup {"cr"}
           h == Head(o)
           r == Tail(o)
<1>1. h \in OutChar /\ r \in Seq(OutChar) /\ h = o[1]
  BY HeadAndTail
<1>2. h \in K
  BY <1>1 DEF OutChar
<1>3. Only(o, K) = Only(<<h>>, K) \o Only(r, K)
  <2> HIDE DEF K
  <2> QED
    BY OnlyTail
<1>4. Only(<<h>>, K) = <<h>>
  BY <1>2, OnlyOne
<1>5. Only(r, K) \in Seq(OutChar \cap K)
  <2> HIDE DEF K, r
  <2> QED
    BY <1>1, OnlyType
<1> DEFINE S == OutChar \cap K
           a == <<h>>
           b == Only(r, K)
<1>6. a \in Seq(S) /\ b \in Seq(S) /\ Len(a) = 1
  BY <1>1, <1>2, <1>5
<1> HIDE DEF a, b, S
<1>7. Len(a \o b) = Len(a) + Len(b) /\ Len(b) \in Nat
  BY <1>6, ConcatProperties, LenProperties
<1>8. a \o b # <<>>
  <2>1. Len(a \o b) # 0
    BY <1>6, <1>7
  <2> QED
    BY <2>1, EmptySeq
<1> QED
  BY <1>3, <1>4, <1>8 DEF a, b, Sendable

\* What is put after something that is sent does not undo it.
LEMMA SendableMore ==
    ASSUME NEW o \in Seq(OutChar), NEW e \in Seq(OutChar), Sendable(o) # <<>>
    PROVE  Sendable(o \o e) # <<>>
<1> DEFINE K == Key \cup {"cr"}
           a == Sendable(o)
           b == Sendable(e)
<1>1. Only(o \o e, K) = Only(o, K) \o Only(e, K)
  <2> HIDE DEF K
  <2> QED
    BY OnlyConcat
<1>2. a \in Seq(Sent) /\ b \in Seq(Sent) /\ a # <<>>
  BY SendableType
<1>3. Sendable(o \o e) = a \o b
  BY <1>1 DEF Sendable
<1> HIDE DEF a, b
<1>4. Len(a \o b) = Len(a) + Len(b) /\ Len(b) \in Nat /\ Len(a) \in Nat \ {0}
  BY <1>2, ConcatProperties, LenProperties, EmptySeq
<1>5. a \o b # <<>>
  <2>1. Len(a \o b) # 0
    BY <1>4
  <2> QED
    BY <2>1, EmptySeq
<1> QED
  BY <1>3, <1>5

\* ttstart keeps delays apart, and whoever waits will be woken.
LEMMA TtstartSpaced ==
    ASSUME NEW t \in TtyType, Spaced(t)
    PROVE  /\ Spaced(Ttstart(t)) /\ (Room(t) => Room(Ttstart(t)))
           /\ Ttstart(t).outq = <<>> \/ Awake(Ttstart(t))
           /\ Awake(t) => Ttstart(t) = t
           /\ \/ Ttstart(t) = t
              \/ t.outq # <<>> /\ Ttstart(t).outq = Tail(t.outq)
<1> DEFINE u == Ttstart(t)
           o == t.outq
           r == Tail(o)
<1>0. o \in Seq(OutChar) /\ SpacedQueue(o, t.timeout) /\ (t.timeout => t.thr = None)
  BY DEF TtyType, Spaced
<1>1. CASE t.thr # None \/ t.timeout \/ o = <<>>
  <2>1. u = t
    BY <1>1 DEF Ttstart
  <2>2. o = <<>> \/ Awake(t)
    <3>1. CASE t.timeout /\ o # <<>>
      BY <1>0, <3>1, SendableHead DEF SpacedQueue, Awake
    <3> QED
      BY <1>1, <3>1 DEF Awake
  <2> QED
    BY <2>1, <2>2
<1>2. CASE t.thr = None /\ ~t.timeout /\ o # <<>>
  <2> DEFINE n == Len(o)
  <2>1. /\ Head(o) = o[1] /\ r \in Seq(OutChar) /\ Len(r) = n - 1
        /\ \A i \in 1 .. n - 1 : r[i] = o[i + 1]
        /\ n \in Nat \ {0}
    BY <1>0, <1>2, HeadTailProperties, EmptySeq
  <2> HIDE DEF r, n
  <2>2. r = <<>> <=> n = 1
    <3>1. r # <<>> => Len(r) # 0
      BY <2>1, EmptySeq
    <3>2. r = <<>> => Len(r) = 0
      OBVIOUS
    <3> QED
      BY <2>1, <3>1, <3>2
  <2>3. \A i \in 1 .. n - 2 : ~(r[i] = Delay /\ r[i + 1] = Delay)
    <3> SUFFICES ASSUME NEW i \in 1 .. n - 2, r[i] = Delay, r[i + 1] = Delay PROVE FALSE
      OBVIOUS
    <3> DEFINE k == i + 1
    <3>1. i \in 1 .. n - 1 /\ k \in 1 .. n - 1
      BY <2>1
    <3> HIDE DEF k
    <3>2. r[i] = o[i + 1] /\ r[k] = o[k + 1]
      BY <2>1, <3>1
    <3>3. o[k] = Delay /\ o[k + 1] = Delay
      BY <3>2 DEF k
    <3> QED
      BY <1>0, <3>1, <3>3 DEF SpacedQueue, n
  <2>4. o[1] = Delay /\ r # <<>> => r[1] # Delay
    <3> SUFFICES ASSUME o[1] = Delay, r # <<>>, r[1] = Delay PROVE FALSE
      OBVIOUS
    <3>1. 1 \in 1 .. n - 1
      BY <2>1, <2>2
    <3>2. r[1] = o[1 + 1]
      BY <2>1, <3>1
    <3>3. o[1 + 1] = Delay
      BY <3>2
    <3> QED
      BY <1>0, <3>1, <3>3 DEF SpacedQueue, n
  <2>5. o[n] # Delay => r = <<>> \/ r[Len(r)] # Delay
    <3> SUFFICES ASSUME r # <<>> PROVE r[Len(r)] = o[n]
      OBVIOUS
    <3> DEFINE k == n - 1
    <3>1. k \in 1 .. n - 1 /\ k + 1 = n /\ Len(r) = k
      BY <2>1, <2>2
    <3> HIDE DEF k
    <3>2. r[k] = o[k + 1]
      BY <2>1, <3>1
    <3> QED
      BY <3>1, <3>2
  <2>6. ASSUME NEW b, b = TRUE => o[1] = Delay, b \in BOOLEAN PROVE SpacedQueue(r, b)
    BY <2>1, <2>3, <2>4, <2>6 DEF SpacedQueue
  <2>7. CASE Head(o) = Delay
    <3>1. u = [t EXCEPT !.outq = Tail(o), !.timeout = TRUE]
      BY <1>2, <2>7 DEF Ttstart
    <3>2. u.outq = r /\ u.timeout = TRUE /\ u.thr = None
      BY <1>2, <3>1 DEF TtyType, r
    <3>3. Spaced(u)
      BY <2>1, <2>6, <2>7, <3>2 DEF Spaced
    <3>4. Room(t) => Room(u)
      <4>1. o[1] = Delay
        BY <2>1, <2>7
      <4>2. r = <<>> => n = 1
        BY <2>2
      <4> QED
        BY <1>2, <2>5, <3>2, <4>1, <4>2 DEF Room, RoomQueue, n
    <3>5. r = <<>> \/ Awake(u)
      BY <2>1, <2>4, <2>7, <3>2, SendableHead DEF Awake
    <3>6. ~Awake(t)
      BY <1>2 DEF Awake
    <3> QED
      BY <1>2, <3>2, <3>3, <3>4, <3>5, <3>6 DEF r
  <2>8. CASE Head(o) # Delay
    <3>1. u = [t EXCEPT !.outq = Tail(o), !.thr = Head(o)]
      BY <1>2, <2>8 DEF Ttstart
    <3>2. Head(o) # None
      <4>1. Head(o) \in OutChar
        BY <1>0, <1>2, HeadAndTail
      <4> QED
        BY <4>1 DEF OutChar, Key, None, Delay
    <3>3. u.outq = r /\ ~u.timeout /\ u.thr # None
      BY <1>2, <3>1, <3>2 DEF TtyType, r
    <3>4. Spaced(u)
      <4>1. SpacedQueue(r, FALSE)
        BY <2>6
      <4> QED
        BY <3>3, <4>1 DEF Spaced, SpacedQueue
    <3>5. Room(t) => Room(u)
      BY <1>2, <2>5, <3>3 DEF Room, RoomQueue, n
    <3>6. Awake(u) /\ ~Awake(t)
      BY <1>2, <3>3 DEF Awake
    <3> QED
      BY <1>2, <3>3, <3>4, <3>5, <3>6 DEF r
  <2> QED
    BY <2>7, <2>8
<1> QED
  BY <1>1, <1>2


\* What ttyoutput puts for a character is not a delay alone.
LEMMA TtyoutputShape ==
    ASSUME NEW t, NEW c \in Key
    PROVE  Ttyoutput(t, c) \in Shapes \ {<<Delay>>}
<1>1. <<c>> # <<Delay>> /\ <<>> # <<Delay>>
  BY KeyNoDelay
<1>2. <<"cr", "nl">> \o <<Delay>> = <<"cr", "nl", Delay>>
  <2> DEFINE g == <<"cr", "nl">>
             d == Delay
  <2>1. g \in Seq(OutChar) /\ d \in OutChar
    BY DEF OutChar, Key
  <2>2. Append(g, d) = <<"cr", "nl", d>>
    <3> DEFINE s == <<"cr", "nl", d>>
    <3>1. s \in Seq(OutChar) /\ Len(s) = 3 /\ s[1] = "cr" /\ s[2] = "nl" /\ s[3] = d
      BY DEF OutChar, Key
    <3>2. Len(g) = 2 /\ g[1] = "cr" /\ g[2] = "nl"
      OBVIOUS
    <3> HIDE DEF s, g, d
    <3> DEFINE a == Append(g, d)
    <3>3. /\ a \in Seq(OutChar) /\ Len(a) = 3 /\ a[3] = d
          /\ \A i \in 1 .. 2 : a[i] = g[i]
      <4>1. /\ a \in Seq(OutChar) /\ Len(a) = Len(g) + 1 /\ a[Len(g) + 1] = d
            /\ \A i \in 1 .. Len(g) : a[i] = g[i]
        BY <2>1, AppendProperties
      <4> HIDE DEF a
      <4>2. Len(g) + 1 = 3
        BY <3>2
      <4> QED
        BY <3>2, <4>1, <4>2
    <3> HIDE DEF a
    <3>4. \A i \in 1 .. 3 : a[i] = s[i]
      BY <3>1, <3>2, <3>3
    <3>5. a = s
      BY <3>1, <3>3, <3>4, SeqEqual
    <3> QED
      BY <3>5 DEF a, s
  <2> HIDE DEF g, d
  <2>3. Append(g, d) = g \o <<d>>
    BY <2>1, AppendIsConcat
  <2> QED
    BY <2>2, <2>3 DEF g, d
<1>3. <<"cr", "nl">> \o <<>> = <<"cr", "nl">>
  OBVIOUS
<1>4. <<"cr", "nl">> # <<Delay>> /\ <<"cr", "nl", Delay>> # <<Delay>>
  BY DEF Delay
<1> QED
  BY <1>1, <1>2, <1>3, <1>4 DEF Ttyoutput, Shapes

\* What is left of it.
LEMMA ShapeTail ==
    ASSUME NEW e \in Shapes, e # <<>>
    PROVE  /\ Head(e) \in OutChar /\ Tail(e) \in Shapes
           /\ Head(e) = Delay => e = <<Delay>>
           /\ Tail(e) = <<Delay>> => Head(e) # Delay
<1>1. CASE e = <<Delay>>
  <2>1. Head(e) = Delay /\ Tail(e) = <<>>
    BY <1>1
  <2> QED
    BY <1>1, <2>1 DEF Shapes, OutChar
<1>2. CASE e = <<"nl">> \/ e \in {<<c>> : c \in Key}
  <2>1. PICK c \in Key : e = <<c>>
    BY <1>2 DEF Key
  <2>2. Head(e) = c /\ Tail(e) = <<>>
    BY <2>1
  <2> QED
    BY <2>1, <2>2, KeyNoDelay DEF Shapes
<1>3. CASE e = <<"nl", Delay>>
  <2>1. Head(e) = "nl" /\ Tail(e) = <<Delay>>
    BY <1>3
  <2> QED
    BY <2>1 DEF Shapes, OutChar, Key, Delay
<1>4. CASE e = <<"cr", "nl">>
  <2>1. Head(e) = "cr" /\ Tail(e) = <<"nl">>
    BY <1>4
  <2> QED
    BY <2>1 DEF Shapes, OutChar, Key, Delay
<1>5. CASE e = <<"cr", "nl", Delay>>
  <2>1. Head(e) = "cr" /\ Tail(e) = <<"nl", Delay>>
    BY <1>5
  <2> QED
    BY <2>1 DEF Shapes, OutChar, Key, Delay
<1> QED
  BY <1>1, <1>2, <1>3, <1>4, <1>5 DEF Shapes

\* The output queue, when it is as it was, or ttstart is called.
LEMMA OutputSleepers ==
    ASSUME Types, Output, tp' = tp \/ tp' = Ttstart(tp)
    PROVE  /\ Spaced(tp') /\ (Room(tp) => Room(tp'))
           /\ \A p \in Proc : wchan[p] = "outq" => Awake(tp')
<1>1. tp \in TtyType /\ Spaced(tp)
  BY DEF Types, SharedTypes, Output
<1> QED
  BY <1>1, TtstartSpaced DEF Output

\* Of p alone, what it leaves to put; the others wait, with nothing to put.
LEMMA OneOutput ==
    ASSUME Output, NEW p \in Proc, Moves(p),
           \A q \in Proc \ {p} : expn'[q] = expn[q],
           Spaced(tp'),
           expn'[p] \in Shapes, expn'[p] # <<>> => pc'[p] = "out",
           expn'[p] = <<Delay>> => Room(tp'),
           pc'[p] \in {"cpass", "out"} \/ tp'.outq = <<>> \/ tp'.thr # None \/ tp'.timeout,
           \A q \in Proc : wchan'[q] = "outq" => Awake(tp')
    PROVE  Output'
<1>1. ASSUME NEW q \in Proc \ {p} PROVE expn'[q] = <<>>
  BY <1>1 DEF Output, Moves, Rest, Waits
<1>2. /\ expn'[p] \in Shapes /\ (expn'[p] # <<>> => pc'[p] = "out")
      /\ expn'[p] = <<Delay>> => Room(tp')
  OBVIOUS
<1>3. <<>> \in Shapes /\ <<>> # <<Delay>>
  BY DEF Shapes
<1>4. ASSUME NEW q \in Proc
      PROVE  /\ expn'[q] \in Shapes /\ (expn'[q] # <<>> => pc'[q] = "out")
             /\ expn'[q] = <<Delay>> => Room(tp')
  BY <1>1, <1>2, <1>3
<1>5. Started'
  BY DEF Started
<1>6. Spaced(tp)'
  BY DEF Spaced, SpacedQueue
<1> QED
  BY <1>4, <1>5, <1>6 DEF Output, Room, RoomQueue, Awake, Sendable


\* The steps of a process that wait, write or flush.
LEMMA OutputWriting ==
    ASSUME Types, Output, NEW p \in Proc, Moves(p), TtwriteWait(p) \/ TtyoutputPut(p) \/ TtwriteEnd(p)
    PROVE  Output'
<1>0. /\ pc \in [Proc -> Places] /\ wchan \in [Proc -> {None, "rawq", "outq"}]
      /\ tp \in TtyType /\ expn \in [Proc -> Seq(OutChar)]
      /\ text \in [Proc -> Seq(Key)] /\ Spaced(tp)
  BY DEF Types, SharedTypes, ProcTypes, Output
<1>a. <<>> \in Shapes /\ <<>> # <<Delay>>
  BY DEF Shapes
<1>1. CASE TtwriteWait(p) /\ Len(tp.outq) > TTHIWAT
  <2>1. SleepOn(p, "outq", "hiwat") /\ tp' = Ttstart(tp) /\ "hiwat" \in Waits
        /\ pc[p] \in {"cpass", "hiwat"}
    BY <1>1 DEF TtwriteWait, Waits, Runs
  <2>2. expn[p] = <<>>
    BY <2>1 DEF Output
  <2>3. /\ pc'[p] \in {"user", "hiwat"}
        /\ \A q \in Proc : wchan'[q] # wchan[q] => q = p
        /\ \A q \in Proc \ {p} : expn'[q] = expn[q]
        /\ expn'[p] = <<>>
    BY <2>1, <2>2, SleepOnDoes
  <2>4. Spaced(tp') /\ (tp'.outq = <<>> \/ Awake(tp'))
    BY <1>0, <2>1, TtstartSpaced
  <2>5. tp'.outq # <<>>
    <3> DEFINE n == Len(tp.outq)
    <3>1. n \in Nat /\ n > 1
      BY <1>0, <1>1, TtyAssumption, LenProperties DEF TtyType
    <3>2. tp.outq \in Seq(OutChar) /\ tp.outq # <<>>
      <4>1. tp.outq = <<>> => n = 0
        OBVIOUS
      <4> QED
        BY <1>0, <3>1, <4>1 DEF TtyType
    <3>3. Len(Tail(tp.outq)) = n - 1
      BY <3>2, HeadTailProperties
    <3>4. Tail(tp.outq) # <<>>
      <4> DEFINE r == Tail(tp.outq)
      <4>1. Len(r) # 0
        <5> HIDE DEF n, r
        <5>1. Len(r) = n - 1
          BY <3>3 DEF r
        <5> QED
          BY <3>1, <5>1
      <4> HIDE DEF r
      <4>2. r # <<>>
        BY <4>1
      <4> QED
        BY <4>2 DEF r
    <3> QED
      BY <1>0, <2>1, <3>2, <3>4, TtstartSpaced
  <2>6. tp'.thr # None \/ tp'.timeout
    BY <2>4, <2>5 DEF Awake
  <2>7. \A q \in Proc : wchan'[q] = "outq" => Awake(tp')
    BY <2>4, <2>5
  <2> QED
    BY <1>a, <2>3, <2>4, <2>6, <2>7, OneOutput
<1>2. CASE TtwriteWait(p) /\ ~(Len(tp.outq) > TTHIWAT)
  <2>1. /\ expn' = [expn EXCEPT ![p] = Ttyoutput(tp, Head(text[p]))]
        /\ Goto(p, "out") /\ text[p] # <<>> /\ UNCHANGED <<tp, wchan>>
    BY <1>2 DEF TtwriteWait
  <2>2. expn'[p] \in Shapes \ {<<Delay>>}
    <3>1. Head(text[p]) \in Key
      BY <1>0, <2>1, HeadAndTail
    <3> QED
      BY <1>0, <2>1, <3>1, TtyoutputShape
  <2>3. pc'[p] = "out" /\ \A q \in Proc \ {p} : expn'[q] = expn[q]
    BY <1>0, <2>1 DEF Goto
  <2>4. \A q \in Proc : wchan'[q] = "outq" => Awake(tp')
    BY <2>1 DEF Output
  <2>5. Spaced(tp')
    BY <1>0, <2>1
  <2> QED
    BY <2>2, <2>3, <2>4, <2>5, OneOutput
<1>3. CASE TtyoutputPut(p) /\ expn[p] = <<>>
  <2>1. pc'[p] = "cpass" /\ UNCHANGED <<tp, wchan, expn>>
    BY <1>0, <1>3 DEF TtyoutputPut, Goto
  <2>2. \A q \in Proc : wchan'[q] = "outq" => Awake(tp')
    BY <2>1 DEF Output
  <2>3. Spaced(tp') /\ expn'[p] = <<>> /\ \A q \in Proc \ {p} : expn'[q] = expn[q]
    BY <1>0, <1>3, <2>1
  <2> QED
    BY <1>a, <2>1, <2>2, <2>3, OneOutput
<1>4. CASE TtyoutputPut(p) /\ expn[p] # <<>>
  <2> DEFINE x == Head(expn[p])
             e == Tail(expn[p])
             o == tp.outq
             b == tp.timeout
  <2>1. /\ tp' = [tp EXCEPT !.outq = Append(@, x)] /\ expn' = [expn EXCEPT ![p] = e]
        /\ pc' = pc /\ wchan' = wchan /\ pc[p] = "out"
    BY <1>4 DEF TtyoutputPut, Runs
  <2>2. /\ x \in OutChar /\ e \in Shapes /\ (x = Delay => expn[p] = <<Delay>>)
        /\ e = <<Delay>> => x # Delay
    BY <1>4, ShapeTail DEF Output
  <2>3. tp'.outq = Append(o, x) /\ tp'.timeout = b /\ tp'.thr = tp.thr
    BY <1>0, <2>1 DEF TtyType
  <2>4. expn'[p] = e /\ \A q \in Proc \ {p} : expn'[q] = expn[q]
    BY <1>0, <2>1
  <2>5. x = Delay => RoomQueue(o, b)
    BY <2>2 DEF Output, Room
  <2>6. o \in Seq(OutChar) /\ SpacedQueue(o, b) /\ (b => tp.thr = None)
    BY <1>0 DEF TtyType, Spaced
  <2> HIDE DEF x, e
  <2>7. SpacedQueue(Append(o, x), b) /\ (x # Delay => RoomQueue(Append(o, x), b))
    <3> HIDE DEF o, b
    <3> QED
      BY <2>2, <2>5, <2>6, PutSpaced
  <2>8. Spaced(tp')
    BY <2>3, <2>6, <2>7 DEF Spaced
  <2>9. expn'[p] = <<Delay>> => Room(tp')
    BY <2>2, <2>3, <2>4, <2>7 DEF Room
  <2>10. \A q \in Proc : wchan'[q] = "outq" => Awake(tp')
    <3>1. Awake(tp) => Awake(tp')
      <4>1. Append(o, x) = o \o <<x>> /\ <<x>> \in Seq(OutChar)
        BY <2>2, <2>6, AppendIsConcat
      <4> DEFINE g == <<x>>
      <4>2. g \in Seq(OutChar) /\ tp'.outq = o \o g
        BY <2>3, <4>1
      <4> HIDE DEF g
      <4>3. Sendable(o) # <<>> => Sendable(o \o g) # <<>>
        BY <2>6, <4>2, SendableMore
      <4> QED
        BY <2>3, <4>2, <4>3 DEF Awake
    <3> QED
      BY <2>1, <3>1 DEF Output
  <2>11. pc'[p] = "out"
    BY <2>1
  <2> QED
    BY <2>2, <2>4, <2>8, <2>9, <2>10, <2>11, OneOutput
<1>5. CASE TtwriteEnd(p)
  <2>1. tp' = Ttstart(tp) /\ Return(p) /\ wchan' = wchan
    BY <1>5 DEF TtwriteEnd
  <2>2. Spaced(tp') /\ (tp'.outq = <<>> \/ Awake(tp'))
    BY <1>0, <2>1, TtstartSpaced
  <2>3. tp'.outq = <<>> \/ tp'.thr # None \/ tp'.timeout
    BY <2>2 DEF Awake
  <2>4. \A q \in Proc : wchan'[q] = "outq" => Awake(tp')
    BY <2>1, OutputSleepers
  <2>5. expn'[p] = <<>> /\ \A q \in Proc \ {p} : expn'[q] = expn[q]
    BY <2>1, ReturnDoes
  <2> QED
    BY <1>a, <2>2, <2>3, <2>4, <2>5, OneOutput
<1> QED
  BY <1>1, <1>2, <1>3, <1>4, <1>5


LEMMA OutputStty ==
    ASSUME Types, Output, NEW p \in Proc, Moves(p), WflushttyWait(p)
    PROVE  Output'
<1>0. /\ pc \in [Proc -> Places] /\ wchan \in [Proc -> {None, "rawq", "outq"}]
      /\ tp \in TtyType /\ expn \in [Proc -> Seq(OutChar)] /\ Spaced(tp)
  BY DEF Types, SharedTypes, ProcTypes, Output
<1>a. <<>> \in Shapes /\ <<>> # <<Delay>>
  BY DEF Shapes
<1>b. pc[p] \notin {"cpass", "out"} /\ expn[p] = <<>>
  <2>1. pc[p] \in {"stty", "close", "sttydrain", "closedrain"}
    BY DEF WflushttyWait, Runs
  <2> QED
    BY <2>1 DEF Output
<1>1. CASE tp.outq # <<>>
  <2>1. PICK at \in {"sttydrain", "closedrain"} : SleepOn(p, "outq", at) /\ tp' = tp
    BY <1>1 DEF WflushttyWait
  <2>2. at \in Waits
    BY DEF Waits
  <2>3. /\ \A q \in Proc \ {p} : expn'[q] = expn[q]
        /\ expn'[p] = <<>>
        /\ \A q \in Proc : wchan'[q] # wchan[q] => q = p
    BY <1>b, <2>1, <2>2, SleepOnDoes
  <2>4. tp.thr # None \/ tp.timeout
    <3>1. \A q \in Proc : pc[q] \notin {"cpass", "out"}
      BY <1>b DEF Moves, Rest, Waits
    <3> QED
      BY <1>1, <3>1 DEF Output, Started
  <2>5. Awake(tp)
    BY <1>0, <1>1, <2>4, SendableHead DEF Spaced, SpacedQueue, Awake, TtyType
  <2> QED
    BY <1>0, <1>a, <2>1, <2>3, <2>4, <2>5, OneOutput
<1>2. CASE tp.outq = <<>>
  <2>1. /\ tp' = Flushtty(tp) /\ wchan' = Wakeup({"rawq", "outq"})
        /\ expn' = expn \/ Return(p)
    BY <1>2 DEF WflushttyWait, locals
  <2>2. tp'.outq = <<>> /\ tp'.thr = tp.thr /\ tp'.timeout = tp.timeout
    BY <1>0, <2>1, FlushttyType
  <2>3. Spaced(tp')
    <3>1. Len(<<>>) = 0
      OBVIOUS
    <3> QED
      BY <1>0, <2>2, <3>1 DEF Spaced, SpacedQueue
  <2>4. \A q \in Proc : wchan'[q] # "outq"
    BY <1>0, <2>1 DEF Wakeup, None
  <2>5. expn'[p] = <<>> /\ \A q \in Proc \ {p} : expn'[q] = expn[q]
    BY <1>b, <2>1, ReturnDoes
  <2> QED
    BY <1>a, <2>2, <2>3, <2>4, <2>5, OneOutput
<1> QED
  BY <1>1, <1>2

\* The other steps of a process leave the output queue, and put nothing.
LEMMA OutputOther ==
    ASSUME Types, Output, NEW p \in Proc, Moves(p), Kernel(p) \/ Call(p),
           ~(TtwriteWait(p) \/ TtyoutputPut(p) \/ TtwriteEnd(p) \/ WflushttyWait(p))
    PROVE  Output'
<1>0. /\ pc \in [Proc -> Places] /\ wchan \in [Proc -> {None, "rawq", "outq"}]
      /\ tp \in TtyType /\ expn \in [Proc -> Seq(OutChar)] /\ Spaced(tp)
  BY DEF Types, SharedTypes, ProcTypes, Output
<1>a. <<>> \in Shapes /\ <<>> # <<Delay>>
  BY DEF Shapes
<1>1. pc[p] \notin {"cpass", "out"} /\ expn[p] = <<>>
  <2>1. pc[p] \notin {"cpass", "out"}
    BY DEF Kernel, Call, CanonWait, CanonGet, CanonDec, CanonPut, TtreadTest, TtreadPass,
           Interrupted, Ttystty, Ttread, Ttwrite, Wflushtty, Runs, Waits
  <2> QED
    BY <2>1 DEF Output
<1>2. tp'.outq = tp.outq /\ tp'.thr = tp.thr /\ tp'.timeout = tp.timeout
  <2>1. CASE CanonWait(p) \/ Interrupted(p) \/ Call(p)
    BY <2>1 DEF CanonWait, Interrupted, Call, Ttread, Ttwrite, Wflushtty
  <2>2. CASE CanonGet(p)
    <3>1. tp' = tp \/ tp' = [tp EXCEPT !.rawq = Tail(@)]
      BY <2>2 DEF CanonGet
    <3> QED
      BY <1>0, <3>1 DEF TtyType
  <2>3. CASE CanonDec(p)
    BY <1>0, <2>3 DEF CanonDec, TtyType
  <2>4. CASE CanonPut(p)
    <3>1. tp' = tp \/ tp' = [tp EXCEPT !.canq = Append(@, Head(line[p]))]
      BY <2>4 DEF CanonPut
    <3> QED
      BY <1>0, <3>1 DEF TtyType
  <2>5. CASE TtreadTest(p) \/ TtreadPass(p)
    <3>1. tp' = tp \/ \E x : tp' = [tp EXCEPT !.canq = x]
      BY <2>5 DEF TtreadTest, TtreadPass
    <3> QED
      BY <1>0, <3>1 DEF TtyType
  <2>6. CASE \E raw \in BOOLEAN : Ttystty(p, raw)
    BY <1>0, <2>6 DEF Ttystty, TtyType
  <2> QED
    BY <2>1, <2>2, <2>3, <2>4, <2>5, <2>6 DEF Kernel
<1>3. \A q \in Proc : wchan'[q] = "outq" => wchan[q] = "outq"
  <2>1. CASE CanonWait(p)
    <3>1. wchan' = wchan \/ SleepOn(p, "rawq", "canonsleep")
      BY <2>1 DEF CanonWait
    <3>2. "canonsleep" \in Waits
      BY DEF Waits
    <3>3. SleepOn(p, "rawq", "canonsleep") =>
            \A q \in Proc : wchan'[q] # wchan[q] => wchan'[q] = "rawq"
      BY <3>2, SleepOnDoes
    <3> QED
      BY <3>1, <3>3
  <2>2. CASE ~CanonWait(p)
    <3>1. wchan' = wchan
      BY <2>2 DEF Kernel, Call, CanonGet, CanonDec, CanonPut, TtreadTest, TtreadPass,
                  Interrupted, Ttystty, Ttread, Ttwrite, Wflushtty
    <3> QED
      BY <3>1
  <2> QED
    BY <2>1, <2>2
<1>4. expn'[p] = <<>> /\ \A q \in Proc \ {p} : expn'[q] = expn[q]
  <2>1. expn' = expn \/ Return(p) \/ SleepOn(p, "rawq", "canonsleep")
    BY DEF Kernel, Call, CanonWait, CanonGet, CanonDec, CanonPut, TtreadTest, TtreadPass,
           Interrupted, Ttystty, Ttread, Ttwrite, Wflushtty, locals
  <2>2. Return(p) => expn'[p] = <<>> /\ \A q \in Proc \ {p} : expn'[q] = expn[q]
    BY ReturnDoes
  <2>3. SleepOn(p, "rawq", "canonsleep") => expn' = expn \/ Return(p)
    BY DEF SleepOn, locals
  <2> QED
    BY <1>1, <2>1, <2>2, <2>3
<1>5. Awake(tp) => Awake(tp')
  BY <1>2 DEF Awake
<1>6. Spaced(tp')
  BY <1>0, <1>2 DEF Spaced
<1>7. tp'.outq = <<>> \/ tp'.thr # None \/ tp'.timeout
  <2>1. \A q \in Proc : pc[q] \notin {"cpass", "out"}
    BY <1>1 DEF Moves, Rest, Waits
  <2> QED
    BY <1>2, <2>1 DEF Output, Started
<1>8. \A q \in Proc : wchan'[q] = "outq" => Awake(tp')
  BY <1>3, <1>5 DEF Output
<1> QED
  BY <1>a, <1>4, <1>6, <1>7, <1>8, OneOutput


\* A key, or the end of a character or of a delay.
LEMMA PacedSame ==
    ASSUME Types, Output, pc' = pc, expn' = expn, Spaced(tp'),
           \A p \in Proc : expn[p] = <<Delay>> => Room(tp'),
           tp'.outq = <<>> \/ tp'.thr # None \/ tp'.timeout
             \/ (\E p \in Proc : pc[p] \in {"cpass", "out"}),
           \A p \in Proc : wchan'[p] = "outq" => Awake(tp')
    PROVE  Output'
<1>1. \A p \in Proc : /\ expn'[p] \in Shapes /\ (expn'[p] # <<>> => pc'[p] = "out")
                      /\ expn'[p] = <<Delay>> => Room(tp')
  BY DEF Output
<1>2. Started'
  BY DEF Started, Output
<1>3. Spaced(tp)'
  BY DEF Spaced, SpacedQueue
<1> QED
  BY <1>1, <1>2, <1>3 DEF Output, Room, RoomQueue, Awake, Sendable

LEMMA OutputKeys ==
    ASSUME Types, Output, KeysApart,
           TtyinputIntr \/ \E c \in Key : TtyinputHog(c) \/ Ttyinput(c)
    PROVE  Output'
<1>0. /\ wchan \in [Proc -> {None, "rawq", "outq"}] /\ tp \in TtyType /\ Spaced(tp)
  BY DEF Types, SharedTypes, Output
<1>1. pc' = pc /\ expn' = expn
  BY DEF TtyinputHog, Ttyinput, TtyinputIntr, Interrupt, locals
<1>2. CASE TtyinputIntr \/ \E c \in Key : TtyinputHog(c)
  <2>1. tp' = Flushtty(tp)
    BY <1>2 DEF TtyinputIntr, TtyinputHog
  <2>2. tp'.outq = <<>> /\ tp'.thr = tp.thr /\ tp'.timeout = tp.timeout
    BY <1>0, <2>1, FlushttyType
  <2>3. Spaced(tp')
    <3>1. Len(<<>>) = 0
      OBVIOUS
    <3> QED
      BY <1>0, <2>2, <3>1 DEF Spaced, SpacedQueue
  <2>4. \A p \in Proc : expn[p] # <<Delay>>
    BY <1>2 DEF KeysApart, Flushes
  <2>5. \A p \in Proc : wchan'[p] # "outq"
    BY <1>0, <1>2 DEF TtyinputIntr, TtyinputHog, Interrupt, Wakeup, None
  <2> QED
    BY <1>1, <2>2, <2>3, <2>4, <2>5, PacedSame
<1>3. ASSUME NEW c \in Key, Ttyinput(c) PROVE Output'
  <2> DEFINE t == Typed(tp, c)
             e == Echo(tp, c)
             o == tp.outq
             b == tp.timeout
  <2>1. /\ tp' = (IF tp.echo THEN Ttstart(t) ELSE t)
        /\ wchan' = Wakeup(IF Ends(tp, c) THEN {"rawq"} ELSE {})
    BY <1>3, TtyinputDoes
  <2>2. /\ t \in TtyType /\ e \in Seq(OutChar) /\ t.outq = o \o e
        /\ t.thr = tp.thr /\ t.timeout = b
    BY <1>0, TypedType
  <2>3. o \in Seq(OutChar) /\ SpacedQueue(o, b) /\ (b => tp.thr = None)
    BY <1>0 DEF TtyType, Spaced
  <2>4. /\ SpacedQueue(o \o e, b)
        /\ (c = "nl" => ~tp.echo) /\ RoomQueue(o, b) => RoomQueue(o \o e, b)
    <3> HIDE DEF o, b
    <3> QED
      BY <2>3, EchoSpaced
  <2>5. Spaced(t)
    BY <2>2, <2>3, <2>4 DEF Spaced
  <2>6. Spaced(tp') /\ (Room(t) => Room(tp'))
    BY <2>1, <2>2, <2>5, TtstartSpaced
  <2>7. \A p \in Proc : expn[p] = <<Delay>> => Room(tp')
    <3> SUFFICES ASSUME NEW p \in Proc, expn[p] = <<Delay>> PROVE Room(tp')
      OBVIOUS
    <3>1. c = "nl" => ~tp.echo
      BY <1>3 DEF KeysApart
    <3>2. RoomQueue(o, b)
      BY DEF Output, Room
    <3>3. Room(t)
      BY <2>2, <2>4, <3>1, <3>2 DEF Room
    <3> QED
      BY <2>6, <3>3
  <2>8. Awake(tp) => Awake(tp')
    <3> SUFFICES ASSUME Awake(tp) PROVE Awake(tp')
      OBVIOUS
    <3>1. Sendable(o) # <<>> => Sendable(o \o e) # <<>>
      <4> HIDE DEF o, e
      <4> QED
        BY <2>2, <2>3, SendableMore
    <3>2. Awake(t)
      BY <2>2, <3>1 DEF Awake
    <3>3. Ttstart(t) = t
      BY <2>2, <2>5, <3>2, TtstartSpaced
    <3> QED
      BY <2>1, <3>2, <3>3
  <2>9. \A p \in Proc : wchan'[p] = "outq" => Awake(tp')
    <3>1. \A p \in Proc : wchan'[p] = "outq" => wchan[p] = "outq"
      BY <1>0, <2>1 DEF Wakeup, None
    <3> QED
      BY <2>8, <3>1 DEF Output
  <2>10. CASE tp.echo
    <3>1. tp'.outq = <<>> \/ Awake(tp')
      BY <2>1, <2>2, <2>5, <2>10, TtstartSpaced
    <3>2. tp'.outq = <<>> \/ tp'.thr # None \/ tp'.timeout
      BY <3>1 DEF Awake
    <3> QED
      BY <1>1, <2>6, <2>7, <2>9, <3>2, PacedSame
  <2>11. CASE ~tp.echo
    <3>1. e = <<>> /\ tp' = t
      BY <2>1, <2>11 DEF Echo
    <3>2. tp'.outq = tp.outq /\ tp'.thr = tp.thr /\ tp'.timeout = tp.timeout
      BY <2>2, <2>3, <3>1, ConcatEmptySeq
    <3>3. tp'.outq = <<>> \/ tp'.thr # None \/ tp'.timeout
            \/ (\E p \in Proc : pc[p] \in {"cpass", "out"})
      BY <3>2 DEF Output, Started
    <3> QED
      BY <1>1, <2>6, <2>7, <2>9, <3>3, PacedSame
  <2> QED
    BY <2>10, <2>11
<1> QED
  BY <1>2, <1>3


LEMMA OutputSent ==
    ASSUME Types, Output, Klxint
    PROVE  Output'
<1>0. /\ wchan \in [Proc -> {None, "rawq", "outq"}] /\ tp \in TtyType /\ Spaced(tp)
  BY DEF Types, SharedTypes, Output
<1> DEFINE u == [tp EXCEPT !.thr = None]
<1>1. /\ tp.thr # None /\ tp' = Ttstart(u) /\ wchan' = Wakeup(Wakes(tp'))
      /\ pc' = pc /\ expn' = expn
  BY KlxintDoes
<1>2. u \in TtyType
  BY <1>0 DEF TtyType
<1>3. u.thr = None /\ u.outq = tp.outq
  BY <1>0 DEF TtyType
<1>4. u.timeout = tp.timeout
  BY <1>0 DEF TtyType
<1> HIDE DEF u
<1>5. Spaced(u) /\ (Room(tp) => Room(u))
  BY <1>0, <1>3, <1>4 DEF Spaced, Room
<1>6. Spaced(tp') /\ (Room(u) => Room(tp')) /\ (tp'.outq = <<>> \/ Awake(tp'))
  BY <1>1, <1>2, <1>5, TtstartSpaced
<1>7. \A p \in Proc : expn[p] = <<Delay>> => Room(tp')
  BY <1>5, <1>6 DEF Output
<1>8. \A p \in Proc : wchan'[p] = "outq" => Awake(tp')
  <2>1. CASE tp'.outq = <<>>
    <3>1. Wakes(tp') = {"outq"}
      <4>1. Len(<<>>) = 0
        OBVIOUS
      <4> QED
        BY <2>1, <4>1 DEF Wakes
    <3>2. \A p \in Proc : wchan'[p] # "outq"
      BY <1>0, <1>1, <3>1 DEF Wakeup, None
    <3> QED
      BY <3>2
  <2> QED
    BY <1>6, <2>1
<1>9. tp'.outq = <<>> \/ tp'.thr # None \/ tp'.timeout
  BY <1>6 DEF Awake
<1> QED
  BY <1>1, <1>6, <1>7, <1>8, <1>9, PacedSame

LEMMA OutputDelayed ==
    ASSUME Types, Output, Ttrstrt
    PROVE  Output'
<1>0. /\ wchan \in [Proc -> {None, "rawq", "outq"}] /\ tp \in TtyType /\ Spaced(tp)
  BY DEF Types, SharedTypes, Output
<1> DEFINE u == [tp EXCEPT !.timeout = FALSE]
<1>1. tp.timeout /\ tp' = Ttstart(u) /\ UNCHANGED <<wchan, pc, expn>>
  BY DEF Ttrstrt, locals
<1>2. u \in TtyType
  BY <1>0 DEF TtyType
<1>3. u.thr = tp.thr /\ u.outq = tp.outq /\ u.timeout = FALSE
  BY <1>0 DEF TtyType
<1> HIDE DEF u
<1>4. Spaced(u) /\ (Room(tp) => Room(u))
  BY <1>0, <1>3 DEF Spaced, Room, SpacedQueue, RoomQueue
<1>5. Spaced(tp') /\ (Room(u) => Room(tp')) /\ (tp'.outq = <<>> \/ Awake(tp'))
  BY <1>1, <1>2, <1>4, TtstartSpaced
<1>6. \A p \in Proc : expn[p] = <<Delay>> => Room(tp')
  BY <1>4, <1>5 DEF Output
<1>7. Awake(tp) => Awake(tp')
  <2> SUFFICES ASSUME Awake(tp) PROVE Awake(tp')
    OBVIOUS
  <2>1. tp.thr = None
    BY <1>0, <1>1 DEF Spaced
  <2>2. tp.outq # <<>> /\ tp.outq[1] # Delay
    <3>1. Sendable(<<>>) = <<>>
      BY OnlyEmpty DEF Sendable
    <3>2. tp.outq # <<>>
      BY <2>1, <3>1 DEF Awake
    <3> QED
      BY <1>0, <1>1, <3>2 DEF Spaced, SpacedQueue
  <2>3. Head(tp.outq) # Delay /\ Head(tp.outq) \in OutChar
    <3>1. tp.outq \in Seq(OutChar)
      BY <1>0 DEF TtyType
    <3>2. Head(tp.outq) = tp.outq[1]
      BY <2>2, <3>1
    <3> QED
      BY <2>2, <3>1, <3>2, HeadAndTail
  <2>4. tp' = [u EXCEPT !.outq = Tail(@), !.thr = Head(u.outq)]
    BY <1>1, <1>3, <2>1, <2>2, <2>3 DEF Ttstart
  <2>5. tp'.thr = Head(tp.outq)
    BY <1>2, <1>3, <2>4 DEF TtyType
  <2>6. Head(tp.outq) # None
    BY <2>3 DEF OutChar, Key, Delay, None
  <2> QED
    BY <2>5, <2>6 DEF Awake
<1>8. tp'.outq = <<>> \/ tp'.thr # None \/ tp'.timeout
  BY <1>5 DEF Awake
<1>9. \A p \in Proc : wchan'[p] = "outq" => Awake(tp')
  BY <1>1, <1>7 DEF Output
<1> QED
  BY <1>1, <1>5, <1>6, <1>8, <1>9, PacedSame

\* The queues, for every schedule of processes and interrupts, as long as no key
\* comes at the two places at which it does harm.
QueuesInv == Types /\ Input /\ Output

LEMMA QueuesInit ==
    ASSUME Init
    PROVE  QueuesInv
<1>1. /\ tp.rawq = <<>> /\ tp.outq = <<>> /\ tp.delct = 0 /\ ~tp.timeout /\ tp.thr = None
      /\ pc = [p \in Proc |-> "user"] /\ wchan = [p \in Proc |-> None]
      /\ expn = [p \in Proc |-> <<>>] /\ count = [p \in Proc |-> 0]
  BY DEF Init
<1>2. OneRuns /\ CountPositive /\ RawSleep
  BY <1>1 DEF OneRuns, Rest, CountPositive, Reading, RawSleep
<1>3. DelctCounts
  <2>1. Decs = 0
    BY <1>1, <1>2, DecsSmall
  <2>2. Only(tp.rawq, {Delim}) = <<>>
    BY <1>1, OnlyEmpty
  <2>3. Lines(tp) = 0
    BY <2>2 DEF Lines
  <2> QED
    BY <1>1, <2>1, <2>3, DelctIs
<1>4. Len(tp.rawq) = 0 /\ Len(tp.outq) = 0
  BY <1>1
<1>5. Input
  BY <1>2, <1>3, <1>4, TtyAssumption DEF Input
<1>6. Spaced(tp)
  BY <1>1, <1>4 DEF Spaced, SpacedQueue
<1>7. Output
  BY <1>1, <1>6 DEF Output, Shapes, Started, None
<1> QED
  BY <1>5, <1>7, TypesInit DEF QueuesInv

LEMMA QueuesStep ==
    ASSUME QueuesInv, [Next]_vars, [KeysApart]_vars
    PROVE  QueuesInv'
<1>0. Types'
  BY TypesStep DEF QueuesInv
<1>1. CASE UNCHANGED vars
  <2>1. UNCHANGED <<tp, pc, wchan, expn, count>>
    BY <1>1 DEF vars
  <2>2. Input'
    BY <2>1 DEF QueuesInv, Input, OneRuns, DelctCounts, RawSleep, CountPositive
  <2>3. Output'
    BY <2>1 DEF QueuesInv, Output, Spaced, SpacedQueue, Room, RoomQueue, Started, Awake, Sendable
  <2> QED
    BY <1>0, <2>2, <2>3 DEF QueuesInv
<1>2. ASSUME NEW p \in Proc, Kernel(p) \/ Call(p) PROVE QueuesInv'
  <2>1. Types /\ Input /\ Output /\ Moves(p)
    BY <1>2, KernelMoves DEF QueuesInv
  <2>2. Input'
    BY <1>2, <2>1, InputProc
  <2>3. Output'
    BY <1>2, <2>1, OutputWriting, OutputStty, OutputOther
  <2> QED
    BY <1>0, <2>2, <2>3 DEF QueuesInv
<1>3. ASSUME \/ \E c \in Key : TtyinputHog(c) \/ Ttyinput(c)
             \/ TtyinputIntr \/ Klxint \/ Ttrstrt,
             KeysApart
      PROVE  QueuesInv'
  <2>1. Types /\ Input /\ Output
    BY DEF QueuesInv
  <2>2. Input'
    BY <1>3, <2>1, InputInterrupt
  <2>3. Output'
    BY <1>3, <2>1, OutputKeys, OutputSent, OutputDelayed
  <2> QED
    BY <1>0, <2>2, <2>3 DEF QueuesInv
<1> QED
  BY <1>1, <1>2, <1>3 DEF Next

LEMMA QueuesInvKeeps ==
    ASSUME QueuesInv
    PROVE  QueuesKept
<1>0. Types /\ Input /\ Output
  BY DEF QueuesInv
<1>1. tp.delct \in Nat
  <2>1. tp.delct = Lines(tp) + Decs /\ Lines(tp) \in Nat /\ Decs \in {0, 1}
    BY <1>0, DelctIs, LinesType, DecsSmall DEF Input, Types, SharedTypes
  <2> QED
    BY <2>1
<1>2. count \in [Proc -> Nat]
  <2>1. \A p \in Proc : count[p] \in Int /\ count[p] >= 0
    BY <1>0 DEF Types, ProcTypes, Input, CountPositive
  <2> QED
    BY <1>0, <2>1 DEF Types, ProcTypes
<1>3. TypeOK
  BY <1>0, <1>1, <1>2 DEF TypeOK, Types, SharedTypes, ProcTypes, TtyType, Input, OutChar
<1>4. NoLostWakeup
  BY <1>0 DEF NoLostWakeup, Input, RawSleep, Output, Awake
<1> QED
  BY <1>0, <1>3, <1>4 DEF QueuesKept, Input


\* The queues are kept: their bounds, t_delct as the number of delimiters
\* (tty.h:33), and no sleep for what has happened already (canon, ttwrite,
\* wflushtty, klxint), provided that every step keeps KeysApart.
THEOREM QueuesStay == Spec /\ [][KeysApart]_vars => []QueuesKept
<1>1. Init => QueuesInv
  BY QueuesInit
<1>2. QueuesInv /\ [Next]_vars /\ [KeysApart]_vars => QueuesInv'
  BY QueuesStep
<1>3. QueuesInv => QueuesKept
  BY QueuesInvKeeps
<1> QED
  BY <1>1, <1>2, <1>3, PTL DEF Spec
==============================================================================
