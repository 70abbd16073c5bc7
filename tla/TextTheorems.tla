---------------------------- MODULE TextTheorems ----------------------------
(***************************************************************************)
(* What the proofs about texts need: induction over a set of numbers,      *)
(* functions that are defined from one position of a text to the next, and *)
(* the letters of texts that are joined.                                   *)
(***************************************************************************)
EXTENDS Integers, SequencesExt, SequenceTheorems, WellFoundedInduction, TLAPS

\* A set of numbers has a least one.
LEMMA LeastElement ==
  ASSUME NEW T \in SUBSET Nat, T # {}
  PROVE  \E m \in T : \A n \in T : m <= n
<1> DEFINE R == OpToRel(<, Nat)
<1>1. IsWellFoundedOn(R, Nat)
  BY NatLessThanWellFounded
<1>2. \A x, y \in Nat : <<y, x>> \in R <=> y < x
  BY DEF OpToRel
<1> HIDE DEF R
<1>3. PICK x \in T : \A y \in T : ~ (<<y, x>> \in R)
  BY <1>1, WFMin
<1>4. \A y \in T : ~(y < x)
  BY <1>2, <1>3, Zenon
<1>5. x \in Nat /\ \A y \in T : y \in Nat
  OBVIOUS
<1>6. \A y \in T : x <= y
  BY <1>4, <1>5, SMT
<1> QED BY <1>6

\* A set that holds 0 and with each number the next holds all of them.
LEMMA SetInduction ==
  ASSUME NEW T, 0 \in T, \A n \in Nat : n \in T => n + 1 \in T
  PROVE  \A n \in Nat : n \in T
<1> DEFINE U == Nat \ T
<1>1. SUFFICES ASSUME U # {} PROVE FALSE
  OBVIOUS
<1>2. PICK m \in U : \A n \in U : m <= n
  BY <1>1, LeastElement
<1>3. m \in Nat /\ m # 0
  BY <1>2
<1>4. m - 1 \in Nat /\ m - 1 \in T
  BY <1>2, <1>3
<1> QED BY <1>2, <1>3, <1>4

\* From m up to n.
LEMMA RangeInduction ==
  ASSUME NEW m \in Int, NEW n \in Int, NEW T,
         m \in T, \A i \in m .. n - 1 : i \in T => i + 1 \in T
  PROVE  \A i \in m .. n : i \in T
<1> DEFINE U == {k \in Nat : m + k <= n => m + k \in T}
<1>1. 0 \in U
  OBVIOUS
<1>2. ASSUME NEW k \in Nat, k \in U PROVE k + 1 \in U
  BY <1>2
<1> HIDE DEF U
<1>3. \A k \in Nat : k \in U
  BY <1>1, <1>2, SetInduction
<1>4. ASSUME NEW i \in m .. n PROVE i \in T
  <2>1. i - m \in Nat /\ i - m \in U
    BY <1>3
  <2> QED BY <2>1 DEF U
<1> QED BY <1>4

\* From 0 up to n.
LEMMA PrefixInduction ==
  ASSUME NEW n \in Nat, NEW T,
         0 \in T, \A i \in 0 .. n - 1 : i \in T => i + 1 \in T
  PROVE  \A i \in 0 .. n : i \in T
<1> DEFINE m == 0
<1>1. m \in Int /\ m \in T /\ \A i \in m .. n - 1 : i \in T => i + 1 \in T
  OBVIOUS
<1> HIDE DEF m
<1>2. \A i \in m .. n : i \in T
  BY <1>1, RangeInduction
<1> QED BY <1>2 DEF m

\* What makes a value of V out of the one before it and a number of k .. n.
Steps(V, k, n) == [V \X (k .. n) -> V]

\* A function whose first value is c and whose other values follow, each from
\* the one before it.
LEMMA FiniteRecursion ==
  ASSUME NEW k \in Int, NEW n \in Int, k <= n + 1,
         NEW V, NEW c, c \in V, NEW step, step \in Steps(V, k, n)
  PROVE  \E f \in [k - 1 .. n -> V] :
           /\ f[k - 1] = c
           /\ \A i \in k .. n : f[i] = step[<<f[i - 1], i>>]
<1> DEFINE m == k - 1
<1>0. m \in Int /\ m <= n /\ k = m + 1 /\ step \in [V \X (k .. n) -> V]
  BY DEF Steps
<1> HIDE DEF m
<1> DEFINE Good(f, j) ==
             /\ f \in [m .. j -> V]
             /\ f[m] = c
             /\ \A i \in k .. j : f[i] = step[<<f[i - 1], i>>]
           T == {j \in m .. n : \E f : Good(f, j)}
<1>1. m \in T
  <2> DEFINE f == [i \in m .. m |-> c]
  <2>1. f \in [m .. m -> V] /\ f[m] = c /\ k .. m = {}
    BY <1>0
  <2> HIDE DEF f
  <2>2. Good(f, m)
    BY <2>1
  <2> HIDE DEF Good
  <2> QED BY <1>0, <2>2
<1>2. ASSUME NEW j \in m .. n - 1, j \in T PROVE j + 1 \in T
  <2>1. PICK f : Good(f, j)
    BY <1>2
  <2> DEFINE v == step[<<f[j], j + 1>>]
             g == [i \in m .. j + 1 |-> IF i = j + 1 THEN v ELSE f[i]]
  <2>2. v \in V
    <3>1. f[j] \in V /\ j + 1 \in k .. n
      BY <1>0, <2>1
    <3> QED BY <1>0, <3>1
  <2>3. g \in [m .. j + 1 -> V]
    BY <1>0, <2>1, <2>2
  <2>4. g[m] = c
    BY <1>0, <2>1
  <2>5. ASSUME NEW i \in k .. j + 1 PROVE g[i] = step[<<g[i - 1], i>>]
    <3>1. g[i - 1] = f[i - 1] /\ i \in m .. j + 1
      BY <1>0
    <3>2. CASE i = j + 1
      <4>1. g[i] = v /\ i - 1 = j
        BY <1>0, <3>1, <3>2
      <4> HIDE DEF g
      <4> QED BY <3>1, <3>2, <4>1
    <3>3. CASE i # j + 1
      BY <1>0, <2>1, <3>1, <3>3
    <3> QED BY <3>2, <3>3
  <2> HIDE DEF g
  <2>6. Good(g, j + 1)
    BY <1>0, <2>3, <2>4, <2>5
  <2> HIDE DEF Good
  <2> QED BY <1>0, <2>6
<1>3. \A j \in m .. n - 1 : j \in T => j + 1 \in T
  BY <1>2
<1> HIDE DEF T
<1>4. n \in T
  <2>1. \A i \in m .. n : i \in T
    BY <1>0, <1>1, <1>3, RangeInduction
  <2> QED BY <1>0, <2>1
<1>5. PICK f : Good(f, n)
  BY <1>4 DEF T
<1> QED BY <1>5 DEF m

\* Two texts, one after the other.
LEMMA Joined ==
  ASSUME NEW S, NEW s \in Seq(S), NEW t \in Seq(S)
  PROVE  /\ s \o t \in Seq(S) /\ Len(s \o t) = Len(s) + Len(t)
         /\ \A i \in 1 .. Len(s) : (s \o t)[i] = s[i]
         /\ \A i \in 1 .. Len(t) : (s \o t)[Len(s) + i] = t[i]
  OBVIOUS

\* w is s, t and u, one after the other.
IsTriple(w, s, t, u) ==
  /\ Len(w) = Len(s) + Len(t) + Len(u)
  /\ \A i \in 1 .. Len(s) : w[i] = s[i]
  /\ \A i \in 1 .. Len(t) : w[Len(s) + i] = t[i]
  /\ \A i \in 1 .. Len(u) : w[Len(s) + Len(t) + i] = u[i]

\* What \o makes of three sequences.
LEMMA TripleJoined ==
  ASSUME NEW S, NEW s \in Seq(S), NEW t \in Seq(S), NEW u \in Seq(S)
  PROVE  s \o t \o u \in Seq(S) /\ IsTriple(s \o t \o u, s, t, u)
<1> DEFINE v == s \o t   w == v \o u
<1>1. v \in Seq(S)
  BY Joined
<1>2. /\ Len(v) = Len(s) + Len(t)
      /\ \A i \in 1 .. Len(s) : v[i] = s[i]
      /\ \A i \in 1 .. Len(t) : v[Len(s) + i] = t[i]
  BY Joined
<1> HIDE DEF v
<1>3. /\ w \in Seq(S) /\ Len(w) = Len(v) + Len(u)
      /\ \A i \in 1 .. Len(v) : w[i] = v[i]
      /\ \A i \in 1 .. Len(u) : w[Len(v) + i] = u[i]
  BY <1>1, Joined
<1> HIDE DEF w
<1>4. Len(s) \in Nat /\ Len(t) \in Nat /\ Len(u) \in Nat
  OBVIOUS
<1>5. /\ \A i \in 1 .. Len(s) : w[i] = s[i]
      /\ \A i \in 1 .. Len(t) : w[Len(s) + i] = t[i]
  BY <1>2, <1>3, <1>4
<1>6. Len(w) = Len(s) + Len(t) + Len(u)
  BY <1>2, <1>3, <1>4
<1>7. \A i \in 1 .. Len(u) : w[Len(s) + Len(t) + i] = u[i]
  BY <1>2, <1>3
<1>8. w \in Seq(S) /\ IsTriple(w, s, t, u)
  BY <1>3, <1>5, <1>6, <1>7 DEF IsTriple
<1> QED BY <1>8 DEF v, w

\* A text of one letter.
LEMMA OneLetter ==
  ASSUME NEW S, NEW c \in S
  PROVE  <<c>> \in Seq(S) /\ Len(<<c>>) = 1 /\ <<c>>[1] = c
  OBVIOUS

\* A text of two letters.
LEMMA TwoLetters ==
  ASSUME NEW S, NEW c \in S, NEW d \in S
  PROVE  <<c, d>> \in Seq(S) /\ Len(<<c, d>>) = 2 /\ <<c, d>>[1] = c /\ <<c, d>>[2] = d
  OBVIOUS

\* FlattenSeq is the last of the sequences one gets when one appends them one
\* after the other.
LEMMA FlattenedStepwise ==
  ASSUME NEW S, NEW n \in Nat, NEW seqs \in [1 .. n -> Seq(S)],
         NEW g \in [0 .. n -> Seq(S)], g[0] = <<>>,
         \A i \in 1 .. n : g[i] = g[i - 1] \o seqs[i]
  PROVE  FlattenSeq(seqs) = g[n]
<1>1. seqs \in Seq(Seq(S)) /\ Len(seqs) = n
  OBVIOUS
<1>2. CASE n = 0
  <2>1. seqs = <<>>
    BY <1>1, <1>2, EmptySeq
  <2> QED BY <1>1, <1>2, <2>1 DEF FlattenSeq
<1>3. CASE n # 0
  <2> DEFINE F(h) == [i \in 1 .. Len(seqs) |-> IF i = 1 THEN seqs[i] ELSE h[i - 1] \o seqs[i]]
             flatten == CHOOSE h : h = F(h)
             h0 == [i \in 1 .. n |-> g[i]]
  <2>1. h0 = F(h0)
    <3>1. g[1] = seqs[1]
      <4>1. 1 \in 1 .. n /\ g[1 - 1] = <<>> /\ seqs[1] \in Seq(S)
        BY <1>3
      <4>2. g[1] = g[1 - 1] \o seqs[1]
        BY <4>1
      <4>3. <<>> \o seqs[1] = seqs[1]
        BY <4>1, ConcatEmptySeq
      <4> QED BY <4>1, <4>2, <4>3
    <3>2. ASSUME NEW i \in 1 .. n, i # 1 PROVE g[i] = h0[i - 1] \o seqs[i]
      <4>1. i - 1 \in 1 .. n
        BY <3>2
      <4>2. h0[i - 1] = g[i - 1]
        BY <4>1
      <4> QED BY <4>2
    <3> QED BY <1>1, <3>1, <3>2
  <2>2. flatten = F(flatten)
    BY <2>1
  <2>8. FlattenSeq(seqs) = flatten[n]
    BY <1>1, <1>3 DEF FlattenSeq
  <2> HIDE DEF flatten
  <2>9. ASSUME NEW h, h = F(h), NEW i \in 1 .. n
        PROVE  h[i] = IF i = 1 THEN seqs[i] ELSE h[i - 1] \o seqs[i]
    <3>1. h[i] = F(h)[i]
      BY <2>9
    <3>2. F(h)[i] = IF i = 1 THEN seqs[i] ELSE h[i - 1] \o seqs[i]
      BY <1>1
    <3> QED BY <3>1, <3>2
  <2>10. \A i \in 1 .. n : h0[i] = g[i]
    OBVIOUS
  <2> HIDE DEF F, h0
  <2> DEFINE T == {i \in 0 .. n : i # 0 => flatten[i] = h0[i]}
  <2>3. 0 \in T
    OBVIOUS
  <2>4. ASSUME NEW i \in 0 .. n - 1, i \in T PROVE i + 1 \in T
    <3> DEFINE k == i + 1
    <3>1. k \in 1 .. n /\ k - 1 = i /\ (k = 1 <=> i = 0)
      OBVIOUS
    <3> HIDE DEF k
    <3>2. flatten[k] = IF k = 1 THEN seqs[k] ELSE flatten[k - 1] \o seqs[k]
      BY <2>2, <2>9, <3>1
    <3>3. h0[k] = IF k = 1 THEN seqs[k] ELSE h0[k - 1] \o seqs[k]
      BY <2>1, <2>9, <3>1
    <3>4. i # 0 => flatten[i] = h0[i]
      BY <2>4
    <3>5. flatten[k] = h0[k]
      BY <3>1, <3>2, <3>3, <3>4
    <3>6. k \in T
      BY <3>1, <3>5
    <3> QED BY <3>6 DEF k
  <2> HIDE DEF T
  <2>5. n \in T
    <3>1. \A i \in 0 .. n : i \in T
      BY <2>3, <2>4, PrefixInduction
    <3> QED BY <3>1
  <2>6. flatten[n] = g[n]
    <3>1. n \in 1 .. n
      BY <1>3
    <3>2. flatten[n] = h0[n]
      BY <1>3, <2>5 DEF T
    <3> QED BY <2>10, <3>1, <3>2
  <2> QED BY <2>6, <2>8
<1> QED BY <1>2, <1>3
=============================================================================
