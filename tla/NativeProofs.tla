---------------------------- MODULE NativeProofs ----------------------------
(***************************************************************************)
(* Proofs about what msys-sdk has in C: catalogs and templates, which the  *)
(* Python module has too, and the client of src/mipc.c, for any catalogs,  *)
(* limits, keys, capacities and bounds.                                    *)
(*                                                                         *)
(* What is computed by recursion is defined with CHOOSE: a theorem about   *)
(* it shows first that a function with the equation exists, by recursion   *)
(* on the natural numbers, and then reads the equation at each place.      *)
(***************************************************************************)
EXTENDS MipcC, I18n, SequenceTheorems, FiniteSetTheorems, WellFoundedInduction, TLAPS

-----------------------------------------------------------------------------
(* Induction and recursion over the natural numbers, of sets and functions in *)
(* the place of predicates and definitions.                                   *)

\* A set of numbers has a least one: the intervals up to its members are finite, and finite
\* sets have no endless descent.
LEMMA LeastNumber ==
  ASSUME NEW T \in SUBSET Nat, T # {}
  PROVE  \E m \in T : \A n \in T : m <= n
  <1> DEFINE R == StrictSubsetOrdering(Nat)
             F == {0..n : n \in T}
  <1>1. IsWellFoundedOn(R, FiniteSubsetsOf(Nat))
    BY FS_StrictSubsetOrderingWellFounded
  <1>2. F \subseteq FiniteSubsetsOf(Nat) /\ F # {}
    <2>1. \A n \in T : 0..n \in SUBSET Nat /\ IsFiniteSet(0..n)
      BY FS_Interval
    <2> QED
      BY <2>1, Zenon DEF FiniteSubsetsOf
  <1>3. \E x \in F : \A y \in F : <<y, x>> \notin R
    <2> HIDE DEF R, F
    <2> QED
      BY <1>1, <1>2, WFMin
  <1>4. PICK m \in T : \A n \in T : <<0..n, 0..m>> \notin R
    BY <1>3, Zenon
  <1>5. ASSUME NEW n \in T, n < m PROVE FALSE
    <2>1. 0..n \subseteq 0..m /\ m \in 0..m /\ m \notin 0..n
      BY <1>5
    <2>2. 0..n # 0..m
      BY <2>1
    <2>3. 0..n \in SUBSET Nat /\ 0..m \in SUBSET Nat
      OBVIOUS
    <2> QED
      BY <1>4, <2>1, <2>2, <2>3, Zenon DEF StrictSubsetOrdering
  <1> QED
    BY <1>5

\* Induction, of a set that contains zero and the successor of each of its numbers.
LEMMA NumbersInduce ==
  ASSUME NEW S, 0 \in S, \A n \in Nat : n \in S => n + 1 \in S
  PROVE  Nat \subseteq S
  <1> DEFINE T == {n \in Nat : n \notin S}
  <1> SUFFICES ASSUME T # {} PROVE FALSE
    OBVIOUS
  <1>1. PICK m \in T : \A n \in T : m <= n
    <2>1. T \in SUBSET Nat
      OBVIOUS
    <2> HIDE DEF T
    <2> QED
      BY <2>1, LeastNumber
  <1>2. m # 0 /\ m \in Nat /\ m \notin S
    OBVIOUS
  <1>3. m - 1 \in Nat /\ m - 1 \in S /\ (m - 1) + 1 = m
    BY <1>1, <1>2
  <1> QED
    BY <1>2, <1>3

\* g is a recursive function as far as n.
Upto(V, base, step, n, g) ==
    /\ g \in [0..n -> V] /\ g[0] = base
    /\ \A i \in 0..(n - 1) : g[i + 1] = step[i][g[i]]

\* Every beginning of a recursive function exists.
LEMMA UptoEvery ==
  ASSUME NEW V, NEW base \in V, NEW step \in [Nat -> [V -> V]]
  PROVE  \A n \in Nat : \E g : Upto(V, base, step, n, g)
  <1> DEFINE S == {n \in Nat : \E g : Upto(V, base, step, n, g)}
  <1>1. 0 \in S
    <2>1. Upto(V, base, step, 0, [i \in 0..0 |-> base])
      BY DEF Upto
    <2> QED
      BY <2>1
  <1>2. ASSUME NEW n \in Nat, n \in S PROVE n + 1 \in S
    <2>1. PICK g : Upto(V, base, step, n, g)
      BY <1>2
    <2> DEFINE h == [i \in 0..(n + 1) |-> IF i = n + 1 THEN step[n][g[n]] ELSE g[i]]
    <2>2. g \in [0..n -> V] /\ g[0] = base /\ \A i \in 0..(n - 1) : g[i + 1] = step[i][g[i]]
      BY <2>1 DEF Upto
    <2>3. h \in [0..(n + 1) -> V] /\ h[0] = base
      BY <2>2
    <2>4. \A i \in 0..n : h[i + 1] = step[i][h[i]]
      BY <2>2
    <2>5. Upto(V, base, step, n + 1, h)
      <3>1. (n + 1) - 1 = n
        OBVIOUS
      <3> HIDE DEF h
      <3> QED
        BY <2>3, <2>4, <3>1 DEF Upto
    <2> HIDE DEF h
    <2> QED
      BY <2>5
  <1> HIDE DEF S
  <1>3. Nat \subseteq S
    BY <1>1, <1>2, NumbersInduce
  <1> QED
    BY <1>3 DEF S

\* Two beginnings of a recursive function agree where both are defined.
LEMMA UptoSame ==
  ASSUME NEW V, NEW base \in V, NEW step \in [Nat -> [V -> V]],
         NEW n \in Nat, NEW g, NEW h, Upto(V, base, step, n, g), Upto(V, base, step, n + 1, h)
  PROVE  g[n] = h[n]
  <1> DEFINE S == {i \in Nat : i <= n => g[i] = h[i]}
  <1>1. /\ g[0] = h[0]
        /\ \A i \in 0..(n - 1) : g[i + 1] = step[i][g[i]] /\ h[i + 1] = step[i][h[i]]
    BY DEF Upto
  <1>2. 0 \in S
    BY <1>1
  <1>3. ASSUME NEW i \in Nat, i \in S PROVE i + 1 \in S
    BY <1>1, <1>3
  <1> HIDE DEF S
  <1>4. n \in S
    BY <1>2, <1>3, NumbersInduce
  <1> QED
    BY <1>4 DEF S

\* f is a recursive function.
Recurs(V, base, step, f) ==
    f \in [Nat -> V] /\ f[0] = base /\ \A n \in Nat : f[n + 1] = step[n][f[n]]

\* A function is defined by its first value and by what follows from each value.
LEMMA NumbersRecur ==
  ASSUME NEW V, NEW base \in V, NEW step \in [Nat -> [V -> V]]
  PROVE  \E f : Recurs(V, base, step, f)
  <1> DEFINE part(n) == CHOOSE g : Upto(V, base, step, n, g)
             f == [n \in Nat |-> part(n)[n]]
  <1>1. \A n \in Nat : Upto(V, base, step, n, part(n))
    BY UptoEvery
  <1> HIDE DEF part
  <1>2. f \in [Nat -> V] /\ f[0] = base
    BY <1>1 DEF Upto
  <1>3. ASSUME NEW n \in Nat PROVE f[n + 1] = step[n][f[n]]
    <2>1. part(n + 1)[n] = part(n)[n]
      BY <1>1, UptoSame
    <2>2. part(n + 1)[n + 1] = step[n][part(n + 1)[n]]
      BY <1>1 DEF Upto
    <2> QED
      BY <2>1, <2>2
  <1> HIDE DEF f
  <1>4. Recurs(V, base, step, f)
    BY <1>2, <1>3 DEF Recurs
  <1> QED
    BY <1>4

\* Induction, from each number to the next, written for the next.
LEMMA NumbersFollow ==
  ASSUME NEW S, 0 \in S, \A n \in Nat \ {0} : n - 1 \in S => n \in S
  PROVE  Nat \subseteq S
  <1>1. ASSUME NEW n \in Nat, n \in S PROVE n + 1 \in S
    <2>1. n + 1 \in Nat \ {0} /\ (n + 1) - 1 = n
      OBVIOUS
    <2> QED
      BY <1>1, <2>1
  <1> QED
    BY <1>1, NumbersInduce

RecursAt(V, base, step, f) ==
    f \in [Nat -> V] /\ f[0] = base /\ \A n \in Nat \ {0} : f[n] = step[n - 1][f[n - 1]]

\* What recurs from the number before exists.
LEMMA RecursFrom ==
  ASSUME NEW V, NEW base \in V, NEW step \in [Nat -> [V -> V]]
  PROVE  \E f : RecursAt(V, base, step, f)
  <1>1. PICK f : Recurs(V, base, step, f)
    BY NumbersRecur
  <1>2. f \in [Nat -> V] /\ f[0] = base /\ \A n \in Nat : f[n + 1] = step[n][f[n]]
    BY <1>1 DEF Recurs
  <1>3. ASSUME NEW n \in Nat \ {0} PROVE f[n] = step[n - 1][f[n - 1]]
    <2>1. n - 1 \in Nat /\ (n - 1) + 1 = n
      OBVIOUS
    <2> QED
      BY <1>2, <2>1
  <1> QED
    BY <1>2, <1>3 DEF RecursAt

DownTo(N, V, base, stop, next, step, f) ==
    /\ f \in [1..N -> V]
    /\ \A i \in 1..N : f[i] = IF i \in stop THEN base[i] ELSE step[i][f[next[i]]]

\* A function on 1..N whose values follow from values further on.
LEMMA DownRecur ==
  ASSUME NEW N \in Nat, NEW V, NEW base \in [1..N -> V], NEW stop,
         NEW next \in [1..N -> 1..N], NEW step \in [1..N -> [V -> V]],
         \A i \in 1..N : i \notin stop => next[i] > i
  PROVE  \E f : DownTo(N, V, base, stop, next, step, f)
  <1> DEFINE W == [1..N -> V]
             one(g) == [i \in 1..N |-> IF i \in stop THEN base[i] ELSE step[i][g[next[i]]]]
             go == [n \in Nat |-> [g \in W |-> one(g)]]
  <1>1. \A g \in W : one(g) \in W
    OBVIOUS
  <1>2. go \in [Nat -> [W -> W]] /\ base \in W
    BY <1>1, Zenon
  <1>3. PICK F : RecursAt(W, base, go, F)
    <2> HIDE DEF go, W
    <2> QED
      BY <1>2, RecursFrom, Zenon
  <1>4. ASSUME NEW n \in Nat \ {0} PROVE n - 1 \in Nat /\ F[n] = one(F[n - 1])
    <2>1. n - 1 \in Nat /\ F[n - 1] \in W /\ F[n] = go[n - 1][F[n - 1]]
      <3> HIDE DEF go, W
      <3> QED
        BY <1>3 DEF RecursAt
    <2> HIDE DEF one, W
    <2> QED
      BY <2>1
  <1> DEFINE S == {n \in Nat : \A i \in 1..N : N - i < n => F[n + 1][i] = F[n][i]}
  <1>5. 0 \in S
    OBVIOUS
  <1>6. ASSUME NEW n \in Nat \ {0}, n - 1 \in S PROVE n \in S
    <2> SUFFICES ASSUME NEW i \in 1..N, N - i < n PROVE F[n + 1][i] = F[n][i]
      OBVIOUS
    <2>1. F[n] = one(F[n - 1])
      BY <1>4
    <2>2. F[n + 1] = one(F[n])
      <3>1. n + 1 \in Nat \ {0} /\ (n + 1) - 1 = n
        OBVIOUS
      <3> HIDE DEF one
      <3> QED
        BY <1>4, <3>1
    <2>3. CASE i \in stop
      BY <2>1, <2>2, <2>3, Zenon
    <2>4. CASE i \notin stop
      <3>1. next[i] \in 1..N /\ N - next[i] < n - 1 /\ (n - 1) + 1 = n
        BY <2>4
      <3>2. F[n][next[i]] = F[n - 1][next[i]]
        BY <1>6, <3>1
      <3>3. F[n + 1][i] = step[i][F[n][next[i]]] /\ F[n][i] = step[i][F[n - 1][next[i]]]
        BY <2>1, <2>2, <2>4, Zenon
      <3> QED
        BY <3>2, <3>3
    <2> QED
      BY <2>3, <2>4
  <1>7. N \in S /\ F[0] = base /\ F \in [Nat -> W]
    <2>1. F[0] = base /\ F \in [Nat -> W]
      BY <1>3 DEF RecursAt
    <2> HIDE DEF S
    <2> QED
      BY <1>5, <1>6, <2>1, NumbersFollow, Zenon
  <1>8. F[N + 1] = one(F[N])
    <2>1. N + 1 \in Nat \ {0} /\ (N + 1) - 1 = N
      OBVIOUS
    <2> HIDE DEF one
    <2> QED
      BY <1>4, <2>1
  <1>9. ASSUME NEW i \in 1..N
        PROVE  F[N][i] = IF i \in stop THEN base[i] ELSE step[i][F[N][next[i]]]
    <2>1. F[N + 1][i] = F[N][i]
      BY <1>7
    <2> QED
      BY <1>8, <2>1
  <1>10. F[N] \in [1..N -> V]
    BY <1>7
  <1> QED
    BY <1>9, <1>10, Zenon DEF DownTo

-----------------------------------------------------------------------------
(* Concatenation of a sequence of sequences *)

Flat(ss, B, F) ==
    /\ F \in [Nat -> Seq(B)] /\ F[0] = <<>>
    /\ \A n \in 1..Len(ss) : F[n] = F[n - 1] \o ss[n]
Flattens(ss, f) ==
    f = [i \in 1..Len(ss) |-> IF i = 1 THEN ss[i] ELSE f[i - 1] \o ss[i]]

\* The concatenations of the first n sequences exist, for every n.
LEMMA FlatSome ==
  ASSUME NEW B, NEW ss \in Seq(Seq(B))
  PROVE  \E F : Flat(ss, B, F)
  <1> DEFINE step == [n \in Nat |-> [v \in Seq(B) |-> IF n + 1 \in 1..Len(ss) THEN v \o ss[n + 1] ELSE v]]
  <1>1. step \in [Nat -> [Seq(B) -> Seq(B)]]
    BY ElementOfSeq, ConcatProperties
  <1>a. PICK F : RecursAt(Seq(B), <<>>, step, F)
    <2> HIDE DEF step
    <2> QED
      BY <1>1, EmptySeq, RecursFrom, Zenon
  <1>2. F \in [Nat -> Seq(B)] /\ F[0] = <<>> /\ \A n \in Nat \ {0} : F[n] = step[n - 1][F[n - 1]]
    <2> HIDE DEF step
    <2> QED
      BY <1>a DEF RecursAt
  <1>3. ASSUME NEW n \in 1..Len(ss) PROVE F[n] = F[n - 1] \o ss[n]
    <2>1. n \in Nat \ {0} /\ n - 1 \in Nat /\ (n - 1) + 1 = n
      BY LenProperties
    <2>2. F[n - 1] \in Seq(B) /\ F[n] = step[n - 1][F[n - 1]]
      BY <1>2, <2>1, Zenon
    <2> QED
      BY <2>1, <2>2, Zenon
  <1> QED
    BY <1>2, <1>3, Zenon DEF Flat

\* FlattenSeq() is the last of them.
LEMMA FlattenIs ==
  ASSUME NEW B, NEW ss \in Seq(Seq(B)), NEW F, Flat(ss, B, F)
  PROVE  FlattenSeq(ss) = F[Len(ss)] /\ FlattenSeq(ss) \in Seq(B)
  <1>1. Len(ss) \in Nat /\ \A i \in 1..Len(ss) : ss[i] \in Seq(B)
    BY LenProperties, ElementOfSeq
  <1>2. /\ F \in [Nat -> Seq(B)] /\ F[0] = <<>>
        /\ \A n \in 1..Len(ss) : F[n] = F[n - 1] \o ss[n]
    BY Zenon DEF Flat
  <1>3. CASE Len(ss) = 0
    <2>1. ss = <<>>
      BY <1>3, EmptySeq, SeqEqual
    <2> QED
      BY <1>2, <1>3, <2>1 DEF FlattenSeq
  <1>4. CASE Len(ss) # 0
    <2> DEFINE f == CHOOSE f : Flattens(ss, f)
               g == [i \in 1..Len(ss) |-> F[i]]
    <2>1. FlattenSeq(ss) = f[Len(ss)]
      BY <1>4 DEF FlattenSeq, Flattens
    <2>2. \A i \in 1..Len(ss) : g[i] = IF i = 1 THEN ss[i] ELSE g[i - 1] \o ss[i]
      <3> SUFFICES ASSUME NEW i \in 1..Len(ss) PROVE g[i] = IF i = 1 THEN ss[i] ELSE g[i - 1] \o ss[i]
        BY Zenon
      <3>2. F[i] = F[i - 1] \o ss[i]
        BY <1>2, Zenon
      <3>3. CASE i = 1
        <4>1. i - 1 = 0 /\ F[i - 1] = <<>> /\ ss[i] \in Seq(B) /\ g[i] = F[i]
          BY <1>1, <1>2, <3>3
        <4> QED
          BY <3>2, <3>3, <4>1, ConcatEmptySeq
      <3>4. CASE i # 1
        <4>1. i - 1 \in 1..Len(ss)
          BY <1>1, <3>4
        <4> QED
          BY <3>2, <3>4, <4>1, Zenon
      <3> QED
        BY <3>3, <3>4
    <2>3. Flattens(ss, g)
      <3>1. g = [i \in 1..Len(ss) |-> g[i]]
        OBVIOUS
      <3> HIDE DEF g
      <3> QED
        BY <2>2, <3>1, Zenon DEF Flattens
    <2>4. Flattens(ss, f)
      BY <2>3
    <2> HIDE DEF f
    <2>5. \A i \in 1..Len(ss) : f[i] = IF i = 1 THEN ss[i] ELSE f[i - 1] \o ss[i]
      BY <2>4, Zenon DEF Flattens
    <2> DEFINE S == {n \in Nat : n \in 1..Len(ss) => f[n] = F[n]}
    <2>6. 0 \in S
      OBVIOUS
    <2>7. ASSUME NEW n \in Nat \ {0}, n - 1 \in S PROVE n \in S
      <3> SUFFICES ASSUME n \in 1..Len(ss) PROVE f[n] = F[n]
        OBVIOUS
      <3>1. F[n] = F[n - 1] \o ss[n] /\ f[n] = IF n = 1 THEN ss[n] ELSE f[n - 1] \o ss[n]
        BY <1>2, <2>5, Zenon
      <3>2. CASE n = 1
        <4>1. n - 1 = 0 /\ F[n - 1] = <<>> /\ ss[n] \in Seq(B)
          BY <1>1, <1>2, <3>2
        <4> QED
          BY <3>1, <3>2, <4>1, ConcatEmptySeq
      <3>3. CASE n # 1
        <4>1. n - 1 \in 1..Len(ss)
          BY <1>1, <3>3
        <4> QED
          BY <2>7, <3>1, <3>3, <4>1, Zenon
      <3> QED
        BY <3>2, <3>3
    <2> HIDE DEF S
    <2>8. Len(ss) \in S
      BY <1>1, <2>6, <2>7, NumbersFollow, Zenon
    <2>9. f[Len(ss)] = F[Len(ss)]
      BY <1>1, <1>4, <2>8 DEF S
    <2> QED
      BY <1>1, <1>2, <2>1, <2>9
  <1> QED
    BY <1>3, <1>4

\* The first of the sequences comes first.
LEMMA FlattenCons ==
  ASSUME NEW B, NEW s \in Seq(B), NEW ss \in Seq(Seq(B))
  PROVE  FlattenSeq(<<s>> \o ss) = s \o FlattenSeq(ss) /\ FlattenSeq(ss) \in Seq(B)
  <1> DEFINE tt == <<s>> \o ss
  <1>1. <<s>> \in Seq(Seq(B)) /\ Len(<<s>>) = 1 /\ <<s>>[1] = s
    OBVIOUS
  <1>2. /\ tt \in Seq(Seq(B)) /\ Len(tt) = Len(ss) + 1 /\ Len(ss) \in Nat
        /\ \A i \in 1..(Len(ss) + 1) : tt[i] = IF i <= 1 THEN s ELSE ss[i - 1]
    BY <1>1, ConcatProperties, LenProperties
  <1> HIDE DEF tt
  <1>3. PICK F : Flat(ss, B, F)
    BY FlatSome
  <1>4. PICK G : Flat(tt, B, G)
    BY <1>2, FlatSome
  <1>5. /\ F \in [Nat -> Seq(B)] /\ F[0] = <<>>
        /\ \A n \in 1..Len(ss) : F[n] = F[n - 1] \o ss[n]
    BY <1>3, Zenon DEF Flat
  <1>6. /\ G \in [Nat -> Seq(B)] /\ G[0] = <<>>
        /\ \A n \in 1..(Len(ss) + 1) : G[n] = G[n - 1] \o tt[n]
    BY <1>2, <1>4, Zenon DEF Flat
  <1>a. <<>> \o s = s /\ s \o <<>> = s
    BY ConcatEmptySeq
  <1>b. \A x, y \in Seq(B) : (s \o x) \o y = s \o (x \o y)
    BY ConcatAssociative
  <1> DEFINE S == {n \in Nat : n <= Len(ss) => G[n + 1] = s \o F[n]}
  <1>7. 0 \in S
    <2>1. 1 \in 1..(Len(ss) + 1) /\ 1 - 1 = 0 /\ 0 + 1 = 1
      BY <1>2
    <2>2. tt[1] = s
      BY <1>2, <2>1
    <2>3. G[1] = G[0] \o tt[1]
      BY <1>6, <2>1, Zenon
    <2>4. G[0 + 1] = s
      BY <1>6, <1>a, <2>1, <2>2, <2>3
    <2> QED
      BY <1>5, <1>a, <2>4, Zenon
  <1>8. ASSUME NEW n \in Nat \ {0}, n - 1 \in S PROVE n \in S
    <2> SUFFICES ASSUME n <= Len(ss) PROVE G[n + 1] = s \o F[n]
      OBVIOUS
    <2>1. G[n] = s \o F[n - 1]
      <3>1. n - 1 <= Len(ss) /\ (n - 1) + 1 = n
        BY <1>2
      <3> QED
        BY <1>8, <3>1
    <2>2. n \in 1..Len(ss) /\ n + 1 \in 1..(Len(ss) + 1) /\ ~(n + 1 <= 1) /\ (n + 1) - 1 = n
          /\ n - 1 \in Nat
      BY <1>2
    <2>3. tt[n + 1] = ss[n] /\ ss[n] \in Seq(B) /\ F[n - 1] \in Seq(B)
      BY <1>2, <1>5, <2>2, ElementOfSeq, Zenon
    <2>4. G[n + 1] = G[n] \o tt[n + 1]
      BY <1>6, <2>2, Zenon
    <2>5. F[n] = F[n - 1] \o ss[n]
      BY <1>5, <2>2, Zenon
    <2>6. (s \o F[n - 1]) \o ss[n] = s \o (F[n - 1] \o ss[n])
      BY <1>b, <2>3, Zenon
    <2> QED
      BY <2>1, <2>3, <2>4, <2>5, <2>6
  <1> HIDE DEF S
  <1>9. Len(ss) \in S
    BY <1>2, <1>7, <1>8, NumbersFollow, Zenon
  <1>10. G[Len(ss) + 1] = s \o F[Len(ss)]
    BY <1>2, <1>9 DEF S
  <1>11. FlattenSeq(tt) = G[Len(tt)]
    BY <1>2, <1>4, FlattenIs
  <1>12. FlattenSeq(ss) = F[Len(ss)] /\ FlattenSeq(ss) \in Seq(B)
    BY <1>3, FlattenIs
  <1> QED
    BY <1>2, <1>10, <1>11, <1>12, Zenon DEF tt

\* Induction from the end of a sequence to its beginning.
LEMMA DownInduce ==
  ASSUME NEW N \in Nat, NEW S, \A i \in 1..N : (\A j \in (i + 1)..N : j \in S) => i \in S
  PROVE  1..N \subseteq S
  <1> DEFINE A == {n \in Nat : \A i \in 1..N : N - i < n => i \in S}
  <1>1. 0 \in A
    OBVIOUS
  <1>2. ASSUME NEW n \in Nat \ {0}, n - 1 \in A PROVE n \in A
    <2> SUFFICES ASSUME NEW i \in 1..N, N - i < n PROVE i \in S
      OBVIOUS
    <2>1. ASSUME NEW j \in (i + 1)..N PROVE j \in S
      <3>1. j \in 1..N /\ N - j < n - 1
        OBVIOUS
      <3> QED
        BY <1>2, <3>1
    <2> QED
      BY <2>1
  <1>3. N \in A
    <2> HIDE DEF A
    <2> QED
      BY <1>1, <1>2, NumbersFollow
  <1>4. \A i \in 1..N : N - i < N
    OBVIOUS
  <1> QED
    BY <1>3, <1>4
-----------------------------------------------------------------------------
(* The beginning of a sequence *)

\* What there is space for of some bytes, and the space that they leave.
Fitting(x, space) == SubSeq(x, 1, IF Len(x) < space THEN Len(x) ELSE space)
Left(n, space) == IF n < space THEN space - n ELSE 0

\* What SubSeq(z, 1, j) is.
LEMMA FirstOnes ==
  ASSUME NEW B, NEW z, NEW j \in Nat, \A i \in 1..j : z[i] \in B
  PROVE  /\ SubSeq(z, 1, j) \in Seq(B) /\ Len(SubSeq(z, 1, j)) = j
         /\ \A i \in 1..j : SubSeq(z, 1, j)[i] = z[i]
  <1>1. /\ SubSeq(z, 1, j) \in Seq(B)
        /\ Len(SubSeq(z, 1, j)) = IF 1 <= j THEN j - 1 + 1 ELSE 0
        /\ \A i \in 1..(j - 1 + 1) : SubSeq(z, 1, j)[i] = z[1 + i - 1]
    BY SubSeqProperties
  <1>2. (IF 1 <= j THEN j - 1 + 1 ELSE 0) = j /\ j - 1 + 1 = j /\ \A i \in Int : 1 + i - 1 = i
    OBVIOUS
  <1> QED
    BY <1>1, <1>2

\* The part that fits is the beginning, as long as it can be.
LEMMA FittingIs ==
  ASSUME NEW B, NEW x \in Seq(B), NEW space \in Nat
  PROVE  LET m == IF Len(x) < space THEN Len(x) ELSE space
         IN  /\ Fitting(x, space) \in Seq(B) /\ Len(Fitting(x, space)) = m
             /\ \A i \in 1..m : Fitting(x, space)[i] = x[i]
  <1> DEFINE m == IF Len(x) < space THEN Len(x) ELSE space
  <1>1. Len(x) \in Nat /\ \A i \in 1..Len(x) : x[i] \in B
    BY LenProperties, ElementOfSeq
  <1>2. m \in Nat /\ \A i \in 1..m : i \in 1..Len(x)
    BY <1>1
  <1>3. Fitting(x, space) = SubSeq(x, 1, m)
    BY DEF Fitting
  <1> HIDE DEF m
  <1>4. \A i \in 1..m : x[i] \in B
    BY <1>1, <1>2
  <1>5. /\ SubSeq(x, 1, m) \in Seq(B) /\ Len(SubSeq(x, 1, m)) = m
        /\ \A i \in 1..m : SubSeq(x, 1, m)[i] = x[i]
    BY <1>2, <1>4, FirstOnes
  <1>6. /\ Fitting(x, space) \in Seq(B) /\ Len(Fitting(x, space)) = m
        /\ \A i \in 1..m : Fitting(x, space)[i] = x[i]
    BY <1>3, <1>5
  <1> QED
    BY <1>6 DEF m

\* What two appends store is what one append of both stores.
LEMMA FittingTwice ==
  ASSUME NEW B, NEW x \in Seq(B), NEW y \in Seq(B), NEW space \in Nat
  PROVE  Fitting(x, space) \o Fitting(y, Left(Len(x), space)) = Fitting(x \o y, space)
  <1> DEFINE a == Len(x)
             b == Len(y)
             xy == x \o y
             left == Left(a, space)
             p == Fitting(x, space)
             q == Fitting(y, left)
             r == Fitting(xy, space)
             m == IF a < space THEN a ELSE space
             k == IF b < left THEN b ELSE left
             n == IF a + b < space THEN a + b ELSE space
  <1>1. a \in Nat /\ b \in Nat /\ space \in Nat
    BY LenProperties
  <1>2. /\ \A i \in 1..a : x[i] \in B
        /\ \A i \in 1..b : y[i] \in B
    BY ElementOfSeq
  <1>3. xy \in Seq(B) /\ Len(xy) = a + b
        /\ \A i \in 1..(a + b) : xy[i] = IF i <= a THEN x[i] ELSE y[i - a]
    BY ConcatProperties
  <1>4. left \in Nat
    BY <1>1 DEF Left
  <1>5. /\ m \in 0..a /\ k \in 0..b /\ n = m + k /\ (k # 0 => m = a)
        /\ m \in Nat /\ k \in Nat /\ n \in Nat
    <2> HIDE DEF a, b
    <2> QED
      BY <1>1 DEF Left
  <1>8. p \in Seq(B) /\ Len(p) = m /\ \A i \in 1..m : p[i] = x[i]
    BY FittingIs
  <1>9. q \in Seq(B) /\ Len(q) = k /\ \A i \in 1..k : q[i] = y[i]
    <2> HIDE DEF left
    <2> QED
      BY <1>4, FittingIs
  <1>10. r \in Seq(B) /\ Len(r) = n /\ \A i \in 1..n : r[i] = xy[i]
    <2> HIDE DEF xy
    <2>1. /\ r \in Seq(B) /\ Len(r) = (IF Len(xy) < space THEN Len(xy) ELSE space)
          /\ \A i \in 1..(IF Len(xy) < space THEN Len(xy) ELSE space) : r[i] = xy[i]
      BY <1>3, FittingIs
    <2> HIDE DEF r, a, b
    <2> QED
      BY <1>3, <2>1
  <1> HIDE DEF a, b, xy, left, p, q, r, m, k, n
  <1> DEFINE pq == p \o q
  <1>11. pq \in Seq(B) /\ Len(pq) = m + k
         /\ \A i \in 1..(m + k) : pq[i] = IF i <= m THEN p[i] ELSE q[i - m]
    BY <1>8, <1>9, ConcatProperties, Zenon
  <1> HIDE DEF pq
  <1>12. ASSUME NEW i \in 1..n PROVE pq[i] = r[i]
    <2>1. i \in 1..(m + k) /\ i \in 1..(a + b)
      BY <1>1, <1>5
    <2>2. CASE i <= m
      <3>1. i \in 1..m /\ i <= a
        BY <1>1, <1>5, <2>1, <2>2
      <3>2. pq[i] = x[i]
        BY <1>8, <1>11, <2>1, <2>2, <3>1
      <3>3. r[i] = x[i]
        BY <1>3, <1>10, <2>1, <3>1
      <3> QED
        BY <3>2, <3>3
    <2>3. CASE ~(i <= m)
      <3>1. m = a /\ ~(i <= a) /\ i - m \in 1..k
        BY <1>1, <1>5, <2>1, <2>3
      <3> QED
        BY <1>3, <1>9, <1>10, <1>11, <2>1, <2>3, <3>1
    <2> QED
      BY <2>2, <2>3
  <1>13. pq = r
    <2>1. Len(pq) = Len(r) /\ \A i \in 1..Len(pq) : pq[i] = r[i]
      BY <1>5, <1>10, <1>11, <1>12
    <2> QED
      BY <1>10, <1>11, <2>1, SeqEqual, Zenon
  <1> QED
    BY <1>13 DEF pq, p, q, r, xy, a, left
-----------------------------------------------------------------------------
(* Locales that are asked for *)

\* The kinds of subtags that are told apart by their length are disjoint.
LEMMA Kinds ==
  /\ Two \cap Three = {} /\ Two \cap Four = {} /\ Two \cap Long = {} /\ Two \cap Code = {}
  /\ Two \cap Dated = {} /\ Two \cap Mixed = {}
  /\ Four \cap Long = {} /\ Four \cap Dated = {} /\ Four \cap Mixed = {} /\ Four \cap Code = {}
  /\ Code \cap Long = {} /\ Code \cap Dated = {} /\ Code \cap Mixed = {}
  /\ Spaced \cap Two = {} /\ Spaced \cap Three = {} /\ Spaced \cap Four = {}
  /\ Spaced \cap Long = {} /\ Spaced \cap Code = {} /\ Spaced \cap Dated = {}
  /\ Spaced \cap Mixed = {}
  /\ "pt" \in Two /\ "pt" \notin Code /\ "en" \in Two
  <1> DEFINE kinds == <<Two, Three, Four, Long, Code, Dated, Mixed, Wrong, Spaced>>
  <1>1. \A i, j \in DOMAIN kinds : i # j => kinds[i] \cap kinds[j] = {}
    BY SubtagAssumption
  <1>2. \A i, j \in 1..9 : i # j => kinds[i] \cap kinds[j] = {}
    BY <1>1
  <1> QED
    BY <1>2, SubtagAssumption

\* The instances have their own names for what is common to both.
LEMMA Shared ==
  /\ P!Posix = Posix /\ C!Posix = Posix /\ P!Letters = Letters /\ C!Letters = Letters
  /\ P!Missing = Missing /\ C!Missing = Missing
  BY DEF P!Posix, C!Posix, P!Letters, C!Letters, P!Missing, C!Missing, Posix, Letters, Missing

\* Python and C normalise alike what C has read.
LEMMA Normalize ==
  ASSUME NEW raw \in Seq(Subtag)
  PROVE  P!NormalizeLocale(raw) = C!Normalized(raw)
  <1> DEFINE region == IF P!IsScript(raw, 2) THEN 3 ELSE 2
             rest == IF P!IsRegion(raw, region) THEN region + 1 ELSE region
             role(i) == CASE i = 1 -> "language" [] i \in 2..(region - 1) -> "script"
                          [] i \in region..(rest - 1) -> "region" [] i >= rest -> "variant"
             Variant == Long \cup Mixed \cup Dated
  <1> USE Shared
  <1>1. DOMAIN raw = 1..Len(raw) /\ Len(raw) \in Nat
    BY LenProperties
  <1>2. CASE raw = <<>> \/ raw \in Posix
    BY <1>2 DEF P!NormalizeLocale, C!Normalized
  <1>3. CASE raw # <<>> /\ raw \notin Posix
    <2>1. 1 \in DOMAIN raw
      BY <1>1, <1>3, EmptySeq
    <2>2. C!SawScript(raw) = region - 2 /\ region \in 2..3 /\ rest \in region..(region + 1)
      BY <1>1 DEF C!SawScript, P!IsScript
    <2>3. \A p \in DOMAIN raw : C!PartRole(raw, p) =
             IF p = 1 THEN IF raw[p] \in Letters THEN "language" ELSE "invalid"
             ELSE IF p < region THEN "script"
             ELSE IF p < rest THEN "region"
             ELSE IF raw[p] \in Variant THEN "variant" ELSE "invalid"
      <3> SUFFICES ASSUME NEW p \in DOMAIN raw
                   PROVE  C!PartRole(raw, p) =
             IF p = 1 THEN IF raw[p] \in Letters THEN "language" ELSE "invalid"
             ELSE IF p < region THEN "script"
             ELSE IF p < rest THEN "region"
             ELSE IF raw[p] \in Variant THEN "variant" ELSE "invalid"
        OBVIOUS
      <3>0. p \in 1..Len(raw) /\ p \in Nat
        BY <1>1
      <3>1. CASE p = 1
        BY <3>1, <2>2 DEF C!PartRole
      <3>2. CASE p # 1 /\ p < region
        <4>1. p = 2 /\ raw[2] \in Four /\ region = 3
          BY <3>0, <3>2, <2>2 DEF P!IsScript
        <4> QED
          BY <4>1, <2>2, Kinds DEF C!PartRole
      <3>3. CASE p # 1 /\ p >= region /\ p < rest
        <4>1. p = region /\ raw[p] \in Two \cup Code
          BY <3>0, <3>3, <2>2 DEF P!IsRegion
        <4>2. ~(p = 2 /\ raw[p] \in Four)
          BY <4>1, Kinds
        <4> QED
          BY <3>3, <4>1, <4>2, <2>2, Kinds DEF C!PartRole
      <3>4. CASE p # 1 /\ p >= rest
        <4>1. ~(p = 2 /\ raw[p] \in Four)
          BY <3>0, <3>4, <2>2 DEF P!IsScript
        <4>2. ~(p = region /\ raw[p] \in Two \cup Code)
          BY <3>0, <3>4, <2>2, <1>1 DEF P!IsRegion
        <4> QED
          BY <3>0, <3>4, <4>1, <4>2, <2>2 DEF C!PartRole
      <3> QED
        BY <3>0, <3>1, <3>2, <3>3, <3>4, <2>2
    <2>4. CASE raw[1] \in Letters /\ \A i \in rest..Len(raw) : raw[i] \in Variant
      <3>1. \A p \in DOMAIN raw : C!PartRole(raw, p) = role(p) /\ role(p) # "invalid"
        BY <2>3, <2>4, <2>2, <1>1
      <3>2. P!NormalizeLocale(raw) = [i \in DOMAIN raw |-> <<role(i), raw[i]>>]
        BY <1>3, <2>4, Zenon DEF P!NormalizeLocale
      <3>3. C!Normalized(raw) = [p \in DOMAIN raw |-> <<C!PartRole(raw, p), raw[p]>>]
        BY <1>3, <3>1, Zenon DEF C!Normalized
      <3> QED
        BY <3>1, <3>2, <3>3
    <2>5. CASE ~(raw[1] \in Letters /\ \A i \in rest..Len(raw) : raw[i] \in Variant)
      <3>1. \E p \in DOMAIN raw : C!PartRole(raw, p) = "invalid"
        BY <2>1, <2>3, <2>5, <2>2, <1>1
      <3>2. P!NormalizeLocale(raw) = Missing
        BY <2>5 DEF P!NormalizeLocale
      <3>3. C!Normalized(raw) = Missing
        BY <3>1 DEF C!Normalized
      <3> QED
        BY <3>2, <3>3
    <2> QED
      BY <2>4, <2>5
  <1> QED
    BY <1>2, <1>3

\* C reads all of a locale without white space inside, and some locale in any case.
LEMMA ReadIs ==
  ASSUME NEW raw \in Seq(Subtag)
  PROVE  /\ C!Read(raw) \in Seq(Subtag)
         /\ (\A i \in DOMAIN raw : raw[i] \notin Spaced) => C!Read(raw) = raw
  <1> DEFINE I == {i \in 1..Len(raw) : raw[i] \in Spaced}
             first == IF I # {} THEN C!Min(I) ELSE 0
  <1>1. Len(raw) \in Nat /\ DOMAIN raw = 1..Len(raw)
    BY LenProperties
  <1>2. C!Read(raw) = IF first = 0 THEN raw
                      ELSE Append(SubSeq(raw, 1, first - 1), Beginning[raw[first]])
    BY Zenon DEF C!Read, C!SelectInSeq
  <1>3. CASE I = {}
    <2>1. first = 0
      BY <1>3
    <2> HIDE DEF first
    <2> QED
      BY <1>2, <2>1
  <1>4. CASE I # {}
    <2>1. first \in I
      <3>1. I \in SUBSET Nat
        BY <1>1
      <3>2. PICK m \in I : \A y \in I : m <= y
        BY <1>4, <3>1, LeastNumber
      <3>3. C!Min(I) \in I
        <4> HIDE DEF I
        <4> QED
          BY <3>2, Zenon DEF C!Min
      <3> QED
        BY <1>4, <3>3
    <2> HIDE DEF first
    <2>2. first \in 1..Len(raw) /\ raw[first] \in Spaced
      BY <2>1
    <2>3. Beginning[raw[first]] \in Subtag
      BY <2>2, BeginningAssumption DEF Subtag
    <2>4. \A i \in 1..(first - 1) : raw[i] \in Subtag
      BY <1>1, <2>2, ElementOfSeq
    <2>5. SubSeq(raw, 1, first - 1) \in Seq(Subtag)
      BY <1>1, <2>2, <2>4, SubSeqProperties
    <2>6. C!Read(raw) = Append(SubSeq(raw, 1, first - 1), Beginning[raw[first]])
      BY <1>2, <2>2
    <2>7. ~\A i \in DOMAIN raw : raw[i] \notin Spaced
      BY <1>1, <2>2
    <2> QED
      BY <2>3, <2>5, <2>6, <2>7, AppendProperties
  <1> QED
    BY <1>3, <1>4, <1>1

\* For Python a locale with white space inside is none.
LEMMA SpacedIsNone ==
  ASSUME NEW raw \in Seq(Subtag), NEW i \in DOMAIN raw, raw[i] \in Spaced
  PROVE  P!NormalizeLocale(raw) = Missing
  <1>1. C!PartRole(raw, i) = "invalid"
    BY Kinds DEF C!PartRole, C!Letters
  <1> QED
    BY <1>1, Normalize, Shared DEF C!Normalized

\* So it is what C makes of the locale that Python accepts.
LEMMA AcceptedAlike ==
  ASSUME NEW raw \in Seq(Subtag)
  PROVE  /\ P!NormalizeLocale(raw) = C!NormalizeLocale(Accepted(raw))
         /\ C!NormalizeLocale(raw) = P!NormalizeLocale(C!Read(raw))
  <1>1. C!NormalizeLocale(raw) = P!NormalizeLocale(C!Read(raw))
    BY ReadIs, Normalize DEF C!NormalizeLocale
  <1>2. CASE \A i \in DOMAIN raw : raw[i] \notin Spaced
    <2>1. Accepted(raw) = raw /\ C!Read(raw) = raw
      BY <1>2, ReadIs DEF Accepted
    <2> QED
      BY <1>1, <2>1
  <1>3. CASE \E i \in DOMAIN raw : raw[i] \in Spaced
    <2>1. Accepted(raw) = <<>> /\ P!NormalizeLocale(raw) = Missing
      BY <1>3, SpacedIsNone DEF Accepted
    <2>2. <<>> \in Seq(Subtag) /\ DOMAIN <<>> = {}
      BY EmptySeq
    <2>3. C!Read(<<>>) = <<>>
      BY <2>2, ReadIs
    <2>4. C!NormalizeLocale(<<>>) = Missing
      BY <2>3, Shared DEF C!NormalizeLocale, C!Normalized
    <2> QED
      BY <1>1, <2>1, <2>4
  <1> QED
    BY <1>2, <1>3

-----------------------------------------------------------------------------
(* Plural categories *)

\* A number and its magnitude in C, for every value of the type.
LEMMA Magnitudes ==
  ASSUME NEW n \in (-IntMax - 1)..IntMax
  PROVE  C!Magnitude(n) = P!Abs(n)
  BY BoundAssumption DEF C!Magnitude, C!Negated, P!Abs

\* Two sets of rules differ in Portuguese only, which asks for the region.
LEMMA SameRules ==
  ASSUME NEW l, NEW r, NEW portugal \in BOOLEAN, l = "pt" => (portugal <=> r = "pt")
  PROVE  P!Rules(l, r) = C!Rules(l, portugal)
  <1>1. \A d : P!LastDigit(d) = C!LastDigit(d) /\ P!LastTwo(d) = C!LastTwo(d)
    BY DEF P!LastDigit, C!LastDigit, P!LastTwo, C!LastTwo
  <1>2. P!SlavicFew = C!LastDigit(2..4) \ C!LastTwo(12..14)
    BY <1>1 DEF P!SlavicFew
  <1>3. (l = "pt" /\ r # "pt") <=> (l = "pt" /\ ~portugal)
    OBVIOUS
  <1> QED
    BY <1>1, <1>2, <1>3 DEF P!Rules, C!Rules

\* A locale whose category is the same for both: Portuguese of Portugal is one only if it
\* has nothing but the language and the region.
Shares(l) ==
    /\ l \in Canonical /\ l # <<>> /\ l[1][1] = "language"
    /\ Len(l) <= 2 \/ ~(l[1][2] = "pt" /\ P!Region(l) = "pt")

\* C finds Portugal where Python does.
LEMMA Regions ==
  ASSUME NEW l, Shares(l), l[1][2] = "pt"
  PROVE  C!Portugal(l) <=> P!Region(l) = "pt"
  <1> DEFINE found == {i \in DOMAIN l : l[i][1] = "region" /\ l[i][2] \in Two}
             pt == <<<<"language", "pt">>, <<"region", "pt">>>>
  <1>1. /\ l \in Seq(Role \X Subtag) /\ Len(l) \in Nat \ {0} /\ DOMAIN l = 1..Len(l)
        /\ \A i \in DOMAIN l : l[i] \in Role \X Subtag
    BY LenProperties, EmptySeq, ElementOfSeq DEF Shares, Canonical
  <1>2. P!Region(l) = IF found = {} THEN "" ELSE l[CHOOSE i \in found : TRUE][2]
    BY DEF P!Region
  <1>3. CASE Len(l) <= 2
    <2>1. found \subseteq {2}
      BY <1>1, <1>3 DEF Shares
    <2>2. found # {} => P!Region(l) = l[2][2] /\ found = {2}
      BY <2>1, <1>2, Zenon
    <2>3. ASSUME C!Portugal(l) PROVE P!Region(l) = "pt"
      <3>1. l = pt
        BY <2>3 DEF C!Portugal
      <3>2. 2 \in found
        BY <3>1, Kinds
      <3> QED
        BY <2>2, <3>1, <3>2
    <2>4. ASSUME P!Region(l) = "pt" PROVE C!Portugal(l)
      <3>1. found = {2} /\ l[2][2] = "pt" /\ l[2][1] = "region"
        BY <2>2, <2>4, <1>2
      <3>2. Len(l) = 2 /\ l[2] = <<"region", "pt">> /\ l[1] = <<"language", "pt">>
        BY <1>1, <1>3, <3>1 DEF Shares
      <3>3. pt \in Seq(Role \X Subtag) /\ Len(pt) = 2
        BY Kinds DEF Role, Subtag, Unspaced, Letters
      <3>4. l = pt
        BY <1>1, <3>2, <3>3, SeqEqual
      <3> QED
        BY <3>4 DEF C!Portugal
    <2> QED
      BY <2>3, <2>4
  <1>4. CASE ~(Len(l) <= 2)
    <2>1. P!Region(l) # "pt"
      BY <1>4 DEF Shares
    <2>2. Len(pt) = 2
      OBVIOUS
    <2>3. Len(l) # 2
      BY <1>1, <1>4
    <2>4. l # pt
      <3> HIDE DEF pt
      <3> QED
        BY <2>2, <2>3
    <2> QED
      BY <2>1, <2>4 DEF C!Portugal
  <1> QED
    BY <1>3, <1>4

\* A number has one plural category, in C and in Python, for every locale that is shared;
\* beyond what Python accepts it has none there.
LEMMA SameCategory ==
  ASSUME NEW l, l = Missing \/ Shares(l), NEW n \in (-IntMax - 1)..IntMax
  PROVE  /\ C!PluralCategory(l, n) = P!CategoryOf(l, P!Abs(n))
         /\ P!PluralCategory(l, n) =
                IF n \in P!Countable THEN C!PluralCategory(l, n) ELSE "ValueError"
  <1> USE Shared
  <1> DEFINE rules == IF l = Missing THEN P!Rules("en", "") ELSE P!Rules(l[1][2], P!Region(l))
  <1>1. rules = IF l = Missing THEN C!Rules("en", FALSE) ELSE C!Rules(l[1][2], C!Portugal(l))
    <2>1. P!Rules("en", "") = C!Rules("en", FALSE)
      BY SameRules, Zenon
    <2>2. CASE l # Missing
      <3>1. C!Portugal(l) \in BOOLEAN
        BY DEF C!Portugal
      <3>2. l[1][2] = "pt" => (C!Portugal(l) <=> P!Region(l) = "pt")
        BY <2>2, Regions
      <3> QED
        BY <2>2, <3>1, <3>2, SameRules
    <2> QED
      BY <2>1, <2>2, Zenon
  <1> HIDE DEF rules
  <1>2. C!Magnitude(n) = P!Abs(n)
    BY Magnitudes
  <1>3. P!CategoryOf(l, P!Abs(n)) =
           LET form == P!SelectInSeq(rules, LAMBDA r : P!Abs(n) \in r[2])
           IN  IF form = 0 THEN "other" ELSE rules[form][1]
    BY DEF P!CategoryOf, rules
  <1>4. C!PluralCategory(l, n) =
           LET form == C!SelectInSeq(rules, LAMBDA r : C!Magnitude(n) \in r[2])
           IN  IF form = 0 THEN "other" ELSE rules[form][1]
    BY <1>1 DEF C!PluralCategory
  <1>5. P!SelectInSeq(rules, LAMBDA r : P!Abs(n) \in r[2]) =
           C!SelectInSeq(rules, LAMBDA r : C!Magnitude(n) \in r[2])
    BY <1>2 DEF P!SelectInSeq, C!SelectInSeq, P!Min, C!Min
  <1>6. C!PluralCategory(l, n) = P!CategoryOf(l, P!Abs(n))
    BY <1>3, <1>4, <1>5
  <1> QED
    BY <1>6 DEF P!PluralCategory

-----------------------------------------------------------------------------
(* The chain *)

Grows(s, D, k) ==
    k = [n \in 0..Len(s) |-> IF n = 0 THEN <<>>
                             ELSE IF s[n] \in D THEN Append(k[n - 1], s[n]) ELSE k[n - 1]]

\* The loop over the prefixes of a locale has a result.
LEMMA GrowsSome ==
  ASSUME NEW S, NEW s \in Seq(S), NEW D
  PROVE  \E k : Grows(s, D, k)
  <1> DEFINE step == [n \in Nat |-> [v \in Seq(S) |->
                         IF n + 1 \in 1..Len(s) /\ s[n + 1] \in D THEN Append(v, s[n + 1]) ELSE v]]
  <1>1. step \in [Nat -> [Seq(S) -> Seq(S)]]
    BY ElementOfSeq, AppendProperties
  <1>2. <<>> \in Seq(S) /\ Len(s) \in Nat
    BY EmptySeq, LenProperties
  <1>3. PICK f \in [Nat -> Seq(S)] : f[0] = <<>> /\ \A n \in Nat : f[n + 1] = step[n][f[n]]
    <2> HIDE DEF step
    <2>1. PICK f : Recurs(Seq(S), <<>>, step, f)
      BY <1>1, <1>2, NumbersRecur, Zenon
    <2> QED
      BY <2>1, Zenon DEF Recurs
  <1> DEFINE k == [n \in 0..Len(s) |-> f[n]]
  <1>4. \A n \in 0..Len(s) :
           k[n] = IF n = 0 THEN <<>> ELSE IF s[n] \in D THEN Append(k[n - 1], s[n]) ELSE k[n - 1]
    <2> SUFFICES ASSUME NEW n \in 0..Len(s), n # 0
                 PROVE  k[n] = IF s[n] \in D THEN Append(k[n - 1], s[n]) ELSE k[n - 1]
      BY <1>3, Zenon
    <2>1. n - 1 \in Nat /\ n - 1 \in 0..Len(s) /\ (n - 1) + 1 = n /\ n \in 1..Len(s)
      BY <1>2
    <2>2. f[n] = step[n - 1][f[n - 1]] /\ f[n - 1] \in Seq(S)
      BY <1>3, <2>1, Zenon
    <2> QED
      BY <2>1, <2>2, Zenon
  <1>5. Grows(s, D, k)
    <2> HIDE DEF k
    <2>1. k = [n \in 0..Len(s) |-> k[n]]
      BY DEF k
    <2> QED
      BY <1>4, <2>1, Zenon DEF Grows
  <1> QED
    BY <1>5

\* The result is Available().
LEMMA AvailableGrows ==
  ASSUME NEW S, NEW s \in Seq(S), NEW cat
  PROVE  \E k : Grows(s, DOMAIN cat.messages, k) /\ P!Available(s, cat) = k[Len(s)]
  <1> DEFINE k == CHOOSE k : Grows(s, DOMAIN cat.messages, k)
  <1>1. Grows(s, DOMAIN cat.messages, k)
    BY GrowsSome
  <1>2. P!Available(s, cat) = k[Len(s)]
    BY DEF P!Available, Grows
  <1> QED
    BY <1>1, <1>2, Zenon

\* What is kept of the first n.
Keeps(S, s, D, k, n) ==
    /\ k[n] \in Seq(S)
    /\ \A x : (\E j \in 1..Len(k[n]) : k[n][j] = x) <=> x \in D /\ \E i \in 1..n : s[i] = x

\* Of those looked for, the first is still the first.
Leads(H, x, k, n) ==
    \E f \in 1..Len(k[n]) : k[n][f] = x /\ \A j \in 1..(f - 1) : k[n][j] \notin H

GrowsBy(s, D, k) ==
    /\ k[0] = <<>>
    /\ \A n \in Nat : n + 1 <= Len(s) =>
          k[n + 1] = IF s[n + 1] \in D THEN Append(k[n], s[n + 1]) ELSE k[n]

\* Each step of the loop adds at most one locale.
LEMMA GrowsByOne ==
  ASSUME NEW S, NEW s \in Seq(S), NEW D, NEW k, Grows(s, D, k)
  PROVE  GrowsBy(s, D, k)
  <1>1. Len(s) \in Nat /\ 0 \in 0..Len(s)
    BY LenProperties
  <1>2. \A n \in 0..Len(s) : k[n] = IF n = 0 THEN <<>>
                                    ELSE IF s[n] \in D THEN Append(k[n - 1], s[n]) ELSE k[n - 1]
    BY Zenon DEF Grows
  <1>3. k[0] = <<>>
    BY <1>1, <1>2
  <1>4. ASSUME NEW n \in Nat, n + 1 <= Len(s)
        PROVE  k[n + 1] = IF s[n + 1] \in D THEN Append(k[n], s[n + 1]) ELSE k[n]
    <2>1. n + 1 \in 0..Len(s) /\ n + 1 # 0 /\ (n + 1) - 1 = n
      BY <1>1, <1>4
    <2> QED
      BY <1>2, <2>1
  <1> QED
    BY <1>3, <1>4 DEF GrowsBy

\* What the loop keeps is kept in one more step.
LEMMA KeepsStep ==
  ASSUME NEW S, NEW s \in Seq(S), NEW D, NEW k, GrowsBy(s, D, k),
         NEW n \in Nat, n + 1 <= Len(s), Keeps(S, s, D, k, n)
  PROVE  /\ Keeps(S, s, D, k, n + 1)
         /\ s[n + 1] \in D => /\ Len(k[n + 1]) = Len(k[n]) + 1 /\ Len(k[n]) \in Nat
                              /\ \A j \in 1..Len(k[n]) : k[n + 1][j] = k[n][j]
                              /\ k[n + 1][Len(k[n]) + 1] = s[n + 1]
  <1>1. Len(s) \in Nat /\ n + 1 \in 1..Len(s) /\ s[n + 1] \in S
    BY LenProperties, ElementOfSeq
  <1>2. k[n] \in Seq(S) /\ Len(k[n]) \in Nat
    BY LenProperties DEF Keeps
  <1>3. k[n + 1] = IF s[n + 1] \in D THEN Append(k[n], s[n + 1]) ELSE k[n]
    BY DEF GrowsBy
  <1>4. \A x : (\E i \in 1..(n + 1) : s[i] = x) <=> (\E i \in 1..n : s[i] = x) \/ s[n + 1] = x
    OBVIOUS
  <1>5. CASE s[n + 1] \in D
    <2>1. /\ k[n + 1] \in Seq(S) /\ Len(k[n + 1]) = Len(k[n]) + 1
          /\ \A j \in 1..Len(k[n]) : k[n + 1][j] = k[n][j]
          /\ k[n + 1][Len(k[n]) + 1] = s[n + 1]
      <3> DEFINE old == k[n]
                 last == s[n + 1]
                 new == Append(old, last)
      <3>1. old \in Seq(S) /\ last \in S /\ k[n + 1] = new
        BY <1>1, <1>2, <1>3, <1>5
      <3> HIDE DEF old, last
      <3>2. /\ new \in Seq(S) /\ Len(new) = Len(old) + 1
            /\ \A j \in 1..Len(old) : new[j] = old[j]
            /\ new[Len(old) + 1] = last
        BY <3>1, AppendProperties
      <3> HIDE DEF new
      <3> QED
        BY <3>1, <3>2, Zenon DEF old, last
    <2>2. \A x : (\E j \in 1..Len(k[n + 1]) : k[n + 1][j] = x)
                    <=> (\E j \in 1..Len(k[n]) : k[n][j] = x) \/ s[n + 1] = x
      <3> DEFINE m == Len(k[n])
                 old == k[n]
                 new == k[n + 1]
      <3>1. m \in Nat /\ 1..(m + 1) = 1..m \cup {m + 1}
        BY <1>2
      <3>2. (\A j \in 1..m : new[j] = old[j]) /\ new[m + 1] = s[n + 1] /\ Len(new) = m + 1
        BY <2>1
      <3> HIDE DEF m, old, new
      <3>3. \A x : (\E j \in 1..Len(new) : new[j] = x)
                      <=> (\E j \in 1..m : old[j] = x) \/ s[n + 1] = x
        BY <3>1, <3>2, Zenon
      <3> QED
        BY <3>3, Zenon DEF m, old, new
    <2>3. Keeps(S, s, D, k, n + 1)
      BY <1>4, <1>5, <2>1, <2>2, Zenon DEF Keeps
    <2> QED
      BY <1>2, <2>1, <2>3
  <1>6. CASE s[n + 1] \notin D
    <2>1. Keeps(S, s, D, k, n + 1)
      BY <1>3, <1>4, <1>6 DEF Keeps
    <2> QED
      BY <1>6, <2>1
  <1> QED
    BY <1>5, <1>6

\* The loop keeps it to the end.
LEMMA KeepsAll ==
  ASSUME NEW S, NEW s \in Seq(S), NEW D, NEW k, GrowsBy(s, D, k)
  PROVE  \A n \in 0..Len(s) : Keeps(S, s, D, k, n)
  <1> DEFINE T == {n \in Nat : n <= Len(s) => Keeps(S, s, D, k, n)}
  <1>1. 0 \in T
    <2>1. <<>> \in Seq(S) /\ Len(<<>>) = 0
      BY EmptySeq
    <2>2. Keeps(S, s, D, k, 0)
      BY <2>1 DEF Keeps, GrowsBy
    <2> QED
      BY <2>2
  <1>2. ASSUME NEW n \in Nat, n \in T PROVE n + 1 \in T
    <2>1. n + 1 <= Len(s) => Keeps(S, s, D, k, n)
      BY <1>2, LenProperties
    <2>2. n + 1 <= Len(s) => Keeps(S, s, D, k, n + 1)
      BY <2>1, KeepsStep
    <2> QED
      BY <2>2
  <1> HIDE DEF T
  <1>3. Nat \subseteq T
    BY <1>1, <1>2, NumbersInduce
  <1> QED
    BY <1>3, LenProperties DEF T

\* The first locale in H that the loop meets is the first of its result.
LEMMA LeadsAll ==
  ASSUME NEW S, NEW s \in Seq(S), NEW D, NEW k, GrowsBy(s, D, k), NEW H \in SUBSET D,
         NEW i \in 1..Len(s), s[i] \in H, \A j \in 1..(i - 1) : s[j] \notin H
  PROVE  Leads(H, s[i], k, Len(s))
  <1> DEFINE T == {n \in Nat : i <= n /\ n <= Len(s) => Leads(H, s[i], k, n)}
  <1>0. Len(s) \in Nat /\ i \in Nat /\ i # 0
    BY LenProperties
  <1>1. 0 \in T
    BY <1>0
  <1>2. ASSUME NEW n \in Nat, n \in T, i <= n + 1, n + 1 <= Len(s) PROVE Leads(H, s[i], k, n + 1)
    <2>1. Keeps(S, s, D, k, n)
      BY <1>0, <1>2, KeepsAll
    <2>2. CASE s[n + 1] \notin D
      <3>1. i <= n /\ k[n + 1] = k[n]
        BY <1>0, <1>2, <2>2 DEF GrowsBy
      <3> QED
        BY <1>2, <3>1, <1>0 DEF Leads
    <2>3. CASE s[n + 1] \in D
      <3>1. /\ Len(k[n + 1]) = Len(k[n]) + 1 /\ Len(k[n]) \in Nat
            /\ \A j \in 1..Len(k[n]) : k[n + 1][j] = k[n][j]
            /\ k[n + 1][Len(k[n]) + 1] = s[n + 1]
        BY <1>2, <2>1, <2>3, KeepsStep
      <3>2. CASE i = n + 1
        <4>1. \A j \in 1..n : s[j] \notin H
          BY <3>2
        <4>2. \A j \in 1..Len(k[n]) : k[n][j] \notin H
          BY <2>1, <4>1, Zenon DEF Keeps
        <4>3. \A j \in 1..((Len(k[n]) + 1) - 1) : k[n + 1][j] \notin H
          <5>1. 1..((Len(k[n]) + 1) - 1) = 1..Len(k[n])
            BY <3>1
          <5>2. \A j \in 1..Len(k[n]) : k[n + 1][j] \notin H
            BY <3>1, <4>2, Zenon
          <5> QED
            BY <5>1, <5>2, Zenon
        <4> DEFINE f == Len(k[n]) + 1
        <4>4. f \in 1..Len(k[n + 1]) /\ k[n + 1][f] = s[i] /\ \A j \in 1..(f - 1) : k[n + 1][j] \notin H
          BY <3>1, <3>2, <4>3
        <4> HIDE DEF f
        <4> QED
          BY <4>4, Zenon DEF Leads
      <3>3. CASE i # n + 1
        <4>1. Leads(H, s[i], k, n)
          BY <1>0, <1>2, <3>3
        <4>2. PICK f \in 1..Len(k[n]) : k[n][f] = s[i] /\ \A j \in 1..(f - 1) : k[n][j] \notin H
          BY <4>1 DEF Leads
        <4>3. f \in 1..Len(k[n + 1]) /\ k[n + 1][f] = s[i]
          BY <3>1, <4>2
        <4>4. ASSUME NEW j \in 1..(f - 1) PROVE k[n + 1][j] \notin H
          <5>1. j \in 1..Len(k[n])
            BY <3>1
          <5> QED
            BY <3>1, <4>2, <5>1, Zenon
        <4> QED
          BY <4>3, <4>4, Zenon DEF Leads
      <3> QED
        BY <3>2, <3>3
    <2> QED
      BY <2>2, <2>3
  <1>3. \A n \in Nat : n \in T => n + 1 \in T
    BY <1>2
  <1> HIDE DEF T
  <1>4. Len(s) \in T
    BY <1>0, <1>1, <1>3, NumbersInduce
  <1> QED
    BY <1>0, <1>4 DEF T

\* A filtered chain has what is in the catalog, and leads to what the chain led to.
LEMMA AvailableKeeps ==
  ASSUME NEW S, NEW s \in Seq(S), NEW cat, NEW H \in SUBSET DOMAIN cat.messages
  PROVE  LET a == P!Available(s, cat)
         IN  /\ a \in Seq(S)
             /\ \A x : (\E j \in DOMAIN a : a[j] = x)
                          <=> x \in DOMAIN cat.messages /\ \E i \in DOMAIN s : s[i] = x
             /\ \A i \in DOMAIN s : s[i] \in H /\ (\A j \in 1..(i - 1) : s[j] \notin H) =>
                    \E f \in DOMAIN a : a[f] = s[i] /\ \A j \in 1..(f - 1) : a[j] \notin H
  <1> DEFINE D == DOMAIN cat.messages
  <1>1. PICK k : Grows(s, D, k) /\ P!Available(s, cat) = k[Len(s)]
    BY AvailableGrows
  <1>2. GrowsBy(s, D, k)
    BY <1>1, GrowsByOne
  <1>3. Len(s) \in Nat /\ DOMAIN s = 1..Len(s)
    BY LenProperties
  <1>4. Keeps(S, s, D, k, Len(s))
    BY <1>2, <1>3, KeepsAll
  <1>5. DOMAIN k[Len(s)] = 1..Len(k[Len(s)])
    BY <1>4, LenProperties DEF Keeps
  <1>6. ASSUME NEW i \in DOMAIN s, s[i] \in H, \A j \in 1..(i - 1) : s[j] \notin H
        PROVE  Leads(H, s[i], k, Len(s))
    BY <1>2, <1>3, <1>6, LeadsAll
  <1> QED
    BY <1>1, <1>3, <1>4, <1>5, <1>6, Zenon DEF Keeps, Leads
-----------------------------------------------------------------------------
(* The chain and the walk over it *)

\* The candidates of a locale: up to its language, and the default.
LEMMA Candidates ==
  ASSUME NEW locale \in Canonical, NEW default \in Canonical
  PROVE  LET c == P!LocaleCandidates(locale, default)
             n == Len(locale)
         IN  /\ c \in Seq(Canonical) /\ n \in Nat /\ Len(c) \in {n, n + 1}
             /\ \A i \in 1..n : c[i] = SubSeq(locale, 1, n - i + 1)
             /\ Len(c) = n => \E i \in 1..n : c[i] = default
             /\ Len(c) = n + 1 => c[n + 1] = default
  <1> DEFINE n == Len(locale)
             p == P!Parents(locale)
  <1>1. n \in Nat /\ DOMAIN locale = 1..n
    BY LenProperties DEF Canonical
  <1>2. \A i \in 1..n : SubSeq(locale, 1, n - i + 1) \in Canonical
    <2> SUFFICES ASSUME NEW i \in 1..n PROVE SubSeq(locale, 1, n - i + 1) \in Canonical
      OBVIOUS
    <2>1. n - i + 1 \in Int /\ \A j \in 1..(n - i + 1) : j \in 1..n
      BY <1>1
    <2>2. \A j \in 1..n : locale[j] \in Role \X Subtag
      BY ElementOfSeq DEF Canonical
    <2> QED
      BY <2>1, <2>2, SubSeqProperties DEF Canonical
  <1>3. p \in Seq(Canonical) /\ Len(p) = n /\ \A i \in 1..n : p[i] = SubSeq(locale, 1, n - i + 1)
    <2>1. p = [i \in 1..n |-> SubSeq(locale, 1, n - i + 1)]
      BY <1>1 DEF P!Parents
    <2>2. p \in Seq(Canonical)
      <3> DEFINE e(i) == SubSeq(locale, 1, n - i + 1)
      <3>1. \A i \in 1..n : e(i) \in Canonical
        BY <1>2
      <3> QED
        BY <1>1, <2>1, <3>1
    <2> QED
      BY <1>1, <2>1, <2>2
  <1> HIDE DEF n, p
  <1>4. CASE P!Contains(p, default)
    <2>1. P!LocaleCandidates(locale, default) = p
      BY <1>4 DEF P!LocaleCandidates, p
    <2>2. \E i \in 1..Len(p) : p[i] = default
      BY <1>4 DEF P!Contains
    <2> QED
      BY <1>1, <1>3, <2>1, <2>2 DEF n
  <1>5. CASE ~P!Contains(p, default)
    <2>1. P!LocaleCandidates(locale, default) = Append(p, default)
      BY <1>5 DEF P!LocaleCandidates, p
    <2>2. /\ Append(p, default) \in Seq(Canonical) /\ Len(Append(p, default)) = n + 1
          /\ \A i \in 1..n : Append(p, default)[i] = p[i]
          /\ Append(p, default)[n + 1] = default
      BY <1>3, AppendProperties
    <2> DEFINE q == Append(p, default)
    <2> HIDE DEF q
    <2>3. /\ n \in Nat /\ Len(q) = n + 1 /\ q \in Seq(Canonical) /\ q[n + 1] = default
          /\ P!LocaleCandidates(locale, default) = q
          /\ \A i \in 1..n : q[i] = SubSeq(locale, 1, n - i + 1)
      BY <1>1, <1>3, <2>1, <2>2 DEF q
    <2>4. n # n + 1 /\ Len(q) # n /\ Len(q) \in {n, n + 1}
      BY <2>3
    <2> QED
      BY <2>3, <2>4 DEF n
  <1> QED
    BY <1>4, <1>5

\* In a, x is the first one of H.
LeadsTo(H, x, a) == \E f \in DOMAIN a : a[f] = x /\ \A j \in 1..(f - 1) : a[j] \notin H

\* The chain is made of the prefixes of the locale that have messages, and the default.
LEMMA ChainHas ==
  ASSUME NEW locale \in Canonical, NEW cat, cat.default \in Canonical,
         cat.default \in DOMAIN cat.messages
  PROVE  LET a == P!Chain(locale, cat)
         IN  /\ a \in Seq(Canonical)
             /\ {a[i] : i \in DOMAIN a} =
                   ({SubSeq(locale, 1, n) : n \in DOMAIN locale} \cap DOMAIN cat.messages)
                      \cup {cat.default}
  <1> DEFINE c == P!LocaleCandidates(locale, cat.default)
             a == P!Available(c, cat)
             n == Len(locale)
  <1>0. n \in Nat /\ Len(c) \in {n, n + 1}
    BY Candidates
  <1>1. /\ c \in Seq(Canonical)
        /\ \A i \in 1..n : c[i] = SubSeq(locale, 1, n - i + 1)
        /\ Len(c) = n => \E i \in 1..n : c[i] = cat.default
        /\ Len(c) = n + 1 => c[n + 1] = cat.default
    BY Candidates, Zenon
  <1>2. DOMAIN locale = 1..n
    BY LenProperties DEF Canonical
  <1>a. DOMAIN c = 1..Len(c)
    BY <1>1, LenProperties
  <1> HIDE DEF c, n
  <1>b. /\ n \in Nat /\ 1..n \subseteq DOMAIN c
        /\ \A i \in DOMAIN c : i \notin 1..n => i = n + 1 /\ Len(c) = n + 1
        /\ Len(c) = n + 1 => n + 1 \in DOMAIN c
    <2>1. CASE Len(c) = n
      BY <1>0, <1>a, <2>1
    <2>2. CASE Len(c) = n + 1
      BY <1>0, <1>a, <2>2
    <2> QED
      BY <1>0, <2>1, <2>2
  <1>c. \A i \in 1..n : n - i + 1 \in 1..n /\ n - (n - i + 1) + 1 = i
    BY <1>b
  <1>3. /\ a \in Seq(Canonical)
        /\ \A x : (\E j \in DOMAIN a : a[j] = x)
                     <=> x \in DOMAIN cat.messages /\ \E i \in DOMAIN c : c[i] = x
    <2>1. {} \in SUBSET DOMAIN cat.messages
      OBVIOUS
    <2> QED
      BY <1>1, <2>1, AvailableKeeps, Zenon
  <1>4. \A x : (\E i \in DOMAIN c : c[i] = x)
                  <=> x = cat.default \/ \E m \in 1..n : x = SubSeq(locale, 1, m)
    <2>1. ASSUME NEW m \in 1..n PROVE \E i \in DOMAIN c : c[i] = SubSeq(locale, 1, m)
      <3>1. c[n - m + 1] = SubSeq(locale, 1, m)
        BY <1>1, <1>c, Zenon
      <3> QED
        BY <1>b, <1>c, <3>1
    <2>2. \E i \in DOMAIN c : c[i] = cat.default
      BY <1>0, <1>1, <1>b, Zenon
    <2>3. ASSUME NEW i \in DOMAIN c PROVE c[i] = cat.default \/ \E m \in 1..n : c[i] = SubSeq(locale, 1, m)
      <3>1. CASE i \in 1..n
        BY <1>1, <1>c, <3>1, Zenon
      <3>2. CASE i \notin 1..n
        BY <1>1, <1>b, <3>2
      <3> QED
        BY <3>1, <3>2
    <2> QED
      BY <2>1, <2>2, <2>3
  <1> HIDE DEF a
  <1>5. {a[i] : i \in DOMAIN a} =
           ({SubSeq(locale, 1, m) : m \in 1..n} \cap DOMAIN cat.messages) \cup {cat.default}
    BY <1>3, <1>4, Zenon
  <1>6. P!Chain(locale, cat) = a
    BY DEF P!Chain, a, c
  <1>7. {SubSeq(locale, 1, m) : m \in 1..n} = {SubSeq(locale, 1, m) : m \in DOMAIN locale}
    BY <1>2
  <1> QED
    BY <1>3, <1>5, <1>6, <1>7, ZenonT(60)

\* The chain leads to the longest of the locale and its parents that is one of H, and else
\* to the default.
LEMMA ChainLeads ==
  ASSUME NEW locale \in Canonical, NEW cat, cat.default \in Canonical,
         NEW H \in SUBSET DOMAIN cat.messages
  PROVE  LET a == P!Chain(locale, cat)
             n == Len(locale)
         IN  /\ \A m \in 1..n : /\ SubSeq(locale, 1, m) \in H
                                /\ \A j \in (m + 1)..n : SubSeq(locale, 1, j) \notin H
                                => LeadsTo(H, SubSeq(locale, 1, m), a)
             /\ (\A m \in 1..n : SubSeq(locale, 1, m) \notin H) =>
                   IF cat.default \in H THEN LeadsTo(H, cat.default, a)
                                        ELSE \A f \in DOMAIN a : a[f] \notin H
  <1> DEFINE c == P!LocaleCandidates(locale, cat.default)
             a == P!Available(c, cat)
             n == Len(locale)
  <1>0. n \in Nat /\ Len(c) \in {n, n + 1}
    BY Candidates
  <1>1. /\ c \in Seq(Canonical)
        /\ \A i \in 1..n : c[i] = SubSeq(locale, 1, n - i + 1)
        /\ Len(c) = n => \E i \in 1..n : c[i] = cat.default
        /\ Len(c) = n + 1 => c[n + 1] = cat.default
    BY Candidates, Zenon
  <1>a. DOMAIN c = 1..Len(c)
    BY <1>1, LenProperties
  <1> HIDE DEF c, n
  <1>b. /\ n \in Nat /\ 1..n \subseteq DOMAIN c
        /\ \A i \in DOMAIN c : i \notin 1..n => i = n + 1 /\ Len(c) = n + 1
        /\ Len(c) = n + 1 => n + 1 \in DOMAIN c
    <2>1. CASE Len(c) = n
      BY <1>0, <1>a, <2>1
    <2>2. CASE Len(c) = n + 1
      BY <1>0, <1>a, <2>2
    <2> QED
      BY <1>0, <2>1, <2>2
  <1>c. \A i \in 1..n : n - i + 1 \in 1..n /\ n - (n - i + 1) + 1 = i
    BY <1>b
  <1>3. P!Chain(locale, cat) = a
    BY DEF P!Chain, c
  <1>4. /\ \A x : (\E j \in DOMAIN a : a[j] = x)
                     <=> x \in DOMAIN cat.messages /\ \E i \in DOMAIN c : c[i] = x
        /\ \A i \in DOMAIN c : c[i] \in H /\ (\A j \in 1..(i - 1) : c[j] \notin H) =>
               LeadsTo(H, c[i], a)
    BY <1>1, AvailableKeeps, Zenon DEF LeadsTo
  <1> HIDE DEF a
  <1>5. ASSUME NEW m \in 1..n, SubSeq(locale, 1, m) \in H,
               \A j \in (m + 1)..n : SubSeq(locale, 1, j) \notin H
        PROVE  LeadsTo(H, SubSeq(locale, 1, m), a)
    <2> DEFINE i == n - m + 1
    <2>1. i \in 1..n /\ n - i + 1 = m /\ i \in DOMAIN c
      BY <1>b, <1>c
    <2>2. c[i] = SubSeq(locale, 1, m)
      BY <1>1, <2>1
    <2>3. ASSUME NEW j \in 1..(i - 1) PROVE c[j] \notin H
      <3>1. j \in 1..n /\ n - j + 1 \in (m + 1)..n
        BY <1>b
      <3> QED
        BY <1>1, <1>5, <3>1, Zenon
    <2> HIDE DEF i
    <2> QED
      BY <1>4, <1>5, <2>1, <2>2, <2>3, Zenon
  <1>6. ASSUME \A m \in 1..n : SubSeq(locale, 1, m) \notin H
        PROVE  /\ \A i \in 1..n : c[i] \notin H
               /\ cat.default \in H => LeadsTo(H, cat.default, a)
               /\ cat.default \notin H => \A f \in DOMAIN a : a[f] \notin H
    <2>1. \A i \in 1..n : c[i] \notin H
      BY <1>1, <1>6, <1>c, Zenon
    <2>2. ASSUME cat.default \in H PROVE LeadsTo(H, cat.default, a)
      <3>1. Len(c) = n + 1 /\ c[n + 1] = cat.default
        BY <1>0, <1>1, <2>1, <2>2
      <3>2. n + 1 \in DOMAIN c /\ \A j \in 1..((n + 1) - 1) : c[j] \notin H
        BY <1>b, <2>1, <3>1
      <3> QED
        BY <1>4, <2>2, <3>1, <3>2
    <2>3. ASSUME cat.default \notin H PROVE \A i \in DOMAIN c : c[i] \notin H
      <3>1. ASSUME NEW i \in DOMAIN c, i \notin 1..n PROVE c[i] = cat.default
        BY <1>1, <1>b, <3>1
      <3> QED
        BY <2>1, <2>3, <3>1
    <2> QED
      BY <1>4, <2>1, <2>2, <2>3
  <1>7. /\ \A m \in 1..n : /\ SubSeq(locale, 1, m) \in H
                           /\ \A j \in (m + 1)..n : SubSeq(locale, 1, j) \notin H
                           => LeadsTo(H, SubSeq(locale, 1, m), a)
        /\ (\A m \in 1..n : SubSeq(locale, 1, m) \notin H) =>
              IF cat.default \in H THEN LeadsTo(H, cat.default, a)
                                   ELSE \A f \in DOMAIN a : a[f] \notin H
    BY <1>5, <1>6
  <1> QED
    BY <1>3, <1>7 DEF n

-----------------------------------------------------------------------------
(* What a lookup walks over *)

Goes(n, u, w) ==
    w = [i \in 0..n |-> IF C!NoSeparator(i) THEN u[0] ELSE IF u[i] # C!Missing THEN u[i] ELSE w[i - 1]]

\* The walk of the C lookup from the default up to the locale has a result.
LEMMA GoesSome ==
  ASSUME NEW n \in Nat, NEW V, NEW u \in [0..n -> V]
  PROVE  \E w : Goes(n, u, w)
  <1> DEFINE step == [i \in Nat |-> [v \in V |->
                         IF i + 1 <= n /\ u[i + 1] # <<>> THEN u[i + 1] ELSE v]]
  <1>1. step \in [Nat -> [V -> V]]
    OBVIOUS
  <1>2. u[0] \in V
    OBVIOUS
  <1>3. PICK f : Recurs(V, u[0], step, f)
    <2> HIDE DEF step
    <2> QED
      BY <1>1, <1>2, NumbersRecur
  <1>4. f \in [Nat -> V] /\ f[0] = u[0] /\ \A i \in Nat : f[i + 1] = step[i][f[i]]
    <2> HIDE DEF step
    <2> QED
      BY <1>3, Zenon DEF Recurs
  <1> DEFINE w == [i \in 0..n |-> f[i]]
  <1>5. \A i \in 0..n : w[i] = IF i = 0 THEN u[0] ELSE IF u[i] # <<>> THEN u[i] ELSE w[i - 1]
    <2> SUFFICES ASSUME NEW i \in 0..n, i # 0
                 PROVE  w[i] = IF u[i] # <<>> THEN u[i] ELSE w[i - 1]
      BY <1>4
    <2>1. i - 1 \in Nat /\ i - 1 \in 0..n /\ (i - 1) + 1 = i /\ i <= n
      OBVIOUS
    <2>2. f[i] = step[i - 1][f[i - 1]] /\ f[i - 1] \in V
      BY <1>4, <2>1, Zenon
    <2> QED
      BY <2>1, <2>2
  <1>6. Goes(n, u, w)
    <2> HIDE DEF w
    <2>1. w = [i \in 0..n |-> w[i]]
      BY DEF w
    <2> QED
      BY <1>5, <2>1, Shared, Zenon DEF Goes, C!NoSeparator, Missing
  <1> QED
    BY <1>6

\* Where a walk from n ends: at the last one that is found, or at the default.
Ends(n, u, w) ==
    \/ \E m \in 1..n : /\ u[m] # <<>> /\ w[n] = u[m]
                       /\ \A j \in (m + 1)..n : u[j] = <<>>
    \/ (\A m \in 1..n : u[m] = <<>>) /\ w[n] = u[0]

\* The walk ends at the longest prefix with a text, or else at the default.
LEMMA GoesEnds ==
  ASSUME NEW n \in Nat, NEW u, NEW w, Goes(n, u, w)
  PROVE  Ends(n, u, w)
  <1> DEFINE T == {i \in Nat : i <= n => Ends(i, u, w)}
  <1>1. \A i \in 0..n : w[i] = IF i = 0 THEN u[0] ELSE IF u[i] # <<>> THEN u[i] ELSE w[i - 1]
    BY Shared DEF Goes, C!NoSeparator, Missing
  <1>2. 0 \in T
    <2>1. w[0] = u[0]
      BY <1>1
    <2> QED
      BY <2>1 DEF Ends
  <1>3. ASSUME NEW i \in Nat, i \in T PROVE i + 1 \in T
    <2> SUFFICES ASSUME i + 1 <= n PROVE Ends(i + 1, u, w)
      OBVIOUS
    <2>1. w[i + 1] = IF u[i + 1] # <<>> THEN u[i + 1] ELSE w[i]
      <3>1. i + 1 \in 0..n /\ i + 1 # 0 /\ (i + 1) - 1 = i
        OBVIOUS
      <3> QED
        BY <1>1, <3>1
    <2>2. Ends(i, u, w)
      BY <1>3
    <2>3. CASE u[i + 1] # <<>>
      BY <2>1, <2>3 DEF Ends
    <2>4. CASE u[i + 1] = <<>>
      <3>1. CASE \E m \in 1..i : u[m] # <<>> /\ w[i] = u[m] /\ \A j \in (m + 1)..i : u[j] = <<>>
        <4>1. PICK m \in 1..i : u[m] # <<>> /\ w[i] = u[m] /\ \A j \in (m + 1)..i : u[j] = <<>>
          BY <3>1
        <4>2. m \in 1..(i + 1) /\ w[i + 1] = u[m] /\ \A j \in (m + 1)..(i + 1) : u[j] = <<>>
          BY <2>1, <2>4, <4>1
        <4> QED
          BY <4>1, <4>2 DEF Ends
      <3>2. CASE (\A m \in 1..i : u[m] = <<>>) /\ w[i] = u[0]
        <4>1. w[i + 1] = u[0] /\ \A m \in 1..(i + 1) : u[m] = <<>>
          BY <2>1, <2>4, <3>2
        <4> QED
          BY <4>1 DEF Ends
      <3> QED
        BY <2>2, <3>1, <3>2 DEF Ends
    <2> QED
      BY <2>3, <2>4
  <1> HIDE DEF T
  <1>4. n \in T
    BY <1>2, <1>3, NumbersInduce
  <1> QED
    BY <1>4 DEF T

\* The modules of both languages mean the same message.
LEMMA SameMessage ==
  ASSUME NEW l, NEW key
  PROVE  /\ P!Message(l, key) = Message(l, key) /\ C!Message(l, key) = Message(l, key)
         /\ Message(l, key) # Missing /\ Message(l, key) # <<>>
  BY DEF P!Message, C!Message, Message, Missing

\* The least of some numbers is one of them.
LEMMA MinIs ==
  ASSUME NEW I \in SUBSET Nat, I # {}
  PROVE  P!Min(I) \in I /\ \A y \in I : P!Min(I) <= y
  <1>1. PICK m \in I : \A y \in I : m <= y
    BY LeastNumber
  <1> QED
    BY <1>1, Zenon DEF P!Min

\* The least of one number is that number.
LEMMA MinOne ==
  ASSUME NEW n \in Nat
  PROVE  P!Min({n}) = n
  BY MinIs

\* The place of the first one that is looked for.
FirstIn(H, a) ==
    LET I == {i \in 1..Len(a) : a[i] \in H}
    IN  IF I # {} THEN P!Min(I) ELSE 0

\* Where the first element of a chain that is in H is.
LEMMA FirstOf ==
  ASSUME NEW S, NEW a \in Seq(S), NEW H
  PROVE  /\ \A x \in H : LeadsTo(H, x, a) => FirstIn(H, a) # 0 /\ a[FirstIn(H, a)] = x
         /\ (\A f \in DOMAIN a : a[f] \notin H) => FirstIn(H, a) = 0
  <1> DEFINE I == {i \in 1..Len(a) : a[i] \in H}
             first == FirstIn(H, a)
  <1>0. first = IF I # {} THEN P!Min(I) ELSE 0
    BY DEF FirstIn
  <1> HIDE DEF first
  <1>1. Len(a) \in Nat /\ DOMAIN a = 1..Len(a)
    BY LenProperties
  <1>2. ASSUME NEW x \in H, LeadsTo(H, x, a)
        PROVE  first # 0 /\ a[first] = x
    <2>1. PICK f \in DOMAIN a : a[f] = x /\ \A j \in 1..(f - 1) : a[j] \notin H
      BY <1>2 DEF LeadsTo
    <2>2. f \in I /\ I \in SUBSET Nat
      BY <1>1, <1>2, <2>1
    <2>3. first = P!Min(I) /\ first \in I /\ first <= f
      BY <1>0, <2>2, MinIs, Zenon
    <2>4. first \notin 1..(f - 1)
      BY <2>1, <2>3
    <2>5. first = f
      BY <1>1, <2>2, <2>3, <2>4
    <2> QED
      BY <1>1, <2>1, <2>5
  <1>3. ASSUME \A f \in DOMAIN a : a[f] \notin H PROVE first = 0
    BY <1>0, <1>1, <1>3
  <1> QED
    BY <1>2, <1>3 DEF first

\* The locales with a message for a key, and with one for a number.
Offers(cat, key) == {l \in DOMAIN cat.messages : key \in cat.messages[l]}
Form(cat, l, n) ==
    IF P!PluralCategory(l, n) \in cat.messages[l] THEN P!PluralCategory(l, n) ELSE "other"
HasForm(cat, n) == {l \in DOMAIN cat.messages : Form(cat, l, n) \in cat.messages[l]}

\* Python returns the text of the first locale of the chain that has one.
LEMMA TextOf ==
  ASSUME NEW cat, NEW a \in Seq(Canonical), \A i \in DOMAIN a : a[i] \in DOMAIN cat.messages,
         NEW key
  PROVE  /\ \A x \in Offers(cat, key) :
               LeadsTo(Offers(cat, key), x, a) => P!Text(cat, a, key) = Message(x, key)
         /\ (\A f \in DOMAIN a : a[f] \notin Offers(cat, key)) => P!Text(cat, a, key) = Missing
  <1> DEFINE H == Offers(cat, key)
             I == {i \in 1..Len(a) : a[i] \in H}
             first == FirstIn(H, a)
  <1>1. DOMAIN a = 1..Len(a)
    BY LenProperties
  <1>2. {i \in 1..Len(a) : \E j \in DOMAIN <<key>> : <<key>>[j] \in cat.messages[a[i]]} = I
    BY <1>1 DEF Offers
  <1>3. ASSUME NEW l, key \in cat.messages[l]
        PROVE  {i \in 1..Len(<<key>>) : <<key>>[i] \in cat.messages[l]} = {1}
    BY <1>3
  <1>4. P!Min({1}) = 1
    BY MinOne
  <1>5. P!Text(cat, a, key) =
           IF first = 0 THEN P!Missing
           ELSE LET J == {i \in 1..Len(<<key>>) : <<key>>[i] \in cat.messages[a[first]]}
                IN  P!Message(a[first], <<key>>[IF J # {} THEN P!Min(J) ELSE 0])
    BY <1>2, Zenon DEF P!Text, P!Resolve, P!SelectInSeq, FirstIn
  <1>6. /\ \A x \in H : LeadsTo(H, x, a) => first # 0 /\ a[first] = x
        /\ (\A f \in DOMAIN a : a[f] \notin H) => first = 0
    BY FirstOf
  <1> HIDE DEF first
  <1>7. ASSUME NEW x \in H, LeadsTo(H, x, a) PROVE P!Text(cat, a, key) = Message(x, key)
    <2>1. first # 0 /\ a[first] = x /\ key \in cat.messages[x]
      BY <1>6, <1>7 DEF Offers
    <2>2. P!Text(cat, a, key) = P!Message(x, <<key>>[P!Min({1})])
      BY <1>3, <1>5, <2>1, Zenon
    <2> QED
      BY <1>4, <2>2, SameMessage
  <1> QED
    BY <1>5, <1>6, <1>7, Shared, Zenon

\* Python returns the plural form of the first locale of the chain that has one.
LEMMA PluralOf ==
  ASSUME NEW cat, NEW a \in Seq(Canonical), \A i \in DOMAIN a : a[i] \in DOMAIN cat.messages,
         NEW n \in P!Countable
  PROVE  /\ \A x \in HasForm(cat, n) :
               LeadsTo(HasForm(cat, n), x, a) =>
                   P!Plural(cat, a, n) = Message(x, Form(cat, x, n))
         /\ (\A f \in DOMAIN a : a[f] \notin HasForm(cat, n)) =>
               P!Plural(cat, a, n) = P!Text(cat, a, "base")
  <1> DEFINE H == HasForm(cat, n)
             I == {i \in 1..Len(a) : a[i] \in H}
             first == FirstIn(H, a)
             keys(l) == <<P!PluralCategory(l, n), "other">>
             J(l) == {i \in 1..Len(keys(l)) : keys(l)[i] \in cat.messages[l]}
             found == IF first = 0 THEN P!Missing
                      ELSE P!Message(a[first],
                               keys(a[first])[IF J(a[first]) # {} THEN P!Min(J(a[first])) ELSE 0])
  <1>1. DOMAIN a = 1..Len(a)
    BY LenProperties
  <1>2. {i \in 1..Len(a) : \E j \in DOMAIN keys(a[i]) : keys(a[i])[j] \in cat.messages[a[i]]} = I
    BY <1>1 DEF HasForm, Form
  <1>3. ASSUME NEW l, Form(cat, l, n) \in cat.messages[l]
        PROVE  J(l) # {} /\ keys(l)[P!Min(J(l))] = Form(cat, l, n)
    <2>1. CASE P!PluralCategory(l, n) \in cat.messages[l]
      <3>1. 1 \in J(l) /\ J(l) \in SUBSET Nat /\ \A i \in J(l) : i >= 1
        BY <2>1
      <3>2. P!Min(J(l)) = 1
        <4> HIDE DEF J
        <4>1. P!Min(J(l)) \in J(l) /\ P!Min(J(l)) <= 1
          BY <3>1, MinIs
        <4> QED
          BY <3>1, <4>1
      <3> QED
        BY <2>1, <3>1, <3>2 DEF Form
    <2>2. CASE P!PluralCategory(l, n) \notin cat.messages[l]
      <3>1. J(l) = {2}
        BY <1>3, <2>2 DEF Form
      <3>2. P!Min({2}) = 2
        BY MinOne
      <3>3. Form(cat, l, n) = "other" /\ keys(l)[2] = "other"
        BY <2>2 DEF Form
      <3> HIDE DEF J, keys
      <3> QED
        BY <3>1, <3>2, <3>3
    <2> QED
      BY <2>1, <2>2
  <1>5. P!Plural(cat, a, n) = IF found = P!Missing THEN P!Text(cat, a, "base") ELSE found
    <2>1. P!Resolve(cat, a, keys) = found
      BY <1>2, Zenon DEF P!Resolve, P!SelectInSeq, FirstIn
    <2>2. P!Plural(cat, a, n) = LET r == P!Resolve(cat, a, keys)
                                IN  IF r = P!Missing THEN P!Text(cat, a, "base") ELSE r
      BY Zenon DEF P!Plural, P!OwnCategory
    <2> HIDE DEF found
    <2> QED
      BY <2>1, <2>2, Zenon
  <1>6. /\ \A x \in H : LeadsTo(H, x, a) => first # 0 /\ a[first] = x
        /\ (\A f \in DOMAIN a : a[f] \notin H) => first = 0
    BY FirstOf
  <1> HIDE DEF first, J, keys
  <1>7. ASSUME NEW x \in H, LeadsTo(H, x, a)
        PROVE  P!Plural(cat, a, n) = Message(x, Form(cat, x, n))
    <2>1. first # 0 /\ a[first] = x /\ Form(cat, x, n) \in cat.messages[x]
      BY <1>6, <1>7 DEF HasForm
    <2>2. found = Message(x, Form(cat, x, n))
      BY <1>3, <2>1, SameMessage
    <2> QED
      BY <1>5, <2>2, Shared, SameMessage
  <1> QED
    BY <1>5, <1>6, <1>7, Shared

-----------------------------------------------------------------------------
(* Lookups *)

\* The walk of a lookup of a key, and of a number.
Walks(cat, locale, key, w) ==
    w = [i \in 0..Len(locale) |->
            IF C!NoSeparator(i) THEN C!LookupExact(cat, cat.default, key)
            ELSE IF C!LookupExact(cat, SubSeq(locale, 1, i), key) # C!Missing
            THEN C!LookupExact(cat, SubSeq(locale, 1, i), key) ELSE w[i - 1]]
WalksPlural(cat, locale, n, w) ==
    w = [i \in 0..Len(locale) |->
            IF C!NoSeparator(i) THEN C!LookupPluralExact(cat, cat.default, n)
            ELSE IF C!LookupPluralExact(cat, SubSeq(locale, 1, i), n) # C!Missing
            THEN C!LookupPluralExact(cat, SubSeq(locale, 1, i), n) ELSE w[i - 1]]

\* C returns what its walk ends with.
LEMMA LookupEnds ==
  ASSUME NEW cat, NEW raw, NEW key, C!RequestedLocale(cat, raw) \in Canonical
  PROVE  LET locale == C!RequestedLocale(cat, raw)
             n == Len(locale)
             u == [i \in 0..n |-> IF i = 0 THEN C!LookupExact(cat, cat.default, key)
                                  ELSE C!LookupExact(cat, SubSeq(locale, 1, i), key)]
         IN  \E w : Ends(n, u, w) /\ w[n] = C!Lookup(cat, raw, key)
  <1> DEFINE locale == C!RequestedLocale(cat, raw)
             n == Len(locale)
             u == [i \in 0..n |-> IF i = 0 THEN C!LookupExact(cat, cat.default, key)
                                  ELSE C!LookupExact(cat, SubSeq(locale, 1, i), key)]
             V == {u[i] : i \in 0..n}
             w == CHOOSE w : Walks(cat, locale, key, w)
  <1>1. n \in Nat
    BY LenProperties DEF Canonical
  <1>2. \A v : Walks(cat, locale, key, v) <=> Goes(n, u, v)
    <2> SUFFICES ASSUME NEW v PROVE Walks(cat, locale, key, v) <=> Goes(n, u, v)
      OBVIOUS
    <2>1. [i \in 0..n |-> IF C!NoSeparator(i) THEN u[0]
                          ELSE IF u[i] # C!Missing THEN u[i] ELSE v[i - 1]]
          = [i \in 0..Len(locale) |->
              IF C!NoSeparator(i) THEN C!LookupExact(cat, cat.default, key)
              ELSE IF C!LookupExact(cat, SubSeq(locale, 1, i), key) # C!Missing
              THEN C!LookupExact(cat, SubSeq(locale, 1, i), key) ELSE v[i - 1]]
      BY <1>1 DEF C!NoSeparator
    <2> HIDE DEF u, n, locale
    <2> QED
      BY <2>1, Zenon DEF Walks, Goes
  <1>3. u \in [0..n -> V]
    OBVIOUS
  <1>4. C!Lookup(cat, raw, key) = w[n]
    BY DEF C!Lookup, C!Walk, Walks
  <1> HIDE DEF u, n, V, locale
  <1>5. Goes(n, u, w)
    <2>1. \E v : Goes(n, u, v)
      BY <1>1, <1>3, GoesSome
    <2> QED
      BY <1>2, <2>1
  <1> HIDE DEF w
  <1>6. Ends(n, u, w)
    BY <1>1, <1>5, GoesEnds
  <1> QED
    BY <1>4, <1>6, Zenon DEF u, n, locale

\* So it does for a plural, with the plain text when no locale has a form.
LEMMA LookupPluralEnds ==
  ASSUME NEW cat, NEW raw, NEW number, C!RequestedLocale(cat, raw) \in Canonical
  PROVE  LET locale == C!RequestedLocale(cat, raw)
             n == Len(locale)
             u == [i \in 0..n |-> IF i = 0 THEN C!LookupPluralExact(cat, cat.default, number)
                                  ELSE C!LookupPluralExact(cat, SubSeq(locale, 1, i), number)]
         IN  \E w : /\ Ends(n, u, w)
                    /\ C!LookupPlural(cat, raw, number) =
                          IF w[n] = <<>> THEN C!Lookup(cat, raw, "base") ELSE w[n]
  <1> DEFINE locale == C!RequestedLocale(cat, raw)
             n == Len(locale)
             u == [i \in 0..n |-> IF i = 0 THEN C!LookupPluralExact(cat, cat.default, number)
                                  ELSE C!LookupPluralExact(cat, SubSeq(locale, 1, i), number)]
             V == {u[i] : i \in 0..n}
             w == CHOOSE w : WalksPlural(cat, locale, number, w)
  <1>1. n \in Nat
    BY LenProperties DEF Canonical
  <1>2. \A v : WalksPlural(cat, locale, number, v) <=> Goes(n, u, v)
    <2> SUFFICES ASSUME NEW v PROVE WalksPlural(cat, locale, number, v) <=> Goes(n, u, v)
      OBVIOUS
    <2>1. [i \in 0..n |-> IF C!NoSeparator(i) THEN u[0]
                          ELSE IF u[i] # C!Missing THEN u[i] ELSE v[i - 1]]
          = [i \in 0..Len(locale) |->
              IF C!NoSeparator(i) THEN C!LookupPluralExact(cat, cat.default, number)
              ELSE IF C!LookupPluralExact(cat, SubSeq(locale, 1, i), number) # C!Missing
              THEN C!LookupPluralExact(cat, SubSeq(locale, 1, i), number) ELSE v[i - 1]]
      BY <1>1 DEF C!NoSeparator
    <2> HIDE DEF u, n, locale
    <2> QED
      BY <2>1, Zenon DEF WalksPlural, Goes
  <1>3. u \in [0..n -> V]
    OBVIOUS
  <1>4. C!LookupPlural(cat, raw, number) =
           IF w[n] = C!Missing THEN C!Lookup(cat, raw, "base") ELSE w[n]
    BY DEF C!LookupPlural, C!Walk, WalksPlural
  <1> HIDE DEF u, n, V, locale
  <1>5. Goes(n, u, w)
    <2>1. \E v : Goes(n, u, v)
      BY <1>1, <1>3, GoesSome
    <2> QED
      BY <1>2, <2>1
  <1> HIDE DEF w
  <1>6. Ends(n, u, w)
    BY <1>1, <1>5, GoesEnds
  <1>7. C!Missing = <<>>
    BY Shared DEF Missing
  <1> QED
    BY <1>4, <1>6, <1>7, Zenon DEF u, n, locale

\* What C finds in the table of one locale.
LEMMA ExactIs ==
  ASSUME NEW cat, NEW l, NEW key
  PROVE  C!LookupExact(cat, l, key) = IF l \in Offers(cat, key) THEN Message(l, key) ELSE <<>>
  BY Shared, SameMessage DEF C!LookupExact, Offers, Missing

\* And what it finds there for a number.
LEMMA ExactPluralIs ==
  ASSUME NEW cat, NEW l, NEW n \in (-IntMax - 1)..IntMax, n \in P!Countable,
         l \in DOMAIN cat.messages => Shares(l)
  PROVE  C!LookupPluralExact(cat, l, n) =
            IF l \in HasForm(cat, n) THEN Message(l, Form(cat, l, n)) ELSE <<>>
  <1>1. CASE l \notin DOMAIN cat.messages
    BY <1>1, ExactIs, Shared DEF C!LookupPluralExact, Offers, HasForm, Missing
  <1>2. CASE l \in DOMAIN cat.messages
    <2>1. C!PluralCategory(l, n) = P!PluralCategory(l, n)
      BY <1>2, SameCategory
    <2> DEFINE p == P!PluralCategory(l, n)
    <2>2. C!LookupPluralExact(cat, l, n) =
             IF p \in cat.messages[l] THEN Message(l, p)
             ELSE IF "other" \in cat.messages[l] THEN Message(l, "other") ELSE <<>>
      <3>1. \A k : C!LookupExact(cat, l, k) = IF k \in cat.messages[l] THEN Message(l, k) ELSE <<>>
        BY <1>2, ExactIs DEF Offers
      <3> QED
        BY <2>1, <3>1, SameMessage, Shared DEF C!LookupPluralExact, Missing
    <2> HIDE DEF p
    <2>3. Form(cat, l, n) = IF p \in cat.messages[l] THEN p ELSE "other"
      BY DEF Form, p
    <2> QED
      BY <1>2, <2>2, <2>3 DEF HasForm
  <1> QED
    BY <1>1, <1>2

\* What both look a message up in.
Looked(cat, raw) ==
    /\ cat.default \in Canonical /\ cat.default \in DOMAIN cat.messages
    /\ C!RequestedLocale(cat, raw) \in Canonical

\* The locales of the chain are locales of the catalog.
LEMMA ChainOfLooked ==
  ASSUME NEW cat, NEW raw, Looked(cat, raw)
  PROVE  LET a == P!Chain(C!RequestedLocale(cat, raw), cat)
         IN  a \in Seq(Canonical) /\ \A i \in DOMAIN a : a[i] \in DOMAIN cat.messages
  <1> DEFINE locale == C!RequestedLocale(cat, raw)
             a == P!Chain(locale, cat)
             parents == {SubSeq(locale, 1, n) : n \in DOMAIN locale}
  <1> HIDE DEF locale
  <1>1. locale \in Canonical /\ cat.default \in Canonical /\ cat.default \in DOMAIN cat.messages
    BY DEF Looked, locale
  <1>2. a \in Seq(Canonical) /\ {a[i] : i \in DOMAIN a} = (parents \cap DOMAIN cat.messages) \cup {cat.default}
    BY <1>1, ChainHas, Zenon
  <1> HIDE DEF a, parents
  <1>3. ASSUME NEW i \in DOMAIN a PROVE a[i] \in DOMAIN cat.messages
    <2>1. a[i] \in {a[j] : j \in DOMAIN a}
      OBVIOUS
    <2> QED
      BY <1>1, <1>2, <2>1
  <1> QED
    BY <1>2, <1>3 DEF a, locale

\* A key has the same text in Python and in C.
LEMMA KeyAgrees ==
  ASSUME NEW cat, NEW raw, Looked(cat, raw), NEW key
  PROVE  P!Text(cat, P!Chain(C!RequestedLocale(cat, raw), cat), key) = C!Lookup(cat, raw, key)
  <1> DEFINE locale == C!RequestedLocale(cat, raw)
             a == P!Chain(locale, cat)
             n == Len(locale)
             H == Offers(cat, key)
             u == [i \in 0..n |-> IF i = 0 THEN C!LookupExact(cat, cat.default, key)
                                  ELSE C!LookupExact(cat, SubSeq(locale, 1, i), key)]
             text == P!Text(cat, a, key)
  <1>1. PICK w : Ends(n, u, w) /\ w[n] = C!Lookup(cat, raw, key)
    BY LookupEnds, Zenon DEF Looked
  <1>2. a \in Seq(Canonical) /\ \A i \in DOMAIN a : a[i] \in DOMAIN cat.messages
    BY ChainOfLooked
  <1>3. /\ \A x \in H : LeadsTo(H, x, a) => text = Message(x, key)
        /\ (\A f \in DOMAIN a : a[f] \notin H) => text = Missing
    BY <1>2, TextOf, Zenon
  <1> HIDE DEF locale
  <1>4. /\ \A m \in 1..n : /\ SubSeq(locale, 1, m) \in H
                           /\ \A j \in (m + 1)..n : SubSeq(locale, 1, j) \notin H
                           => LeadsTo(H, SubSeq(locale, 1, m), a)
        /\ (\A m \in 1..n : SubSeq(locale, 1, m) \notin H) =>
              IF cat.default \in H THEN LeadsTo(H, cat.default, a)
                                   ELSE \A f \in DOMAIN a : a[f] \notin H
    <2>1. locale \in Canonical /\ cat.default \in Canonical /\ H \in SUBSET DOMAIN cat.messages
      BY DEF Looked, locale, Offers
    <2> HIDE DEF H
    <2> QED
      BY <2>1, ChainLeads, Zenon
  <1>5. n \in Nat
    BY LenProperties DEF Looked, locale, Canonical
  <1>6. /\ \A m \in 1..n : u[m] = IF SubSeq(locale, 1, m) \in H THEN Message(SubSeq(locale, 1, m), key) ELSE <<>>
        /\ u[0] = IF cat.default \in H THEN Message(cat.default, key) ELSE <<>>
    BY <1>5, ExactIs
  <1> HIDE DEF H, u, n, text, a
  <1>7. \A l : Message(l, key) # <<>>
    BY SameMessage
  <1>8. text = w[n]
    <2>1. CASE \E m \in 1..n : u[m] # <<>> /\ w[n] = u[m] /\ \A j \in (m + 1)..n : u[j] = <<>>
      <3>1. PICK m \in 1..n : u[m] # <<>> /\ w[n] = u[m] /\ \A j \in (m + 1)..n : u[j] = <<>>
        BY <2>1
      <3>2. SubSeq(locale, 1, m) \in H /\ w[n] = Message(SubSeq(locale, 1, m), key)
        BY <1>6, <3>1
      <3>3. \A j \in (m + 1)..n : SubSeq(locale, 1, j) \notin H
        BY <1>5, <1>6, <1>7, <3>1
      <3>4. LeadsTo(H, SubSeq(locale, 1, m), a)
        BY <1>4, <3>2, <3>3
      <3> QED
        BY <1>3, <3>2, <3>4
    <2>2. CASE (\A m \in 1..n : u[m] = <<>>) /\ w[n] = u[0]
      <3>1. \A m \in 1..n : SubSeq(locale, 1, m) \notin H
        BY <1>6, <1>7, <2>2
      <3> QED
        BY <1>3, <1>4, <1>6, <2>2, <3>1 DEF Missing
    <2> QED
      BY <1>1, <2>1, <2>2 DEF Ends
  <1> QED
    BY <1>1, <1>8 DEF text, a, locale

\* A number has the same text in Python and in C.
LEMMA NumberAgrees ==
  ASSUME NEW cat, NEW raw, Looked(cat, raw), \A l \in DOMAIN cat.messages : Shares(l),
         NEW number \in (-IntMax - 1)..IntMax, number \in P!Countable
  PROVE  P!Plural(cat, P!Chain(C!RequestedLocale(cat, raw), cat), number)
            = C!LookupPlural(cat, raw, number)
  <1> DEFINE locale == C!RequestedLocale(cat, raw)
             a == P!Chain(locale, cat)
             n == Len(locale)
             H == HasForm(cat, number)
             u == [i \in 0..n |-> IF i = 0 THEN C!LookupPluralExact(cat, cat.default, number)
                                  ELSE C!LookupPluralExact(cat, SubSeq(locale, 1, i), number)]
             text == P!Plural(cat, a, number)
             of(l) == Message(l, Form(cat, l, number))
  <1>1. PICK w : /\ Ends(n, u, w)
                 /\ C!LookupPlural(cat, raw, number) =
                       IF w[n] = <<>> THEN C!Lookup(cat, raw, "base") ELSE w[n]
    BY LookupPluralEnds DEF Looked
  <1>2. a \in Seq(Canonical) /\ \A i \in DOMAIN a : a[i] \in DOMAIN cat.messages
    BY ChainOfLooked
  <1>3. /\ \A x \in H : LeadsTo(H, x, a) => text = of(x)
        /\ (\A f \in DOMAIN a : a[f] \notin H) => text = P!Text(cat, a, "base")
    BY <1>2, PluralOf, Zenon
  <1>a. P!Text(cat, a, "base") = C!Lookup(cat, raw, "base")
    BY KeyAgrees
  <1> HIDE DEF locale
  <1>4. /\ \A m \in 1..n : /\ SubSeq(locale, 1, m) \in H
                           /\ \A j \in (m + 1)..n : SubSeq(locale, 1, j) \notin H
                           => LeadsTo(H, SubSeq(locale, 1, m), a)
        /\ (\A m \in 1..n : SubSeq(locale, 1, m) \notin H) =>
              IF cat.default \in H THEN LeadsTo(H, cat.default, a)
                                   ELSE \A f \in DOMAIN a : a[f] \notin H
    <2>1. locale \in Canonical /\ cat.default \in Canonical /\ H \in SUBSET DOMAIN cat.messages
      BY DEF Looked, locale, HasForm
    <2> HIDE DEF H
    <2> QED
      BY <2>1, ChainLeads
  <1>5. n \in Nat
    BY LenProperties DEF Looked, locale, Canonical
  <1>6. /\ \A m \in 1..n : u[m] = IF SubSeq(locale, 1, m) \in H THEN of(SubSeq(locale, 1, m)) ELSE <<>>
        /\ u[0] = IF cat.default \in H THEN of(cat.default) ELSE <<>>
    BY <1>5, ExactPluralIs
  <1>7. \A l : of(l) # <<>>
    BY SameMessage
  <1> HIDE DEF H, u, n, text, a, of
  <1>8. text = IF w[n] = <<>> THEN P!Text(cat, a, "base") ELSE w[n]
    <2>1. CASE \E m \in 1..n : u[m] # <<>> /\ w[n] = u[m] /\ \A j \in (m + 1)..n : u[j] = <<>>
      <3>1. PICK m \in 1..n : u[m] # <<>> /\ w[n] = u[m] /\ \A j \in (m + 1)..n : u[j] = <<>>
        BY <2>1
      <3>2. SubSeq(locale, 1, m) \in H /\ w[n] = of(SubSeq(locale, 1, m)) /\ w[n] # <<>>
        BY <1>6, <3>1
      <3>3. \A j \in (m + 1)..n : SubSeq(locale, 1, j) \notin H
        BY <1>5, <1>6, <1>7, <3>1
      <3>4. LeadsTo(H, SubSeq(locale, 1, m), a)
        BY <1>4, <3>2, <3>3
      <3> QED
        BY <1>3, <3>2, <3>4
    <2>2. CASE (\A m \in 1..n : u[m] = <<>>) /\ w[n] = u[0]
      <3>1. \A m \in 1..n : SubSeq(locale, 1, m) \notin H
        BY <1>6, <1>7, <2>2
      <3>2. CASE cat.default \in H
        BY <1>3, <1>4, <1>6, <1>7, <2>2, <3>1, <3>2
      <3>3. CASE cat.default \notin H
        BY <1>3, <1>4, <1>6, <2>2, <3>1, <3>3
      <3> QED
        BY <3>2, <3>3
    <2> QED
      BY <1>1, <2>1, <2>2 DEF Ends
  <1> QED
    BY <1>1, <1>8, <1>a DEF text, a, locale

\* What is normalized is canonical, and begins with the language.
LEMMA NormalTyped ==
  ASSUME NEW raw \in Seq(Subtag)
  PROVE  LET l == P!NormalizeLocale(raw)
         IN  /\ l \in Canonical
             /\ l # Missing => l # <<>> /\ l[1][1] = "language"
  <1> DEFINE l == P!NormalizeLocale(raw)
             region == IF P!IsScript(raw, 2) THEN 3 ELSE 2
             rest == IF P!IsRegion(raw, region) THEN region + 1 ELSE region
             role(i) == CASE i = 1 -> "language" [] i \in 2..(region - 1) -> "script"
                          [] i \in region..(rest - 1) -> "region" [] i >= rest -> "variant"
  <1>1. DOMAIN raw = 1..Len(raw) /\ Len(raw) \in Nat /\ \A i \in 1..Len(raw) : raw[i] \in Subtag
    BY LenProperties, ElementOfSeq
  <1>2. CASE l = P!Missing
    BY <1>2, Shared, EmptySeq DEF Missing, Canonical
  <1>3. CASE l # P!Missing
    <2>1. l = [i \in 1..Len(raw) |-> <<role(i), raw[i]>>] /\ raw # <<>>
      BY <1>1, <1>3 DEF P!NormalizeLocale
    <2>2. \A i \in 1..Len(raw) : role(i) \in Role
      BY <1>1 DEF Role
    <2>3. 1 \in 1..Len(raw) /\ role(1) = "language"
      <3>1. Len(raw) # 0
        BY <2>1, EmptySeq, SeqEqual
      <3> QED
        BY <1>1, <3>1
    <2> HIDE DEF role, l
    <2> DEFINE e(i) == <<role(i), raw[i]>>
    <2>4. \A i \in 1..Len(raw) : e(i) \in Role \X Subtag
      BY <1>1, <2>2
    <2>5. l = [i \in 1..Len(raw) |-> e(i)] /\ Len(raw) \in Nat
      BY <1>1, <2>1
    <2>6. l \in Canonical
      <3> HIDE DEF e
      <3> QED
        BY <2>4, <2>5, IsASeq DEF Canonical
    <2>7. l[1] = <<"language", raw[1]>> /\ Len(l) # 0
      <3>1. DOMAIN l = 1..Len(l)
        BY <2>6, LenProperties DEF Canonical
      <3>2. l[1] = e(1) /\ 1 \in DOMAIN l
        BY <2>3, <2>5
      <3> QED
        BY <2>3, <3>1, <3>2
    <2>8. l # <<>>
      BY <2>7, EmptySeq
    <2> QED
      BY <2>6, <2>7, <2>8 DEF l
  <1> QED
    BY <1>2, <1>3

\* Every locale a catalog is written with is one both languages share.
LEMMA WrittenShares ==
  ASSUME NEW l \in Written
  PROVE  Shares(l) /\ l \in Canonical /\ l # <<>> /\ l # Missing
  <1>1. Home \in Subtag /\ Away \in Subtag
    BY ChoiceAssumption DEF Subtag, Unspaced, Letters
  <1>2. \A s \in Subtag : <<<<"language", s>>>> \in Canonical
    BY DEF Canonical, Role
  <1>3. <<<<"language", Away>>, <<"region", Away>>>> \in Canonical
    BY <1>1 DEF Canonical, Role
  <1>4. CASE \E s \in {Home, Away} : l = <<<<"language", s>>>>
    <2>1. PICK s \in Subtag : l = <<<<"language", s>>>>
      BY <1>1, <1>4
    <2>2. l \in Canonical /\ Len(l) = 1 /\ l # <<>> /\ l[1][1] = "language"
      BY <1>2, <2>1
    <2> QED
      BY <2>2 DEF Shares, Missing
  <1>5. CASE l = <<<<"language", Away>>, <<"region", Away>>>>
    <2>1. l \in Canonical /\ Len(l) = 2 /\ l # <<>> /\ l[1][1] = "language"
      BY <1>3, <1>5
    <2> QED
      BY <2>1 DEF Shares, Missing
  <1> QED
    BY <1>4, <1>5 DEF Written

CatalogTrue(cat) ==
    /\ cat.default \in Written /\ Valid(cat.default, cat.messages)
    /\ cat.messages \in UNION {[locales -> SUBSET MessageKey] : locales \in SUBSET Written}

\* What a true catalog gives the lookups.
LEMMA CatalogShares ==
  ASSUME NEW cat, CatalogTrue(cat), NEW raw \in Seq(Subtag)
  PROVE  /\ \A l \in DOMAIN cat.messages : Shares(l)
         /\ Looked(cat, Accepted(raw))
         /\ C!RequestedLocale(cat, Accepted(raw)) =
               IF P!NormalizeLocale(raw) = Missing THEN cat.default ELSE P!NormalizeLocale(raw)
  <1>1. cat.default \in Canonical /\ cat.default \in DOMAIN cat.messages
    BY WrittenShares DEF CatalogTrue, Valid
  <1>2. \A l \in DOMAIN cat.messages : l \in Written
    BY DEF CatalogTrue
  <1>3. C!RequestedLocale(cat, Accepted(raw)) =
           IF P!NormalizeLocale(raw) = Missing THEN cat.default ELSE P!NormalizeLocale(raw)
    BY AcceptedAlike, Shared DEF C!RequestedLocale
  <1> QED
    BY <1>1, <1>2, <1>3, NormalTyped, WrittenShares DEF Looked

Diagnostic == {"invalid-locale", "locale-fallback", "missing-key"}

\* The deque drops the oldest.
LEMMA RetainedTyped ==
  ASSUME diagnostics \in Seq(Diagnostic), NEW codes \in Seq(Diagnostic)
  PROVE  Retained(codes) \in Seq(Diagnostic) /\ Len(Retained(codes)) <= Limit
  <1> DEFINE all == diagnostics \o codes
  <1>1. all \in Seq(Diagnostic) /\ Len(all) \in Nat /\ Limit \in Nat
    BY ConcatProperties, LenProperties, BoundAssumption
  <1> HIDE DEF all
  <1>2. Retained(codes) = IF Len(all) <= Limit THEN all ELSE SubSeq(all, Len(all) - Limit + 1, Len(all))
    BY DEF Retained, all
  <1>3. CASE Len(all) <= Limit
    BY <1>1, <1>2, <1>3
  <1>4. CASE ~(Len(all) <= Limit)
    <2> DEFINE m == Len(all) - Limit + 1
    <2>1. /\ m \in Int /\ Len(all) \in Int /\ \A i \in m..Len(all) : all[i] \in Diagnostic
      BY <1>1, <1>4, ElementOfSeq
    <2>2. /\ SubSeq(all, m, Len(all)) \in Seq(Diagnostic)
          /\ Len(SubSeq(all, m, Len(all))) = IF m <= Len(all) THEN Len(all) - m + 1 ELSE 0
      <3> HIDE DEF m
      <3> QED
        BY <2>1, SubSeqProperties
    <2>3. (IF m <= Len(all) THEN Len(all) - m + 1 ELSE 0) = Limit
      BY <1>1, <1>4
    <2> QED
      BY <1>1, <1>2, <1>4, <2>2, <2>3
  <1> QED
    BY <1>3, <1>4

\* What setting the locale does to the state of the translator.
LEMMA LocaleStep ==
  ASSUME NEW cat, CatalogTrue(cat), NEW raw \in Seq(Subtag), diagnostics \in Seq(Diagnostic),
         SetLocaleOf(cat, raw)
  PROVE  /\ asked' = raw /\ requested' = C!RequestedLocale(cat, Accepted(raw))
         /\ requested' \in Canonical
         /\ chain' = P!Chain(requested', cat) /\ chain' \in Seq(Canonical)
         /\ diagnostics' \in Seq(Diagnostic) /\ Len(diagnostics') <= Limit
  <1>1. /\ asked' = raw /\ requested' = C!RequestedLocale(cat, Accepted(raw))
        /\ chain' = P!Chain(requested', cat)
    BY CatalogShares DEF SetLocaleOf
  <1>2. requested' \in Canonical /\ chain' \in Seq(Canonical)
    BY <1>1, CatalogShares, ChainOfLooked DEF Looked
  <1> DEFINE l == P!NormalizeLocale(raw)
             wanted == IF l = Missing THEN cat.default ELSE l
             one == IF l = Missing /\ raw # <<>> /\ raw \notin Posix THEN <<"invalid-locale">> ELSE <<>>
             two == IF P!Chain(wanted, cat)[1] # wanted THEN <<"locale-fallback">> ELSE <<>>
  <1>3. diagnostics' = Retained(one \o two)
    <2>1. Emit(one \o two)
      BY DEF SetLocaleOf
    <2> QED
      BY <2>1 DEF Emit
  <1>4. one \in {<<>>, <<"invalid-locale">>} /\ two \in {<<>>, <<"locale-fallback">>}
    OBVIOUS
  <1> HIDE DEF one, two
  <1>5. one \in Seq(Diagnostic) /\ two \in Seq(Diagnostic)
    <2>1. \A d \in Diagnostic : <<d>> \in Seq(Diagnostic)
      OBVIOUS
    <2>2. "invalid-locale" \in Diagnostic /\ "locale-fallback" \in Diagnostic
      BY DEF Diagnostic
    <2> QED
      BY <1>4, <2>1, <2>2, EmptySeq, Zenon
  <1>6. one \o two \in Seq(Diagnostic)
    BY <1>5, ConcatProperties
  <1> QED
    BY <1>1, <1>2, <1>3, <1>6, RetainedTyped, Zenon

\* The state that is resolved has a true chain.
LEMMA ChainTrueStep ==
  ASSUME TranslatorTypeOK, Resolved
  PROVE  ChainTrue
  <1> SUFFICES ASSUME catalog # NoCatalog PROVE ChainTrue
    BY DEF ChainTrue
  <1>1. CatalogTrue(catalog) /\ chain = P!Chain(requested, catalog) /\ requested \in Canonical
    BY DEF TranslatorTypeOK, Resolved, CatalogTrue
  <1>2. catalog.default \in Canonical /\ catalog.default \in DOMAIN catalog.messages
    BY <1>1, WrittenShares DEF CatalogTrue, Valid
  <1> QED
    BY <1>1, <1>2, ChainHas, Zenon DEF ChainTrue

TranslatorInvariant == TranslatorTypeOK /\ Resolved

\* Every step of the translator keeps the invariant.
LEMMA TranslatorStep ==
  ASSUME TranslatorInvariant, [TranslatorNext]_i18nVars
  PROVE  TranslatorInvariant'
  <1> USE DEF TranslatorInvariant
  <1>0. diagnostics \in Seq(Diagnostic)
    BY DEF TranslatorTypeOK, Diagnostic
  <1>1. ASSUME NEW s \in Subtag, Spell(s) PROVE TranslatorInvariant'
    <2>1. Append(spelled, s) \in Seq(Subtag)
      BY AppendProperties DEF TranslatorTypeOK
    <2> QED
      BY <1>1, <2>1 DEF Spell, translatorVars, TranslatorTypeOK, Resolved
  <1>2. ASSUME NEW t \in TemplateToken, WriteToken(t) PROVE TranslatorInvariant'
    <2>1. Append(template, t) \in Seq(TemplateToken)
      BY AppendProperties DEF TranslatorTypeOK
    <2> QED
      BY <1>2, <2>1 DEF WriteToken, translatorVars, TranslatorTypeOK, Resolved
  <1>3. ASSUME NEW default \in Written, NEW locales \in SUBSET Written, Load(default, locales, <<>>)
        PROVE  TranslatorInvariant'
    <2>1. PICK messages \in [locales -> SUBSET MessageKey] :
             Valid(default, messages) /\ catalog' = [default |-> default, messages |-> messages]
      BY <1>3 DEF Load
    <2> DEFINE cat == [default |-> default, messages |-> messages]
    <2>2. CatalogTrue(cat)
      BY <2>1 DEF CatalogTrue
    <2>3. <<>> \in Seq(Subtag) /\ SetLocaleOf(cat, <<>>)
      BY <1>3, <2>1, EmptySeq DEF Load, SetLocaleOf
    <2>4. catalog' = cat /\ spelled' = spelled /\ template' = template
      BY <1>3, <2>1 DEF Load
    <2> HIDE DEF cat
    <2> QED
      BY <1>0, <2>2, <2>3, <2>4, LocaleStep, Zenon DEF TranslatorTypeOK, Resolved, CatalogTrue, Diagnostic
  <1>4. ASSUME NEW raw \in Asked, SetLocale(raw) PROVE TranslatorInvariant'
    <2>1. raw \in Seq(Subtag)
      BY ChoiceAssumption
    <2>2. CatalogTrue(catalog) /\ catalog' = catalog
      BY <1>4 DEF SetLocale, TranslatorTypeOK, CatalogTrue
    <2> QED
      BY <1>0, <1>4, <2>1, <2>2, LocaleStep, Zenon DEF SetLocale, TranslatorTypeOK, Resolved, CatalogTrue, Diagnostic
  <1>5. ASSUME NEW m, TextMissing(m) PROVE TranslatorInvariant'
    <2>1. <<"missing-key">> \in Seq(Diagnostic)
      BY DEF Diagnostic
    <2>2. diagnostics' \in Seq(Diagnostic) /\ Len(diagnostics') <= Limit
      BY <1>0, <1>5, <2>1, RetainedTyped, Zenon DEF TextMissing, Emit
    <2> QED
      BY <1>5, <2>2 DEF TextMissing, TranslatorTypeOK, Resolved, Diagnostic
  <1>6. CASE ClearDiagnostics
    BY <1>6, BoundAssumption DEF ClearDiagnostics, TranslatorTypeOK, Resolved
  <1>7. CASE UNCHANGED i18nVars
    BY <1>7 DEF i18nVars, translatorVars, TranslatorTypeOK, Resolved
  <1> QED
    BY <1>1, <1>2, <1>3, <1>4, <1>5, <1>6, <1>7 DEF TranslatorNext

\* The chain of a translator is the one of the locale that was asked for, after every
\* call of set_locale(), which the constructor makes as well.
THEOREM TranslatorCorrect == TranslatorSpec => []TranslatorTrue
  <1>1. TranslatorInit => TranslatorInvariant
    BY BoundAssumption DEF TranslatorInit, TranslatorInvariant, TranslatorTypeOK, Resolved,
       NoCatalog, Missing, Canonical
  <1>2. TranslatorInvariant /\ [TranslatorNext]_i18nVars => TranslatorInvariant'
    BY TranslatorStep
  <1>3. TranslatorInvariant => TranslatorTrue
    BY ChainTrueStep DEF TranslatorInvariant, TranslatorTrue
  <1> QED
    BY <1>1, <1>2, <1>3, PTL DEF TranslatorSpec

\* Python and C find the same locale in every request without white space inside, and the
\* same category of every number that Python accepts; of the others Python finds none, and
\* C goes by the beginning of the locale, and by the magnitude of the number.
THEOREM RequestsTheSame == TranslatorSpec => []RequestsAgree
  <1>1. TranslatorTrue => RequestsAgree
    <2> SUFFICES ASSUME TranslatorTrue PROVE RequestsAgree
      OBVIOUS
    <2>1. spelled \in Seq(Subtag)
      BY DEF TranslatorTrue, TranslatorTypeOK
    <2>2. LocalesAgree
      BY <2>1, AcceptedAlike DEF LocalesAgree
    <2>3. RulesAgree
      <3> DEFINE l == P!NormalizeLocale(spelled)
      <3> SUFFICES ASSUME ~(Len(l) > 2 /\ l[1][2] = "pt" /\ P!Region(l) = "pt"),
                          NEW n \in (-IntMax - 1)..IntMax
                   PROVE  /\ C!PluralCategory(l, n) = P!CategoryOf(l, P!Abs(n))
                          /\ P!PluralCategory(l, n) =
                                IF n \in P!Countable THEN C!PluralCategory(l, n) ELSE "ValueError"
        BY DEF RulesAgree
      <3>1. l \in Canonical /\ (l # Missing => l # <<>> /\ l[1][1] = "language") /\ Len(l) \in Nat
        BY <2>1, NormalTyped, LenProperties DEF Canonical
      <3> HIDE DEF l
      <3>2. l = Missing \/ Shares(l)
        BY <3>1 DEF Shares
      <3> QED
        BY <3>2, SameCategory, Zenon
    <2> QED
      BY <2>2, <2>3 DEF RequestsAgree
  <1> QED
    BY <1>1, TranslatorCorrect, PTL

\* Python and C return the same text for every key and for every number that Python accepts,
\* in every locale without white space inside; for any other number Python raises, and with
\* any other locale it is as C without one.
THEOREM MessagesTheSame == TranslatorSpec => []MessagesAgree
  <1>1. TranslatorTrue => MessagesAgree
    <2> SUFFICES ASSUME TranslatorTrue, catalog # NoCatalog PROVE MessagesAgree
      BY DEF MessagesAgree
    <2>1. CatalogTrue(catalog) /\ asked \in Seq(Subtag)
      BY DEF TranslatorTrue, TranslatorTypeOK, CatalogTrue
    <2> DEFINE raw == Accepted(asked)
    <2>2. chain = P!Chain(C!RequestedLocale(catalog, raw), catalog)
      BY DEF TranslatorTrue, Resolved
    <2>3. Looked(catalog, raw) /\ \A l \in DOMAIN catalog.messages : Shares(l)
      BY <2>1, CatalogShares
    <2>4. ASSUME NEW key \in MessageKey PROVE P!Text(catalog, chain, key) = C!Lookup(catalog, raw, key)
      BY <2>2, <2>3, KeyAgrees
    <2>5. ASSUME NEW n \in Count
          PROVE  P!Plural(catalog, chain, n) =
                    IF n \in P!Countable THEN C!LookupPlural(catalog, raw, n) ELSE P!Raised
      <3>1. CASE n \in P!Countable
        BY <2>2, <2>3, <3>1, NumberAgrees, BoundAssumption
      <3>2. CASE n \notin P!Countable
        BY <3>2, Zenon DEF P!Plural
      <3> QED
        BY <3>1, <3>2
    <2> QED
      BY <2>4, <2>5 DEF MessagesAgree
  <1> QED
    BY <1>1, TranslatorCorrect, PTL

-----------------------------------------------------------------------------
(* Templates *)

TemplateBytes == TemplateToken \cup {"v"}
TemplateTokens == {"literal", "placeholder"} \X Seq(TemplateToken)

\* What a template says at i: whether it goes on, with what token, and from where.
Ill(T, i) ==
    /\ T[i] \in {"{", "}"} /\ ~P!Escaped(T, i)
    /\ ~(/\ T[i] = "{" /\ P!Closing(T, i) # 0
         /\ P!IsName(SubSeq(T, i + 1, P!Closing(T, i) - 1)))
TokenOf(T, i) ==
    IF T[i] \in {"{", "}"} /\ ~P!Escaped(T, i)
    THEN <<"placeholder", SubSeq(T, i + 1, P!Closing(T, i) - 1)>>
    ELSE <<"literal", <<T[i]>>>>
After(T, i) ==
    IF P!Escaped(T, i) THEN i + 2 ELSE IF T[i] = "{" THEN P!Closing(T, i) + 1 ELSE i + 1

\* What the search for a closing brace finds.
LEMMA ClosingIs ==
  ASSUME NEW T \in Seq(TemplateToken), NEW i \in 1..Len(T)
  PROVE  \/ /\ P!Closing(T, i) = 0 /\ \A k \in (i + 1)..Len(T) : T[k] # "}"
         \/ /\ P!Closing(T, i) \in (i + 1)..Len(T) /\ T[P!Closing(T, i)] = "}"
            /\ \A k \in (i + 1)..(P!Closing(T, i) - 1) : T[k] # "}"
  <1> DEFINE I == {k \in (i + 1)..Len(T) : T[k] = "}"}
  <1>1. P!Closing(T, i) = IF I # {} THEN P!Min(I) ELSE 0
    BY DEF P!Closing, P!SelectInSubSeq
  <1>a. Len(T) \in Nat
    BY LenProperties
  <1>2. I \in SUBSET Nat
    <2>1. (i + 1)..Len(T) \subseteq Nat
      BY <1>a
    <2> QED
      BY <2>1, Zenon
  <1>3. CASE I = {}
    BY <1>1, <1>3, Zenon
  <1>4. CASE I # {}
    <2>1. P!Min(I) \in I /\ \A y \in I : P!Min(I) <= y
      <3> HIDE DEF I
      <3> QED
        BY <1>2, <1>4, MinIs
    <2> DEFINE m == P!Min(I)
    <2> HIDE DEF m
    <2>2. m \in I /\ \A y \in I : m <= y
      BY <2>1, Zenon DEF m
    <2>3. ASSUME NEW k \in (i + 1)..(m - 1) PROVE T[k] # "}"
      <3>0. m \in (i + 1)..Len(T) /\ \A y \in I : m <= y
        BY <2>2, Zenon
      <3>1. k \in (i + 1)..Len(T) /\ ~(m <= k)
        <4> HIDE DEF I
        <4>1. m \in (i + 1)..Len(T)
          BY <3>0
        <4> QED
          BY <1>a, <4>1
      <3> QED
        BY <2>2, <3>1, Zenon
    <2> QED
      BY <1>1, <1>4, <2>2, <2>3, Zenon DEF m
  <1> QED
    BY <1>3, <1>4, Zenon

\* The tokens of a template.
LEMMA TokenIn ==
  ASSUME NEW text \in Seq(TemplateToken)
  PROVE  <<"literal", text>> \in TemplateTokens /\ <<"placeholder", text>> \in TemplateTokens
  BY DEF TemplateTokens

\* A step of either goes forward and not beyond the end.
LEMMA GoesForward ==
  ASSUME NEW T \in Seq(TemplateToken), NEW i \in 1..Len(T), ~Ill(T, i)
  PROVE  After(T, i) \in (i + 1)..(Len(T) + 1) /\ TokenOf(T, i) \in TemplateTokens
  <1>0. Len(T) \in Nat
    BY LenProperties
  <1>1. DOMAIN T = 1..Len(T) /\ T[i] \in TemplateToken
    BY LenProperties, ElementOfSeq
  <1>2. CASE P!Escaped(T, i)
    <2>1. i + 1 \in 1..Len(T)
      BY <1>1, <1>2, Zenon DEF P!Escaped, P!TokenAt
    <2>2. <<T[i]>> \in Seq(TemplateToken)
      BY <1>1
    <2>3. After(T, i) = i + 2 /\ TokenOf(T, i) = <<"literal", <<T[i]>>>>
      BY <1>2 DEF After, TokenOf
    <2>4. i + 2 \in (i + 1)..(Len(T) + 1)
      BY <1>0, <2>1
    <2>5. <<"literal", <<T[i]>>>> \in TemplateTokens
      BY <2>2, TokenIn, Zenon
    <2> QED
      BY <2>3, <2>4, <2>5
  <1>3. CASE T[i] \notin {"{", "}"}
    <2>1. <<T[i]>> \in Seq(TemplateToken)
      BY <1>1
    <2>2. ~P!Escaped(T, i)
      BY <1>3, Zenon DEF P!Escaped
    <2>3. After(T, i) = i + 1 /\ TokenOf(T, i) = <<"literal", <<T[i]>>>>
      BY <1>3, <2>2, Zenon DEF After, TokenOf
    <2>4. i + 1 \in (i + 1)..(Len(T) + 1)
      BY <1>0
    <2>5. <<"literal", <<T[i]>>>> \in TemplateTokens
      BY <2>1, TokenIn, Zenon
    <2> QED
      BY <2>3, <2>4, <2>5
  <1>4. CASE T[i] \in {"{", "}"} /\ ~P!Escaped(T, i)
    <2>1. T[i] = "{" /\ P!Closing(T, i) # 0
      BY <1>4, Zenon DEF Ill
    <2> DEFINE c == P!Closing(T, i)
    <2>2. c \in (i + 1)..Len(T)
      BY <2>1, ClosingIs, Zenon
    <2> HIDE DEF c
    <2>3. SubSeq(T, i + 1, c - 1) \in Seq(TemplateToken)
      <3>1. i + 1 \in Int /\ c - 1 \in Int /\ \A k \in (i + 1)..(c - 1) : k \in 1..Len(T)
        BY <1>0, <2>2
      <3>2. \A k \in (i + 1)..(c - 1) : T[k] \in TemplateToken
        BY <3>1, ElementOfSeq
      <3> QED
        BY <3>1, <3>2, SubSeqProperties
    <2>4. After(T, i) = c + 1 /\ TokenOf(T, i) = <<"placeholder", SubSeq(T, i + 1, c - 1)>>
      BY <1>4, <2>1, Zenon DEF After, TokenOf, c
    <2>5. c + 1 \in (i + 1)..(Len(T) + 1)
      BY <1>0, <2>2
    <2>6. <<"placeholder", SubSeq(T, i + 1, c - 1)>> \in TemplateTokens
      BY <2>3, TokenIn, Zenon
    <2> QED
      BY <2>4, <2>5, <2>6
  <1> QED
    BY <1>2, <1>3, <1>4, Zenon

-----------------------------------------------------------------------------
(* Parsing *)

\* The parsing of the template from each of its places on.
Parses(T, p) ==
    p = [i \in 1..(Len(T) + 1) |->
            LET name == SubSeq(T, i + 1, P!Closing(T, i) - 1)
                then(token, next) == [valid |-> p[next].valid, tokens |-> <<token>> \o p[next].tokens]
            IN  IF i > Len(T) THEN [valid |-> TRUE, tokens |-> <<>>]
                ELSE CASE P!Escaped(T, i) -> then(<<"literal", <<T[i]>>>>, i + 2)
                       [] /\ T[i] = "{" /\ ~P!Escaped(T, i)
                          /\ P!Closing(T, i) # 0 /\ P!IsName(name) ->
                              then(<<"placeholder", name>>, P!Closing(T, i) + 1)
                       [] T[i] \notin {"{", "}"} -> then(<<"literal", <<T[i]>>>>, i + 1)
                       [] OTHER -> [valid |-> FALSE, tokens |-> <<>>]]

ParsesAt(T, p, i) ==
    p[i] = IF i = Len(T) + 1 THEN [valid |-> TRUE, tokens |-> <<>>]
           ELSE IF Ill(T, i) THEN [valid |-> FALSE, tokens |-> <<>>]
           ELSE [valid |-> p[After(T, i)].valid, tokens |-> <<TokenOf(T, i)>> \o p[After(T, i)].tokens]

\* What ParsesAt() says of one place.
LEMMA ParsesAtEach ==
  ASSUME NEW T \in Seq(TemplateToken), NEW p, NEW i \in 1..(Len(T) + 1)
  PROVE  ParsesAt(T, p, i) <=>
           p[i] =
            LET name == SubSeq(T, i + 1, P!Closing(T, i) - 1)
                then(token, next) == [valid |-> p[next].valid, tokens |-> <<token>> \o p[next].tokens]
            IN  IF i > Len(T) THEN [valid |-> TRUE, tokens |-> <<>>]
                ELSE CASE P!Escaped(T, i) -> then(<<"literal", <<T[i]>>>>, i + 2)
                       [] /\ T[i] = "{" /\ ~P!Escaped(T, i)
                          /\ P!Closing(T, i) # 0 /\ P!IsName(name) ->
                              then(<<"placeholder", name>>, P!Closing(T, i) + 1)
                       [] T[i] \notin {"{", "}"} -> then(<<"literal", <<T[i]>>>>, i + 1)
                       [] OTHER -> [valid |-> FALSE, tokens |-> <<>>]
  <1>1. Len(T) \in Nat
    BY LenProperties
  <1>2. CASE i = Len(T) + 1
    <2>1. i > Len(T)
      BY <1>1, <1>2
    <2> QED
      BY <1>2, <2>1 DEF ParsesAt
  <1>3. CASE i # Len(T) + 1
    <2>1. ~(i > Len(T))
      BY <1>1, <1>3
    <2>2. CASE P!Escaped(T, i)
      <3>1. T[i] \in {"{", "}"}
        BY <2>2, Zenon DEF P!Escaped
      <3> QED
        BY <1>3, <2>1, <2>2, <3>1, Zenon DEF ParsesAt, Ill, After, TokenOf
    <2>3. CASE T[i] \notin {"{", "}"}
      <3>1. ~P!Escaped(T, i) /\ T[i] # "{"
        BY <2>3, Zenon DEF P!Escaped
      <3> QED
        BY <1>3, <2>1, <2>3, <3>1, Zenon DEF ParsesAt, Ill, After, TokenOf
    <2>4. CASE T[i] \in {"{", "}"} /\ ~P!Escaped(T, i)
      BY <1>3, <2>1, <2>4, Zenon DEF ParsesAt, Ill, After, TokenOf
    <2> QED
      BY <2>2, <2>3, <2>4, Zenon
  <1> QED
    BY <1>2, <1>3, Zenon

\* The recursion of Parse() is an equation for each place.
LEMMA ParsesIff ==
  ASSUME NEW T \in Seq(TemplateToken), NEW V, NEW p \in [1..(Len(T) + 1) -> V]
  PROVE  Parses(T, p) <=> \A i \in 1..(Len(T) + 1) : ParsesAt(T, p, i)
  BY ParsesAtEach, Zenon DEF Parses

Parsed == [valid : BOOLEAN, tokens : Seq(TemplateTokens)]

\* What parsing returns has its type.
LEMMA ParsedIn ==
  /\ [valid |-> TRUE, tokens |-> <<>>] \in Parsed /\ [valid |-> FALSE, tokens |-> <<>>] \in Parsed
  /\ \A v \in Parsed, t \in TemplateTokens : [valid |-> v.valid, tokens |-> <<t>> \o v.tokens] \in Parsed
  <1>1. \A s \in Seq(TemplateTokens), t \in TemplateTokens : <<t>> \o s \in Seq(TemplateTokens)
    <2> SUFFICES ASSUME NEW s \in Seq(TemplateTokens), NEW t \in TemplateTokens PROVE <<t>> \o s \in Seq(TemplateTokens)
      OBVIOUS
    <2>1. <<t>> \in Seq(TemplateTokens)
      OBVIOUS
    <2> QED
      BY <2>1, ConcatProperties
  <1> QED
    BY <1>1, EmptySeq DEF Parsed

\* Parsing every template ends.
LEMMA ParsesSome ==
  ASSUME NEW T \in Seq(TemplateToken)
  PROVE  \E p : Parses(T, p)
  <1> DEFINE N == Len(T) + 1
             stop == {i \in 1..N : i = N \/ Ill(T, i)}
             base == [i \in 1..N |-> [valid |-> i = N, tokens |-> <<>>]]
             next == [i \in 1..N |-> IF i \in stop THEN i ELSE After(T, i)]
             longer(i, v) == [valid |-> v.valid, tokens |-> <<TokenOf(T, i)>> \o v.tokens]
             step == [i \in 1..N |-> [v \in Parsed |-> IF i \in stop THEN v ELSE longer(i, v)]]
  <1>1. Len(T) \in Nat /\ N \in Nat
    BY LenProperties
  <1>2. \A i \in 1..N : i \notin stop => After(T, i) \in (i + 1)..N /\ TokenOf(T, i) \in TemplateTokens
    <2> SUFFICES ASSUME NEW i \in 1..N, i \notin stop
                 PROVE  After(T, i) \in (i + 1)..N /\ TokenOf(T, i) \in TemplateTokens
      OBVIOUS
    <2>1. i \in 1..Len(T) /\ ~Ill(T, i)
      BY <1>1
    <2> QED
      BY <2>1, GoesForward
  <1> HIDE DEF stop
  <1>3. base \in [1..N -> Parsed]
    <2>1. \A i \in 1..N : [valid |-> i = N, tokens |-> <<>>] \in Parsed
      BY EmptySeq DEF Parsed
    <2> QED
      BY <2>1
  <1>4. next \in [1..N -> 1..N] /\ \A i \in 1..N : i \notin stop => next[i] > i
    BY <1>1, <1>2
  <1>5. step \in [1..N -> [Parsed -> Parsed]]
    <2>1. \A i \in 1..N, v \in Parsed : i \notin stop => longer(i, v) \in Parsed
      BY <1>2, ParsedIn, Zenon
    <2> HIDE DEF longer
    <2> QED
      BY <2>1
  <1>6. PICK p \in [1..N -> Parsed] :
           \A i \in 1..N : p[i] = IF i \in stop THEN base[i] ELSE step[i][p[next[i]]]
    <2> HIDE DEF N, base, next, step
    <2>1. PICK p : DownTo(N, Parsed, base, stop, next, step, p)
      BY <1>1, <1>3, <1>4, <1>5, DownRecur, Zenon
    <2> QED
      BY <2>1, Zenon DEF DownTo
  <1>7. ASSUME NEW i \in 1..N PROVE ParsesAt(T, p, i)
    <2>1. CASE i \in stop
      <3>1. p[i] = [valid |-> i = N, tokens |-> <<>>]
        BY <1>6, <2>1, Zenon
      <3>2. i = N \/ Ill(T, i)
        BY <2>1 DEF stop
      <3> QED
        BY <3>1, <3>2, Zenon DEF ParsesAt
    <2>2. CASE i \notin stop
      <3>1. i # N /\ ~Ill(T, i)
        BY <2>2 DEF stop
      <3>2. After(T, i) \in 1..N /\ next[i] = After(T, i)
        BY <1>1, <1>2, <2>2
      <3>3. p[After(T, i)] \in Parsed /\ p[i] = longer(i, p[After(T, i)])
        BY <1>6, <2>2, <3>2, Zenon
      <3> QED
        BY <3>1, <3>3 DEF ParsesAt
    <2> QED
      BY <2>1, <2>2
  <1> QED
    BY <1>7, ParsesIff, Zenon

\* What Parse() returns, as equations for each place.
LEMMA ParseIs ==
  ASSUME NEW T \in Seq(TemplateToken)
  PROVE  \E p : /\ P!Parse(T) = p[1]
                /\ \A i \in 1..(Len(T) + 1) : ParsesAt(T, p, i) /\ p[i] \in Parsed
  <1> DEFINE N == Len(T) + 1
             p == CHOOSE p : Parses(T, p)
             V == {p[i] : i \in 1..N}
  <1>1. P!Parse(T) = p[1]
    BY DEF P!Parse, Parses
  <1>2. Parses(T, p)
    BY ParsesSome
  <1> HIDE DEF p
  <1>3. p \in [1..N -> V]
    <2>1. p = [i \in 1..N |-> p[i]]
      BY <1>2, Zenon DEF Parses
    <2> QED
      BY <2>1
  <1>4. \A i \in 1..N : ParsesAt(T, p, i)
    <2> HIDE DEF V
    <2> QED
      BY <1>2, <1>3, ParsesIff, Zenon
  <1>5. N \in Nat /\ Len(T) \in Nat
    BY LenProperties
  <1> DEFINE S == {i \in 1..N : p[i] \in Parsed}
  <1>6. ASSUME NEW i \in 1..N, \A j \in (i + 1)..N : j \in S PROVE i \in S
    <2>0. ParsesAt(T, p, i)
      BY <1>4
    <2>1. CASE i = N \/ Ill(T, i)
      BY <2>0, <2>1, ParsedIn DEF ParsesAt
    <2>2. CASE i # N /\ ~Ill(T, i)
      <3>1. i \in 1..Len(T)
        BY <1>5, <2>2
      <3>2. After(T, i) \in (i + 1)..N /\ TokenOf(T, i) \in TemplateTokens
        BY <2>2, <3>1, GoesForward
      <3>3. p[After(T, i)] \in Parsed
        BY <1>6, <3>2
      <3>4. p[i] = [valid |-> p[After(T, i)].valid, tokens |-> <<TokenOf(T, i)>> \o p[After(T, i)].tokens]
        BY <2>0, <2>2 DEF ParsesAt
      <3> QED
        BY <3>2, <3>3, <3>4, ParsedIn, Zenon
    <2> QED
      BY <2>1, <2>2
  <1> HIDE DEF S, N
  <1>7. 1..N \subseteq S
    BY <1>5, <1>6, DownInduce, Zenon
  <1> QED
    BY <1>1, <1>4, <1>7 DEF S, N

-----------------------------------------------------------------------------
(* The same places in C *)

\* C sees in each place of a template what Python sees there.
LEMMA SamePlaces ==
  ASSUME NEW T \in Seq(TemplateToken), NEW i \in 1..Len(T)
  PROVE  /\ C!TokenAt(T, i) = T[i] /\ T[i] # "end"
         /\ C!Escaped(T, i) <=> P!Escaped(T, i)
         /\ C!Stop(T, i) = IF P!Closing(T, i) = 0 THEN Len(T) + 1 ELSE P!Closing(T, i)
         /\ C!ValidName(T, i) <=> /\ P!Closing(T, i) # 0
                                  /\ P!IsName(SubSeq(T, i + 1, P!Closing(T, i) - 1))
  <1>0. Len(T) \in Nat
    BY LenProperties
  <1>1. DOMAIN T = 1..Len(T) /\ \A k \in 1..Len(T) : T[k] \in TemplateToken /\ T[k] # "end"
    <2>1. "end" \notin TemplateToken
      BY Zenon DEF TemplateToken
    <2> QED
      BY <2>1, LenProperties, ElementOfSeq
  <1>2. /\ \A k \in 1..Len(T) : C!TokenAt(T, k) = T[k]
        /\ C!TokenAt(T, Len(T) + 1) = "end"
    BY <1>0, <1>1 DEF C!TokenAt
  <1>3. \A k : C!TokenAt(T, k) = P!TokenAt(T, k)
    BY DEF C!TokenAt, P!TokenAt
  <1>4. C!Escaped(T, i) <=> P!Escaped(T, i)
    BY <1>2, <1>3, Zenon DEF C!Escaped, P!Escaped
  <1> DEFINE c == P!Closing(T, i)
             s == C!Stop(T, i)
             N == Len(T) + 1
             ends(j) == C!TokenAt(T, j) \in {"}", "end"} /\ \A k \in (i + 1)..(j - 1) : T[k] # "}"
  <1>5. \/ c = 0 /\ \A k \in (i + 1)..Len(T) : T[k] # "}"
        \/ c \in (i + 1)..Len(T) /\ T[c] = "}" /\ \A k \in (i + 1)..(c - 1) : T[k] # "}"
    BY ClosingIs, Zenon
  <1>6. s = CHOOSE j \in (i + 1)..N : ends(j)
    BY DEF C!Stop
  <1> HIDE DEF s, c
  <1>7. CASE c = 0
    <2>1. \A k \in (i + 1)..Len(T) : T[k] # "}"
      <3>1. c \notin (i + 1)..Len(T)
        BY <1>7
      <3> QED
        BY <1>5, <3>1, Zenon
    <2>2. ends(N) /\ N \in (i + 1)..N
      <3>1. N \in (i + 1)..N /\ N - 1 = Len(T)
        BY <1>0
      <3>2. \A k \in (i + 1)..(N - 1) : T[k] # "}"
        BY <2>1, <3>1, Zenon
      <3> QED
        BY <1>2, <3>1, <3>2, Zenon
    <2>3. ASSUME NEW j \in (i + 1)..N, ends(j) PROVE j = N
      <3> SUFFICES ASSUME j # N PROVE FALSE
        OBVIOUS
      <3>1. j \in 1..Len(T) /\ j \in (i + 1)..Len(T)
        BY <1>0
      <3>2. T[j] = "}"
        BY <1>1, <1>2, <2>3, <3>1, Zenon
      <3> QED
        BY <2>1, <3>1, <3>2, Zenon
    <2>4. s = N
      <3> HIDE DEF ends, N
      <3> QED
        BY <1>6, <2>2, <2>3
    <2>5. ~C!ValidName(T, i)
      BY <1>2, <2>4, Zenon DEF C!ValidName, s
    <2> QED
      BY <1>1, <1>2, <1>4, <1>7, <2>4, <2>5 DEF c, s
  <1>8. CASE c # 0
    <2>0. c \in (i + 1)..Len(T)
      BY <1>5, <1>8, Zenon
    <2>a. T[c] = "}" /\ \A k \in (i + 1)..(c - 1) : T[k] # "}"
      BY <1>5, <1>8, Zenon
    <2>1. c \in 1..Len(T) /\ c \in (i + 1)..N
      BY <1>0, <2>0
    <2>2. ends(c)
      BY <1>2, <2>a, <2>1, Zenon
    <2>3. ASSUME NEW j \in (i + 1)..N, ends(j) PROVE j = c
      <3>1. ASSUME j < c PROVE FALSE
        <4>1. j \in (i + 1)..(c - 1) /\ j \in 1..Len(T)
          BY <1>0, <2>0, <3>1
        <4>2. T[j] = "}"
          BY <1>1, <1>2, <2>3, <4>1, Zenon
        <4> QED
          BY <2>a, <4>1, <4>2, Zenon
      <3>2. ASSUME j > c PROVE FALSE
        <4>1. c \in (i + 1)..(j - 1)
          BY <2>0, <3>2
        <4> QED
          BY <2>a, <2>3, <4>1, Zenon
      <3> QED
        BY <2>0, <3>1, <3>2
    <2>4. s = c
      <3> HIDE DEF ends, N
      <3> QED
        BY <1>6, <2>1, <2>2, <2>3
    <2> DEFINE name == SubSeq(T, i + 1, c - 1)
    <2>5. /\ name \in Seq(TemplateToken) /\ Len(name) = c - 1 - i
          /\ \A k \in 1..(c - 1 - i) : name[k] = T[i + k]
      <3>1. i + 1 \in Int /\ c - 1 \in Int /\ \A k \in (i + 1)..(c - 1) : k \in 1..Len(T)
        BY <1>0, <2>0
      <3>2. \A k \in (i + 1)..(c - 1) : T[k] \in TemplateToken
        BY <1>1, <3>1
      <3>3. /\ name \in Seq(TemplateToken)
            /\ Len(name) = IF i + 1 <= c - 1 THEN (c - 1) - (i + 1) + 1 ELSE 0
            /\ \A k \in 1..((c - 1) - (i + 1) + 1) : name[k] = T[(i + 1) + k - 1]
        BY <3>1, <3>2, SubSeqProperties
      <3>4. (IF i + 1 <= c - 1 THEN (c - 1) - (i + 1) + 1 ELSE 0) = c - 1 - i
            /\ (c - 1) - (i + 1) + 1 = c - 1 - i /\ \A k \in Int : (i + 1) + k - 1 = i + k
        BY <2>0
      <3> QED
        BY <3>3, <3>4
    <2> HIDE DEF name
    <2>6. name # <<>> <=> c > i + 1
      <3>1. Len(name) = c - 1 - i /\ (name = <<>> <=> Len(name) = 0)
        BY <2>5, EmptySeq, SeqEqual
      <3> QED
        BY <2>0, <3>1
    <2>7. DOMAIN name = 1..(c - 1 - i)
      BY <2>5, LenProperties
    <2>8. C!ValidName(T, i) <=> c > i + 1 /\ \A k \in (i + 1)..(c - 1) : C!NameByte(T, i + 1, k)
      BY <1>2, <2>a, <2>1, <2>4, Zenon DEF C!ValidName, s
    <2>9. P!IsName(name) <=> c > i + 1 /\ name[1] = "a" /\ \A k \in 1..(c - 1 - i) : name[k] \in {"a", "1"}
      BY <2>6, <2>7 DEF P!IsName
    <2>10. ASSUME c > i + 1
           PROVE  (\A k \in (i + 1)..(c - 1) : C!NameByte(T, i + 1, k))
                     <=> name[1] = "a" /\ \A k \in 1..(c - 1 - i) : name[k] \in {"a", "1"}
      <3>1. name[1] = T[i + 1]
        BY <2>0, <2>5, <2>10
      <3>2. ASSUME \A k \in (i + 1)..(c - 1) : C!NameByte(T, i + 1, k)
            PROVE  name[1] = "a" /\ \A k \in 1..(c - 1 - i) : name[k] \in {"a", "1"}
        <4>1. i + 1 \in (i + 1)..(c - 1)
          BY <2>0, <2>10
        <4>2. T[i + 1] = "a"
          BY <3>2, <4>1 DEF C!NameByte
        <4>3. ASSUME NEW k \in 1..(c - 1 - i) PROVE name[k] \in {"a", "1"}
          <5>1. i + k \in (i + 1)..(c - 1) /\ name[k] = T[i + k]
            BY <2>0, <2>5
          <5> QED
            BY <3>2, <5>1 DEF C!NameByte
        <4> QED
          BY <3>1, <4>2, <4>3
      <3>3. ASSUME name[1] = "a", \A k \in 1..(c - 1 - i) : name[k] \in {"a", "1"},
                   NEW k \in (i + 1)..(c - 1)
            PROVE  C!NameByte(T, i + 1, k)
        <4>1. k - i \in 1..(c - 1 - i) /\ i + (k - i) = k
          BY <2>0
        <4>2. T[k] \in {"a", "1"}
          BY <2>5, <3>3, <4>1
        <4>3. k > i + 1 \/ T[k] = "a"
          <5>1. k = i + 1 \/ k > i + 1
            BY <2>0
          <5> QED
            BY <3>1, <3>3, <5>1, Zenon
        <4> QED
          BY <4>2, <4>3 DEF C!NameByte
      <3> QED
        BY <3>2, <3>3
    <2>11. C!ValidName(T, i) <=> c # 0 /\ P!IsName(name)
      BY <1>8, <2>8, <2>9, <2>10
    <2> QED
      BY <1>1, <1>2, <1>4, <1>8, <2>4, <2>11 DEF c, s, name
  <1> QED
    BY <1>7, <1>8

-----------------------------------------------------------------------------
(* Output of C *)

RoomAfter(length, capacity) == IF length + 1 < capacity THEN capacity - 1 - length ELSE 0

\* What is written by C, and its parts.
LEMMA OutputIs ==
  /\ C!Output = [length : Nat, bytes : Seq(TemplateBytes)]
  /\ \A out \in C!Output : /\ out.length \in Nat /\ out.bytes \in Seq(TemplateBytes)
                          /\ out = [length |-> out.length, bytes |-> out.bytes]
  <1>1. C!Output = [length : Nat, bytes : Seq(TemplateBytes)]
    BY DEF C!Output, TemplateBytes, TemplateToken, C!TemplateToken
  <1> QED
    BY <1>1

\* append_bytes() stores what fits.
LEMMA AppendIs ==
  ASSUME NEW out, NEW capacity, NEW x
  PROVE  C!AppendBytes(out, capacity, x) =
            [length |-> out.length + Len(x),
             bytes |-> out.bytes \o Fitting(x, RoomAfter(out.length, capacity))]
  BY DEF C!AppendBytes, Fitting, RoomAfter

\* What the C code writes is one after the other as if it were written at once.
LEMMA AppendTwice ==
  ASSUME NEW out \in C!Output, NEW capacity \in Nat, NEW x \in Seq(TemplateBytes), NEW y \in Seq(TemplateBytes)
  PROVE  /\ C!AppendBytes(out, capacity, x) \in C!Output
         /\ C!AppendBytes(C!AppendBytes(out, capacity, x), capacity, y)
               = C!AppendBytes(out, capacity, x \o y)
  <1> DEFINE space == RoomAfter(out.length, capacity)
             px == Fitting(x, space)
             py == Fitting(y, Left(Len(x), space))
             one == C!AppendBytes(out, capacity, x)
             length == out.length
             bytes == out.bytes
  <1>1. length \in Nat /\ bytes \in Seq(TemplateBytes)
    BY OutputIs
  <1>2. Len(x) \in Nat /\ Len(y) \in Nat /\ Len(x \o y) = Len(x) + Len(y)
    BY LenProperties, ConcatProperties
  <1> HIDE DEF length, bytes
  <1>3. space \in Nat
    BY <1>1 DEF RoomAfter, length
  <1>4. one = [length |-> length + Len(x), bytes |-> bytes \o px]
    BY AppendIs, Zenon DEF length, bytes
  <1>5. Left(Len(x), space) \in Nat
    <2> HIDE DEF space
    <2> QED
      BY <1>2, <1>3 DEF Left
  <1>6. RoomAfter(length + Len(x), capacity) = Left(Len(x), space)
    BY <1>1, <1>2 DEF Left, RoomAfter, length
  <1> HIDE DEF space
  <1>7. px \in Seq(TemplateBytes) /\ py \in Seq(TemplateBytes)
    BY <1>3, <1>5, FittingIs
  <1>8. one \in C!Output
    <2>1. bytes \o px \in Seq(TemplateBytes)
      BY <1>1, <1>7, ConcatProperties
    <2>2. length + Len(x) \in Nat
      BY <1>1, <1>2
    <2> HIDE DEF one, px
    <2> QED
      BY <1>4, <2>1, <2>2, OutputIs
  <1>9. C!AppendBytes(one, capacity, y) =
           [length |-> (length + Len(x)) + Len(y), bytes |-> (bytes \o px) \o py]
    <2> HIDE DEF one, px
    <2>1. one.length = length + Len(x) /\ one.bytes = bytes \o px
      BY <1>4
    <2> QED
      BY <1>6, <2>1, AppendIs, Zenon
  <1>10. C!AppendBytes(out, capacity, x \o y) =
            [length |-> length + (Len(x) + Len(y)), bytes |-> bytes \o Fitting(x \o y, space)]
    BY <1>2, AppendIs, Zenon DEF space, length, bytes
  <1>11. px \o py = Fitting(x \o y, space)
    BY <1>3, FittingTwice
  <1> HIDE DEF px, py, one
  <1>12. (bytes \o px) \o py = bytes \o (px \o py)
    BY <1>1, <1>7, ConcatAssociative
  <1>13. (length + Len(x)) + Len(y) = length + (Len(x) + Len(y))
    BY <1>1, <1>2
  <1>14. C!AppendBytes(one, capacity, y) = C!AppendBytes(out, capacity, x \o y)
    BY <1>9, <1>10, <1>11, <1>12, <1>13, Zenon
  <1> QED
    BY <1>8, <1>14 DEF one

\* Appending nothing changes nothing.
LEMMA AppendNothing ==
  ASSUME NEW out \in C!Output, NEW capacity \in Nat
  PROVE  C!AppendBytes(out, capacity, <<>>) = out
  <1>1. out.length \in Nat /\ out.bytes \in Seq(TemplateBytes) /\ out = [length |-> out.length, bytes |-> out.bytes]
    BY OutputIs
  <1>2. Len(<<>>) = 0 /\ SubSeq(<<>>, 1, 0) = <<>>
    BY SubSeqEmpty
  <1> DEFINE space == IF out.length + 1 < capacity THEN capacity - 1 - out.length ELSE 0
  <1>3. space \in Nat
    BY <1>1
  <1>4. (IF Len(<<>>) < space THEN Len(<<>>) ELSE space) = 0
    BY <1>2, <1>3
  <1>5. C!AppendBytes(out, capacity, <<>>) =
           [length |-> out.length + Len(<<>>),
            bytes |-> out.bytes \o SubSeq(<<>>, 1, IF Len(<<>>) < space THEN Len(<<>>) ELSE space)]
    BY DEF C!AppendBytes
  <1> HIDE DEF space
  <1>6. out.bytes \o <<>> = out.bytes /\ out.length + 0 = out.length
    BY <1>1, ConcatEmptySeq
  <1> QED
    BY <1>1, <1>2, <1>4, <1>5, <1>6, Zenon

\* The text of a token.
LEMMA TextIn ==
  ASSUME NEW v \in ParamValue
  PROVE  /\ \A t \in TemplateTokens : P!TokenText(t, v) \in Seq(TemplateBytes)
         /\ \A name : C!Replaced(name, v) = P!TokenText(<<"placeholder", name>>, v)
         /\ \A text : P!TokenText(<<"literal", text>>, v) = text
  <1>1. ASSUME NEW t \in TemplateTokens PROVE P!TokenText(t, v) \in Seq(TemplateBytes)
    <2>1. t[2] \in Seq(TemplateToken)
      BY DEF TemplateTokens
    <2>2. t[2] \in Seq(TemplateBytes)
      BY <2>1 DEF TemplateBytes
    <2>3. v # <<"none">> => v \in Seq(TemplateBytes)
      <3>1. \A a \in TemplateBytes : <<a, a>> \in Seq(TemplateBytes)
        OBVIOUS
      <3>2. \A a, b, c, d \in TemplateBytes : <<a, b, c, d>> \in Seq(TemplateBytes)
        OBVIOUS
      <3>3. {"v", "{", "}", "a", "1"} \subseteq TemplateBytes
        BY DEF TemplateBytes, TemplateToken
      <3>4. <<"v", "v">> \in Seq(TemplateBytes) /\ <<"{", "a", "1", "}">> \in Seq(TemplateBytes) /\ <<>> \in Seq(TemplateBytes)
        BY <3>1, <3>2, <3>3, EmptySeq, Zenon
      <3> QED
        BY <3>4, Zenon DEF ParamValue
    <2>4. <<"{">> \in Seq(TemplateBytes) /\ <<"}">> \in Seq(TemplateBytes)
      BY DEF TemplateBytes, TemplateToken
    <2>5. <<"{">> \o t[2] \in Seq(TemplateBytes)
      BY <2>2, <2>4, ConcatProperties, Zenon
    <2>6. <<"{">> \o t[2] \o <<"}">> \in Seq(TemplateBytes)
      BY <2>4, <2>5, ConcatProperties, Zenon
    <2> QED
      BY <2>2, <2>3, <2>6, Zenon DEF P!TokenText
  <1>2. ASSUME NEW name PROVE C!Replaced(name, v) = P!TokenText(<<"placeholder", name>>, v)
    <2> DEFINE t == <<"placeholder", name>>
    <2>1. t[1] # "literal" /\ t[2] = name
      OBVIOUS
    <2> HIDE DEF t
    <2>2. P!TokenText(t, v) = IF name = <<"a", "1">> /\ v # <<"none">> THEN v ELSE <<"{">> \o name \o <<"}">>
      BY <2>1 DEF P!TokenText
    <2>3. C!Replaced(name, v) = IF name = <<"a", "1">> /\ v # <<"none">> THEN v ELSE <<"{">> \o name \o <<"}">>
      BY Zenon DEF C!Replaced, C!FindParam, C!SameName
    <2> QED
      BY <2>2, <2>3, Zenon DEF t
  <1>3. \A text : P!TokenText(<<"literal", text>>, v) = text
    BY DEF P!TokenText
  <1> QED
    BY <1>1, <1>2, <1>3

-----------------------------------------------------------------------------
(* The text of a template *)

\* The bytes that some tokens stand for.
Texts(tokens, v) == [i \in DOMAIN tokens |-> P!TokenText(tokens[i], v)]

\* The texts of some tokens.
LEMMA TextsIn ==
  ASSUME NEW v \in ParamValue, NEW tokens \in Seq(TemplateTokens)
  PROVE  Texts(tokens, v) \in Seq(Seq(TemplateBytes)) /\ Len(Texts(tokens, v)) = Len(tokens)
  <1> DEFINE n == Len(tokens)
             tt == Texts(tokens, v)
  <1>1. n \in Nat /\ DOMAIN tokens = 1..n /\ \A i \in 1..n : tokens[i] \in TemplateTokens
    BY LenProperties, ElementOfSeq
  <1>2. \A i \in 1..n : P!TokenText(tokens[i], v) \in Seq(TemplateBytes)
    BY <1>1, TextIn
  <1> HIDE DEF n
  <1>3. tt \in [1..n -> Seq(TemplateBytes)]
    BY <1>1, <1>2 DEF Texts
  <1> HIDE DEF tt
  <1>4. tt \in Seq(Seq(TemplateBytes))
    BY <1>1, <1>3, SeqDef
  <1>5. Len(tt) = n
    BY <1>1, <1>3, <1>4, LenProperties
  <1> QED
    BY <1>4, <1>5 DEF tt, n

\* Concatenation is the same in the instance of the Python module.
LEMMA SameFlatten ==
  ASSUME NEW ss
  PROVE  P!FlattenSeq(ss) = FlattenSeq(ss)
  BY DEF P!FlattenSeq, FlattenSeq

\* The text of the first token comes first.
LEMMA TextsCons ==
  ASSUME NEW v \in ParamValue, NEW t \in TemplateTokens, NEW tokens \in Seq(TemplateTokens)
  PROVE  /\ P!FlattenSeq(Texts(tokens, v)) \in Seq(TemplateBytes)
         /\ P!FlattenSeq(Texts(<<t>> \o tokens, v))
               = P!TokenText(t, v) \o P!FlattenSeq(Texts(tokens, v))
  <1> DEFINE more == <<t>> \o tokens
             x == P!TokenText(t, v)
             ss == Texts(tokens, v)
             tt == Texts(more, v)
             n == Len(tokens)
  <1>1. x \in Seq(TemplateBytes)
    BY TextIn
  <1>2. ss \in Seq(Seq(TemplateBytes)) /\ Len(ss) = n /\ n \in Nat
    BY TextsIn, LenProperties
  <1>3. <<t>> \in Seq(TemplateTokens) /\ Len(<<t>>) = 1 /\ <<t>>[1] = t
    OBVIOUS
  <1>4. /\ more \in Seq(TemplateTokens) /\ Len(more) = 1 + n
        /\ \A i \in 1..(1 + n) : more[i] = IF i <= 1 THEN <<t>>[i] ELSE tokens[i - 1]
    BY <1>3, ConcatProperties
  <1> HIDE DEF more
  <1>5. tt \in Seq(Seq(TemplateBytes)) /\ Len(tt) = 1 + n
    BY <1>4, TextsIn
  <1>6. DOMAIN more = 1..(1 + n) /\ DOMAIN tokens = 1..n
    BY <1>4, LenProperties
  <1>7. <<x>> \in Seq(Seq(TemplateBytes)) /\ Len(<<x>>) = 1 /\ <<x>>[1] = x
    <2> HIDE DEF x
    <2> QED
      BY <1>1
  <1> DEFINE uu == <<x>> \o ss
  <1>8. /\ uu \in Seq(Seq(TemplateBytes)) /\ Len(uu) = 1 + n
        /\ \A i \in 1..(1 + n) : uu[i] = IF i <= 1 THEN <<x>>[i] ELSE ss[i - 1]
    <2> HIDE DEF x, ss
    <2> QED
      BY <1>2, <1>7, ConcatProperties
  <1>9. ASSUME NEW i \in 1..(1 + n) PROVE tt[i] = uu[i]
    <2>1. tt[i] = P!TokenText(more[i], v)
      BY <1>6 DEF Texts
    <2> HIDE DEF uu, tt
    <2>2. CASE i <= 1
      <3>1. i = 1
        BY <1>2, <2>2
      <3> HIDE DEF x
      <3>2. more[i] = t /\ uu[i] = x
        BY <1>3, <1>4, <1>7, <1>8, <2>2, <3>1
      <3> QED
        BY <2>1, <3>2 DEF x
    <2>3. CASE ~(i <= 1)
      <3>1. i - 1 \in 1..n
        BY <1>2, <2>3
      <3>2. more[i] = tokens[i - 1] /\ uu[i] = ss[i - 1]
        BY <1>4, <1>8, <2>3
      <3>3. ss[i - 1] = P!TokenText(tokens[i - 1], v)
        BY <1>6, <3>1 DEF Texts
      <3> QED
        BY <2>1, <3>2, <3>3
    <2> QED
      BY <2>2, <2>3
  <1> HIDE DEF tt, uu, ss, x
  <1>10. tt = uu
    <2>1. Len(tt) = Len(uu) /\ \A i \in 1..Len(tt) : tt[i] = uu[i]
      BY <1>5, <1>8, <1>9
    <2> QED
      BY <1>5, <1>8, <2>1, SeqEqual, Zenon
  <1>11. P!FlattenSeq(uu) = x \o P!FlattenSeq(ss) /\ P!FlattenSeq(ss) \in Seq(TemplateBytes)
    BY <1>1, <1>2, FlattenCons, SameFlatten, Zenon DEF uu
  <1> QED
    BY <1>10, <1>11, Zenon DEF tt, ss, x, more

\* No tokens have no text.
LEMMA TextsNone ==
  ASSUME NEW v \in ParamValue
  PROVE  P!FlattenSeq(Texts(<<>>, v)) = <<>>
  <1> DEFINE ss == Texts(<<>>, v)
  <1>1. <<>> \in Seq(TemplateTokens) /\ Len(<<>>) = 0
    BY EmptySeq
  <1>2. ss \in Seq(Seq(TemplateBytes)) /\ Len(ss) = 0
    BY <1>1, TextsIn, Zenon
  <1> HIDE DEF ss
  <1>3. PICK F : Flat(ss, TemplateBytes, F)
    BY <1>2, FlatSome, Zenon
  <1>4. P!FlattenSeq(ss) = F[Len(ss)]
    BY <1>2, <1>3, FlattenIs, SameFlatten, Zenon
  <1> QED
    BY <1>2, <1>3, <1>4 DEF Flat, ss

-----------------------------------------------------------------------------
(* Rendering in C, from each place of a template on *)

Rendered(T, v, c, r, i, out) ==
    LET t == C!TokenAt(T, i)
        then(bytes, next) == r[next][C!AppendBytes(out, c, bytes)]
        name == SubSeq(T, i + 1, C!Stop(T, i) - 1)
    IN  CASE t = "end" -> C!Finish(out, IF out.length + 1 > c
                                        THEN "BUFFER_TOO_SMALL" ELSE "OK")
          [] C!Escaped(T, i) -> then(<<t>>, i + 2)
          [] t = "{" /\ ~C!Escaped(T, i) ->
                 IF C!ValidName(T, i)
                 THEN then(C!Replaced(name, v), C!Stop(T, i) + 1)
                 ELSE C!Finish(out, "INVALID_TEMPLATE")
          [] t = "}" /\ ~C!Escaped(T, i) -> C!Finish(out, "INVALID_TEMPLATE")
          [] t \notin {"{", "}", "end"} -> then(<<t>>, i + 1)

Renders(T, v, c, r) ==
    r = [i \in 1..(Len(T) + 1) |-> [out \in C!Output |-> Rendered(T, v, c, r, i, out)]]

\* The end of a rendering that finds nothing wrong.
Done(out, c) == C!Finish(out, IF out.length + 1 > c THEN "BUFFER_TOO_SMALL" ELSE "OK")

RendersAs(T, v, c, r, i, out) ==
    IF i = Len(T) + 1 THEN Done(out, c)
    ELSE IF Ill(T, i) THEN C!Finish(out, "INVALID_TEMPLATE")
    ELSE r[After(T, i)][C!AppendBytes(out, c, P!TokenText(TokenOf(T, i), v))]

\* Rendering in C from one place on, in the words of the Python parser.
LEMMA RenderedIs ==
  ASSUME NEW T \in Seq(TemplateToken), NEW v \in ParamValue, NEW c, NEW r, NEW out,
         NEW i \in 1..(Len(T) + 1)
  PROVE  Rendered(T, v, c, r, i, out) = RendersAs(T, v, c, r, i, out)
  <1>1. Len(T) \in Nat /\ DOMAIN T = 1..Len(T)
    BY LenProperties
  <1>2. CASE i = Len(T) + 1
    <2>1. i \notin DOMAIN T
      BY <1>1, <1>2
    <2>2. C!TokenAt(T, i) = "end"
      BY <2>1 DEF C!TokenAt
    <2>3. ~C!Escaped(T, i)
      BY <2>2 DEF C!Escaped
    <2> QED
      BY <1>2, <2>2, <2>3, Zenon DEF Rendered, RendersAs, Done
  <1>3. CASE i # Len(T) + 1
    <2>0. i \in 1..Len(T)
      BY <1>1, <1>3
    <2>1. /\ C!TokenAt(T, i) = T[i] /\ T[i] # "end"
          /\ C!Escaped(T, i) <=> P!Escaped(T, i)
          /\ C!Stop(T, i) = IF P!Closing(T, i) = 0 THEN Len(T) + 1 ELSE P!Closing(T, i)
          /\ C!ValidName(T, i) <=> /\ P!Closing(T, i) # 0
                                   /\ P!IsName(SubSeq(T, i + 1, P!Closing(T, i) - 1))
      BY <2>0, SamePlaces
    <2>2. CASE C!Escaped(T, i)
      <3>1. T[i] \in {"{", "}"}
        BY <2>1, <2>2, Zenon DEF C!Escaped
      <3>2. Rendered(T, v, c, r, i, out) = r[i + 2][C!AppendBytes(out, c, <<T[i]>>)]
        BY <2>1, <2>2, <3>1, Zenon DEF Rendered
      <3>3. After(T, i) = i + 2 /\ TokenOf(T, i) = <<"literal", <<T[i]>>>> /\ ~Ill(T, i)
        BY <2>1, <2>2 DEF After, TokenOf, Ill
      <3> QED
        BY <1>3, <3>2, <3>3, TextIn DEF RendersAs
    <2>3. CASE T[i] \notin {"{", "}"}
      <3>1. ~C!Escaped(T, i)
        BY <2>1, <2>3, Zenon DEF C!Escaped
      <3>2. Rendered(T, v, c, r, i, out) = r[i + 1][C!AppendBytes(out, c, <<T[i]>>)]
        BY <2>1, <2>3, <3>1, Zenon DEF Rendered
      <3>3. After(T, i) = i + 1 /\ TokenOf(T, i) = <<"literal", <<T[i]>>>> /\ ~Ill(T, i)
        BY <2>1, <2>3, <3>1, Zenon DEF After, TokenOf, Ill
      <3> QED
        BY <1>3, <3>2, <3>3, TextIn DEF RendersAs
    <2>a. ASSUME T[i] = "{", ~C!Escaped(T, i)
          PROVE  Rendered(T, v, c, r, i, out) =
                    IF C!ValidName(T, i)
                    THEN r[C!Stop(T, i) + 1]
                          [C!AppendBytes(out, c, C!Replaced(SubSeq(T, i + 1, C!Stop(T, i) - 1), v))]
                    ELSE C!Finish(out, "INVALID_TEMPLATE")
      <3> DEFINE t == C!TokenAt(T, i)
      <3>1. t = "{" /\ t # "end" /\ t # "}" /\ ~(t \notin {"{", "}", "end"})
        BY <2>1, <2>a, Zenon
      <3> QED
        BY <2>a, <3>1, Zenon DEF Rendered
    <2>4. CASE T[i] = "{" /\ ~C!Escaped(T, i) /\ C!ValidName(T, i)
      <3> DEFINE name == SubSeq(T, i + 1, P!Closing(T, i) - 1)
      <3>1. P!Closing(T, i) # 0 /\ C!Stop(T, i) = P!Closing(T, i)
        BY <2>1, <2>4, Zenon
      <3>2. Rendered(T, v, c, r, i, out) = r[P!Closing(T, i) + 1][C!AppendBytes(out, c, C!Replaced(name, v))]
        BY <2>1, <2>4, <2>a, <3>1, Zenon
      <3>3. After(T, i) = P!Closing(T, i) + 1 /\ TokenOf(T, i) = <<"placeholder", name>> /\ ~Ill(T, i)
        BY <2>1, <2>4, Zenon DEF After, TokenOf, Ill
      <3> HIDE DEF name
      <3>4. C!Replaced(name, v) = P!TokenText(<<"placeholder", name>>, v)
        BY TextIn
      <3> QED
        BY <1>3, <3>2, <3>3, <3>4 DEF RendersAs
    <2>5. CASE T[i] = "{" /\ ~C!Escaped(T, i) /\ ~C!ValidName(T, i)
      <3>1. Rendered(T, v, c, r, i, out) = C!Finish(out, "INVALID_TEMPLATE")
        BY <2>1, <2>5, <2>a, Zenon
      <3>2. Ill(T, i)
        BY <2>1, <2>5, Zenon DEF Ill
      <3> QED
        BY <1>3, <3>1, <3>2 DEF RendersAs
    <2>6. CASE T[i] = "}" /\ ~C!Escaped(T, i)
      <3>1. Rendered(T, v, c, r, i, out) = C!Finish(out, "INVALID_TEMPLATE")
        <4> DEFINE t == C!TokenAt(T, i)
        <4>1. t = "}" /\ t # "end" /\ t # "{" /\ ~(t \notin {"{", "}", "end"})
          BY <2>1, <2>6, Zenon
        <4> QED
          BY <2>6, <4>1, Zenon DEF Rendered
      <3>2. Ill(T, i)
        BY <2>1, <2>6, Zenon DEF Ill
      <3> QED
        BY <1>3, <3>1, <3>2 DEF RendersAs
    <2> QED
      BY <2>2, <2>3, <2>4, <2>5, <2>6, Zenon
  <1> QED
    BY <1>2, <1>3

RendersAt(T, v, c, r, i) ==
    r[i] = [out \in C!Output |-> RendersAs(T, v, c, r, i, out)]

\* The recursion of Render() is an equation for each place.
LEMMA RendersIff ==
  ASSUME NEW T \in Seq(TemplateToken), NEW v \in ParamValue, NEW c,
         NEW V, NEW r \in [1..(Len(T) + 1) -> V]
  PROVE  Renders(T, v, c, r) <=> \A i \in 1..(Len(T) + 1) : RendersAt(T, v, c, r, i)
  <1>1. ASSUME NEW i \in 1..(Len(T) + 1)
        PROVE  RendersAt(T, v, c, r, i) <=> r[i] = [out \in C!Output |-> Rendered(T, v, c, r, i, out)]
    <2>1. \A out : Rendered(T, v, c, r, i, out) = RendersAs(T, v, c, r, i, out)
      BY RenderedIs
    <2> QED
      BY <2>1, Zenon DEF RendersAt
  <1>2. Renders(T, v, c, r) <=>
           \A i \in 1..(Len(T) + 1) : r[i] = [out \in C!Output |-> Rendered(T, v, c, r, i, out)]
    BY Zenon DEF Renders
  <1> QED
    BY <1>1, <1>2

\* The outcomes of a rendering.
Outcomes == {C!Finish(out, outcome) : out \in C!Output, outcome \in {"OK", "BUFFER_TOO_SMALL", "INVALID_TEMPLATE"}}

\* Rendering every template in C ends.
LEMMA RendersSome ==
  ASSUME NEW T \in Seq(TemplateToken), NEW v \in ParamValue, NEW c \in Nat
  PROVE  \E r : Renders(T, v, c, r)
  <1> DEFINE N == Len(T) + 1
             V == [C!Output -> Outcomes]
             stop == {i \in 1..N : i = N \/ Ill(T, i)}
             ends == [out \in C!Output |-> Done(out, c)]
             ill == [out \in C!Output |-> C!Finish(out, "INVALID_TEMPLATE")]
             base == [i \in 1..N |-> IF i = N THEN ends ELSE ill]
             next == [i \in 1..N |-> IF i \in stop THEN i ELSE After(T, i)]
             add(out, i) == C!AppendBytes(out, c, P!TokenText(TokenOf(T, i), v))
             on(i, g) == [out \in C!Output |-> g[add(out, i)]]
             step == [i \in 1..N |-> [g \in V |-> IF i \in stop THEN g ELSE on(i, g)]]
  <1>1. Len(T) \in Nat /\ N \in Nat
    BY LenProperties
  <1>2. \A i \in 1..N : i \notin stop => After(T, i) \in (i + 1)..N /\ TokenOf(T, i) \in TemplateTokens
    <2> SUFFICES ASSUME NEW i \in 1..N, i \notin stop
                 PROVE  After(T, i) \in (i + 1)..N /\ TokenOf(T, i) \in TemplateTokens
      OBVIOUS
    <2>1. i \in 1..Len(T) /\ ~Ill(T, i)
      BY <1>1
    <2> QED
      BY <2>1, GoesForward
  <1> HIDE DEF stop
  <1>3. ends \in V /\ ill \in V
    BY DEF Outcomes, Done
  <1>4. base \in [1..N -> V]
    <2> HIDE DEF ends, ill, V
    <2> QED
      BY <1>3
  <1>5. next \in [1..N -> 1..N] /\ \A i \in 1..N : i \notin stop => next[i] > i
    BY <1>1, <1>2
  <1>6. \A i \in 1..N, out \in C!Output : i \notin stop => add(out, i) \in C!Output
    <2>1. \A i \in 1..N : i \notin stop => P!TokenText(TokenOf(T, i), v) \in Seq(TemplateBytes)
      BY <1>2, TextIn
    <2>2. \A out \in C!Output, x \in Seq(TemplateBytes) : C!AppendBytes(out, c, x) \in C!Output
      <3>1. <<>> \in Seq(TemplateBytes)
        BY EmptySeq
      <3> QED
        BY <3>1, AppendTwice
    <2> QED
      BY <2>1, <2>2
  <1>7. step \in [1..N -> [V -> V]]
    <2> HIDE DEF add
    <2>1. \A i \in 1..N, g \in V : i \notin stop => on(i, g) \in V
      BY <1>6
    <2> HIDE DEF on, V
    <2> QED
      BY <2>1
  <1>8. PICK r \in [1..N -> V] :
           \A i \in 1..N : r[i] = IF i \in stop THEN base[i] ELSE step[i][r[next[i]]]
    <2> HIDE DEF N, base, next, step, V
    <2>1. PICK r : DownTo(N, V, base, stop, next, step, r)
      BY <1>1, <1>4, <1>5, <1>7, DownRecur, Zenon
    <2> QED
      BY <2>1, Zenon DEF DownTo
  <1>9. ASSUME NEW i \in 1..N PROVE RendersAt(T, v, c, r, i)
    <2>1. CASE i \in stop
      <3>1. r[i] = IF i = N THEN ends ELSE ill
        BY <1>8, <2>1, Zenon
      <3>2. i = N \/ Ill(T, i)
        BY <2>1 DEF stop
      <3> QED
        BY <3>1, <3>2 DEF RendersAt, RendersAs
    <2>2. CASE i \notin stop
      <3>1. i # N /\ ~Ill(T, i)
        BY <2>2 DEF stop
      <3>2. After(T, i) \in 1..N /\ next[i] = After(T, i)
        BY <1>1, <1>2, <2>2
      <3>3. r[After(T, i)] \in V /\ r[i] = on(i, r[After(T, i)])
        <4> HIDE DEF on, V
        <4> QED
          BY <1>8, <2>2, <3>2, Zenon
      <3> QED
        BY <3>1, <3>3 DEF RendersAt, RendersAs
    <2> QED
      BY <2>1, <2>2
  <1> QED
    <2> HIDE DEF V, N
    <2>1. Renders(T, v, c, r)
      BY <1>9, RendersIff, Zenon DEF N
    <2> QED
      BY <2>1

\* What Render() of C returns, as equations for each place.
LEMMA RenderIs ==
  ASSUME NEW T \in Seq(TemplateToken), NEW v \in ParamValue, NEW c \in Nat
  PROVE  \E r : /\ C!Render(T, v, c) = r[1][[length |-> 0, bytes |-> <<>>]]
                /\ \A i \in 1..(Len(T) + 1) : RendersAt(T, v, c, r, i)
  <1> DEFINE N == Len(T) + 1
             r == CHOOSE r : Renders(T, v, c, r)
             V == {r[i] : i \in 1..N}
  <1>1. C!Render(T, v, c) = r[1][[length |-> 0, bytes |-> <<>>]]
    BY DEF C!Render, Renders, Rendered
  <1>2. Renders(T, v, c, r)
    BY RendersSome
  <1> HIDE DEF r
  <1>3. r \in [1..N -> V]
    <2>1. r = [i \in 1..N |-> r[i]]
      BY <1>2 DEF Renders
    <2> QED
      BY <2>1
  <1>4. \A i \in 1..N : RendersAt(T, v, c, r, i)
    <2> HIDE DEF V
    <2> QED
      BY <1>2, <1>3, RendersIff, Zenon
  <1> QED
    BY <1>1, <1>4

\* Both read a template alike, and C writes the beginning of what Python returns.
LEMMA RenderedAlike ==
  ASSUME NEW T \in Seq(TemplateToken), NEW v \in ParamValue, NEW c \in Nat
  PROVE  LET got == C!Render(T, v, c)
             text == P!Render(T, v)
             empty == [length |-> 0, bytes |-> <<>>]
         IN  IF ~P!Parse(T).valid THEN got.result = "INVALID_TEMPLATE"
             ELSE text \in Seq(TemplateBytes) /\ got = Done(C!AppendBytes(empty, c, text), c)
  <1> DEFINE N == Len(T) + 1
             empty == [length |-> 0, bytes |-> <<>>]
  <1>1. PICK p : /\ P!Parse(T) = p[1]
                 /\ \A i \in 1..N : ParsesAt(T, p, i) /\ p[i] \in Parsed
    BY ParseIs
  <1>2. PICK r : /\ C!Render(T, v, c) = r[1][empty]
                 /\ \A i \in 1..N : RendersAt(T, v, c, r, i)
    BY RenderIs
  <1>3. Len(T) \in Nat /\ N \in Nat
    BY LenProperties
  <1> DEFINE flat(i) == P!FlattenSeq(Texts(p[i].tokens, v))
             right(i, out) ==
                IF p[i].valid THEN r[i][out] = Done(C!AppendBytes(out, c, flat(i)), c)
                              ELSE r[i][out].result = "INVALID_TEMPLATE"
             S == {i \in 1..N : flat(i) \in Seq(TemplateBytes) /\ \A out \in C!Output : right(i, out)}
  <1>4. \A i \in 1..N : flat(i) \in Seq(TemplateBytes)
    <2> SUFFICES ASSUME NEW i \in 1..N PROVE flat(i) \in Seq(TemplateBytes)
      OBVIOUS
    <2>1. p[i].tokens \in Seq(TemplateTokens)
      BY <1>1 DEF Parsed
    <2>2. Texts(p[i].tokens, v) \in Seq(Seq(TemplateBytes))
      BY <2>1, TextsIn
    <2>3. PICK F : Flat(Texts(p[i].tokens, v), TemplateBytes, F)
      BY <2>2, FlatSome
    <2> QED
      BY <2>2, <2>3, FlattenIs, SameFlatten
  <1>5. ASSUME NEW i \in 1..N, \A j \in (i + 1)..N : j \in S PROVE i \in S
    <2> SUFFICES ASSUME NEW out \in C!Output PROVE right(i, out)
      BY <1>4
    <2>1. ParsesAt(T, p, i) /\ p[i] \in Parsed
      BY <1>1
    <2>2. r[i][out] = RendersAs(T, v, c, r, i, out)
      BY <1>2, Zenon DEF RendersAt
    <2>3. CASE i = N
      <3>1. p[i].valid = TRUE /\ p[i].tokens = <<>>
        BY <2>1, <2>3 DEF ParsesAt
      <3>2. flat(i) = <<>>
        BY <3>1, TextsNone
      <3>3. C!AppendBytes(out, c, <<>>) = out
        BY AppendNothing
      <3>4. r[i][out] = Done(out, c)
        BY <2>2, <2>3 DEF RendersAs
      <3> QED
        BY <3>1, <3>2, <3>3, <3>4
    <2>4. CASE i # N /\ Ill(T, i)
      <3>1. p[i].valid = FALSE
        BY <2>1, <2>4 DEF ParsesAt
      <3>2. r[i][out] = C!Finish(out, "INVALID_TEMPLATE")
        BY <2>2, <2>4 DEF RendersAs
      <3> QED
        BY <3>1, <3>2 DEF C!Finish
    <2>5. CASE i # N /\ ~Ill(T, i)
      <3> DEFINE j == After(T, i)
                 t == TokenOf(T, i)
                 x == P!TokenText(t, v)
                 then == C!AppendBytes(out, c, x)
      <3>1. i \in 1..Len(T)
        BY <1>3, <2>5
      <3>2. j \in (i + 1)..N /\ t \in TemplateTokens
        BY <2>5, <3>1, GoesForward
      <3>3. j \in 1..N
        BY <1>3, <3>2
      <3>4. p[i] = [valid |-> p[j].valid, tokens |-> <<t>> \o p[j].tokens]
        BY <2>1, <2>5 DEF ParsesAt
      <3>5. r[i][out] = r[j][then]
        BY <2>2, <2>5 DEF RendersAs
      <3>6. x \in Seq(TemplateBytes)
        BY <3>2, TextIn
      <3>7. p[j].tokens \in Seq(TemplateTokens)
        BY <1>1, <3>3 DEF Parsed
      <3>8. flat(i) = x \o flat(j) /\ flat(j) \in Seq(TemplateBytes)
        <4> HIDE DEF j, t
        <4>1. p[i].tokens = <<t>> \o p[j].tokens
          BY <3>4
        <4> QED
          BY <3>2, <3>7, <4>1, TextsCons, Zenon
      <3> HIDE DEF j, t, x
      <3>9. then \in C!Output /\ C!AppendBytes(then, c, flat(j)) = C!AppendBytes(out, c, x \o flat(j))
        <4> HIDE DEF flat
        <4> QED
          BY <3>6, <3>8, AppendTwice
      <3>10. right(j, then)
        <4> HIDE DEF right, flat, then
        <4> QED
          BY <1>5, <3>2, <3>9
      <3>11. p[i].valid = p[j].valid
        BY <3>4
      <3> HIDE DEF flat, then
      <3> QED
        BY <3>5, <3>8, <3>9, <3>10, <3>11
    <2> QED
      BY <2>3, <2>4, <2>5
  <1> HIDE DEF S
  <1>6. 1..N \subseteq S
    <2> HIDE DEF N
    <2> QED
      BY <1>3, <1>5, DownInduce, Zenon
  <1>7. 1 \in 1..N
    BY <1>3
  <1>8. empty \in C!Output
    BY EmptySeq, OutputIs
  <1>9. flat(1) \in Seq(TemplateBytes) /\ right(1, empty)
    <2> HIDE DEF right, flat, empty
    <2> QED
      BY <1>6, <1>7, <1>8 DEF S
  <1>10. P!Parse(T).valid => P!Render(T, v) = flat(1)
    BY <1>1 DEF P!Render, Texts
  <1> QED
    <2> HIDE DEF flat
    <2> QED
      BY <1>1, <1>2, <1>9, <1>10

\* What is stored into an empty buffer.
LEMMA EmptyFitting ==
  ASSUME NEW c \in Nat, NEW text \in Seq(TemplateBytes)
  PROVE  /\ Fitting(text, RoomAfter(0, c)) =
               SubSeq(text, 1, IF Len(text) < c THEN Len(text) ELSE c - 1)
         /\ <<>> \o Fitting(text, RoomAfter(0, c)) = Fitting(text, RoomAfter(0, c))
  <1>1. Len(text) \in Nat
    BY LenProperties
  <1> DEFINE space == RoomAfter(0, c)
             m == IF Len(text) < space THEN Len(text) ELSE space
             k == IF Len(text) < c THEN Len(text) ELSE c - 1
  <1>2. space \in Nat /\ (c # 0 => space = c - 1) /\ (c = 0 => space = 0)
    BY DEF RoomAfter
  <1>3. Fitting(text, space) = SubSeq(text, 1, m)
    BY DEF Fitting
  <1>4. <<>> \o Fitting(text, space) = Fitting(text, space)
    <2> HIDE DEF space
    <2>1. Fitting(text, space) \in Seq(TemplateBytes)
      BY <1>2, FittingIs
    <2> QED
      BY <2>1, ConcatEmptySeq
  <1>5. CASE c # 0
    <2>1. m = k
      <3> HIDE DEF space
      <3> QED
        BY <1>1, <1>2, <1>5
    <2> QED
      BY <1>3, <1>4, <2>1
  <1>6. CASE c = 0
    <2>1. m = 0 /\ k = -1
      <3> HIDE DEF space
      <3> QED
        BY <1>1, <1>2, <1>6
    <2>2. SubSeq(text, 1, 0) = <<>> /\ SubSeq(text, 1, -1) = <<>>
      BY SubSeqEmpty
    <2> QED
      BY <1>3, <1>4, <2>1, <2>2
  <1> QED
    BY <1>5, <1>6

\* Python and C render every template of the type alike.
LEMMA RendersNow ==
  ASSUME TranslatorTypeOK
  PROVE  RendersAgree
  <1> SUFFICES ASSUME NEW v \in ParamValue, NEW c \in Buffer
               PROVE  LET got == C!Render(template, v, c)
                          text == P!Render(template, v)
                      IN  IF ~P!Parse(template).valid THEN got.result = "INVALID_TEMPLATE"
                          ELSE /\ got.required = Len(text)
                               /\ got.result = IF Len(text) < c THEN "OK" ELSE "BUFFER_TOO_SMALL"
                               /\ got.bytes = SubSeq(text, 1, IF Len(text) < c THEN Len(text)
                                                                               ELSE c - 1)
    BY DEF RendersAgree
  <1>1. template \in Seq(TemplateToken)
    BY DEF TranslatorTypeOK
  <1>2. c \in Nat
    BY BoundAssumption DEF Buffer
  <1> DEFINE got == C!Render(template, v, c)
             text == P!Render(template, v)
             empty == [length |-> 0, bytes |-> <<>>]
             out == C!AppendBytes(empty, c, text)
  <1>3. IF ~P!Parse(template).valid THEN got.result = "INVALID_TEMPLATE"
        ELSE text \in Seq(TemplateBytes) /\ got = Done(out, c)
    BY <1>1, <1>2, RenderedAlike
  <1>4. CASE ~P!Parse(template).valid
    BY <1>3, <1>4
  <1>5. CASE P!Parse(template).valid
    <2> HIDE DEF text, got
    <2>1. text \in Seq(TemplateBytes) /\ got = Done(out, c)
      BY <1>3, <1>5
    <2>2. Len(text) \in Nat
      BY <2>1, LenProperties
    <2>3. out = [length |-> 0 + Len(text), bytes |-> <<>> \o Fitting(text, RoomAfter(0, c))]
      BY AppendIs, Zenon
    <2>4. out.length = Len(text) /\ out.bytes = SubSeq(text, 1, IF Len(text) < c THEN Len(text) ELSE c - 1)
      <3> DEFINE all == <<>> \o Fitting(text, RoomAfter(0, c))
      <3> HIDE DEF out, all
      <3>1. out.length = 0 + Len(text) /\ out.bytes = all
        BY <2>3 DEF all
      <3>2. 0 + Len(text) = Len(text)
        BY <2>2
      <3>3. all = SubSeq(text, 1, IF Len(text) < c THEN Len(text) ELSE c - 1)
        BY <1>2, <2>1, EmptyFitting, Zenon DEF all
      <3> QED
        BY <3>1, <3>2, <3>3
    <2>5. (out.length + 1 > c) <=> ~(Len(text) < c)
      BY <1>2, <2>2, <2>4
    <2> HIDE DEF out
    <2>6. /\ got.required = out.length /\ got.bytes = out.bytes
          /\ got.result = IF Len(text) < c THEN "OK" ELSE "BUFFER_TOO_SMALL"
      <3>1. got = [result |-> IF out.length + 1 > c THEN "BUFFER_TOO_SMALL" ELSE "OK",
                   required |-> out.length, bytes |-> out.bytes]
        BY <2>1, Zenon DEF Done, C!Finish
      <3>2. CASE out.length + 1 > c
        <4>1. ~(Len(text) < c)
          BY <2>5, <3>2
        <4> QED
          BY <3>1, <3>2, <4>1
      <3>3. CASE ~(out.length + 1 > c)
        <4>1. Len(text) < c
          BY <2>5, <3>3
        <4> QED
          BY <3>1, <3>3, <4>1
      <3> QED
        BY <3>2, <3>3
    <2> QED
      BY <1>5, <2>4, <2>6 DEF got, text
  <1> QED
    BY <1>4, <1>5

\* Python and C reject the same templates and render the others alike.
THEOREM RendersTheSame == TranslatorSpec => []RendersAgree
  <1>1. TranslatorTrue => RendersAgree
    BY RendersNow DEF TranslatorTrue
  <1> QED
    BY <1>1, TranslatorCorrect, PTL
-----------------------------------------------------------------------------
(* The receiving of MipcC *)

USE DEF clientVars, peerVars, wordVars

\* What is at the front of the socket, and what taking it leaves.
LEMMA Front1 ==
  ASSUME NEW s \in Seq(Seq(Token)), s # <<>>
  PROVE  /\ Len(s) \in Nat \ {0} /\ Head(s) \in Seq(Token) /\ Len(Head(s)) \in Nat
         /\ Tail(s) \in Seq(Seq(Token)) /\ Len(Tail(s)) = Len(s) - 1 /\ Tail(s) # s
         /\ \A x \in Seq(Token) : /\ Append(s, x) \in Seq(Seq(Token)) /\ Append(s, x) # <<>>
                                  /\ Len(Append(s, x)) = Len(s) + 1
                                  /\ Head(Append(s, x)) = Head(s) /\ Append(s, x) # Tail(s)
  <1>1. Len(s) \in Nat \ {0}
    BY EmptySeq, LenProperties
  <1>2. Head(s) \in Seq(Token) /\ Tail(s) \in Seq(Seq(Token)) /\ Len(Tail(s)) = Len(s) - 1
    BY HeadTailProperties
  <1>3. Len(Head(s)) \in Nat
    BY <1>2, LenProperties
  <1>0. PICK n \in Nat : n = Len(s) /\ n # 0
    BY <1>1
  <1>4. Tail(s) # s
    <2>1. n - 1 # n
      OBVIOUS
    <2> QED
      BY <1>0, <1>2, <2>1
  <1>5. ASSUME NEW x \in Seq(Token)
        PROVE  /\ Append(s, x) \in Seq(Seq(Token)) /\ Append(s, x) # <<>>
               /\ Len(Append(s, x)) = Len(s) + 1
               /\ Head(Append(s, x)) = Head(s) /\ Append(s, x) # Tail(s)
    <2>1. Append(s, x) \in Seq(Seq(Token)) /\ Len(Append(s, x)) = Len(s) + 1
      BY AppendProperties
    <2>2. Head(Append(s, x)) = Head(s)
      BY HeadTailAppend
    <2>3. Len(Append(s, x)) # Len(Tail(s)) /\ Len(Append(s, x)) # 0
      <3>1. n + 1 # n - 1 /\ n + 1 # 0
        OBVIOUS
      <3> QED
        BY <1>0, <1>2, <2>1, <3>1
    <2> QED
      BY <2>1, <2>2, <2>3, EmptySeq
  <1> QED
    BY <1>1, <1>2, <1>3, <1>4, <1>5, Zenon

\* msys_mipc_recv_json() keeps the invariant.
LEMMA RecvKeeps ==
  ASSUME IInv, NEW c \in Capacity, Recv(c)
  PROVE  IInv'
  <1> USE DEF IInv
  <1>1. c \in Nat /\ MaxPacket \in Nat /\ room \in Nat /\ <<>> \in Seq(Token) /\ Len(<<>>) = 0
    BY SizeAssumption, EmptySeq DEF TypeOK
  <1>2. CASE RecvInvalid(c) \/ RecvTimeout(c) \/ RecvEof(c) \/ RecvError(c)
    <2>1. /\ result' \in {"INVALID_ARGUMENT", "TIMEOUT", "EOF", "IO_ERROR"}
          /\ need' = 0 /\ room' = c /\ buffer' \in {buffer, <<>>}
          /\ UNCHANGED <<fd, peerVars, wordVars>>
      BY <1>2 DEF RecvInvalid, RecvTimeout, RecvEof, RecvError, Returns
    <2>2. buffer' \in Seq(Token) /\ Len(buffer') <= MaxPacket
      <3>1. Len(<<>>) <= MaxPacket
        BY <1>1
      <3>2. CASE buffer' = buffer
        BY <3>2 DEF TypeOK
      <3>3. CASE buffer' = <<>>
        BY <1>1, <3>1, <3>3
      <3> QED
        BY <2>1, <3>2, <3>3
    <2>3. result' # "BUFFER_TOO_SMALL" /\ result' # "INVALID_JSON"
      BY <2>1
    <2> QED
      BY <2>1, <2>2, <2>3 DEF TypeOK, Waits
  <1>3. CASE RecvTooLarge(c)
    <2>1. Tail(wire) \in Seq(Seq(Token)) /\ Len(Head(wire)) \in Nat
      BY <1>3, Front1 DEF RecvTooLarge, TypeOK
    <2> QED
      BY <1>1, <1>3, <2>1 DEF RecvTooLarge, Returns, Take, TypeOK, Waits
  <1>4. CASE RecvTooSmall(c)
    <2>1. Len(Head(wire)) \in Nat
      BY <1>4, Front1 DEF RecvTooSmall, TypeOK
    <2>2. /\ wire # <<>> /\ wire' = wire /\ need' = Len(Head(wire)) /\ need' <= MaxPacket
          /\ room' = c /\ c <= need'
      BY <1>1, <1>4, <2>1 DEF RecvTooSmall, Returns, Queued, TooSmall
    <2> QED
      BY <1>1, <1>4, <2>1, <2>2 DEF RecvTooSmall, Returns, TypeOK, Waits
  <1>5. CASE RecvRecord(c)
    <2>1. /\ Tail(wire) \in Seq(Seq(Token)) /\ Head(wire) \in Seq(Token)
          /\ Len(Head(wire)) \in Nat
      BY <1>5, Front1 DEF RecvRecord, TypeOK
    <2>2. /\ wire' = Tail(wire) /\ buffer' = Head(wire) /\ need' = Len(Head(wire)) /\ room' = c
          /\ result' \in {"OK", "INVALID_JSON"} /\ Len(buffer') <= MaxPacket /\ need' < room'
          /\ UNCHANGED <<fd, open, draft, syntax, wordVars>>
      BY <1>1, <1>5, <2>1 DEF RecvRecord, Returns, Take, TooSmall
    <2> QED
      BY <1>1, <2>1, <2>2, Zenon DEF TypeOK, Waits
  <1> QED
    BY <1>2, <1>3, <1>4, <1>5 DEF Recv

\* What else the program and msysd do.
LEMMA OtherKeeps ==
  ASSUME IInv, \/ Attach \/ Detach \/ SendDraft \/ PeerClose \/ (\E t \in Token : Write(t))
               \/ (\E c \in Char : AddChar(c)) \/ (\E d \in 0..9 : AddDigit(d))
  PROVE  /\ IInv' /\ UNCHANGED <<result, need, room>>
         /\ wire' = wire \/ \E x \in Seq(Token) : wire' = Append(wire, x)
  <1> USE DEF IInv
  <1>1. CASE Attach \/ Detach \/ PeerClose
    BY <1>1, Zenon DEF Attach, Detach, PeerClose, TypeOK, Waits
  <1>2. CASE SendDraft
    <2>1. /\ draft \in Seq(Token) /\ wire' = Append(wire, draft) /\ draft' = <<>>
          /\ UNCHANGED <<fd, buffer, result, need, room, open, chars, digits>>
      BY <1>2 DEF SendDraft, TypeOK
    <2>2. <<>> \in Seq(Token) /\ wire' \in Seq(Seq(Token))
      BY <2>1, EmptySeq, AppendProperties DEF TypeOK
    <2>3. wire # <<>> => wire' # <<>> /\ Head(wire') = Head(wire)
      BY <2>1, Front1, Zenon DEF TypeOK
    <2> QED
      BY <2>1, <2>2, <2>3 DEF TypeOK, Waits
  <1>3. ASSUME NEW t \in Token, Write(t) PROVE IInv' /\ UNCHANGED <<result, need, room, wire>>
    <2>1. draft' = Append(draft, t) /\ UNCHANGED <<clientVars, wire, open, wordVars>>
      BY <1>3 DEF Write
    <2>2. draft' \in Seq(Token)
      BY <2>1, AppendProperties DEF TypeOK
    <2> QED
      BY <2>1, <2>2 DEF TypeOK, Waits
  <1>4. ASSUME NEW c \in Char, AddChar(c) PROVE IInv' /\ UNCHANGED <<result, need, room, wire>>
    <2>1. chars' = Append(chars, c) /\ UNCHANGED <<clientVars, peerVars, digits>>
      BY <1>4 DEF AddChar
    <2>2. chars' \in Seq(Char)
      BY <2>1, AppendProperties DEF TypeOK
    <2> QED
      BY <2>1, <2>2 DEF TypeOK, Waits
  <1>5. ASSUME NEW d \in 0..9, AddDigit(d) PROVE IInv' /\ UNCHANGED <<result, need, room, wire>>
    <2>1. digits' = Append(digits, d) /\ UNCHANGED <<clientVars, peerVars, chars>>
      BY <1>5 DEF AddDigit
    <2>2. digits' \in Seq(0..9)
      BY <2>1, AppendProperties DEF TypeOK
    <2> QED
      BY <2>1, <2>2 DEF TypeOK, Waits
  <1> QED
    BY <1>1, <1>2, <1>3, <1>4, <1>5, Zenon DEF Attach, Detach, PeerClose, SendDraft, TypeOK

\* The invariant holds at first.
LEMMA IInvInit == Init => IInv
  <1>1. <<>> \in Seq(Token) /\ <<>> \in Seq(Seq(Token)) /\ <<>> \in Seq(Char) /\ <<>> \in Seq(0..9)
        /\ Len(<<>>) = 0
    BY EmptySeq
  <1>2. 0 \in Nat /\ 0 <= MaxPacket
    BY SizeAssumption
  <1>3. ASSUME Init PROVE IInv
    <2>1. TypeOK
      BY <1>1, <1>2, <1>3, Zenon DEF Init, TypeOK
    <2>2. Waits
      BY <1>3 DEF Init, Waits
    <2> QED
      BY <2>1, <2>2 DEF IInv
  <1> QED
    BY <1>3

\* Every step keeps it.
LEMMA IInvNext == IInv /\ [Next]_vars => IInv'
  <1> SUFFICES ASSUME IInv, [Next]_vars PROVE IInv'
    OBVIOUS
  <1>1. CASE UNCHANGED vars
    BY <1>1 DEF vars, IInv, TypeOK, Waits
  <1>2. CASE \E c \in Capacity : Recv(c)
    BY <1>2, RecvKeeps
  <1>3. CASE ~(\E c \in Capacity : Recv(c)) /\ Next
    BY <1>3, OtherKeeps DEF Next
  <1> QED
    BY <1>1, <1>2, <1>3

\* A record that did not fit stays first in the socket, with its length reported, until it
\* is received.
THEOREM Inductive == Spec => []IInv
  BY IInvInit, IInvNext, PTL DEF Spec

\* msys_mipc_recv_json() takes no record without saying so, and what it says of one is true.
THEOREM TakenTold == Spec => TakenWithReport
  <1>1. ASSUME IInv, [Next]_vars, wire # <<>>, wire' = Tail(wire)
        PROVE  \/ result' = "TOO_LARGE" /\ Len(Head(wire)) > MaxPacket
               \/ result' \in {"OK", "INVALID_JSON"} /\ buffer' = Head(wire)
    <2>1. wire' # wire /\ \A x \in Seq(Token) : wire' # Append(wire, x)
      BY <1>1, Front1, Zenon DEF IInv, TypeOK
    <2>2. PICK c \in Capacity : Recv(c)
      <3>1. CASE ~(\E c \in Capacity : Recv(c))
        BY <1>1, <2>1, <3>1, OtherKeeps DEF Next, vars
      <3> QED
        BY <3>1
    <2>3. RecvTooLarge(c) \/ RecvRecord(c)
      BY <2>1, <2>2 DEF Recv, RecvInvalid, RecvTimeout, RecvEof, RecvError, RecvTooSmall, Queued
    <2> QED
      BY <2>3 DEF RecvTooLarge, RecvRecord, Returns
  <1>2. IInv /\ [Next]_vars => [wire # <<>> /\ wire' = Tail(wire) =>
          \/ result' = "TOO_LARGE" /\ Len(Head(wire)) > MaxPacket
          \/ result' \in {"OK", "INVALID_JSON"} /\ buffer' = Head(wire)]_vars
    BY <1>1
  <1> QED
    BY <1>2, Inductive, PTL DEF Spec, TakenWithReport

\* A second msys_mipc_recv_json(), with the json_len + 1 bytes that mipc.h promises to be
\* enough, brings the record, of the length that was reported.
THEOREM RetryBrings == Spec => RetrySucceeds
  <1>1. ASSUME IInv, [Next]_vars, result = "BUFFER_TOO_SMALL", fd', open, room' # room,
               room' = need + 1
        PROVE  result' \in {"OK", "INVALID_JSON"} /\ need' = need
    <2>1. PICK c \in Capacity : Recv(c)
      <3>1. CASE ~(\E c \in Capacity : Recv(c))
        BY <1>1, <3>1, OtherKeeps, Zenon DEF Next, vars
      <3> QED
        BY <3>1
    <2>2. /\ wire # <<>> /\ need = Len(Head(wire)) /\ need <= MaxPacket /\ need \in Nat
          /\ MaxPacket \in Nat
      BY <1>1, SizeAssumption DEF IInv, Waits, TypeOK
    <2>3. c = need + 1 /\ c > 0 /\ c # 0 /\ fd
      <3>1. room' = c /\ fd' = fd
        BY <2>1 DEF Recv, RecvInvalid, RecvTimeout, RecvEof, RecvError, RecvTooLarge, RecvTooSmall,
                    RecvRecord, Returns
      <3> QED
        BY <1>1, <2>2, <3>1
    <2>4. ~TooSmall(c) /\ ~(Len(Head(wire)) > MaxPacket)
      BY <2>2, <2>3 DEF TooSmall
    <2>5. RecvRecord(c)
      <3>1. ~RecvInvalid(c)
        BY <2>3, Zenon DEF RecvInvalid
      <3> QED
        BY <1>1, <2>1, <2>2, <2>3, <2>4, <3>1, Zenon
           DEF Recv, RecvTimeout, RecvEof, RecvError, RecvTooLarge, RecvTooSmall
    <2> QED
      BY <2>2, <2>5 DEF RecvRecord, Returns
  <1>2. IInv /\ [Next]_vars =>
          [result = "BUFFER_TOO_SMALL" /\ fd' /\ open /\ room' # room /\ room' = need + 1 =>
              result' \in {"OK", "INVALID_JSON"} /\ need' = need]_vars
    BY <1>1
  <1> QED
    BY <1>2, Inductive, PTL DEF Spec, RetrySucceeds

\* f is what a loop over s computes, the numbers that it has after each element.
Loops(N, step, f) ==
    f \in [0..N -> Nat] /\ f[0] = 0 /\ \A n \in 1..N : f[n] = step[n][f[n - 1]]

\* A loop over numbers has a result.
LEMMA LoopSome ==
  ASSUME NEW N \in Nat, NEW step \in [1..N -> [Nat -> Nat]]
  PROVE  \E f : Loops(N, step, f)
  <1> DEFINE each == [n \in Nat |-> [v \in Nat |-> IF n + 1 \in 1..N THEN step[n + 1][v] ELSE v]]
  <1>1. each \in [Nat -> [Nat -> Nat]] /\ 0 \in Nat
    OBVIOUS
  <1>2. PICK F : RecursAt(Nat, 0, each, F)
    <2> HIDE DEF each
    <2> QED
      BY <1>1, RecursFrom, Zenon
  <1>3. F \in [Nat -> Nat] /\ F[0] = 0 /\ \A n \in Nat \ {0} : F[n] = each[n - 1][F[n - 1]]
    <2> HIDE DEF each
    <2> QED
      BY <1>2, Zenon DEF RecursAt
  <1> DEFINE f == [n \in 0..N |-> F[n]]
  <1>4. ASSUME NEW n \in 1..N PROVE f[n] = step[n][f[n - 1]]
    <2>1. n \in Nat \ {0} /\ n - 1 \in Nat /\ n \in 0..N /\ n - 1 \in 0..N /\ (n - 1) + 1 = n
      OBVIOUS
    <2>2. F[n - 1] \in Nat /\ F[n] = each[n - 1][F[n - 1]]
      BY <1>3, <2>1, Zenon
    <2>3. each[n - 1][F[n - 1]] = step[n][F[n - 1]]
      BY <2>1, <2>2
    <2> QED
      BY <2>1, <2>2, <2>3
  <1>5. f \in [0..N -> Nat] /\ f[0] = 0
    BY <1>3
  <1> HIDE DEF f
  <1>6. Loops(N, step, f)
    BY <1>4, <1>5 DEF Loops
  <1> QED
    BY <1>6

-----------------------------------------------------------------------------
(* Numbers *)

Counts(s, f) == f = [n \in 0..Len(s) |-> IF n = 0 THEN 0 ELSE 10 * f[n - 1] + s[n]]

\* The loop that is Number has a result.
LEMMA CountsSome ==
  ASSUME NEW s \in Seq(0..9)
  PROVE  \E f : Counts(s, f)
  <1>1. Len(s) \in Nat /\ \A n \in 1..Len(s) : s[n] \in 0..9
    BY LenProperties, ElementOfSeq
  <1> DEFINE N == Len(s)
             step == [n \in 1..N |-> [v \in Nat |-> 10 * v + s[n]]]
  <1>2. step \in [1..N -> [Nat -> Nat]] /\ N \in Nat
    BY <1>1
  <1>3. PICK f : Loops(N, step, f)
    <2> HIDE DEF N, step
    <2> QED
      BY <1>2, LoopSome, Zenon
  <1>4. f \in [0..N -> Nat] /\ f[0] = 0 /\ \A n \in 1..N : f[n] = step[n][f[n - 1]]
    <2> HIDE DEF step
    <2> QED
      BY <1>3 DEF Loops
  <1>5. \A n \in 1..N : n - 1 \in 0..N /\ f[n - 1] \in Nat
    <2> HIDE DEF step
    <2>1. \A n \in 1..N : n - 1 \in 0..N
      BY <1>1
    <2>2. \A n \in 0..N : f[n] \in Nat
      BY <1>4
    <2> HIDE DEF N
    <2> QED
      BY <2>1, <2>2
  <1>6. \A n \in 1..N : f[n] = 10 * f[n - 1] + s[n]
    <2>1. \A n \in 1..N, v \in Nat : step[n][v] = 10 * v + s[n]
      OBVIOUS
    <2> HIDE DEF step, N
    <2> QED
      BY <1>4, <1>5, <2>1, Zenon
  <1>7. \A n \in 0..N : f[n] = IF n = 0 THEN 0 ELSE 10 * f[n - 1] + s[n]
    <2>1. \A n \in 0..N : n = 0 \/ n \in 1..N
      BY <1>1
    <2> HIDE DEF N
    <2> QED
      BY <1>4, <1>6, <2>1
  <1>8. Counts(s, f)
    <2>1. f = [n \in 0..N |-> f[n]]
      BY <1>4
    <2> QED
      BY <1>7, <2>1 DEF Counts
  <1> QED
    BY <1>8

\* The number that the digits are, as they are read.
LEMMA NumberIs ==
  ASSUME digits \in Seq(0..9)
  PROVE  \E f : /\ Number = f[Len(digits)] /\ f[0] = 0
                /\ \A n \in 1..Len(digits) : f[n] = 10 * f[n - 1] + digits[n]
                /\ \A n \in 0..Len(digits) : f[n] \in Nat
  <1> DEFINE f == CHOOSE f : Counts(digits, f)
             N == Len(digits)
  <1>1. Number = f[Len(digits)]
    BY DEF Number, Counts
  <1>2. Counts(digits, f)
    BY CountsSome
  <1>3. N \in Nat /\ \A n \in 1..N : digits[n] \in 0..9
    BY LenProperties, ElementOfSeq
  <1> HIDE DEF f
  <1>4. \A n \in 0..N : f[n] = IF n = 0 THEN 0 ELSE 10 * f[n - 1] + digits[n]
    BY <1>2, Zenon DEF Counts
  <1> HIDE DEF N
  <1>5. f[0] = 0 /\ \A n \in 1..N : f[n] = 10 * f[n - 1] + digits[n]
    <2>1. 0 \in 0..N /\ \A n \in 1..N : n \in 0..N /\ n # 0
      BY <1>3
    <2> QED
      BY <1>4, <2>1
  <1> DEFINE S == {n \in Nat : n <= N => f[n] \in Nat}
  <1>6. 0 \in S
    BY <1>5
  <1>7. ASSUME NEW n \in Nat \ {0}, n - 1 \in S PROVE n \in S
    <2> SUFFICES ASSUME n <= N PROVE f[n] \in Nat
      OBVIOUS
    <2>1. f[n - 1] \in Nat /\ n \in 1..N
      BY <1>3, <1>7
    <2>2. f[n] = 10 * f[n - 1] + digits[n] /\ digits[n] \in 0..9
      BY <1>3, <1>5, <2>1
    <2>3. \A x \in Nat, d \in 0..9 : 10 * x + d \in Nat
      OBVIOUS
    <2> QED
      BY <2>1, <2>2, <2>3, Zenon
  <1> HIDE DEF S
  <1>8. Nat \subseteq S
    BY <1>6, <1>7, NumbersFollow
  <1>9. \A n \in 0..N : f[n] \in Nat
    BY <1>3, <1>8 DEF S
  <1> QED
    BY <1>1, <1>5, <1>9 DEF N

Refused == [result |-> "INVALID_JSON", value |-> 0]
ReadAs(q) == [result |-> "OK", value |-> q]

ReadOn(s, p, i, q) ==
    IF i > Len(s) THEN [result |-> "OK", value |-> q]
    ELSE IF Overflows(q, s[i]) THEN [result |-> "INVALID_JSON", value |-> 0]
    ELSE p[i + 1][(q * 10 + s[i]) % (UMax + 1)]

Reads(s, p) == p = [i \in 1..(Len(s) + 1) |-> [parsed \in 0..UMax |-> ReadOn(s, p, i, parsed)]]

\* Reading every number ends.
LEMMA ReadsSome ==
  ASSUME NEW s \in Seq(0..9)
  PROVE  \E p : Reads(s, p)
  <1> DEFINE N == Len(s) + 1
             Q == 0..UMax
             R == {Refused} \cup {ReadAs(q) : q \in Q}
             V == [Q -> R]
             all == [q \in Q |-> ReadAs(q)]
             base == [i \in 1..N |-> all]
             next == [i \in 1..N |-> IF i = N THEN i ELSE i + 1]
             on(i, g) == [q \in Q |-> IF Overflows(q, s[i]) THEN Refused
                                      ELSE g[(q * 10 + s[i]) % (UMax + 1)]]
             step == [i \in 1..N |-> [g \in V |-> IF i = N THEN g ELSE on(i, g)]]
  <1>1. Len(s) \in Nat /\ N \in Nat /\ UMax \in Nat
    BY LenProperties, LimitAssumption
  <1>2. \A i \in 1..Len(s) : s[i] \in 0..9
    BY ElementOfSeq
  <1>3. all \in V /\ base \in [1..N -> V]
    <2>1. all \in V
      OBVIOUS
    <2> HIDE DEF all, V, N
    <2> QED
      BY <2>1
  <1>4. next \in [1..N -> 1..N] /\ \A i \in 1..N : i \notin {N} => next[i] > i
    BY <1>1
  <1>5. \A i \in 1..Len(s), q \in Q : (q * 10 + s[i]) % (UMax + 1) \in Q
    <2> SUFFICES ASSUME NEW i \in 1..Len(s), NEW q \in Q PROVE (q * 10 + s[i]) % (UMax + 1) \in Q
      OBVIOUS
    <2>1. s[i] \in Nat /\ q \in Nat
      BY <1>1, <1>2
    <2>2. q * 10 + s[i] \in Nat /\ UMax + 1 \in Nat \ {0}
      BY <1>1, <2>1
    <2>3. \A a \in Nat, b \in Nat \ {0} : a % b \in 0..(b - 1)
      OBVIOUS
    <2>4. (UMax + 1) - 1 = UMax
      BY <1>1
    <2> QED
      BY <2>2, <2>3, <2>4, Zenon
  <1>6. step \in [1..N -> [V -> V]]
    <2>1. \A i \in 1..Len(s), g \in V : on(i, g) \in V
      <3> HIDE DEF N
      <3> QED
        BY <1>5
    <2>2. \A i \in 1..N : i # N => i \in 1..Len(s)
      BY <1>1
    <2> HIDE DEF on, V, N
    <2> QED
      BY <2>1, <2>2
  <1>7. PICK p \in [1..N -> V] :
           \A i \in 1..N : p[i] = IF i \in {N} THEN base[i] ELSE step[i][p[next[i]]]
    <2> HIDE DEF N, base, next, step, V
    <2>1. PICK p : DownTo(N, V, base, {N}, next, step, p)
      BY <1>1, <1>3, <1>4, <1>6, DownRecur, Zenon
    <2> QED
      BY <2>1, Zenon DEF DownTo
  <1>8. ASSUME NEW i \in 1..N PROVE p[i] = [q \in Q |-> ReadOn(s, p, i, q)]
    <2>1. CASE i = N
      <3>1. i > Len(s)
        BY <1>1, <2>1
      <3>2. p[i] = all
        <4> HIDE DEF N, all, step
        <4> QED
          BY <1>7, <2>1
      <3>3. \A q : ReadOn(s, p, i, q) = ReadAs(q)
        BY <3>1, Zenon DEF ReadOn, ReadAs
      <3> QED
        BY <3>2, <3>3, Zenon
    <2>2. CASE i # N
      <3>1. i + 1 \in 1..N /\ next[i] = i + 1 /\ ~(i > Len(s))
        BY <1>1, <2>2
      <3>2. p[i + 1] \in V /\ p[i] = on(i, p[i + 1])
        <4> HIDE DEF on, V, N
        <4> QED
          BY <1>7, <2>2, <3>1, Zenon
      <3>3. \A q : ReadOn(s, p, i, q) =
                      IF Overflows(q, s[i]) THEN Refused ELSE p[i + 1][(q * 10 + s[i]) % (UMax + 1)]
        BY <3>1, Zenon DEF ReadOn, Refused
      <3> QED
        BY <3>2, <3>3, Zenon
    <2> QED
      BY <2>1, <2>2
  <1>9. Reads(s, p)
    <2>1. p = [i \in 1..N |-> p[i]]
      BY <1>7
    <2> QED
      BY <1>8, <2>1 DEF Reads
  <1> QED
    BY <1>9

\* The check before each digit is that of the number it would be.
LEMMA OverflowIs ==
  ASSUME NEW q \in 0..UMax, NEW d \in 0..9
  PROVE  /\ Overflows(q, d) <=> 10 * q + d > UMax
         /\ ~Overflows(q, d) => (q * 10 + d) % (UMax + 1) = 10 * q + d
  <1>1. UMax \in Nat /\ q \in Nat /\ d \in Nat
    BY LimitAssumption
  <1>2. Overflows(q, d) <=> 10 * q + d > UMax
    <2>1. \A a \in Int : \A b \in Int : b > a \div 10 <=> 10 * b > a
      OBVIOUS
    <2> QED
      BY <1>1, <2>1 DEF Overflows
  <1>3. ASSUME 10 * q + d <= UMax PROVE (q * 10 + d) % (UMax + 1) = 10 * q + d
    <2>1. \A a \in Nat, b \in Nat \ {0} : a < b => a % b = a
      OBVIOUS
    <2>2. q * 10 + d \in Nat /\ UMax + 1 \in Nat \ {0} /\ q * 10 + d < UMax + 1 /\ q * 10 + d = 10 * q + d
      BY <1>1, <1>3
    <2> QED
      BY <2>1, <2>2
  <1> QED
    BY <1>1, <1>2, <1>3

\* Every number is read exactly or refused.
LEMMA NumbersNow ==
  ASSUME digits \in Seq(0..9)
  PROVE  NumbersTrue
  <1> SUFFICES ASSUME digits # <<>>, digits[1] = 0 => Len(digits) = 1
               PROVE  GetU64(digits) = IF Number <= UMax THEN ReadAs(Number) ELSE Refused
    BY DEF NumbersTrue, ReadAs, Refused
  <1> DEFINE N == Len(digits)
             p == CHOOSE p : Reads(digits, p)
  <1>1. N \in Nat \ {0} /\ \A n \in 1..N : digits[n] \in 0..9
    BY EmptySeq, LenProperties, ElementOfSeq
  <1>2. GetU64(digits) = p[1][0]
    <2>1. ~(digits = <<>> \/ (digits[1] = 0 /\ Len(digits) > 1))
      BY <1>1
    <2> QED
      BY <2>1 DEF GetU64, Reads, ReadOn
  <1>3. Reads(digits, p)
    BY ReadsSome
  <1> HIDE DEF p
  <1>4. \A i \in 1..(N + 1), q \in 0..UMax : p[i][q] = ReadOn(digits, p, i, q)
    <2>1. \A i \in 1..(N + 1) : p[i] = [parsed \in 0..UMax |-> ReadOn(digits, p, i, parsed)]
      BY <1>3, Zenon DEF Reads
    <2> QED
      BY <2>1, Zenon
  <1>5. PICK f : /\ Number = f[N] /\ f[0] = 0
                 /\ \A n \in 1..N : f[n] = 10 * f[n - 1] + digits[n]
                 /\ \A n \in 0..N : f[n] \in Nat
    BY NumberIs
  <1>a. UMax \in Nat
    BY LimitAssumption
  <1> HIDE DEF N
  <1> DEFINE S == {n \in Nat : n <= N => p[1][0] = IF f[n] <= UMax THEN p[n + 1][f[n]] ELSE Refused}
  <1>6. 0 \in S
    BY <1>5, <1>a
  <1>7. ASSUME NEW n \in Nat \ {0}, n - 1 \in S PROVE n \in S
    <2> SUFFICES ASSUME n <= N PROVE p[1][0] = IF f[n] <= UMax THEN p[n + 1][f[n]] ELSE Refused
      OBVIOUS
    <2>1. n \in 1..N /\ n - 1 \in 0..N /\ n \in 1..(N + 1) /\ (n - 1) + 1 = n /\ ~(n > N) /\ n - 1 <= N
      BY <1>1
    <2>2. p[1][0] = IF f[n - 1] <= UMax THEN p[n][f[n - 1]] ELSE Refused
      BY <1>7, <2>1
    <2> DEFINE q == f[n - 1]
               d == digits[n]
    <2>3. f[n] = 10 * q + d /\ q \in Nat /\ d \in 0..9
      BY <1>1, <1>5, <2>1
    <2> HIDE DEF q, d
    <2>4. CASE q > UMax
      <3>1. ~(q <= UMax) /\ ~(f[n] <= UMax)
        BY <1>a, <2>3, <2>4
      <3> QED
        BY <2>2, <3>1 DEF q
    <2>5. CASE q <= UMax
      <3>1. q \in 0..UMax
        BY <1>a, <2>3, <2>5
      <3>2. p[1][0] = ReadOn(digits, p, n, q)
        BY <1>4, <2>1, <2>2, <2>5, <3>1 DEF q
      <3>3. p[1][0] = IF Overflows(q, d) THEN Refused ELSE p[n + 1][(q * 10 + d) % (UMax + 1)]
        BY <2>1, <3>2 DEF ReadOn, Refused, N, d
      <3>4. CASE Overflows(q, d)
        <4>0. 10 * q + d > UMax
          BY <2>3, <3>1, <3>4, OverflowIs, Zenon
        <4>1. ~(f[n] <= UMax)
          BY <1>a, <2>3, <4>0
        <4> QED
          BY <3>3, <3>4, <4>1
      <3>5. CASE ~Overflows(q, d)
        <4>0. ~(10 * q + d > UMax)
          BY <2>3, <3>1, <3>5, OverflowIs, Zenon
        <4>1. f[n] <= UMax
          BY <1>a, <2>3, <4>0
        <4>2. (q * 10 + d) % (UMax + 1) = f[n]
          BY <2>3, <3>1, <3>5, OverflowIs, Zenon
        <4> QED
          BY <3>3, <3>5, <4>1, <4>2
      <3> QED
        BY <3>4, <3>5
    <2> QED
      BY <1>a, <2>3, <2>4, <2>5
  <1> HIDE DEF S
  <1>8. N \in S
    BY <1>1, <1>6, <1>7, NumbersFollow
  <1>9. p[1][0] = IF f[N] <= UMax THEN p[N + 1][f[N]] ELSE Refused
    BY <1>1, <1>8 DEF S
  <1>10. CASE f[N] <= UMax
    <2>1. f[N] \in 0..UMax /\ N + 1 \in 1..(N + 1) /\ N + 1 > Len(digits)
      BY <1>1, <1>5, <1>a, <1>10 DEF N
    <2>2. p[N + 1][f[N]] = ReadAs(f[N])
      BY <1>4, <2>1 DEF ReadOn, ReadAs
    <2> QED
      BY <1>2, <1>5, <1>9, <1>10, <2>2
  <1>11. CASE ~(f[N] <= UMax)
    BY <1>2, <1>5, <1>9, <1>11
  <1> QED
    BY <1>10, <1>11


-----------------------------------------------------------------------------
(* Strings to be sent *)

Sent == {"byte", "escape", "u1"}

\* No character takes more than six bytes.
LEMMA WidthIs == \A c \in Sent : Width(c) \in 1..6
  BY DEF Width, Sent

Measures(s, f) == f = [n \in 0..Len(s) |-> IF n = 0 THEN 0 ELSE f[n - 1] + Width(s[n])]

\* The loop that is EscapedWidth has a result.
LEMMA MeasuresSome ==
  ASSUME NEW s \in Seq(Sent)
  PROVE  \E f : Measures(s, f)
  <1>1. Len(s) \in Nat /\ \A n \in 1..Len(s) : Width(s[n]) \in 1..6
    BY LenProperties, ElementOfSeq, WidthIs
  <1> DEFINE N == Len(s)
             step == [n \in 1..N |-> [v \in Nat |-> v + Width(s[n])]]
  <1>2. step \in [1..N -> [Nat -> Nat]] /\ N \in Nat
    BY <1>1
  <1>3. PICK f : Loops(N, step, f)
    <2> HIDE DEF N, step
    <2> QED
      BY <1>2, LoopSome, Zenon
  <1>4. f \in [0..N -> Nat] /\ f[0] = 0 /\ \A n \in 1..N : f[n] = step[n][f[n - 1]]
    <2> HIDE DEF step
    <2> QED
      BY <1>3 DEF Loops
  <1>5. \A n \in 1..N : n - 1 \in 0..N /\ f[n - 1] \in Nat
    <2> HIDE DEF step
    <2>1. \A n \in 1..N : n - 1 \in 0..N
      BY <1>1
    <2>2. \A n \in 0..N : f[n] \in Nat
      BY <1>4
    <2> HIDE DEF N
    <2> QED
      BY <2>1, <2>2
  <1>6. \A n \in 1..N : f[n] = f[n - 1] + Width(s[n])
    <2>1. \A n \in 1..N, v \in Nat : step[n][v] = v + Width(s[n])
      OBVIOUS
    <2> HIDE DEF step, N
    <2> QED
      BY <1>4, <1>5, <2>1, Zenon
  <1>7. \A n \in 0..N : f[n] = IF n = 0 THEN 0 ELSE f[n - 1] + Width(s[n])
    <2>1. \A n \in 0..N : n = 0 \/ n \in 1..N
      BY <1>1
    <2> HIDE DEF N
    <2> QED
      BY <1>4, <1>6, <2>1
  <1>8. Measures(s, f)
    <2>1. f = [n \in 0..N |-> f[n]]
      BY <1>4
    <2> QED
      BY <1>7, <2>1, Zenon DEF Measures
  <1> QED
    BY <1>8

\* What the beginnings of the string take: at least a place for each character.
LEMMA EscapedWidthIs ==
  ASSUME chars \in Seq(Sent)
  PROVE  \E f : /\ EscapedWidth = f[Len(chars)] /\ f[0] = 0
                /\ \A n \in 1..Len(chars) : f[n] = f[n - 1] + Width(chars[n])
                /\ \A n \in 0..Len(chars) : f[n] \in Nat /\ f[n] >= n
  <1> DEFINE f == CHOOSE f : Measures(chars, f)
             N == Len(chars)
  <1>1. EscapedWidth = f[Len(chars)]
    BY DEF EscapedWidth, Measures
  <1>2. Measures(chars, f)
    BY MeasuresSome
  <1>3. N \in Nat /\ \A n \in 1..N : Width(chars[n]) \in 1..6
    BY LenProperties, ElementOfSeq, WidthIs
  <1> HIDE DEF f
  <1>4. \A n \in 0..N : f[n] = IF n = 0 THEN 0 ELSE f[n - 1] + Width(chars[n])
    BY <1>2 DEF Measures
  <1> HIDE DEF N
  <1>5. f[0] = 0 /\ \A n \in 1..N : f[n] = f[n - 1] + Width(chars[n])
    <2>1. 0 \in 0..N /\ \A n \in 1..N : n \in 0..N /\ n # 0
      BY <1>3
    <2> QED
      BY <1>4, <2>1
  <1> DEFINE S == {n \in Nat : n <= N => f[n] \in Nat /\ f[n] >= n}
  <1>6. 0 \in S
    BY <1>5
  <1>7. ASSUME NEW n \in Nat \ {0}, n - 1 \in S PROVE n \in S
    <2> SUFFICES ASSUME n <= N PROVE f[n] \in Nat /\ f[n] >= n
      OBVIOUS
    <2>1. f[n - 1] \in Nat /\ f[n - 1] >= n - 1 /\ n \in 1..N
      BY <1>3, <1>7
    <2> DEFINE w == Width(chars[n])
    <2>2. f[n] = f[n - 1] + w /\ w \in 1..6
      BY <1>3, <1>5, <2>1
    <2> HIDE DEF w
    <2> QED
      BY <2>1, <2>2
  <1> HIDE DEF S
  <1>8. Nat \subseteq S
    BY <1>6, <1>7, NumbersFollow
  <1>9. \A n \in 0..N : f[n] \in Nat /\ f[n] >= n
    BY <1>3, <1>8 DEF S
  <1> QED
    BY <1>1, <1>5, <1>9 DEF N

CountOn(s, limit, p, i, n) ==
    IF i > Len(s) THEN n
    ELSE IF TooLarge(n, s[i], limit) THEN -1
    ELSE p[i + 1][n + Width(s[i])]

Escapes(s, limit, p) ==
    p = [i \in 1..(Len(s) + 1) |-> [n \in Nat |-> CountOn(s, limit, p, i, n)]]

\* Escaping every string ends.
LEMMA EscapesSome ==
  ASSUME NEW s \in Seq(Sent), NEW limit
  PROVE  \E p : Escapes(s, limit, p)
  <1> DEFINE N == Len(s) + 1
             V == [Nat -> Int]
             all == [n \in Nat |-> n]
             base == [i \in 1..N |-> all]
             next == [i \in 1..N |-> IF i = N THEN i ELSE i + 1]
             on(i, g) == [n \in Nat |-> IF TooLarge(n, s[i], limit) THEN -1 ELSE g[n + Width(s[i])]]
             step == [i \in 1..N |-> [g \in V |-> IF i = N THEN g ELSE on(i, g)]]
  <1>1. Len(s) \in Nat /\ N \in Nat
    BY LenProperties
  <1>2. \A i \in 1..Len(s) : Width(s[i]) \in 1..6
    BY ElementOfSeq, WidthIs
  <1>3. all \in V /\ base \in [1..N -> V]
    <2>1. all \in V
      OBVIOUS
    <2> HIDE DEF all, V, N
    <2> QED
      BY <2>1
  <1>4. next \in [1..N -> 1..N] /\ \A i \in 1..N : i \notin {N} => next[i] > i
    BY <1>1
  <1>5. \A i \in 1..Len(s), n \in Nat : n + Width(s[i]) \in Nat
    BY <1>2
  <1>6. step \in [1..N -> [V -> V]]
    <2>1. \A i \in 1..Len(s), g \in V : on(i, g) \in V
      <3> HIDE DEF N
      <3> QED
        BY <1>5
    <2>2. \A i \in 1..N : i # N => i \in 1..Len(s)
      BY <1>1
    <2> HIDE DEF on, V, N
    <2> QED
      BY <2>1, <2>2
  <1>7. PICK p \in [1..N -> V] :
           \A i \in 1..N : p[i] = IF i \in {N} THEN base[i] ELSE step[i][p[next[i]]]
    <2> HIDE DEF N, base, next, step, V
    <2>1. PICK p : DownTo(N, V, base, {N}, next, step, p)
      BY <1>1, <1>3, <1>4, <1>6, DownRecur, Zenon
    <2> QED
      BY <2>1, Zenon DEF DownTo
  <1>8. ASSUME NEW i \in 1..N PROVE p[i] = [n \in Nat |-> CountOn(s, limit, p, i, n)]
    <2>1. CASE i = N
      <3>1. i > Len(s)
        BY <1>1, <2>1
      <3>2. p[i] = all
        <4> HIDE DEF N, all, step
        <4> QED
          BY <1>7, <2>1, Zenon
      <3>3. \A n : CountOn(s, limit, p, i, n) = n
        BY <3>1, Zenon DEF CountOn
      <3> QED
        BY <3>2, <3>3, Zenon
    <2>2. CASE i # N
      <3>1. i + 1 \in 1..N /\ next[i] = i + 1 /\ ~(i > Len(s))
        BY <1>1, <2>2
      <3>2. p[i + 1] \in V /\ p[i] = on(i, p[i + 1])
        <4> HIDE DEF on, V, N
        <4> QED
          BY <1>7, <2>2, <3>1, Zenon
      <3>3. \A n : CountOn(s, limit, p, i, n) =
                      IF TooLarge(n, s[i], limit) THEN -1 ELSE p[i + 1][n + Width(s[i])]
        BY <3>1, Zenon DEF CountOn
      <3> QED
        BY <3>2, <3>3, Zenon
    <2> QED
      BY <2>1, <2>2
  <1>9. Escapes(s, limit, p)
    <2>1. p = [i \in 1..N |-> p[i]]
      BY <1>7
    <2> QED
      BY <1>8, <2>1 DEF Escapes
  <1> QED
    BY <1>9

\* escaped_json_string() gives up as soon as the length is beyond the limit.
LEMMA EscapedLengthIs ==
  ASSUME chars \in Seq(Sent), NEW limit \in Nat
  PROVE  /\ EscapedWidth \in Nat
         /\ EscapedLength(chars, limit) = IF EscapedWidth <= limit THEN EscapedWidth ELSE -1
  <1> DEFINE N == Len(chars)
             p == CHOOSE p : Escapes(chars, limit, p)
  <1>1. N \in Nat /\ \A n \in 1..N : Width(chars[n]) \in 1..6
    BY LenProperties, ElementOfSeq, WidthIs
  <1>2. EscapedLength(chars, limit) = IF N > limit THEN -1 ELSE p[1][0]
    BY DEF EscapedLength, Escapes, CountOn
  <1>3. Escapes(chars, limit, p)
    BY EscapesSome
  <1> HIDE DEF p
  <1>4. \A i \in 1..(N + 1), n \in Nat : p[i][n] = CountOn(chars, limit, p, i, n)
    <2>1. \A i \in 1..(N + 1) : p[i] = [n \in Nat |-> CountOn(chars, limit, p, i, n)]
      BY <1>3, Zenon DEF Escapes
    <2> QED
      BY <2>1, Zenon
  <1>5. PICK f : /\ EscapedWidth = f[N] /\ f[0] = 0
                 /\ \A n \in 1..N : f[n] = f[n - 1] + Width(chars[n])
                 /\ \A n \in 0..N : f[n] \in Nat /\ f[n] >= n
    BY EscapedWidthIs
  <1> HIDE DEF N
  <1> DEFINE S == {n \in Nat : n <= N => p[1][0] = IF f[n] <= limit THEN p[n + 1][f[n]] ELSE -1}
  <1>6. 0 \in S
    BY <1>5
  <1>7. ASSUME NEW n \in Nat \ {0}, n - 1 \in S PROVE n \in S
    <2> SUFFICES ASSUME n <= N PROVE p[1][0] = IF f[n] <= limit THEN p[n + 1][f[n]] ELSE -1
      OBVIOUS
    <2>1. n \in 1..N /\ n - 1 \in 0..N /\ n \in 1..(N + 1) /\ (n - 1) + 1 = n /\ ~(n > N) /\ n - 1 <= N
      BY <1>1
    <2>2. p[1][0] = IF f[n - 1] <= limit THEN p[n][f[n - 1]] ELSE -1
      BY <1>7, <2>1
    <2> DEFINE m == f[n - 1]
               w == Width(chars[n])
    <2>3. f[n] = m + w /\ m \in Nat /\ w \in 1..6
      BY <1>1, <1>5, <2>1
    <2>a. TooLarge(m, chars[n], limit) <=> m > limit - w
      BY DEF TooLarge
    <2> HIDE DEF m, w
    <2>4. CASE m > limit
      <3>1. ~(m <= limit) /\ ~(f[n] <= limit)
        BY <2>3, <2>4
      <3> QED
        BY <2>2, <3>1 DEF m
    <2>5. CASE m <= limit
      <3>2. p[1][0] = CountOn(chars, limit, p, n, m)
        BY <1>4, <2>1, <2>2, <2>3, <2>5 DEF m
      <3>3. p[1][0] = IF TooLarge(m, chars[n], limit) THEN -1 ELSE p[n + 1][m + w]
        BY <2>1, <3>2 DEF CountOn, N, w
      <3>4. TooLarge(m, chars[n], limit) <=> ~(f[n] <= limit)
        BY <2>3, <2>a
      <3> QED
        BY <2>3, <3>3, <3>4
    <2> QED
      BY <2>3, <2>4, <2>5
  <1> HIDE DEF S
  <1>8. N \in S
    BY <1>1, <1>6, <1>7, NumbersFollow
  <1>9. p[1][0] = IF f[N] <= limit THEN p[N + 1][f[N]] ELSE -1
    BY <1>1, <1>8 DEF S
  <1>10. f[N] \in Nat /\ f[N] >= N
    BY <1>1, <1>5
  <1>11. p[N + 1][f[N]] = f[N]
    <2>1. N + 1 \in 1..(N + 1) /\ N + 1 > Len(chars)
      BY <1>1 DEF N
    <2> QED
      BY <1>4, <1>10, <2>1 DEF CountOn
  <1>12. N > limit => ~(f[N] <= limit)
    BY <1>1, <1>10
  <1> QED
    BY <1>2, <1>5, <1>9, <1>10, <1>11, <1>12

\* Every string is sent exactly when it is within the limit.
LEMMA SendsNow ==
  ASSUME chars \in Seq(Char)
  PROVE  SendsWithinLimit
  <1> SUFFICES ASSUME \A i \in DOMAIN chars : chars[i] \in Sent,
                      NEW limit \in 6..9, NEW frame \in 0..3
               PROVE  SendResult(chars, frame, limit) = "OK" <=> frame + EscapedWidth <= limit
    BY DEF SendsWithinLimit, Sent
  <1>1. chars \in Seq(Sent)
    <2>1. Len(chars) \in Nat /\ DOMAIN chars = 1..Len(chars) /\ chars \in [1..Len(chars) -> Char]
      BY LenProperties
    <2>2. chars \in [1..Len(chars) -> Sent]
      BY <2>1
    <2> QED
      BY <2>1, <2>2, SeqDef
  <1> DEFINE w == EscapedWidth
             length == EscapedLength(chars, limit)
  <1>2. w \in Nat /\ length = IF w <= limit THEN w ELSE -1
    BY <1>1, EscapedLengthIs
  <1>3. SendResult(chars, frame, limit) = IF length = -1 \/ length + frame > limit THEN "TOO_LARGE" ELSE "OK"
    BY DEF SendResult
  <1> HIDE DEF w, length
  <1>4. (length = -1 \/ length + frame > limit) <=> ~(frame + w <= limit)
    BY <1>2
  <1> QED
    BY <1>3, <1>4 DEF w


-----------------------------------------------------------------------------
(* Strings that are received *)

Stored == Char \X (1..4)
Whole == Char \ {"low"}

\* The bytes of a character that begins some.
LEMMA BytesIs ==
  ASSUME NEW c \in Whole
  PROVE  /\ Size(c) \in 1..4 /\ Bytes(c) \in Seq(Stored) /\ Len(Bytes(c)) = Size(c)
         /\ \A k \in 1..Size(c) : Bytes(c)[k] = <<c, k>>
  <1>1. Size(c) \in 1..4 /\ c \in Char
    BY DEF Size, Char, Whole
  <1> DEFINE n == Size(c)
             b == Bytes(c)
  <1>2. b = [k \in 1..n |-> <<c, k>>]
    BY DEF Bytes
  <1>3. n \in Nat /\ \A k \in 1..n : <<c, k>> \in Stored
    BY <1>1 DEF Stored
  <1> HIDE DEF n, b
  <1>4. b \in [1..n -> Stored] /\ \A k \in 1..n : b[k] = <<c, k>>
    BY <1>2, <1>3
  <1>5. b \in Seq(Stored)
    BY <1>3, <1>4, SeqDef
  <1>6. Len(b) = n
    BY <1>3, <1>4, <1>5, LenProperties
  <1> QED
    BY <1>1, <1>4, <1>5, <1>6 DEF n, b

\* Storing a character stores the beginning of its bytes that fits.
LEMMA StoreIs ==
  ASSUME NEW c \in Whole, NEW capacity \in Nat \ {0}, NEW out, out.length \in Nat
  PROVE  Store(out, c, capacity) =
            [length |-> out.length + Size(c),
             buffer |-> out.buffer \o Fitting(Bytes(c), Left(out.length, capacity - 1))]
  <1> DEFINE n == out.length
             left == Left(n, capacity - 1)
             size == Size(c)
             m == IF size < left THEN size ELSE left
             K == {k \in 1..size : Fits(n, k, capacity)}
             g == [k \in 1..m |-> <<c, k>>]
             h == Fitting(Bytes(c), left)
  <1>1. size \in 1..4 /\ Bytes(c) \in Seq(Stored) /\ Len(Bytes(c)) = size
        /\ \A k \in 1..size : Bytes(c)[k] = <<c, k>>
    BY BytesIs
  <1>2. n \in Nat /\ capacity \in Nat /\ capacity # 0
    OBVIOUS
  <1> HIDE DEF n, size
  <1>3. left \in Nat /\ \A k \in Nat : k # 0 => (n + k < capacity <=> k <= left)
    BY <1>2 DEF Left
  <1> HIDE DEF left
  <1>4. K = 1..m
    <2>1. \A k \in 1..size : Fits(n, k, capacity) <=> k <= left
      BY <1>1, <1>2, <1>3 DEF Fits
    <2>2. K = {k \in 1..size : k <= left}
      BY <2>1
    <2>3. 1..m = {k \in 1..size : k <= left}
      BY <1>1, <1>3
    <2> HIDE DEF K, m
    <2> QED
      BY <2>2, <2>3
  <1>5. m \in Nat /\ 1..m \subseteq 1..size
    BY <1>1, <1>3
  <1>6. h \in Seq(Stored) /\ Len(h) = m /\ \A k \in 1..m : h[k] = Bytes(c)[k]
    BY <1>1, <1>3, FittingIs, Zenon
  <1> HIDE DEF m, h
  <1>7. g \in Seq(Stored) /\ Len(g) = m /\ \A k \in 1..m : g[k] = <<c, k>>
    <2>1. \A k \in 1..m : <<c, k>> \in Stored
      BY <1>1, <1>5 DEF Stored, Whole
    <2>2. g \in [1..m -> Stored] /\ \A k \in 1..m : g[k] = <<c, k>>
      BY <2>1
    <2> HIDE DEF g
    <2>3. g \in Seq(Stored)
      BY <1>5, <2>2, SeqDef
    <2> QED
      BY <1>5, <2>2, <2>3, LenProperties
  <1> HIDE DEF g
  <1>8. g = h
    <2>1. Len(g) = Len(h) /\ \A k \in 1..Len(g) : g[k] = h[k]
      BY <1>1, <1>5, <1>6, <1>7, Zenon
    <2> QED
      BY <1>6, <1>7, <2>1, SeqEqual
  <1>9. Store(out, c, capacity) =
           [length |-> out.length + Size(c), buffer |-> out.buffer \o [k \in K |-> <<c, k>>]]
    BY DEF Store, n, size
  <1>10. [k \in K |-> <<c, k>>] = h
    BY <1>4, <1>8 DEF g
  <1> HIDE DEF K
  <1> QED
    BY <1>9, <1>10, Zenon DEF h, left, n

\* What is stored has its type.
LEMMA StoreIn ==
  ASSUME NEW c \in Whole, NEW capacity \in Nat \ {0}, NEW out \in Decoding
  PROVE  Store(out, c, capacity) \in Decoding
  <1> DEFINE n == out.length
             b == out.buffer
             left == Left(n, capacity - 1)
             h == Fitting(Bytes(c), left)
             size == Size(c)
  <1>1. n \in Nat /\ b \in Seq(Stored)
    BY DEF Decoding, Stored
  <1>2. Store(out, c, capacity) = [length |-> n + size, buffer |-> b \o h]
    BY <1>1, StoreIs, Zenon
  <1>3. size \in 1..4 /\ Bytes(c) \in Seq(Stored)
    BY BytesIs
  <1> HIDE DEF n, b, size
  <1>4. left \in Nat
    BY <1>1 DEF Left
  <1> HIDE DEF left
  <1>5. h \in Seq(Stored)
    BY <1>3, <1>4, FittingIs
  <1> HIDE DEF h
  <1>6. b \o h \in Seq(Stored) /\ n + size \in Nat
    BY <1>1, <1>3, <1>5, ConcatProperties
  <1> QED
    BY <1>2, <1>6 DEF Decoding, Stored

\* What is kept of some bytes.
Kept(x, capacity) == [length |-> Len(x), buffer |-> Fitting(x, capacity - 1)]

\* What is kept has its type.
LEMMA KeptIn ==
  ASSUME NEW x \in Seq(Stored), NEW capacity \in Nat \ {0}
  PROVE  Kept(x, capacity) \in Decoding
  <1>1. Len(x) \in Nat /\ capacity - 1 \in Nat
    BY LenProperties
  <1>2. Fitting(x, capacity - 1) \in Seq(Stored)
    BY <1>1, FittingIs
  <1> QED
    BY <1>1, <1>2 DEF Kept, Decoding, Stored

\* Storing one more character keeps what is kept of all their bytes.
LEMMA StoreAfter ==
  ASSUME NEW x \in Seq(Stored), NEW c \in Whole, NEW capacity \in Nat \ {0}
  PROVE  Store(Kept(x, capacity), c, capacity) = Kept(x \o Bytes(c), capacity)
  <1> DEFINE out == Kept(x, capacity)
             y == Bytes(c)
             space == capacity - 1
  <1>1. space \in Nat /\ Len(x) \in Nat
    BY LenProperties
  <1>2. y \in Seq(Stored) /\ Len(y) = Size(c)
    BY BytesIs
  <1>3. out.length = Len(x) /\ out.buffer = Fitting(x, space)
    BY DEF Kept
  <1> HIDE DEF out, space, y
  <1>4. Store(out, c, capacity) =
           [length |-> Len(x) + Len(y), buffer |-> Fitting(x, space) \o Fitting(y, Left(Len(x), space))]
    BY <1>1, <1>2, <1>3, StoreIs, Zenon DEF space, y
  <1>5. Fitting(x, space) \o Fitting(y, Left(Len(x), space)) = Fitting(x \o y, space)
    BY <1>1, <1>2, FittingTwice
  <1>6. Len(x \o y) = Len(x) + Len(y)
    BY <1>2, ConcatProperties, Zenon
  <1> QED
    BY <1>4, <1>5, <1>6, Zenon DEF out, space, y, Kept

-----------------------------------------------------------------------------
(* Halves of a pair *)

\* Half of a pair without the other.
Half(s, i) == s[i] \in {"high", "low"} /\ ~(s[i] = "high" /\ At(s, i + 1) = "low")

NextChar(s, i) == IF s[i] = "high" THEN i + 2 ELSE i + 1

DecodedAs(out, capacity) ==
    [result |-> IF out.length >= capacity THEN "BUFFER_TOO_SMALL" ELSE "OK",
     length |-> out.length, buffer |-> out.buffer]

HalfFound(out) == [result |-> "INVALID_JSON", length |-> 0, buffer |-> out.buffer]

DecodeOn(s, capacity, d, i, out) ==
    LET then(c, next) == d[next][Store(out, c, capacity)]
    IN  IF i > Len(s)
        THEN [result |-> IF out.length >= capacity THEN "BUFFER_TOO_SMALL" ELSE "OK",
              length |-> out.length, buffer |-> out.buffer]
        ELSE IF s[i] = "high" /\ At(s, i + 1) = "low" THEN then("high", i + 2)
        ELSE IF s[i] \in {"high", "low"}
        THEN [result |-> "INVALID_JSON", length |-> 0, buffer |-> out.buffer]
        ELSE then(s[i], i + 1)

Decodes(s, capacity, d) ==
    d = [i \in 1..(Len(s) + 1) |-> [out \in Decoding |-> DecodeOn(s, capacity, d, i, out)]]

DecodeStep(s, capacity, d, i, out) ==
    IF i > Len(s) THEN DecodedAs(out, capacity)
    ELSE IF Half(s, i) THEN HalfFound(out)
    ELSE d[NextChar(s, i)][Store(out, s[i], capacity)]

\* Decoding from one place on, without the local operator.
LEMMA DecodeOnIs ==
  ASSUME NEW s, NEW capacity, NEW d, NEW i, NEW out
  PROVE  DecodeOn(s, capacity, d, i, out) = DecodeStep(s, capacity, d, i, out)
  <1>1. CASE i > Len(s)
    BY <1>1, Zenon DEF DecodeOn, DecodeStep, DecodedAs
  <1>2. CASE ~(i > Len(s)) /\ s[i] = "high" /\ At(s, i + 1) = "low"
    BY <1>2 DEF DecodeOn, DecodeStep, Half, NextChar
  <1>3. CASE ~(i > Len(s)) /\ Half(s, i)
    BY <1>3 DEF DecodeOn, DecodeStep, Half, HalfFound
  <1>4. CASE ~(i > Len(s)) /\ s[i] \notin {"high", "low"}
    BY <1>4 DEF DecodeOn, DecodeStep, Half, NextChar
  <1> QED
    BY <1>1, <1>2, <1>3, <1>4 DEF Half

\* Decoding every string ends.
LEMMA DecodesSome ==
  ASSUME NEW s \in Seq(Char), NEW capacity \in Nat \ {0}
  PROVE  \E d : Decodes(s, capacity, d)
  <1> DEFINE N == Len(s) + 1
             R == [result : {"OK", "BUFFER_TOO_SMALL", "INVALID_JSON"}, length : Nat, buffer : Seq(Stored)]
             V == [Decoding -> R]
             stop == {i \in 1..N : i = N \/ Half(s, i)}
             ends == [out \in Decoding |-> DecodedAs(out, capacity)]
             ill == [out \in Decoding |-> HalfFound(out)]
             base == [i \in 1..N |-> IF i = N THEN ends ELSE ill]
             next == [i \in 1..N |-> IF i \in stop THEN i ELSE NextChar(s, i)]
             on(i, g) == [out \in Decoding |-> g[Store(out, s[i], capacity)]]
             step == [i \in 1..N |-> [g \in V |-> IF i \in stop THEN g ELSE on(i, g)]]
  <1>1. Len(s) \in Nat /\ N \in Nat /\ DOMAIN s = 1..Len(s)
    BY LenProperties
  <1>2. \A i \in 1..N : i \notin stop => NextChar(s, i) \in (i + 1)..N /\ s[i] \in Whole
    <2> SUFFICES ASSUME NEW i \in 1..N, i \notin stop
                 PROVE  NextChar(s, i) \in (i + 1)..N /\ s[i] \in Whole
      OBVIOUS
    <2>1. i \in 1..Len(s) /\ ~Half(s, i)
      BY <1>1
    <2>2. s[i] \in Char
      BY <2>1, ElementOfSeq
    <2>3. CASE s[i] = "high"
      <3>1. At(s, i + 1) = "low"
        BY <2>1, <2>3 DEF Half
      <3>2. i + 1 \in 1..Len(s)
        BY <1>1, <3>1 DEF At
      <3>3. i + 2 \in (i + 1)..N
        BY <1>1, <3>2
      <3> QED
        BY <2>2, <2>3, <3>3 DEF NextChar, Whole
    <2>4. CASE s[i] # "high"
      <3>1. s[i] # "low"
        BY <2>1, <2>4 DEF Half
      <3>2. i + 1 \in (i + 1)..N
        BY <1>1, <2>1
      <3> QED
        BY <2>2, <2>4, <3>1, <3>2 DEF NextChar, Whole
    <2> QED
      BY <2>3, <2>4
  <1> HIDE DEF stop
  <1>3. ends \in V /\ ill \in V
    <2>1. \A out \in Decoding : out.length \in Nat /\ out.buffer \in Seq(Stored)
      BY DEF Decoding, Stored
    <2>2. \A out \in Decoding : DecodedAs(out, capacity) \in R /\ HalfFound(out) \in R
      BY <2>1 DEF DecodedAs, HalfFound
    <2> HIDE DEF R
    <2> QED
      BY <2>2
  <1>4. base \in [1..N -> V]
    <2> HIDE DEF ends, ill, V
    <2> QED
      BY <1>3
  <1>5. next \in [1..N -> 1..N] /\ \A i \in 1..N : i \notin stop => next[i] > i
    BY <1>1, <1>2
  <1>6. \A i \in 1..N, out \in Decoding : i \notin stop => Store(out, s[i], capacity) \in Decoding
    BY <1>2, StoreIn
  <1>7. step \in [1..N -> [V -> V]]
    <2> HIDE DEF R
    <2>1. \A i \in 1..N, g \in V : i \notin stop => on(i, g) \in V
      BY <1>6
    <2> HIDE DEF on, V
    <2> QED
      BY <2>1
  <1>8. PICK d \in [1..N -> V] :
           \A i \in 1..N : d[i] = IF i \in stop THEN base[i] ELSE step[i][d[next[i]]]
    <2> HIDE DEF N, base, next, step, V
    <2>1. PICK d : DownTo(N, V, base, stop, next, step, d)
      BY <1>1, <1>4, <1>5, <1>7, DownRecur, Zenon
    <2> QED
      BY <2>1, Zenon DEF DownTo
  <1>9. ASSUME NEW i \in 1..N PROVE d[i] = [out \in Decoding |-> DecodeStep(s, capacity, d, i, out)]
    <2>1. CASE i = N
      <3>1. i > Len(s) /\ i \in stop
        BY <1>1, <2>1 DEF stop
      <3>2. d[i] = ends
        <4> HIDE DEF N, ends, step
        <4> QED
          BY <1>8, <2>1, <3>1
      <3>3. \A out : DecodeStep(s, capacity, d, i, out) = DecodedAs(out, capacity)
        BY <3>1, Zenon DEF DecodeStep
      <3> QED
        BY <3>2, <3>3, Zenon
    <2>2. CASE i # N /\ i \in stop
      <3>1. ~(i > Len(s)) /\ Half(s, i)
        BY <1>1, <2>2 DEF stop
      <3>2. d[i] = ill
        <4> HIDE DEF N, ends, ill, step
        <4> QED
          BY <1>8, <2>2
      <3>3. \A out : DecodeStep(s, capacity, d, i, out) = HalfFound(out)
        BY <3>1, Zenon DEF DecodeStep
      <3> QED
        BY <3>2, <3>3, Zenon
    <2>3. CASE i \notin stop
      <3>1. ~(i > Len(s)) /\ ~Half(s, i)
        BY <1>1, <2>3 DEF stop
      <3>2. NextChar(s, i) \in 1..N /\ next[i] = NextChar(s, i)
        BY <1>1, <1>2, <2>3
      <3>3. d[NextChar(s, i)] \in V /\ d[i] = on(i, d[NextChar(s, i)])
        <4> HIDE DEF on, V
        <4> QED
          BY <1>8, <2>3, <3>2, Zenon
      <3>4. \A out : DecodeStep(s, capacity, d, i, out) = d[NextChar(s, i)][Store(out, s[i], capacity)]
        BY <3>1, Zenon DEF DecodeStep
      <3> QED
        BY <3>3, <3>4, Zenon
    <2> QED
      BY <2>1, <2>2, <2>3
  <1>10. Decodes(s, capacity, d)
    <2>1. d = [i \in 1..N |-> d[i]]
      BY <1>8
    <2>2. \A i \in 1..N : \A out : DecodeStep(s, capacity, d, i, out) = DecodeOn(s, capacity, d, i, out)
      BY DecodeOnIs
    <2>3. \A i \in 1..N : d[i] = [out \in Decoding |-> DecodeOn(s, capacity, d, i, out)]
      BY <1>9, <2>2, Zenon
    <2> QED
      BY <2>1, <2>3 DEF Decodes
  <1> QED
    BY <1>10

\* What GetString() returns, as equations for each place.
LEMMA GetStringIs ==
  ASSUME NEW s \in Seq(Char), NEW capacity \in Nat \ {0}
  PROVE  \E d : /\ GetString(s, capacity) = d[1][[length |-> 0, buffer |-> <<>>]]
                /\ \A i \in 1..(Len(s) + 1), out \in Decoding :
                      d[i][out] = DecodeStep(s, capacity, d, i, out)
  <1> DEFINE d == CHOOSE d : Decodes(s, capacity, d)
             N == Len(s) + 1
  <1>1. GetString(s, capacity) = d[1][[length |-> 0, buffer |-> <<>>]]
    BY Zenon DEF GetString, Decodes, DecodeOn
  <1>2. Decodes(s, capacity, d)
    BY DecodesSome
  <1> HIDE DEF d
  <1>3. \A i \in 1..N : d[i] = [out \in Decoding |-> DecodeOn(s, capacity, d, i, out)]
    BY <1>2, Zenon DEF Decodes
  <1>4. \A i \in 1..N, out \in Decoding : d[i][out] = DecodeStep(s, capacity, d, i, out)
    BY <1>3, DecodeOnIs, Zenon
  <1> QED
    BY <1>1, <1>4


-----------------------------------------------------------------------------
(* The string that is decoded *)

\* The bytes of every character of s; those of a pair are those of its first half.
Pieces(s) == [i \in DOMAIN s |-> IF s[i] = "low" THEN <<>> ELSE Bytes(s[i])]

\* The bytes of each character.
LEMMA PiecesIn ==
  ASSUME NEW s \in Seq(Char)
  PROVE  /\ Pieces(s) \in Seq(Seq(Stored)) /\ Len(Pieces(s)) = Len(s)
         /\ \A i \in 1..Len(s) : /\ s[i] = "low" => Pieces(s)[i] = <<>>
                                 /\ s[i] # "low" => Pieces(s)[i] = Bytes(s[i])
  <1> DEFINE n == Len(s)
             b == Pieces(s)
  <1>1. n \in Nat /\ DOMAIN s = 1..n /\ \A i \in 1..n : s[i] \in Char
    BY LenProperties, ElementOfSeq
  <1>2. \A c \in Char : c # "low" => Bytes(c) \in Seq(Stored)
    BY BytesIs DEF Whole
  <1>3. b \in [1..n -> Seq(Stored)]
    <2>1. b = [i \in 1..n |-> IF s[i] = "low" THEN <<>> ELSE Bytes(s[i])]
      BY <1>1 DEF Pieces
    <2>2. \A i \in 1..n : (IF s[i] = "low" THEN <<>> ELSE Bytes(s[i])) \in Seq(Stored)
      BY <1>1, <1>2, EmptySeq
    <2> HIDE DEF b, n
    <2> QED
      BY <2>1, <2>2
  <1>4. \A i \in 1..n : /\ s[i] = "low" => b[i] = <<>>
                        /\ s[i] # "low" => b[i] = Bytes(s[i])
    BY <1>1 DEF Pieces
  <1> HIDE DEF b, n
  <1>5. b \in Seq(Seq(Stored))
    BY <1>1, <1>3, SeqDef
  <1>6. Len(b) = n
    BY <1>1, <1>3, <1>5, LenProperties
  <1> QED
    BY <1>4, <1>5, <1>6 DEF b, n

\* The first n characters are of pairs that are whole, and of no others.
PairedTo(s, n) ==
    \A i \in 1..n : /\ s[i] = "high" => i + 1 \in 1..n /\ s[i + 1] = "low"
                    /\ s[i] = "low" => i > 1 /\ s[i - 1] = "high"

\* Paired, of the state's string, is PairedTo() of all of it.
LEMMA PairedIs ==
  ASSUME chars \in Seq(Char)
  PROVE  Paired <=> PairedTo(chars, Len(chars))
  <1>1. Len(chars) \in Nat /\ DOMAIN chars = 1..Len(chars)
    BY LenProperties
  <1>2. \A i : At(chars, i + 1) = "low" <=> i + 1 \in 1..Len(chars) /\ chars[i + 1] = "low"
    BY <1>1 DEF At
  <1> QED
    BY <1>1, <1>2, Zenon DEF Paired, PairedTo

\* What the scan has done with the first n characters: it has kept their bytes; or it is one
\* character back, at a pair; or it has refused them.
Before(s, capacity, d, F, n, got) ==
    got = d[n + 1][Kept(F[n], capacity)] /\ PairedTo(s, n)

InPair(s, capacity, d, F, n, got) ==
    /\ n \in 1..Len(s) /\ n + 1 \in 1..Len(s) /\ s[n] = "high" /\ s[n + 1] = "low"
    /\ got = d[n][Kept(F[n - 1], capacity)] /\ PairedTo(s, n - 1)

RefusedHalf(s, got) == got.result = "INVALID_JSON" /\ ~PairedTo(s, Len(s))

\* A half that is alone after whole pairs leaves the string unpaired.
LEMMA HalfUnpaired ==
  ASSUME NEW s \in Seq(Char), NEW n \in 1..Len(s), Half(s, n), PairedTo(s, n - 1)
  PROVE  ~PairedTo(s, Len(s))
  <1>1. Len(s) \in Nat /\ DOMAIN s = 1..Len(s)
    BY LenProperties
  <1> SUFFICES ASSUME PairedTo(s, Len(s)) PROVE FALSE
    OBVIOUS
  <1>2. CASE s[n] = "high"
    <2>1. n + 1 \in 1..Len(s) /\ s[n + 1] = "low"
      BY <1>2 DEF PairedTo
    <2> QED
      BY <1>1, <1>2, <2>1 DEF Half, At
  <1>3. CASE s[n] = "low"
    <2>1. n > 1 /\ s[n - 1] = "high"
      BY <1>3 DEF PairedTo
    <2>2. n - 1 \in 1..(n - 1)
      BY <1>1, <2>1
    <2>3. (n - 1) + 1 \in 1..(n - 1)
      BY <2>1, <2>2 DEF PairedTo
    <2> QED
      BY <1>1, <2>3
  <1> QED
    BY <1>2, <1>3 DEF Half

\* A character that is no half keeps the pairs whole.
LEMMA PairedOn ==
  ASSUME NEW s \in Seq(Char), NEW n \in 1..Len(s), s[n] \notin {"high", "low"}, PairedTo(s, n - 1)
  PROVE  PairedTo(s, n)
  <1>1. Len(s) \in Nat
    BY LenProperties
  <1>2. ASSUME NEW i \in 1..n, i # n
        PROVE  /\ s[i] = "high" => i + 1 \in 1..n /\ s[i + 1] = "low"
               /\ s[i] = "low" => i > 1 /\ s[i - 1] = "high"
    <2>1. i \in 1..(n - 1)
      BY <1>1, <1>2
    <2>2. i + 1 \in 1..(n - 1) => i + 1 \in 1..n
      BY <1>1
    <2> QED
      BY <2>1, <2>2 DEF PairedTo
  <1> QED
    BY <1>2 DEF PairedTo

\* So does a pair.
LEMMA PairedPair ==
  ASSUME NEW s \in Seq(Char), NEW n \in 1..Len(s), n # 1, s[n - 1] = "high", s[n] = "low",
         PairedTo(s, (n - 1) - 1)
  PROVE  PairedTo(s, n)
  <1>1. Len(s) \in Nat
    BY LenProperties
  <1>2. ASSUME NEW i \in 1..n, i # n, i # n - 1
        PROVE  /\ s[i] = "high" => i + 1 \in 1..n /\ s[i + 1] = "low"
               /\ s[i] = "low" => i > 1 /\ s[i - 1] = "high"
    <2>1. i \in 1..((n - 1) - 1)
      BY <1>1, <1>2
    <2>2. i + 1 \in 1..((n - 1) - 1) => i + 1 \in 1..n
      BY <1>1
    <2> QED
      BY <2>1, <2>2 DEF PairedTo
  <1>3. /\ s[n] # "high" /\ n > 1 /\ s[n - 1] = "high"
        /\ s[n - 1] # "low" /\ (n - 1) + 1 \in 1..n /\ s[(n - 1) + 1] = "low"
    <2>1. n > 1 /\ (n - 1) + 1 = n /\ n \in 1..n
      BY <1>1
    <2> QED
      BY <2>1
  <1> QED
    BY <1>2, <1>3 DEF PairedTo

\* One more character after whole ones.
LEMMA BeforeStep ==
  ASSUME NEW s \in Seq(Char), NEW capacity \in Nat \ {0}, NEW d, NEW F, NEW got,
         \A i \in 1..(Len(s) + 1), out \in Decoding : d[i][out] = DecodeStep(s, capacity, d, i, out),
         Flat(Pieces(s), Stored, F),
         NEW n \in 1..Len(s), Before(s, capacity, d, F, n - 1, got)
  PROVE  \/ Before(s, capacity, d, F, n, got)
         \/ InPair(s, capacity, d, F, n, got)
         \/ RefusedHalf(s, got)
  <1> DEFINE out == Kept(F[n - 1], capacity)
  <1>1. Len(s) \in Nat /\ DOMAIN s = 1..Len(s) /\ s[n] \in Char
    BY LenProperties, ElementOfSeq
  <1>2. n \in Nat /\ n - 1 \in Nat /\ (n - 1) + 1 = n /\ n \in 1..(Len(s) + 1) /\ ~(n > Len(s))
    BY <1>1
  <1>3. F[n - 1] \in Seq(Stored) /\ F[n] = F[n - 1] \o Pieces(s)[n]
    BY <1>2, PiecesIn, Zenon DEF Flat
  <1>4. out \in Decoding
    BY <1>3, KeptIn
  <1>5. got = d[n][out] /\ PairedTo(s, n - 1)
    BY <1>2 DEF Before
  <1>6. got = DecodeStep(s, capacity, d, n, out)
    <2> HIDE DEF out
    <2> QED
      BY <1>2, <1>4, <1>5
  <1>7. CASE Half(s, n)
    <2>1. got = HalfFound(out)
      BY <1>2, <1>6, <1>7 DEF DecodeStep
    <2>2. got.result = "INVALID_JSON"
      BY <2>1 DEF HalfFound
    <2> QED
      BY <1>5, <1>7, <2>2, HalfUnpaired DEF RefusedHalf
  <1>8. CASE ~Half(s, n) /\ s[n] = "high"
    <2>1. At(s, n + 1) = "low"
      BY <1>8 DEF Half
    <2>2. n + 1 \in 1..Len(s) /\ s[n + 1] = "low"
      BY <1>1, <2>1 DEF At
    <2> QED
      BY <1>5, <1>8, <2>2 DEF InPair
  <1>9. CASE ~Half(s, n) /\ s[n] # "high"
    <2>1. s[n] \in Whole /\ s[n] \notin {"high", "low"}
      BY <1>1, <1>9 DEF Half, Whole
    <2>2. got = d[n + 1][Store(out, s[n], capacity)]
      BY <1>2, <1>6, <1>9 DEF DecodeStep, NextChar
    <2>3. Store(out, s[n], capacity) = Kept(F[n - 1] \o Bytes(s[n]), capacity)
      BY <1>3, <2>1, StoreAfter
    <2>4. Pieces(s)[n] = Bytes(s[n])
      BY <2>1, PiecesIn
    <2>5. PairedTo(s, n)
      BY <1>5, <2>1, PairedOn
    <2> QED
      BY <1>3, <2>2, <2>3, <2>4, <2>5 DEF Before
  <1> QED
    BY <1>7, <1>8, <1>9

\* The second half of a pair.
LEMMA PairStep ==
  ASSUME NEW s \in Seq(Char), NEW capacity \in Nat \ {0}, NEW d, NEW F, NEW got,
         \A i \in 1..(Len(s) + 1), out \in Decoding : d[i][out] = DecodeStep(s, capacity, d, i, out),
         Flat(Pieces(s), Stored, F),
         NEW n \in 1..Len(s), InPair(s, capacity, d, F, n - 1, got)
  PROVE  Before(s, capacity, d, F, n, got)
  <1> DEFINE m == n - 1
             out == Kept(F[m - 1], capacity)
  <1>1. Len(s) \in Nat /\ DOMAIN s = 1..Len(s)
    BY LenProperties
  <1>2. /\ m \in 1..Len(s) /\ s[m] = "high" /\ s[m + 1] = "low"
        /\ got = d[m][out] /\ PairedTo(s, m - 1)
    BY DEF InPair
  <1>3. /\ m \in Nat /\ m - 1 \in Nat /\ m + 1 = n /\ m + 2 = n + 1 /\ n # 1
        /\ m \in 1..(Len(s) + 1) /\ ~(m > Len(s)) /\ n - 1 = m
    BY <1>1, <1>2
  <1>4. /\ F[m - 1] \in Seq(Stored) /\ F[m] = F[m - 1] \o Pieces(s)[m]
        /\ F[n] = F[m] \o Pieces(s)[n] /\ F[m] \in Seq(Stored)
    <2> HIDE DEF m
    <2> QED
      BY <1>2, <1>3, PiecesIn, Zenon DEF Flat
  <1>5. Pieces(s)[m] = Bytes("high") /\ Pieces(s)[n] = <<>>
    <2> HIDE DEF m
    <2>1. "high" # "low"
      OBVIOUS
    <2> QED
      BY <1>2, <1>3, <2>1, PiecesIn, Zenon
  <1>6. F[n] = F[m - 1] \o Bytes("high")
    <2> HIDE DEF m
    <2>1. F[m] \o <<>> = F[m]
      BY <1>4, ConcatEmptySeq
    <2> QED
      BY <1>4, <1>5, <2>1
  <1>7. out \in Decoding
    <2> HIDE DEF m
    <2> QED
      BY <1>4, KeptIn
  <1>8. got = DecodeStep(s, capacity, d, m, out)
    <2> HIDE DEF m, out
    <2> QED
      BY <1>2, <1>3, <1>7
  <1>9. At(s, m + 1) = "low"
    <2> HIDE DEF m
    <2> QED
      BY <1>1, <1>2, <1>3 DEF At
  <1> HIDE DEF m
  <1>10. ~Half(s, m) /\ NextChar(s, m) = n + 1
    BY <1>2, <1>3, <1>9 DEF Half, NextChar
  <1>11. got = d[n + 1][Store(out, "high", capacity)]
    BY <1>2, <1>3, <1>8, <1>10 DEF DecodeStep
  <1>12. Store(out, "high", capacity) = Kept(F[n], capacity)
    <2>1. "high" \in Whole
      BY DEF Whole, Char
    <2> QED
      BY <1>4, <1>6, <2>1, StoreAfter
  <1>13. PairedTo(s, n)
    BY <1>2, <1>3, PairedPair DEF m
  <1> QED
    BY <1>11, <1>12, <1>13 DEF Before

\* The scan refuses a string with a lonely half and keeps the bytes of any other.
LEMMA DecodedAll ==
  ASSUME NEW s \in Seq(Char), NEW capacity \in Nat \ {0}, NEW d, NEW F,
         \A i \in 1..(Len(s) + 1), out \in Decoding : d[i][out] = DecodeStep(s, capacity, d, i, out),
         Flat(Pieces(s), Stored, F)
  PROVE  LET got == d[1][Kept(<<>>, capacity)]
         IN  \/ RefusedHalf(s, got)
             \/ /\ PairedTo(s, Len(s))
                /\ got = DecodedAs(Kept(F[Len(s)], capacity), capacity)
  <1> DEFINE got == d[1][Kept(<<>>, capacity)]
             N == Len(s)
             S == {n \in Nat : n <= N => \/ Before(s, capacity, d, F, n, got)
                                         \/ InPair(s, capacity, d, F, n, got)
                                         \/ RefusedHalf(s, got)}
  <1>1. N \in Nat
    BY LenProperties
  <1>2. 0 \in S
    <2>1. F[0] = <<>> /\ PairedTo(s, 0) /\ 0 + 1 = 1
      BY DEF Flat, PairedTo
    <2>2. Before(s, capacity, d, F, 0, got)
      BY <2>1, Zenon DEF Before
    <2> HIDE DEF got
    <2> QED
      BY <2>2
  <1> HIDE DEF got
  <1>3. ASSUME NEW n \in Nat \ {0}, n - 1 \in S PROVE n \in S
    <2> SUFFICES ASSUME n <= N
                 PROVE  \/ Before(s, capacity, d, F, n, got)
                        \/ InPair(s, capacity, d, F, n, got)
                        \/ RefusedHalf(s, got)
      OBVIOUS
    <2>1. n \in 1..Len(s) /\ n - 1 <= N
      BY <1>1
    <2>2. \/ Before(s, capacity, d, F, n - 1, got)
          \/ InPair(s, capacity, d, F, n - 1, got)
          \/ RefusedHalf(s, got)
      BY <1>3, <2>1
    <2> HIDE DEF N, S
    <2>3. CASE Before(s, capacity, d, F, n - 1, got)
      BY <2>1, <2>3, BeforeStep, Zenon
    <2>4. CASE InPair(s, capacity, d, F, n - 1, got)
      BY <2>1, <2>4, PairStep
    <2> QED
      BY <2>2, <2>3, <2>4
  <1> HIDE DEF S
  <1>4. N \in S
    BY <1>1, <1>2, <1>3, NumbersFollow
  <1>5. \/ Before(s, capacity, d, F, N, got)
        \/ InPair(s, capacity, d, F, N, got)
        \/ RefusedHalf(s, got)
    BY <1>1, <1>4 DEF S
  <1>6. ~InPair(s, capacity, d, F, N, got)
    BY <1>1 DEF InPair
  <1>7. CASE Before(s, capacity, d, F, N, got)
    <2> DEFINE out == Kept(F[N], capacity)
    <2>1. F[N] \in Seq(Stored)
      BY <1>1 DEF Flat
    <2>2. out \in Decoding
      BY <2>1, KeptIn
    <2>3. got = d[N + 1][out] /\ PairedTo(s, N)
      BY <1>7 DEF Before
    <2> HIDE DEF out
    <2>4. N + 1 \in 1..(Len(s) + 1) /\ N + 1 > Len(s)
      BY <1>1
    <2>5. got = DecodeStep(s, capacity, d, N + 1, out)
      BY <2>2, <2>3, <2>4
    <2>6. got = DecodedAs(out, capacity)
      BY <2>4, <2>5 DEF DecodeStep
    <2> QED
      BY <2>3, <2>6 DEF out, got
  <1> QED
    BY <1>5, <1>6, <1>7 DEF got

\* Every string is decoded as StringsTrue says.
LEMMA StringsNow ==
  ASSUME chars \in Seq(Char)
  PROVE  StringsTrue
  <1> DEFINE N == Len(chars)
             x == Decoded
  <1>1. PICK F : Flat(Pieces(chars), Stored, F)
    BY PiecesIn, FlatSome
  <1>2. x = F[N] /\ x \in Seq(Stored)
    <2>1. x = FlattenSeq(Pieces(chars))
      BY DEF Decoded, Pieces
    <2> HIDE DEF x
    <2> QED
      BY <1>1, <2>1, PiecesIn, FlattenIs
  <1> HIDE DEF x
  <1>3. Len(x) \in Nat
    BY <1>2, LenProperties
  <1> SUFFICES ASSUME NEW c \in 1..(Len(x) + 2)
               PROVE  LET got == GetString(chars, c)
                      IN  IF ~Paired THEN got.result = "INVALID_JSON"
                          ELSE /\ got.length = Len(x)
                               /\ got.result = IF Len(x) < c THEN "OK" ELSE "BUFFER_TOO_SMALL"
                               /\ got.buffer = SubSeq(x, 1, IF Len(x) < c THEN Len(x) ELSE c - 1)
    BY DEF StringsTrue, x
  <1> DEFINE got == GetString(chars, c)
  <1>4. c \in Nat \ {0} /\ c - 1 \in Nat
    BY <1>3
  <1>5. PICK d : /\ got = d[1][[length |-> 0, buffer |-> <<>>]]
                 /\ \A i \in 1..(Len(chars) + 1), out \in Decoding :
                       d[i][out] = DecodeStep(chars, c, d, i, out)
    BY <1>4, GetStringIs
  <1> HIDE DEF got
  <1>6. Kept(<<>>, c) = [length |-> 0, buffer |-> <<>>]
    <2>1. <<>> \in Seq(Stored) /\ Len(<<>>) = 0
      BY EmptySeq
    <2>2. Fitting(<<>>, c - 1) \in Seq(Stored) /\ Len(Fitting(<<>>, c - 1)) = 0
      <3> DEFINE y == <<>>
      <3>1. /\ Fitting(y, c - 1) \in Seq(Stored)
            /\ Len(Fitting(y, c - 1)) = IF Len(y) < c - 1 THEN Len(y) ELSE c - 1
        <4>1. y \in Seq(Stored)
          BY <2>1
        <4> HIDE DEF y
        <4> QED
          BY <1>4, <4>1, FittingIs
      <3> HIDE DEF y
      <3>2. Len(y) = 0
        BY <2>1 DEF y
      <3> QED
        BY <1>4, <3>1, <3>2 DEF y
    <2>3. Fitting(<<>>, c - 1) = <<>>
      BY <2>2, EmptySeq
    <2> QED
      BY <2>1, <2>3 DEF Kept
  <1>7. \/ RefusedHalf(chars, got)
        \/ PairedTo(chars, N) /\ got = DecodedAs(Kept(F[N], c), c)
    BY <1>1, <1>4, <1>5, <1>6, DecodedAll, Zenon
  <1>8. Paired <=> PairedTo(chars, N)
    BY PairedIs
  <1>9. CASE RefusedHalf(chars, got)
    BY <1>8, <1>9 DEF RefusedHalf, got
  <1>10. CASE PairedTo(chars, N) /\ got = DecodedAs(Kept(F[N], c), c)
    <2>1. /\ got.length = Len(x) /\ got.buffer = Fitting(x, c - 1)
          /\ got.result = IF Len(x) >= c THEN "BUFFER_TOO_SMALL" ELSE "OK"
      BY <1>2, <1>10 DEF DecodedAs, Kept
    <2>2. (IF Len(x) < c - 1 THEN Len(x) ELSE c - 1) = (IF Len(x) < c THEN Len(x) ELSE c - 1)
      BY <1>3, <1>4
    <2>3. got.buffer = SubSeq(x, 1, IF Len(x) < c THEN Len(x) ELSE c - 1)
      BY <2>1, <2>2 DEF Fitting
    <2>4. got.result = IF Len(x) < c THEN "OK" ELSE "BUFFER_TOO_SMALL"
      BY <1>3, <1>4, <2>1
    <2> QED
      BY <1>8, <1>10, <2>1, <2>3, <2>4 DEF got
  <1> QED
    BY <1>7, <1>9, <1>10

\* Records, numbers and strings: what the C library reports, reads and sends is exact.
THEOREM ClientCorrect == Spec => []Inv
  <1>1. IInv => Inv
    BY NumbersNow, StringsNow, SendsNow DEF Inv, IInv, TypeOK
  <1> QED
    BY <1>1, Inductive, PTL

-----------------------------------------------------------------------------
(* The recursion of the scanner *)

\* The scanner from one place on.
SkipOn(T, f, i, what, k) ==
    LET t == At(T, i)
        loop(begin) == f[i + 1][begin][k]
        follows(next) ==
            CASE next # 0 /\ At(T, next) = Closes(what) -> next + 1
              [] next # 0 /\ At(T, next) = "value-separator" -> f[next + 1][what][k]
              [] OTHER -> 0
    IN  CASE what = "value" /\ ~TooDeep(k) /\ t \in Scalar -> i + 1
          [] what = "value" /\ ~TooDeep(k) /\ t \in Opening ->
                 IF At(T, i + 1) = Closes(t) THEN i + 2 ELSE loop(t)
          [] what = "begin-array" -> follows(f[i]["value"][k + 1])
          [] what = "begin-object" /\ t \in Key /\ At(T, i + 1) = "name-separator" ->
                 follows(f[i + 2]["value"][k + 1])
          [] OTHER -> 0

Skips(T, f) ==
    f = [i \in 1..(Len(T) + 1) |-> [what \in Opening \cup {"value"} |-> [k \in Nat |-> SkipOn(T, f, i, what, k)]]]

\* The scanner is what this chooses.
LEMMA SkipSame ==
  ASSUME NEW T
  PROVE  Skip(T) = CHOOSE f : Skips(T, f)
  BY Zenon DEF Skip, Skips, SkipOn

FindOn(T, key, f, i) ==
    LET end == Skip(T)[i + 2]["value"][1]
    IN  IF \/ At(T, i) \notin Key \/ At(T, i + 1) # "name-separator"
           \/ end = 0 \/ ~Delimits(At(T, end))
        THEN Fails("INVALID_JSON")
        ELSE IF KeyEquals(T[i], key) THEN Found(i + 2, end)
        ELSE IF At(T, end) = "end-object" THEN Fails("NOT_FOUND")
        ELSE f[end + 1]

Finds(T, key, f) == f = [i \in 1..(Len(T) + 1) |-> FindOn(T, key, f, i)]

\* The search is what this chooses.
LEMMA FindSame ==
  ASSUME NEW T, NEW key
  PROVE  Find(T, key) =
           IF At(T, 1) # "begin-object" THEN Fails("INVALID_JSON")
           ELSE IF At(T, 2) = "end-object" THEN Fails("NOT_FOUND")
           ELSE (CHOOSE f : Finds(T, key, f))[2]
  BY Zenon DEF Find, Finds, FindOn

\* What is computed at a place from what is further on, and a function of such values.
ReadsOn(N, V, step) ==
    /\ step \in [1..N -> [[1..N -> V] -> V]]
    /\ \A i \in 1..N, g \in [1..N -> V], h \in [1..N -> V] :
          (\A j \in (i + 1)..N : g[j] = h[j]) => step[i][g] = step[i][h]

Solves(N, V, step, f) == f \in [1..N -> V] /\ \A i \in 1..N : f[i] = step[i][f]

\* A function whose values are computed from all those further on exists.
LEMMA DownRecurs ==
  ASSUME NEW N \in Nat, NEW V, NEW v \in V, NEW step, ReadsOn(N, V, step)
  PROVE  \E f : Solves(N, V, step, f)
  <1> DEFINE W == [1..N -> V]
             one(g) == [i \in 1..N |-> step[i][g]]
             go == [n \in Nat |-> [g \in W |-> one(g)]]
             first == [i \in 1..N |-> v]
  <1>0. step \in [1..N -> [W -> V]]
    BY Zenon DEF ReadsOn
  <1>1. \A g \in W : one(g) \in W
    BY <1>0
  <1>2. go \in [Nat -> [W -> W]] /\ first \in W
    BY <1>1
  <1>3. PICK F : RecursAt(W, first, go, F)
    <2> HIDE DEF go, W, first
    <2> QED
      BY <1>2, RecursFrom
  <1>4. F \in [Nat -> W] /\ \A n \in Nat \ {0} : F[n] = go[n - 1][F[n - 1]]
    <2> HIDE DEF go, W, first
    <2> QED
      BY <1>3 DEF RecursAt
  <1>5. \A n \in Nat \ {0} : n - 1 \in Nat /\ F[n] = one(F[n - 1])
    <2>1. \A n \in Nat \ {0} : n - 1 \in Nat
      OBVIOUS
    <2> HIDE DEF one, W
    <2> QED
      BY <1>4, <2>1, Zenon
  <1>6. \A n \in Nat : F[n] \in W /\ n + 1 \in Nat \ {0} /\ F[n + 1] = one(F[n])
    <2>1. \A n \in Nat : n + 1 \in Nat \ {0} /\ (n + 1) - 1 = n
      OBVIOUS
    <2> HIDE DEF one, W
    <2> QED
      BY <1>4, <1>5, <2>1
  <1> DEFINE S == {n \in Nat : \A i \in 1..N : N - i < n => F[n + 1][i] = F[n][i]}
  <1>7. 0 \in S
    OBVIOUS
  <1>8. ASSUME NEW n \in Nat \ {0}, n - 1 \in S PROVE n \in S
    <2> SUFFICES ASSUME NEW i \in 1..N, N - i < n PROVE F[n + 1][i] = F[n][i]
      OBVIOUS
    <2>1. F[n + 1][i] = step[i][F[n]] /\ F[n][i] = step[i][F[n - 1]]
      <3>1. F[n + 1] = one(F[n]) /\ F[n] = one(F[n - 1])
        <4> HIDE DEF one
        <4> QED
          BY <1>5, <1>6
      <3> QED
        BY <3>1
    <2>2. F[n] \in W /\ F[n - 1] \in W
      <3> HIDE DEF W
      <3> QED
        BY <1>5, <1>6, Zenon
    <2>3. \A j \in (i + 1)..N : F[n][j] = F[n - 1][j]
      <3> SUFFICES ASSUME NEW j \in (i + 1)..N PROVE F[n][j] = F[n - 1][j]
        OBVIOUS
      <3>1. j \in 1..N /\ N - j < n - 1 /\ (n - 1) + 1 = n
        OBVIOUS
      <3> QED
        BY <1>8, <3>1
    <2> QED
      BY <2>1, <2>2, <2>3, Zenon DEF ReadsOn
  <1>9. N \in S
    <2> HIDE DEF S
    <2> QED
      BY <1>7, <1>8, NumbersFollow
  <1>10. ASSUME NEW i \in 1..N PROVE F[N][i] = step[i][F[N]]
    <2>1. F[N + 1][i] = F[N][i]
      BY <1>9
    <2>2. F[N + 1] = one(F[N])
      <3> HIDE DEF one
      <3> QED
        BY <1>6, Zenon
    <2> QED
      BY <2>1, <2>2
  <1> QED
    BY <1>6, <1>10, Zenon DEF Solves

\* No token is two things.
LEMMA TokensApart ==
  /\ "end" \notin Token /\ Scalar \subseteq Token /\ Key \subseteq Scalar
  /\ Scalar \cap {"begin-object", "end-object", "begin-array", "end-array", "name-separator", "value-separator", "bad", "end"} = {}
  /\ Closes("begin-object") = "end-object" /\ Closes("begin-array") = "end-array"
  /\ Opening = {"begin-object", "begin-array"}
  /\ \A t \in Opening : t \in Token /\ t \notin Scalar /\ Closes(t) \in {"end-object", "end-array"}
  BY KeyAssumption DEF Token, Scalar, Punctuation, Opening, Closes

\* The token at a place.
LEMMA AtIs ==
  ASSUME NEW T \in Seq(Token), NEW i \in Nat \ {0}
  PROVE  /\ i \in 1..Len(T) => At(T, i) = T[i] /\ T[i] \in Token
         /\ i \notin 1..Len(T) => At(T, i) = "end"
         /\ At(T, i) # "end" => i \in 1..Len(T) /\ i + 1 \in 1..(Len(T) + 1)
  <1>1. Len(T) \in Nat /\ DOMAIN T = 1..Len(T) /\ \A j \in 1..Len(T) : T[j] \in Token
    BY LenProperties, ElementOfSeq
  <1> DEFINE n == Len(T)
  <1> HIDE DEF n
  <1>2. i \in 1..n => At(T, i) = T[i] /\ T[i] \in Token
    BY <1>1 DEF At, n
  <1>3. i \notin 1..n => At(T, i) = "end"
    BY <1>1 DEF At, n
  <1>4. i \in 1..n => i + 1 \in 1..(n + 1)
    BY <1>1 DEF n
  <1> QED
    BY <1>2, <1>3, <1>4 DEF n

Kind == Opening \cup {"value"}

\* Where a value ends, and where a loop ends whose next member or element ends at next.
ValueEnd(T, f, i, k) ==
    IF TooDeep(k) THEN 0
    ELSE IF At(T, i) \in Scalar THEN i + 1
    ELSE IF At(T, i) \notin Opening THEN 0
    ELSE IF At(T, i + 1) = Closes(At(T, i)) THEN i + 2
    ELSE f[i + 1][At(T, i)][k]

LoopGoes(T, f, what, k, next) ==
    IF next = 0 THEN 0
    ELSE IF At(T, next) = Closes(what) THEN next + 1
    ELSE IF At(T, next) = "value-separator" THEN f[next + 1][what][k]
    ELSE 0

LoopEnd(T, f, i, what, k, next) ==
    IF what = "begin-array" THEN LoopGoes(T, f, what, k, next)
    ELSE IF At(T, i) \in Key /\ At(T, i + 1) = "name-separator"
    THEN LoopGoes(T, f, what, k, f[i + 2]["value"][k + 1])
    ELSE 0

\* The scanner from one place on, by what is scanned.
LEMMA SkipOnIs ==
  ASSUME NEW T, NEW f, NEW i, NEW k
  PROVE  /\ SkipOn(T, f, i, "value", k) = ValueEnd(T, f, i, k)
         /\ \A what \in Opening :
               SkipOn(T, f, i, what, k) = LoopEnd(T, f, i, what, k, f[i]["value"][k + 1])
  <1> DEFINE follows(what, next) ==
                CASE next # 0 /\ At(T, next) = Closes(what) -> next + 1
                  [] next # 0 /\ At(T, next) = "value-separator" -> f[next + 1][what][k]
                  [] OTHER -> 0
  <1>1. ASSUME NEW what \in Opening, NEW next PROVE follows(what, next) = LoopGoes(T, f, what, k, next)
    <2>1. Closes(what) # "value-separator"
      BY TokensApart
    <2> QED
      BY <2>1 DEF LoopGoes
  <1>2. SkipOn(T, f, i, "value", k) = ValueEnd(T, f, i, k)
    <2>1. ~(At(T, i) \in Scalar /\ At(T, i) \in Opening)
      BY TokensApart
    <2>2. CASE TooDeep(k)
      BY <2>2 DEF SkipOn, ValueEnd
    <2>3. CASE ~TooDeep(k) /\ At(T, i) \in Scalar
      BY <2>1, <2>3 DEF SkipOn, ValueEnd
    <2>4. CASE ~TooDeep(k) /\ At(T, i) \in Opening
      BY <2>1, <2>4 DEF SkipOn, ValueEnd
    <2>5. CASE ~TooDeep(k) /\ At(T, i) \notin Scalar /\ At(T, i) \notin Opening
      BY <2>5 DEF SkipOn, ValueEnd
    <2> QED
      BY <2>2, <2>3, <2>4, <2>5
  <1>3. SkipOn(T, f, i, "begin-array", k) = follows("begin-array", f[i]["value"][k + 1])
    BY DEF SkipOn
  <1>4. SkipOn(T, f, i, "begin-object", k) =
          IF At(T, i) \in Key /\ At(T, i + 1) = "name-separator" THEN follows("begin-object", f[i + 2]["value"][k + 1]) ELSE 0
    BY DEF SkipOn
  <1> HIDE DEF follows
  <1> QED
    BY <1>1, <1>2, <1>3, <1>4, TokensApart DEF LoopEnd

Places(T) == 1..(Len(T) + 1)
EndsOf(T) == 0..(Len(T) + 1)
Scans(T) == [Kind -> [Nat -> EndsOf(T)]]

\* A scan ends at a place or nowhere.
LEMMA ScanIn ==
  ASSUME NEW T, NEW x \in Scans(T), NEW what \in Kind, NEW k \in Nat
  PROVE  x[what][k] \in EndsOf(T)
  BY DEF Scans

\* So does a value, which depends on what is further on only.
LEMMA ValueEndIn ==
  ASSUME NEW T \in Seq(Token), NEW f \in [Places(T) -> Scans(T)], NEW i \in Places(T), NEW k \in Nat
  PROVE  /\ ValueEnd(T, f, i, k) \in EndsOf(T)
         /\ \A g \in [Places(T) -> Scans(T)] :
               (\A j \in (i + 1)..(Len(T) + 1) : f[j] = g[j]) => ValueEnd(T, f, i, k) = ValueEnd(T, g, i, k)
  <1>1. Len(T) \in Nat /\ i \in Nat \ {0}
    BY LenProperties DEF Places
  <1>2. At(T, i) # "end" => i + 1 \in Places(T) /\ i + 1 \in EndsOf(T) /\ i + 1 \in (i + 1)..(Len(T) + 1)
    <2>1. At(T, i) # "end" => i \in 1..Len(T)
      BY <1>1, AtIs
    <2> QED
      BY <1>1, <2>1 DEF Places, EndsOf
  <1>3. At(T, i + 1) # "end" => i + 2 \in EndsOf(T)
    <2>1. At(T, i + 1) # "end" => i + 1 \in 1..Len(T)
      BY <1>1, AtIs
    <2> QED
      BY <1>1, <2>1 DEF EndsOf
  <1>4. 0 \in EndsOf(T)
    BY <1>1 DEF EndsOf
  <1>5. At(T, i) \in Scalar => At(T, i) # "end"
    BY TokensApart
  <1>6. At(T, i) \in Opening => At(T, i) # "end" /\ At(T, i) \in Kind /\ Closes(At(T, i)) # "end"
    BY TokensApart DEF Kind
  <1>7. \A what \in Kind : i + 1 \in Places(T) => f[i + 1][what][k] \in EndsOf(T)
    BY ScanIn
  <1>8. ValueEnd(T, f, i, k) \in EndsOf(T)
    <2>1. CASE At(T, i) \in Scalar
      BY <1>2, <1>4, <1>5, <2>1, Zenon DEF ValueEnd
    <2>2. CASE At(T, i) \in Opening /\ At(T, i + 1) = Closes(At(T, i))
      <3>1. i + 2 \in EndsOf(T)
        BY <1>3, <1>6, <2>2
      <3> QED
        BY <1>4, <2>2, <3>1, TokensApart, Zenon DEF ValueEnd
    <2>3. CASE At(T, i) \in Opening /\ At(T, i + 1) # Closes(At(T, i))
      <3>1. f[i + 1][At(T, i)][k] \in EndsOf(T)
        BY <1>2, <1>6, <1>7, <2>3
      <3>2. At(T, i) \notin Scalar
        BY <2>3, TokensApart
      <3> QED
        BY <1>4, <2>3, <3>1, <3>2, Zenon DEF ValueEnd
    <2>4. CASE At(T, i) \notin Scalar /\ At(T, i) \notin Opening
      BY <1>4, <2>4, Zenon DEF ValueEnd
    <2> QED
      BY <2>1, <2>2, <2>3, <2>4
  <1>9. ASSUME NEW g \in [Places(T) -> Scans(T)], \A j \in (i + 1)..(Len(T) + 1) : f[j] = g[j]
        PROVE  ValueEnd(T, f, i, k) = ValueEnd(T, g, i, k)
    <2>1. CASE At(T, i) \in Opening
      <3>1. f[i + 1] = g[i + 1]
        BY <1>2, <1>6, <1>9, <2>1
      <3> QED
        BY <3>1, Zenon DEF ValueEnd
    <2>2. CASE At(T, i) \notin Opening
      BY <2>2, Zenon DEF ValueEnd
    <2> QED
      BY <2>1, <2>2
  <1> QED
    BY <1>8, <1>9

\* So does a loop that goes on behind a place.
LEMMA LoopGoesIn ==
  ASSUME NEW T \in Seq(Token), NEW f \in [Places(T) -> Scans(T)], NEW k \in Nat,
         NEW what \in Opening, NEW next \in EndsOf(T)
  PROVE  /\ LoopGoes(T, f, what, k, next) \in EndsOf(T)
         /\ \A i \in Places(T), g \in [Places(T) -> Scans(T)] :
               (\A j \in (i + 1)..(Len(T) + 1) : f[j] = g[j]) /\ next > i =>
                  LoopGoes(T, f, what, k, next) = LoopGoes(T, g, what, k, next)
  <1>1. Len(T) \in Nat /\ next \in Nat /\ 0 \in EndsOf(T) /\ what \in Kind
    BY LenProperties DEF EndsOf, Kind
  <1>2. next # 0 /\ At(T, next) # "end" => next + 1 \in Places(T) /\ next + 1 \in EndsOf(T)
    <2>1. next # 0 /\ At(T, next) # "end" => next \in 1..Len(T)
      BY <1>1, AtIs
    <2> QED
      BY <1>1, <2>1 DEF Places, EndsOf
  <1>3. Closes(what) # "end"
    BY TokensApart
  <1>4. next + 1 \in Places(T) => f[next + 1][what][k] \in EndsOf(T)
    BY <1>1, ScanIn
  <1>5. LoopGoes(T, f, what, k, next) \in EndsOf(T)
    BY <1>1, <1>2, <1>3, <1>4 DEF LoopGoes
  <1>6. ASSUME NEW i \in Places(T), NEW g \in [Places(T) -> Scans(T)],
               \A j \in (i + 1)..(Len(T) + 1) : f[j] = g[j], next > i
        PROVE  LoopGoes(T, f, what, k, next) = LoopGoes(T, g, what, k, next)
    <2>1. CASE next # 0 /\ At(T, next) = "value-separator"
      <3>1. next + 1 \in (i + 1)..(Len(T) + 1)
        BY <1>1, <1>2, <1>6, <2>1 DEF Places
      <3>2. f[next + 1] = g[next + 1]
        BY <1>6, <3>1
      <3> QED
        BY <3>2, Zenon DEF LoopGoes
    <2>2. CASE ~(next # 0 /\ At(T, next) = "value-separator")
      BY <2>2, Zenon DEF LoopGoes
    <2> QED
      BY <2>1, <2>2
  <1> QED
    BY <1>5, <1>6

\* A loop that goes on only with what is further on.
LaterEnd(T, f, i, what, k) ==
    LET goes(next) == IF next > i THEN LoopGoes(T, f, what, k, next) ELSE 0
    IN  IF what = "begin-array" THEN goes(ValueEnd(T, f, i, k + 1))
        ELSE IF At(T, i) \in Key /\ At(T, i + 1) = "name-separator" THEN goes(f[i + 2]["value"][k + 1])
        ELSE 0

\* So does a loop that goes on with what is further on.
LEMMA LaterEndIn ==
  ASSUME NEW T \in Seq(Token), NEW f \in [Places(T) -> Scans(T)], NEW i \in Places(T), NEW k \in Nat,
         NEW what \in Opening
  PROVE  /\ LaterEnd(T, f, i, what, k) \in EndsOf(T)
         /\ \A g \in [Places(T) -> Scans(T)] :
               (\A j \in (i + 1)..(Len(T) + 1) : f[j] = g[j]) =>
                   LaterEnd(T, f, i, what, k) = LaterEnd(T, g, i, what, k)
  <1> DEFINE goes(f_, next) == IF next > i THEN LoopGoes(T, f_, what, k, next) ELSE 0
  <1>1. Len(T) \in Nat /\ i \in Nat \ {0} /\ 0 \in EndsOf(T) /\ k + 1 \in Nat /\ "value" \in Kind
    BY LenProperties DEF Places, EndsOf, Kind
  <1>2. At(T, i + 1) = "name-separator" => i + 2 \in Places(T) /\ i + 2 \in (i + 1)..(Len(T) + 1)
    <2>1. At(T, i + 1) = "name-separator" => i + 1 \in 1..Len(T)
      BY <1>1, AtIs
    <2> QED
      BY <1>1, <2>1 DEF Places
  <1>3. \A next \in EndsOf(T) : goes(f, next) \in EndsOf(T)
    BY <1>1, LoopGoesIn, Zenon
  <1>4. ASSUME NEW g \in [Places(T) -> Scans(T)], \A j \in (i + 1)..(Len(T) + 1) : f[j] = g[j]
        PROVE  \A next \in EndsOf(T) : goes(f, next) = goes(g, next)
    BY <1>4, LoopGoesIn, Zenon
  <1>5. ValueEnd(T, f, i, k + 1) \in EndsOf(T)
    BY <1>1, ValueEndIn
  <1>6. At(T, i + 1) = "name-separator" => f[i + 2]["value"][k + 1] \in EndsOf(T)
    BY <1>1, <1>2, ScanIn
  <1>7. \A h : LaterEnd(T, h, i, what, k) =
           IF what = "begin-array" THEN goes(h, ValueEnd(T, h, i, k + 1))
           ELSE IF At(T, i) \in Key /\ At(T, i + 1) = "name-separator" THEN goes(h, h[i + 2]["value"][k + 1])
           ELSE 0
    BY Zenon DEF LaterEnd
  <1> HIDE DEF goes
  <1>8. LaterEnd(T, f, i, what, k) \in EndsOf(T)
    BY <1>1, <1>3, <1>5, <1>6, <1>7, Zenon
  <1>9. ASSUME NEW g \in [Places(T) -> Scans(T)], \A j \in (i + 1)..(Len(T) + 1) : f[j] = g[j]
        PROVE  LaterEnd(T, f, i, what, k) = LaterEnd(T, g, i, what, k)
    <2>1. ValueEnd(T, f, i, k + 1) = ValueEnd(T, g, i, k + 1)
      BY <1>1, <1>9, ValueEndIn
    <2>2. \A next \in EndsOf(T) : goes(f, next) = goes(g, next)
      BY <1>4, <1>9
    <2>3. At(T, i + 1) = "name-separator" => f[i + 2] = g[i + 2]
      BY <1>2, <1>9
    <2> QED
      BY <1>5, <1>6, <1>7, <2>1, <2>2, <2>3, Zenon
  <1> QED
    BY <1>8, <1>9

Scanned(T, f) ==
    /\ f \in [Places(T) -> Scans(T)]
    /\ \A i \in Places(T), k \in Nat :
          /\ f[i]["value"][k] = ValueEnd(T, f, i, k)
          /\ \A what \in Opening : f[i][what][k] = LoopEnd(T, f, i, what, k, f[i]["value"][k + 1])

\* Such a scanner exists.
LEMMA LaterSome ==
  ASSUME NEW T \in Seq(Token)
  PROVE  \E f \in [Places(T) -> Scans(T)] : \A i \in Places(T), k \in Nat :
            /\ f[i]["value"][k] = ValueEnd(T, f, i, k)
            /\ \A what \in Opening : f[i][what][k] = LaterEnd(T, f, i, what, k)
  <1> DEFINE N == Len(T) + 1
             V == Scans(T)
             W == [Places(T) -> V]
             end(i, f, what, k) == IF what = "value" THEN ValueEnd(T, f, i, k) ELSE LaterEnd(T, f, i, what, k)
             scan(i, f) == [what \in Kind |-> [k \in Nat |-> end(i, f, what, k)]]
             step == [i \in Places(T) |-> [f \in W |-> scan(i, f)]]
  <1>1. N \in Nat /\ 0 \in EndsOf(T) /\ Places(T) = 1..N
    BY LenProperties DEF EndsOf, Places
  <1>2. \A what \in Kind : what # "value" => what \in Opening
    BY DEF Kind
  <1>3. ASSUME NEW i \in Places(T), NEW f \in W, NEW what \in Kind, NEW k \in Nat
        PROVE  end(i, f, what, k) \in EndsOf(T)
    BY <1>2, ValueEndIn, LaterEndIn
  <1>4. ASSUME NEW i \in Places(T), NEW f \in W, NEW g \in W, \A j \in (i + 1)..N : f[j] = g[j],
               NEW what \in Kind, NEW k \in Nat
        PROVE  end(i, f, what, k) = end(i, g, what, k)
    BY <1>2, <1>4, ValueEndIn, LaterEndIn
  <1> HIDE DEF end, N
  <1>5. \A i \in Places(T), f \in W : scan(i, f) \in V
    BY <1>3 DEF Scans
  <1>6. \A i \in Places(T), f \in W, g \in W : (\A j \in (i + 1)..N : f[j] = g[j]) => scan(i, f) = scan(i, g)
    <2> SUFFICES ASSUME NEW i \in Places(T), NEW f \in W, NEW g \in W, \A j \in (i + 1)..N : f[j] = g[j]
                 PROVE  scan(i, f) = scan(i, g)
      BY Zenon
    <2>1. \A what \in Kind, k \in Nat : end(i, f, what, k) = end(i, g, what, k)
      <3> HIDE DEF W
      <3> QED
        BY <1>4, Zenon
    <2> QED
      BY <2>1, Zenon
  <1>7. [what \in Kind |-> [k \in Nat |-> 0]] \in V
    BY <1>1 DEF Scans
  <1>8. PICK f \in W : \A i \in Places(T) : f[i] = step[i][f]
    <2>1. step \in [Places(T) -> [W -> V]]
      <3> HIDE DEF scan, V
      <3> QED
        BY <1>5
    <2>2. \A i \in Places(T), f \in W, g \in W : (\A j \in (i + 1)..N : f[j] = g[j]) => step[i][f] = step[i][g]
      <3> HIDE DEF scan, V
      <3> QED
        BY <1>6
    <2> HIDE DEF step, V
    <2>3. step \in [1..N -> [[1..N -> V] -> V]]
      BY <1>1, <2>1, Zenon
    <2>4. ReadsOn(N, V, step)
      <3> SUFFICES ASSUME NEW i \in 1..N, NEW g \in [1..N -> V], NEW h \in [1..N -> V],
                          \A j \in (i + 1)..N : g[j] = h[j]
                   PROVE  step[i][g] = step[i][h]
        BY <2>3, Zenon DEF ReadsOn
      <3>1. i \in Places(T) /\ g \in W /\ h \in W
        BY <1>1
      <3> HIDE DEF W
      <3> QED
        BY <2>2, <3>1, Zenon
    <2>5. PICK f : Solves(N, V, step, f)
      <3>1. PICK v : v \in V
        BY <1>7
      <3> QED
        BY <1>1, <2>4, <3>1, DownRecurs
    <2>7. W = [1..N -> V]
      BY <1>1
    <2> HIDE DEF W
    <2> QED
      BY <1>1, <2>5, <2>7 DEF Solves
  <1>9. \A i \in Places(T) : f[i] = scan(i, f)
    <2> HIDE DEF scan, V
    <2> QED
      BY <1>8
  <1>10. \A i \in Places(T), what \in Kind, k \in Nat : f[i][what][k] = end(i, f, what, k)
    BY <1>9
  <1>11. \A i \in Places(T), k \in Nat :
            /\ f[i]["value"][k] = ValueEnd(T, f, i, k)
            /\ \A what \in Opening : f[i][what][k] = LaterEnd(T, f, i, what, k)
    BY <1>10, TokensApart DEF end, Kind
  <1> QED
    BY <1>11

-----------------------------------------------------------------------------
(* The scanner, place by place *)

\* Places after i, and 0.
Ahead(T, i) == {n \in EndsOf(T) : n = 0 \/ n > i}

\* It moves forward.
LEMMA AfterOnes ==
  ASSUME NEW T \in Seq(Token), NEW f \in [Places(T) -> Scans(T)], NEW i \in Places(T), NEW k \in Nat,
         \A j \in (i + 1)..(Len(T) + 1), what \in Kind, m \in Nat : f[j][what][m] \in Ahead(T, j)
  PROVE  /\ ValueEnd(T, f, i, k) \in Ahead(T, i)
         /\ \A what \in Opening, next \in Ahead(T, i) : LoopGoes(T, f, what, k, next) \in Ahead(T, i)
         /\ \A what \in Opening : LaterEnd(T, f, i, what, k) \in Ahead(T, i)
  <1>1. Len(T) \in Nat /\ i \in Nat \ {0} /\ 0 \in Ahead(T, i) /\ k + 1 \in Nat
    BY LenProperties DEF Places, EndsOf, Ahead
  <1>2. At(T, i) # "end" => i + 1 \in (i + 1)..(Len(T) + 1)
    <2>1. At(T, i) # "end" => i \in 1..Len(T)
      BY <1>1, AtIs
    <2> QED
      BY <1>1, <2>1
  <1>3. ValueEnd(T, f, i, k) \in EndsOf(T)
    BY ValueEndIn
  <1>4. \A what \in Opening : At(T, i) # "end" => f[i + 1][what][k] = 0 \/ f[i + 1][what][k] > i
    <2> SUFFICES ASSUME NEW what \in Opening, At(T, i) # "end"
                 PROVE  f[i + 1][what][k] = 0 \/ f[i + 1][what][k] > i
      OBVIOUS
    <2>1. what \in Kind
      BY DEF Kind
    <2>2. f[i + 1][what][k] \in Ahead(T, i + 1)
      BY <1>2, <2>1
    <2> QED
      BY <1>1, <2>2 DEF Ahead, EndsOf
  <1>5. ValueEnd(T, f, i, k) = 0 \/ ValueEnd(T, f, i, k) > i
    <2>1. i + 1 > i /\ i + 2 > i
      BY <1>1
    <2>2. At(T, i) \in Opening => At(T, i) # "end"
      BY TokensApart
    <2> QED
      BY <1>4, <2>1, <2>2, Zenon DEF ValueEnd
  <1>6. ASSUME NEW what \in Opening, NEW next \in Ahead(T, i)
        PROVE  LoopGoes(T, f, what, k, next) \in Ahead(T, i)
    <2>1. next \in EndsOf(T) /\ what \in Kind
      BY DEF Ahead, Kind
    <2>2. LoopGoes(T, f, what, k, next) \in EndsOf(T)
      BY <2>1, LoopGoesIn, Zenon
    <2>3. CASE next = 0
      BY <1>1, <2>3 DEF LoopGoes
    <2>4. CASE next # 0
      <3>1. next \in Nat \ {0} /\ next > i /\ next + 1 > i
        BY <1>1, <2>1, <2>4 DEF Ahead, EndsOf
      <3>2. At(T, next) = "value-separator" => next + 1 \in (i + 1)..(Len(T) + 1)
        <4>1. At(T, next) # "end" => next \in 1..Len(T)
          BY <3>1, AtIs
        <4> QED
          BY <1>1, <3>1, <4>1
      <3>3. At(T, next) = "value-separator" => f[next + 1][what][k] = 0 \/ f[next + 1][what][k] > i
        <4>1. At(T, next) = "value-separator" => f[next + 1][what][k] \in Ahead(T, next + 1)
          BY <2>1, <3>2
        <4> QED
          BY <1>1, <3>1, <4>1 DEF Ahead, EndsOf
      <3>4. LoopGoes(T, f, what, k, next) = 0 \/ LoopGoes(T, f, what, k, next) > i
        BY <3>1, <3>3, Zenon DEF LoopGoes
      <3> QED
        BY <2>2, <3>4 DEF Ahead
    <2> QED
      BY <2>3, <2>4
  <1>7. ASSUME NEW what \in Opening PROVE LaterEnd(T, f, i, what, k) \in Ahead(T, i)
    <2>1. \A next \in EndsOf(T) : next > i => LoopGoes(T, f, what, k, next) \in Ahead(T, i)
      BY <1>6 DEF Ahead
    <2>2. ValueEnd(T, f, i, k + 1) \in EndsOf(T)
      BY <1>1, ValueEndIn
    <2>3. At(T, i + 1) = "name-separator" => f[i + 2]["value"][k + 1] \in EndsOf(T)
      <3>1. At(T, i + 1) = "name-separator" => i + 2 \in Places(T)
        <4>1. At(T, i + 1) = "name-separator" => i + 1 \in 1..Len(T)
          BY <1>1, AtIs
        <4> QED
          BY <1>1, <4>1 DEF Places
      <3> QED
        BY <1>1, <3>1, ScanIn DEF Kind
    <2> QED
      BY <1>1, <2>1, <2>2, <2>3, Zenon DEF LaterEnd
  <1> QED
    BY <1>3, <1>5, <1>6, <1>7 DEF Ahead

\* The scanner exists, and moves forward.
LEMMA ScannedSome ==
  ASSUME NEW T \in Seq(Token)
  PROVE  \E f : Scanned(T, f) /\ \A i \in Places(T), what \in Kind, k \in Nat : f[i][what][k] \in Ahead(T, i)
  <1>1. PICK f \in [Places(T) -> Scans(T)] : \A i \in Places(T), k \in Nat :
           /\ f[i]["value"][k] = ValueEnd(T, f, i, k)
           /\ \A what \in Opening : f[i][what][k] = LaterEnd(T, f, i, what, k)
    BY LaterSome
  <1> DEFINE N == Len(T) + 1
             S == {i \in Places(T) : \A what \in Kind, k \in Nat : f[i][what][k] \in Ahead(T, i)}
  <1>2. N \in Nat /\ Places(T) = 1..N
    BY LenProperties DEF Places
  <1>3. ASSUME NEW i \in 1..N, \A j \in (i + 1)..N : j \in S PROVE i \in S
    <2>1. \A j \in (i + 1)..(Len(T) + 1), what \in Kind, m \in Nat : f[j][what][m] \in Ahead(T, j)
      BY <1>3
    <2>2. \A k \in Nat : ValueEnd(T, f, i, k) \in Ahead(T, i) /\
                         \A what \in Opening : LaterEnd(T, f, i, what, k) \in Ahead(T, i)
      BY <1>2, <2>1, AfterOnes, Zenon
    <2>3. \A k \in Nat : f[i]["value"][k] \in Ahead(T, i) /\ \A what \in Opening : f[i][what][k] \in Ahead(T, i)
      BY <1>1, <1>2, <2>2
    <2> QED
      BY <1>2, <2>3 DEF Kind
  <1>4. 1..N \subseteq S
    <2> HIDE DEF N, S
    <2> QED
      BY <1>2, <1>3, DownInduce, Zenon
  <1>5. \A i \in Places(T), what \in Kind, k \in Nat : f[i][what][k] = 0 \/ f[i][what][k] > i
    BY <1>2, <1>4 DEF Ahead
  <1>6. ASSUME NEW i \in Places(T), NEW k \in Nat, NEW what \in Opening
        PROVE  LaterEnd(T, f, i, what, k) = LoopEnd(T, f, i, what, k, f[i]["value"][k + 1])
    <2>1. k + 1 \in Nat /\ "value" \in Kind /\ i \in Nat \ {0}
      BY DEF Kind, Places
    <2>2. f[i]["value"][k + 1] = ValueEnd(T, f, i, k + 1)
      BY <1>1, <2>1
    <2>3. f[i]["value"][k + 1] = 0 \/ f[i]["value"][k + 1] > i
      BY <1>5, <2>1
    <2>4. At(T, i + 1) = "name-separator" => f[i + 2]["value"][k + 1] = 0 \/ f[i + 2]["value"][k + 1] > i
      <3>1. At(T, i + 1) = "name-separator" => i + 2 \in Places(T)
        <4>1. At(T, i + 1) = "name-separator" => i + 1 \in 1..Len(T)
          BY <2>1, AtIs
        <4> QED
          BY <1>2, <2>1, <4>1 DEF Places
      <3>2. i + 2 \in Places(T) => f[i + 2]["value"][k + 1] \in EndsOf(T) /\
                (f[i + 2]["value"][k + 1] = 0 \/ f[i + 2]["value"][k + 1] > i + 2)
        BY <1>5, <2>1, ScanIn
      <3> QED
        BY <1>2, <2>1, <3>1, <3>2 DEF EndsOf
    <2>5. \A next : (next = 0 \/ next > i) =>
             (IF next > i THEN LoopGoes(T, f, what, k, next) ELSE 0) = LoopGoes(T, f, what, k, next)
      <3>1. LoopGoes(T, f, what, k, 0) = 0
        BY DEF LoopGoes
      <3> QED
        BY <3>1, Zenon
    <2> QED
      BY <2>2, <2>3, <2>4, <2>5, Zenon DEF LaterEnd, LoopEnd
  <1>7. Scanned(T, f)
    BY <1>1, <1>6 DEF Scanned
  <1>8. \A i \in Places(T), what \in Kind, k \in Nat : f[i][what][k] \in Ahead(T, i)
    BY <1>2, <1>4
  <1> QED
    BY <1>7, <1>8

\* Its equation, place by place.
LEMMA ScannedSkips ==
  ASSUME NEW T \in Seq(Token), NEW f
  PROVE  Scanned(T, f) <=> Skips(T, f) /\ f \in [Places(T) -> Scans(T)]
  <1>1. \A i \in Places(T), k \in Nat :
          /\ SkipOn(T, f, i, "value", k) = ValueEnd(T, f, i, k)
          /\ \A what \in Opening : SkipOn(T, f, i, what, k) = LoopEnd(T, f, i, what, k, f[i]["value"][k + 1])
    BY SkipOnIs, ZenonT(60)
  <1>2. ASSUME f \in [Places(T) -> Scans(T)]
        PROVE  Skips(T, f) <=> \A i \in Places(T), what \in Kind, k \in Nat : f[i][what][k] = SkipOn(T, f, i, what, k)
    <2> DEFINE at(i, what) == [k \in Nat |-> SkipOn(T, f, i, what, k)]
               place(i) == [what \in Kind |-> at(i, what)]
    <2>1. Skips(T, f) <=> f = [i \in Places(T) |-> place(i)]
      BY Zenon DEF Skips, Places, Kind
    <2>2. f = [i \in Places(T) |-> place(i)] <=> \A i \in Places(T) : f[i] = place(i)
      <3> HIDE DEF place
      <3> QED
        BY <1>2
    <2>3. \A i \in Places(T) : f[i] = place(i) <=> \A what \in Kind : f[i][what] = at(i, what)
      <3> HIDE DEF at
      <3>1. \A i \in Places(T) : f[i] \in [Kind -> [Nat -> EndsOf(T)]]
        BY <1>2 DEF Scans
      <3> QED
        BY <3>1
    <2>4. \A i \in Places(T), what \in Kind : f[i][what] = at(i, what) <=> \A k \in Nat : f[i][what][k] = SkipOn(T, f, i, what, k)
      <3>1. \A i \in Places(T), what \in Kind : f[i][what] \in [Nat -> EndsOf(T)]
        BY <1>2 DEF Scans
      <3> QED
        BY <3>1, Zenon
    <2> HIDE DEF place, at
    <2> QED
      BY <2>1, <2>2, <2>3, <2>4
  <1>3. (\A i \in Places(T), what \in Kind, k \in Nat : f[i][what][k] = SkipOn(T, f, i, what, k)) <=>
        \A i \in Places(T), k \in Nat :
          /\ f[i]["value"][k] = SkipOn(T, f, i, "value", k)
          /\ \A what \in Opening : f[i][what][k] = SkipOn(T, f, i, what, k)
    BY Zenon DEF Kind
  <1> QED
    BY <1>1, <1>2, <1>3 DEF Scanned

\* There is one scanner.
LEMMA SkipsOnce ==
  ASSUME NEW T \in Seq(Token), NEW f, Skips(T, f), NEW g, Scanned(T, g),
         \A i \in Places(T), what \in Kind, k \in Nat : g[i][what][k] \in Ahead(T, i)
  PROVE  f = g
  <1> DEFINE N == Len(T) + 1
             at(h, i, what) == [k \in Nat |-> SkipOn(T, h, i, what, k)]
             place(h, i) == [what \in Kind |-> at(h, i, what)]
             S == {i \in Places(T) : f[i] = g[i]}
  <1>1. N \in Nat /\ Places(T) = 1..N
    BY LenProperties DEF Places
  <1>2. f = [i \in Places(T) |-> place(f, i)] /\ g = [i \in Places(T) |-> place(g, i)]
    <2>1. Skips(T, g)
      BY ScannedSkips
    <2> QED
      BY <2>1, Zenon DEF Skips, Places, Kind
  <1>3. \A i \in Places(T) : f[i] = place(f, i) /\ g[i] = place(g, i)
    <2> HIDE DEF place
    <2> QED
      BY <1>2
  <1>4. \A h, i : /\ \A what \in Kind, k \in Nat : place(h, i)[what][k] = SkipOn(T, h, i, what, k)
    OBVIOUS
  <1>5. ASSUME NEW i \in Places(T), \A j \in (i + 1)..N : f[j] = g[j] PROVE f[i] = g[i]
    <2>1. i \in Nat \ {0}
      BY DEF Places
    <2>0. \A h, k : /\ SkipOn(T, h, i, "value", k) = ValueEnd(T, h, i, k)
                    /\ \A what \in Opening :
                          SkipOn(T, h, i, what, k) = LoopEnd(T, h, i, what, k, h[i]["value"][k + 1])
      BY SkipOnIs, ZenonT(60)
    <2>2. At(T, i) # "end" => f[i + 1] = g[i + 1]
      <3>1. At(T, i) # "end" => i \in 1..Len(T)
        BY <2>1, AtIs
      <3>2. At(T, i) # "end" => i + 1 \in (i + 1)..N
        BY <1>1, <2>1, <3>1
      <3> QED
        BY <1>5, <3>2
    <2>3. \A k \in Nat : ValueEnd(T, f, i, k) = ValueEnd(T, g, i, k)
      BY <2>2, TokensApart, Zenon DEF ValueEnd
    <2>4. \A k \in Nat : f[i]["value"][k] = g[i]["value"][k] /\ f[i]["value"][k] \in Ahead(T, i)
      <3>1. \A k \in Nat : f[i]["value"][k] = SkipOn(T, f, i, "value", k) /\
                           g[i]["value"][k] = SkipOn(T, g, i, "value", k)
        <4> HIDE DEF place
        <4> QED
          BY <1>3, <1>4 DEF Kind
      <3>2. \A k \in Nat : f[i]["value"][k] = g[i]["value"][k]
        BY <2>0, <2>3, <3>1, Zenon
      <3> QED
        BY <3>2 DEF Kind
    <2>5. At(T, i + 1) = "name-separator" => f[i + 2] = g[i + 2] /\
             \A k \in Nat : g[i + 2]["value"][k] \in Ahead(T, i)
      <3>1. At(T, i + 1) = "name-separator" => i + 1 \in 1..Len(T)
        BY <2>1, AtIs
      <3>2. At(T, i + 1) = "name-separator" => i + 2 \in (i + 1)..N /\ i + 2 \in Places(T)
        BY <1>1, <2>1, <3>1 DEF Places
      <3>3. \A n : n \in Ahead(T, i + 2) => n \in Ahead(T, i)
        BY <2>1 DEF Ahead, EndsOf
      <3> QED
        BY <1>5, <3>2, <3>3 DEF Kind
    <2>6. ASSUME NEW what \in Opening, NEW k \in Nat, NEW next \in Ahead(T, i)
          PROVE  LoopGoes(T, f, what, k, next) = LoopGoes(T, g, what, k, next)
      <3>1. next \in Nat /\ (next # 0 => next > i)
        BY <1>1, <2>1 DEF Ahead, EndsOf
      <3>2. next # 0 /\ At(T, next) = "value-separator" => f[next + 1] = g[next + 1]
        <4>1. next # 0 /\ At(T, next) # "end" => next \in 1..Len(T)
          BY <3>1, AtIs
        <4>2. next # 0 /\ At(T, next) = "value-separator" => next + 1 \in (i + 1)..N
          BY <1>1, <2>1, <3>1, <4>1
        <4> QED
          BY <1>5, <4>2
      <3> QED
        BY <3>2, Zenon DEF LoopGoes
    <2>7. ASSUME NEW what \in Opening, NEW k \in Nat
          PROVE  SkipOn(T, f, i, what, k) = SkipOn(T, g, i, what, k)
      <3>1. k + 1 \in Nat
        OBVIOUS
      <3>2. LoopEnd(T, f, i, what, k, f[i]["value"][k + 1]) = LoopEnd(T, g, i, what, k, g[i]["value"][k + 1])
        BY <2>4, <2>5, <2>6, <3>1, ZenonT(60) DEF LoopEnd
      <3> QED
        BY <2>0, <3>2, Zenon
    <2>8. \A what \in Kind, k \in Nat : SkipOn(T, f, i, what, k) = SkipOn(T, g, i, what, k)
      <3>1. \A k \in Nat : SkipOn(T, f, i, "value", k) = SkipOn(T, g, i, "value", k)
        BY <2>0, <2>3, Zenon
      <3> QED
        BY <2>7, <3>1 DEF Kind
    <2>9. \A what \in Kind : at(f, i, what) = at(g, i, what)
      BY <2>8, Zenon
    <2>10. place(f, i) = place(g, i)
      <3> HIDE DEF at
      <3> QED
        BY <2>9, Zenon
    <2> HIDE DEF place
    <2> QED
      BY <1>3, <2>10
  <1>6. 1..N \subseteq S
    <2>1. \A i \in 1..N : (\A j \in (i + 1)..N : j \in S) => i \in S
      <3> HIDE DEF N
      <3> QED
        BY <1>1, <1>5
    <2> HIDE DEF N, S
    <2> QED
      BY <1>1, <2>1, DownInduce
  <1>7. \A i \in Places(T) : place(f, i) = place(g, i)
    <2> HIDE DEF place
    <2> QED
      BY <1>1, <1>3, <1>6
  <1> HIDE DEF place
  <1> QED
    BY <1>2, <1>7, Zenon

\* What the scanner computes.
LEMMA SkipIs ==
  ASSUME NEW T \in Seq(Token)
  PROVE  /\ Scanned(T, Skip(T))
         /\ \A i \in Places(T), what \in Kind, k \in Nat : Skip(T)[i][what][k] \in Ahead(T, i)
  <1>1. PICK g : Scanned(T, g) /\ \A i \in Places(T), what \in Kind, k \in Nat : g[i][what][k] \in Ahead(T, i)
    BY ScannedSome
  <1>2. \E f : Skips(T, f)
    BY <1>1, ScannedSkips
  <1>3. Skips(T, Skip(T))
    BY <1>2, SkipSame, Zenon
  <1>4. Skip(T) = g
    <2> DEFINE f == Skip(T)
    <2>1. Skips(T, f)
      BY <1>3
    <2> HIDE DEF f
    <2>2. f = g
      BY <1>1, <2>1, SkipsOnce
    <2> QED
      BY <2>2 DEF f
  <1> QED
    BY <1>1, <1>4

-----------------------------------------------------------------------------
(* The search, place by place *)

\* The end of the value of the member at i, and whether the search goes on after it.
EndOf(T, i) == Skip(T)[i + 2]["value"][1]

GoesOn(T, key, i) ==
    /\ At(T, i) \in Key /\ At(T, i + 1) = "name-separator"
    /\ EndOf(T, i) # 0 /\ At(T, EndOf(T, i)) = "value-separator" /\ ~KeyEquals(T[i], key)

\* The value of a member ends behind its beginning.
LEMMA EndOfIn ==
  ASSUME NEW T \in Seq(Token), NEW i \in Places(T), At(T, i + 1) = "name-separator"
  PROVE  /\ i + 2 \in Places(T) /\ EndOf(T, i) \in EndsOf(T)
         /\ EndOf(T, i) # 0 => EndOf(T, i) > i + 2
         /\ EndOf(T, i) # 0 /\ At(T, EndOf(T, i)) # "end" =>
               EndOf(T, i) + 1 \in Places(T) /\ EndOf(T, i) + 1 > i
  <1>1. Len(T) \in Nat /\ i \in Nat \ {0}
    BY LenProperties DEF Places
  <1>2. i + 2 \in Places(T)
    <2>1. i + 1 \in 1..Len(T)
      BY <1>1, AtIs
    <2> QED
      BY <1>1, <2>1 DEF Places
  <1>3. EndOf(T, i) \in Ahead(T, i + 2)
    BY <1>2, SkipIs DEF EndOf, Kind
  <1>4. EndOf(T, i) \in EndsOf(T) /\ EndOf(T, i) \in Nat /\ (EndOf(T, i) # 0 => EndOf(T, i) > i + 2)
    BY <1>3 DEF Ahead, EndsOf
  <1>5. EndOf(T, i) # 0 /\ At(T, EndOf(T, i)) # "end" => EndOf(T, i) \in 1..Len(T)
    BY <1>4, AtIs
  <1>6. EndOf(T, i) \in 1..Len(T) => EndOf(T, i) + 1 \in Places(T)
    BY <1>1 DEF Places
  <1> QED
    BY <1>1, <1>2, <1>4, <1>5, <1>6

\* Where the search goes on, and where it ends.
LEMMA FindOnIs ==
  ASSUME NEW T, NEW key, NEW f, NEW i
  PROVE  /\ GoesOn(T, key, i) => FindOn(T, key, f, i) = f[EndOf(T, i) + 1]
         /\ \A g : ~GoesOn(T, key, i) => FindOn(T, key, f, i) = FindOn(T, key, g, i)
  <1>1. \A g : FindOn(T, key, g, i) =
          IF At(T, i) \notin Key \/ At(T, i + 1) # "name-separator" THEN Fails("INVALID_JSON")
          ELSE IF EndOf(T, i) = 0 \/ ~Delimits(At(T, EndOf(T, i))) THEN Fails("INVALID_JSON")
          ELSE IF KeyEquals(T[i], key) THEN Found(i + 2, EndOf(T, i))
          ELSE IF At(T, EndOf(T, i)) = "end-object" THEN Fails("NOT_FOUND")
          ELSE g[EndOf(T, i) + 1]
    BY Zenon DEF FindOn, EndOf
  <1>2. At(T, EndOf(T, i)) = "value-separator" => Delimits(At(T, EndOf(T, i))) /\ At(T, EndOf(T, i)) # "end-object"
    BY DEF Delimits
  <1>3. Delimits(At(T, EndOf(T, i))) /\ At(T, EndOf(T, i)) # "end-object" => At(T, EndOf(T, i)) = "value-separator"
    BY DEF Delimits
  <1> QED
    BY <1>1, <1>2, <1>3, Zenon DEF GoesOn

\* The search exists.
LEMMA FindsSome ==
  ASSUME NEW T \in Seq(Token), NEW key
  PROVE  \E f : Finds(T, key, f)
  <1> DEFINE N == Len(T) + 1
             at(i) == FindOn(T, key, <<>>, i)
             V == {at(i) : i \in 1..N}
             base == [i \in 1..N |-> at(i)]
             stop == {i \in 1..N : ~GoesOn(T, key, i)}
             to(i) == IF GoesOn(T, key, i) THEN EndOf(T, i) + 1 ELSE i
             next == [i \in 1..N |-> to(i)]
             step == [i \in 1..N |-> [v \in V |-> v]]
  <1>1. N \in Nat /\ Places(T) = 1..N
    BY LenProperties DEF Places
  <1>2. ASSUME NEW i \in 1..N, GoesOn(T, key, i)
        PROVE  EndOf(T, i) + 1 \in 1..N /\ EndOf(T, i) + 1 > i
    <2> HIDE DEF N
    <2>1. At(T, EndOf(T, i)) # "end" /\ At(T, i + 1) = "name-separator" /\ EndOf(T, i) # 0
      BY <1>2 DEF GoesOn
    <2> QED
      BY <1>1, <2>1, EndOfIn
  <1>3. base \in [1..N -> V]
    <2> HIDE DEF at
    <2> QED
      OBVIOUS
  <1>4. \A i \in 1..N : to(i) \in 1..N /\ (i \notin stop => to(i) > i)
    BY <1>2
  <1> HIDE DEF at
  <1>5. PICK f : DownTo(N, V, base, stop, next, step, f)
    <2>1. next \in [1..N -> 1..N] /\ \A i \in 1..N : i \notin stop => next[i] > i
      <3> HIDE DEF to, stop, N
      <3> QED
        BY <1>4
    <2>2. step \in [1..N -> [V -> V]]
      <3> HIDE DEF V
      <3> QED
        OBVIOUS
    <2> HIDE DEF next, step, base, stop, V, N
    <2> QED
      BY <1>1, <1>3, <2>1, <2>2, DownRecur, Zenon
  <1>6. f \in [1..N -> V] /\ \A i \in 1..N : f[i] = IF i \in stop THEN base[i] ELSE step[i][f[next[i]]]
    <2> HIDE DEF next, step, base, stop, V, N
    <2> QED
      BY <1>5 DEF DownTo
  <1>7. ASSUME NEW i \in 1..N PROVE f[i] = FindOn(T, key, f, i)
    <2>1. CASE GoesOn(T, key, i)
      <3>1. i \notin stop /\ next[i] = EndOf(T, i) + 1 /\ next[i] \in 1..N
        BY <1>2, <2>1
      <3>2. f[next[i]] \in V
        <4> HIDE DEF V, N, next
        <4> QED
          BY <1>6, <3>1
      <3>3. step[i][f[next[i]]] = f[next[i]]
        <4> HIDE DEF V, N, next
        <4> QED
          BY <3>2
      <3>4. f[i] = f[EndOf(T, i) + 1]
        <4> HIDE DEF V, N, next, step, stop
        <4> QED
          BY <1>6, <3>1, <3>3
      <3> QED
        BY <2>1, <3>4, FindOnIs
    <2>2. CASE ~GoesOn(T, key, i)
      <3>1. i \in stop /\ base[i] = at(i)
        BY <2>2
      <3>2. f[i] = at(i)
        <4> HIDE DEF V, N, base, stop, step, next
        <4> QED
          BY <1>6, <3>1
      <3>3. FindOn(T, key, f, i) = at(i)
        BY <2>2, FindOnIs DEF at
      <3> QED
        BY <3>2, <3>3
    <2> QED
      BY <2>1, <2>2
  <1>8. f = [i \in 1..N |-> FindOn(T, key, f, i)]
    <2>1. f = [i \in 1..N |-> f[i]]
      <3> HIDE DEF V, N
      <3> QED
        BY <1>6
    <2> QED
      BY <1>7, <2>1, Zenon
  <1> QED
    BY <1>8, Zenon DEF Finds

\* What the search computes, from each place on.
FindFrom(T, key) == CHOOSE f : Finds(T, key, f)

\* What the search is.
LEMMA FindIs ==
  ASSUME NEW T \in Seq(Token), NEW key
  PROVE  /\ \A i \in Places(T) : FindFrom(T, key)[i] = FindOn(T, key, FindFrom(T, key), i)
         /\ Find(T, key) = IF At(T, 1) # "begin-object" THEN Fails("INVALID_JSON")
                            ELSE IF At(T, 2) = "end-object" THEN Fails("NOT_FOUND")
                            ELSE FindFrom(T, key)[2]
  <1>1. Finds(T, key, FindFrom(T, key))
    BY FindsSome, Zenon DEF FindFrom
  <1>2. ASSUME NEW f, Finds(T, key, f) PROVE \A i \in Places(T) : f[i] = FindOn(T, key, f, i)
    <2> DEFINE at(i) == FindOn(T, key, f, i)
    <2>1. f = [i \in Places(T) |-> at(i)]
      BY <1>2, Zenon DEF Finds, Places
    <2>2. \A i \in Places(T) : f[i] = at(i)
      <3> HIDE DEF at
      <3> QED
        BY <2>1
    <2> QED
      BY <2>2
  <1> QED
    BY <1>1, <1>2, FindSame, Zenon DEF FindFrom

-----------------------------------------------------------------------------
(* The automaton, token by token *)

\* What the automaton is in.
Want == {"start", "first-key", "key", "colon", "value", "first-value", "next", "done", "more", "bad"}
Entry == [key : Key \cup {""}, begin : Nat, end : Nat]
State == [want : Want, open : Seq(Opening), key : Key \cup {""}, begin : Nat, members : Seq(Entry)]

\* A state that differs in no more than what it wants.
Like(s, u) == /\ u.open = s.open /\ u.key = s.key /\ u.begin = s.begin /\ u.members = s.members

\* Nothing more is complete, and the text not what it should be.
Ruined(s, u) == u.want = "bad" /\ u.members = s.members

BeginAt(s, n) == IF Outer(s) THEN n ELSE s.begin

\* The containers of a state without the innermost.
Inner(s) == SubSeq(s.open, 1, Len(s.open) - 1)

TakesValue(s, t) == s.want = "value" \/ (s.want = "first-value" /\ t # "end-array")

\* The fields of a state.
LEMMA Fields ==
  ASSUME NEW s \in State
  PROVE  /\ s.want \in Want /\ s.open \in Seq(Opening) /\ s.key \in Key \cup {""}
         /\ s.begin \in Nat /\ s.members \in Seq(Entry)
         /\ Len(s.open) \in Nat /\ Inner(s) \in Seq(Opening)
         /\ \A x \in Opening : Append(s.open, x) \in Seq(Opening)
         /\ \A n \in Nat : Member(s, n) \in Entry /\ Append(s.members, Member(s, n)) \in Seq(Entry)
  <1>1. /\ s.want \in Want /\ s.open \in Seq(Opening) /\ s.key \in Key \cup {""}
        /\ s.begin \in Nat /\ s.members \in Seq(Entry)
    BY Zenon DEF State
  <1>2. Len(s.open) \in Nat /\ \A x \in Opening : Append(s.open, x) \in Seq(Opening)
    BY <1>1, LenProperties, AppendProperties, Zenon
  <1>3. Inner(s) \in Seq(Opening)
    <2>1. Len(s.open) - 1 \in Int /\ \A i \in 1..(Len(s.open) - 1) : i \in 1..Len(s.open)
      BY <1>2
    <2>2. \A i \in 1..(Len(s.open) - 1) : s.open[i] \in Opening
      BY <1>1, <2>1, ElementOfSeq, Zenon
    <2> QED
      BY <2>1, <2>2, SubSeqProperties DEF Inner
  <1>4. ASSUME NEW n \in Nat PROVE Member(s, n) \in Entry
    BY <1>1, Zenon DEF Member, Entry
  <1>5. ASSUME NEW n \in Nat PROVE Append(s.members, Member(s, n)) \in Seq(Entry)
    BY <1>1, <1>4, AppendProperties, Zenon
  <1> QED
    BY <1>1, <1>2, <1>3, <1>4, <1>5, Zenon

\* Begins(), field by field.
LEMMA BeginsIs ==
  ASSUME NEW s \in State, NEW n \in Nat
  PROVE  /\ Begins(s, n) \in State /\ Begins(s, n).begin = BeginAt(s, n)
         /\ Begins(s, n).want = s.want /\ Begins(s, n).open = s.open
         /\ Begins(s, n).key = s.key /\ Begins(s, n).members = s.members
  BY Zenon DEF Begins, BeginAt, State

\* Close(), field by field.
LEMMA CloseIs ==
  ASSUME NEW s \in State
  PROVE  /\ Close(s) \in State /\ Close(s).open = Inner(s)
         /\ Close(s).want = IF Inner(s) = <<>> THEN "done" ELSE "next"
         /\ Close(s).key = s.key /\ Close(s).begin = s.begin /\ Close(s).members = s.members
  <1> DEFINE rest == Inner(s)
  <1>1. rest \in Seq(Opening)
    BY Fields, Zenon
  <1>2. Close(s) = [s EXCEPT !.open = rest, !.want = IF rest = <<>> THEN "done" ELSE "next"]
    BY Zenon DEF Close, Inner
  <1> HIDE DEF rest
  <1>3. /\ Close(s) \in State /\ Close(s).open = rest
        /\ Close(s).want = IF rest = <<>> THEN "done" ELSE "next"
        /\ Close(s).key = s.key /\ Close(s).begin = s.begin /\ Close(s).members = s.members
    BY <1>1, <1>2, Zenon DEF State, Want
  <1> QED
    BY <1>3 DEF rest

\* Completed(), field by field.
LEMMA CompletedIs ==
  ASSUME NEW s \in State, NEW n \in Nat, s.want = "next"
  PROVE  /\ Completed(s, n) \in State
         /\ Completed(s, n).members = IF Outer(s) THEN Append(s.members, Member(s, n)) ELSE s.members
         /\ Completed(s, n).open = s.open /\ Completed(s, n).key = s.key
         /\ Completed(s, n).begin = s.begin /\ Completed(s, n).want = "next"
  <1> DEFINE more == Append(s.members, Member(s, n))
  <1>1. more \in Seq(Entry)
    BY Fields, Zenon
  <1>2. Completed(s, n) = IF Outer(s) THEN [s EXCEPT !.members = more] ELSE s
    BY DEF Completed
  <1> HIDE DEF more
  <1>3. /\ Completed(s, n) \in State
        /\ Completed(s, n).members = IF Outer(s) THEN more ELSE s.members
        /\ Completed(s, n).open = s.open /\ Completed(s, n).key = s.key
        /\ Completed(s, n).begin = s.begin /\ Completed(s, n).want = "next"
    BY <1>1, <1>2, Zenon DEF State
  <1> QED
    BY <1>3 DEF more

\* How each token is read.
LEMMA ReadOver ==
  ASSUME NEW s \in State, NEW n \in Nat, NEW t \in Token
  PROVE  /\ s.want = "bad" => Ruined(s, Read(s, n, t)) /\ Read(s, n, t) \in State
         /\ s.want \in {"done", "more"} =>
               Read(s, n, t).want = "more" /\ Like(s, Read(s, n, t)) /\ Read(s, n, t) \in State
  BY Zenon DEF Read, State, Ruined, Like, Want

\* A key is read.
LEMMA ReadKey ==
  ASSUME NEW s \in State, NEW n \in Nat, NEW t \in Token, s.want \in {"key", "first-key"}
  PROVE  /\ t \in Key =>
              /\ Read(s, n, t).want = "colon" /\ Read(s, n, t).open = s.open
              /\ Read(s, n, t).begin = s.begin /\ Read(s, n, t).members = s.members
              /\ Read(s, n, t).key = (IF Outer(s) THEN t ELSE s.key)
              /\ Read(s, n, t) \in State
         /\ t \notin Key /\ ~(s.want = "first-key" /\ t = "end-object") =>
              Ruined(s, Read(s, n, t)) /\ Read(s, n, t) \in State
         /\ s.want = "first-key" /\ t = "end-object" => Read(s, n, t) = Close(s)
  <1>1. ASSUME t \in Key PROVE t # "end-object"
    BY <1>1, TokensApart
  <1>2. ASSUME t \in Key
        PROVE  Read(s, n, t) = [s EXCEPT !.want = "colon", !.key = IF Outer(s) THEN t ELSE @]
    BY <1>1, <1>2 DEF Read
  <1>3. ASSUME t \notin Key, ~(s.want = "first-key" /\ t = "end-object")
        PROVE  Read(s, n, t) = [s EXCEPT !.want = "bad"]
    BY <1>3 DEF Read
  <1>4. ASSUME s.want = "first-key", t = "end-object" PROVE Read(s, n, t) = Close(s)
    BY <1>1, <1>4 DEF Read
  <1> QED
    BY <1>2, <1>3, <1>4, Zenon DEF State, Want, Ruined

\* A name separator is read.
LEMMA ReadColon ==
  ASSUME NEW s \in State, NEW n \in Nat, NEW t \in Token, s.want = "colon"
  PROVE  /\ t = "name-separator" => Read(s, n, t).want = "value" /\ Like(s, Read(s, n, t))
         /\ t # "name-separator" => Ruined(s, Read(s, n, t))
         /\ Read(s, n, t) \in State
  BY Zenon DEF Read, State, Want, Ruined, Like

\* What comes first in a container.
Opens(t) == IF t = "begin-object" THEN "first-key" ELSE "first-value"

\* A value begins, or is a scalar.
LEMMA ReadValue ==
  ASSUME NEW s \in State, NEW n \in Nat, NEW t \in Token, TakesValue(s, t)
  PROVE  /\ ~TooDeep(Len(s.open)) /\ t \in Scalar =>
              /\ Read(s, n, t).want = "next" /\ Read(s, n, t).open = s.open
              /\ Read(s, n, t).key = s.key /\ Read(s, n, t).members = s.members
              /\ Read(s, n, t).begin = BeginAt(s, n)
         /\ ~TooDeep(Len(s.open)) /\ t \in Opening =>
              /\ Read(s, n, t).want = Opens(t) /\ Read(s, n, t).open = Append(s.open, t)
              /\ Read(s, n, t).key = s.key /\ Read(s, n, t).members = s.members
              /\ Read(s, n, t).begin = BeginAt(s, n)
         /\ TooDeep(Len(s.open)) \/ t \notin Scalar \cup Opening => Ruined(s, Read(s, n, t))
         /\ Read(s, n, t) \in State
  <1>1. Read(s, n, t) = Value(s, n, t)
    BY DEF Read, TakesValue
  <1>2. Len(s.open) \in Nat /\ MaxDepth \in Nat
    BY Fields, LimitAssumption, Zenon
  <1>3. TooDeep(Len(s.open)) <=> ~(Len(s.open) <= MaxDepth)
    BY <1>2 DEF TooDeep
  <1>4. t \in Scalar => t \notin Opening
    BY TokensApart
  <1> DEFINE b == Begins(s, n)
  <1>8. /\ b \in State /\ b.begin = BeginAt(s, n) /\ b.want = s.want /\ b.open = s.open
        /\ b.key = s.key /\ b.members = s.members
    BY BeginsIs
  <1>5. CASE ~TooDeep(Len(s.open)) /\ t \in Scalar
    <2>1. Value(s, n, t) = [b EXCEPT !.want = "next"]
      BY <1>2, <1>3, <1>4, <1>5, TokensApart DEF Value
    <2> HIDE DEF b
    <2> QED
      BY <1>1, <1>4, <1>5, <1>8, <2>1, Zenon DEF State, Want
  <1>6. CASE ~TooDeep(Len(s.open)) /\ t \in Opening
    <2> DEFINE longer == Append(s.open, t)
    <2>1. longer \in Seq(Opening)
      BY <1>6, Fields, Zenon
    <2>2. Value(s, n, t) = [b EXCEPT !.open = longer, !.want = Opens(t)]
      <3>0. longer = Append(b.open, t)
        BY <1>8
      <3> HIDE DEF longer
      <3>1. CASE t = "begin-object"
        <4>1. Value(s, n, t) = [b EXCEPT !.open = Append(b.open, t), !.want = "first-key"]
          BY <1>3, <1>4, <1>6, <3>1 DEF Value
        <4> QED
          BY <3>0, <3>1, <4>1, Zenon DEF Opens
      <3>2. CASE t = "begin-array"
        <4>1. Value(s, n, t) = [b EXCEPT !.open = Append(b.open, t), !.want = "first-value"]
          BY <1>3, <1>4, <1>6, <3>2 DEF Value
        <4>2. Opens(t) = "first-value"
          BY <3>2 DEF Opens
        <4> QED
          BY <3>0, <4>1, <4>2, Zenon
      <3> QED
        BY <1>6, <3>1, <3>2, TokensApart
    <2>3. Opens(t) \in Want
      BY DEF Opens, Want
    <2> HIDE DEF b, longer
    <2>4. /\ Value(s, n, t).want = Opens(t) /\ Value(s, n, t).open = longer
          /\ Value(s, n, t).key = s.key /\ Value(s, n, t).members = s.members
          /\ Value(s, n, t).begin = BeginAt(s, n) /\ Value(s, n, t) \in State
      BY <1>8, <2>1, <2>2, <2>3, Zenon DEF State
    <2> QED
      BY <1>1, <1>4, <1>6, <2>4 DEF longer
  <1>7. CASE TooDeep(Len(s.open)) \/ t \notin Scalar \cup Opening
    <2>1. Value(s, n, t) = [s EXCEPT !.want = "bad"]
      BY <1>2, <1>3, <1>7, TokensApart DEF Value
    <2> QED
      BY <1>1, <1>7, <2>1, Zenon DEF State, Want, Ruined
  <1> QED
    BY <1>5, <1>6, <1>7

\* What follows a value is read.
LEMMA ReadNext ==
  ASSUME NEW s \in State, NEW n \in Nat, NEW t \in Token, s.want = "next",
         Top(s) \in Opening, Outer(s) => Top(s) = "begin-object"
  PROVE  LET u == Read(s, n, t)
             more == IF Outer(s) THEN Append(s.members, Member(s, n)) ELSE s.members
         IN  /\ t = "value-separator" =>
                  /\ u.want = (IF Top(s) = "begin-object" THEN "key" ELSE "value")
                  /\ u.open = s.open /\ u.key = s.key /\ u.begin = s.begin /\ u.members = more
             /\ t = Closes(Top(s)) =>
                  /\ u.want = (IF Inner(s) = <<>> THEN "done" ELSE "next")
                  /\ u.open = Inner(s) /\ u.key = s.key /\ u.begin = s.begin /\ u.members = more
             /\ t # "value-separator" /\ t # Closes(Top(s)) => Ruined(s, u)
             /\ u \in State
  <1> DEFINE c == Completed(s, n)
             more == IF Outer(s) THEN Append(s.members, Member(s, n)) ELSE s.members
  <1>1. c \in State /\ c.members = more /\ c.open = s.open /\ c.key = s.key /\ c.begin = s.begin /\ Inner(c) = Inner(s)
    BY CompletedIs, Zenon DEF Inner
  <1>2. Top(s) = "begin-object" \/ Top(s) = "begin-array"
    BY TokensApart
  <1> HIDE DEF c, more
  <1>3. CASE t = "value-separator"
    <2>1. Read(s, n, t) = [c EXCEPT !.want = IF Top(s) = "begin-object" THEN "key" ELSE "value"]
      BY <1>3 DEF Read, c
    <2>2. "value-separator" # Closes(Top(s))
      BY <1>2 DEF Closes
    <2> QED
      BY <1>1, <1>3, <2>1, <2>2, Zenon DEF State, Want, more
  <1>4. CASE t = Closes(Top(s)) /\ Top(s) = "begin-object"
    <2>1. t = "end-object"
      BY <1>4 DEF Closes
    <2>2. Read(s, n, t) = Close(c)
      BY <1>4, <2>1 DEF Read, c
    <2> QED
      BY <1>1, <1>4, <2>1, <2>2, CloseIs DEF more
  <1>5. CASE t = Closes(Top(s)) /\ Top(s) = "begin-array"
    <2>1. t = "end-array" /\ ~Outer(s)
      BY <1>5 DEF Closes
    <2>2. Read(s, n, t) = Close(s) /\ more = s.members
      BY <1>5, <2>1 DEF Read, more
    <2> QED
      BY <1>5, <2>1, <2>2, CloseIs DEF more
  <1>6. CASE t # "value-separator" /\ t # Closes(Top(s))
    <2>1. Read(s, n, t) = [s EXCEPT !.want = "bad"]
      BY <1>2, <1>6 DEF Read, Closes
    <2> QED
      BY <1>6, <2>1, Zenon DEF State, Want, Ruined, more
  <1> QED
    BY <1>2, <1>3, <1>4, <1>5, <1>6

-----------------------------------------------------------------------------
(* The automaton over a text *)

\* Reading leads from state to state.
LEMMA ReadIn ==
  ASSUME NEW s \in State, NEW n \in Nat, NEW t \in Token
  PROVE  Read(s, n, t) \in State
  <1>1. CASE s.want = "start"
    <2>1. CASE t = "begin-object"
      <3>1. Read(s, n, t) = [s EXCEPT !.open = <<t>>, !.want = "first-key"]
        BY <1>1, <2>1 DEF Read
      <3>2. <<t>> \in Seq(Opening)
        BY <2>1, TokensApart
      <3> QED
        BY <3>1, <3>2, Zenon DEF State, Want
    <2>2. CASE t # "begin-object"
      BY <1>1, <2>2, Zenon DEF Read, State, Want
    <2> QED
      BY <2>1, <2>2
  <1>2. CASE s.want \in {"key", "first-key"}
    BY <1>2, ReadKey, CloseIs
  <1>3. CASE s.want = "colon"
    BY <1>3, ReadColon
  <1>4. CASE TakesValue(s, t)
    BY <1>4, ReadValue
  <1>5. CASE s.want = "first-value" /\ t = "end-array"
    <2>1. Read(s, n, t) = Close(s)
      BY <1>5 DEF Read
    <2> QED
      BY <2>1, CloseIs
  <1>6. CASE s.want = "next"
    <2> DEFINE c == Completed(s, n)
    <2>1. c \in State
      BY <1>6, CompletedIs
    <2> HIDE DEF c
    <2>2. CASE t = "value-separator"
      <3>1. Read(s, n, t) = [c EXCEPT !.want = IF Top(s) = "begin-object" THEN "key" ELSE "value"]
        BY <1>6, <2>2 DEF Read, c
      <3> QED
        BY <2>1, <3>1, Zenon DEF State, Want
    <2>3. CASE t = "end-object" /\ Top(s) = "begin-object"
      <3>1. Read(s, n, t) = Close(c)
        BY <1>6, <2>3 DEF Read, c
      <3> QED
        BY <2>1, <3>1, CloseIs
    <2>4. CASE t = "end-array" /\ Top(s) = "begin-array"
      <3>1. Read(s, n, t) = Close(s)
        BY <1>6, <2>4 DEF Read
      <3> QED
        BY <3>1, CloseIs
    <2>5. CASE t # "value-separator" /\ ~(t = "end-object" /\ Top(s) = "begin-object")
               /\ ~(t = "end-array" /\ Top(s) = "begin-array")
      <3>1. Read(s, n, t) = [s EXCEPT !.want = "bad"]
        BY <1>6, <2>5 DEF Read
      <3> QED
        BY <3>1, Zenon DEF State, Want
    <2> QED
      BY <2>2, <2>3, <2>4, <2>5
  <1>7. CASE s.want \in {"done", "more", "bad"}
    BY <1>7, ReadOver
  <1> QED
    BY <1>1, <1>2, <1>3, <1>4, <1>5, <1>6, <1>7, Fields, Zenon DEF Want, TakesValue

\* The states of the automaton that reads a text.
Runs(T, S) ==
    /\ S \in [0..Len(T) -> State] /\ S[0] = Blank
    /\ \A n \in 1..Len(T) : S[n] = Read(S[n - 1], n, T[n])

\* No text has a run.
LEMMA RunStarts ==
  \E S : Runs(<<>>, S) /\ S[0] = Blank
  <1> DEFINE S == [n \in 0..0 |-> Blank]
  <1>1. Len(<<>>) = 0 /\ <<>> \in Seq(Opening) /\ <<>> \in Seq(Entry)
    OBVIOUS
  <1>2. Blank \in State
    BY <1>1 DEF Blank, State, Want
  <1>3. Runs(<<>>, S)
    BY <1>1, <1>2 DEF Runs
  <1> QED
    BY <1>3

\* A text with one token more has a run if it has one.
LEMMA RunGoes ==
  ASSUME NEW T \in Seq(Token), NEW S, Runs(T, S), NEW t \in Token
  PROVE  \E R : Runs(Append(T, t), R) /\ R[Len(Append(T, t))] = Read(S[Len(T)], Len(T) + 1, t)
  <1> DEFINE N == Len(T)
             u == Read(S[N], N + 1, t)
             R == [n \in 0..(N + 1) |-> IF n <= N THEN S[n] ELSE u]
  <1>1. N \in Nat /\ Len(Append(T, t)) = N + 1 /\ \A n \in 1..N : Append(T, t)[n] = T[n]
    BY LenProperties, AppendProperties
  <1>2. Append(T, t)[N + 1] = t
    BY AppendProperties
  <1> DEFINE TT == Append(T, t)
  <1> HIDE DEF N, TT
  <1>3. S \in [0..N -> State] /\ S[0] = Blank /\ \A n \in 1..N : S[n] = Read(S[n - 1], n, T[n])
    BY DEF Runs, N
  <1>4. u \in State
    BY <1>1, <1>3, ReadIn
  <1>5. R \in [0..(N + 1) -> State] /\ R[0] = Blank /\ R[N + 1] = u
    <2> HIDE DEF u
    <2> QED
      BY <1>1, <1>3, <1>4
  <1>6. ASSUME NEW n \in 1..(N + 1) PROVE R[n] = Read(R[n - 1], n, TT[n])
    <2>1. n - 1 \in 0..N /\ R[n - 1] = S[n - 1]
      BY <1>1
    <2>2. CASE n = N + 1
      <3>1. n - 1 = N
        BY <1>1, <2>2
      <3>2. TT[n] = t
        BY <1>2, <2>2, Zenon DEF TT
      <3> HIDE DEF R
      <3> QED
        BY <1>5, <2>1, <2>2, <3>1, <3>2
    <2>3. CASE n # N + 1
      <3>1. n \in 1..N
        BY <1>1, <2>3
      <3>2. R[n] = S[n] /\ TT[n] = T[n]
        BY <1>1, <3>1 DEF TT
      <3> HIDE DEF R
      <3> QED
        BY <1>3, <2>1, <3>1, <3>2
    <2> QED
      BY <2>2, <2>3
  <1>7. Len(TT) = N + 1
    BY <1>1 DEF TT
  <1> HIDE DEF R, u
  <1>8. Runs(TT, R)
    BY <1>5, <1>6, <1>7, Zenon DEF Runs
  <1>9. R[Len(TT)] = u
    BY <1>5, <1>7
  <1> QED
    BY <1>8, <1>9 DEF TT, u, N

\* What msysd's automaton is in is what it is in after its text.
SyntaxTrue == \E S : Runs(draft, S) /\ syntax = S[Len(draft)]

\* A step of a run.
LEMMA RunStep ==
  ASSUME NEW T \in Seq(Token), NEW S, Runs(T, S), NEW i \in Places(T)
  PROVE  /\ i - 1 \in 0..Len(T) /\ S[i - 1] \in State /\ i \in Nat \ {0} /\ Len(T) \in Nat
         /\ i = Len(T) + 1 => At(T, i) = "end" /\ i - 1 = Len(T)
         /\ i # Len(T) + 1 => /\ i \in 1..Len(T) /\ At(T, i) = T[i] /\ At(T, i) \in Token /\ S[i] \in State
                              /\ S[i] = Read(S[i - 1], i, At(T, i)) /\ i + 1 \in Places(T) /\ (i + 1) - 1 = i
  <1>1. Len(T) \in Nat /\ i \in 1..(Len(T) + 1)
    BY LenProperties DEF Places
  <1> DEFINE N == Len(T)
  <1> HIDE DEF N
  <1>2. i \in Nat \ {0} /\ i - 1 \in 0..N /\ (i = N + 1 => i - 1 = N /\ i \notin 1..N)
        /\ (i # N + 1 => i \in 1..N /\ i + 1 \in 1..(N + 1) /\ (i + 1) - 1 = i /\ i \in 0..N)
    BY <1>1 DEF N
  <1>3. S \in [0..N -> State] /\ \A n \in 1..N : S[n] = Read(S[n - 1], n, T[n])
    BY DEF Runs, N
  <1>4. (i \in 1..N => At(T, i) = T[i] /\ T[i] \in Token) /\ (i \notin 1..N => At(T, i) = "end")
    BY <1>2, AtIs DEF N
  <1> QED
    BY <1>1, <1>2, <1>3, <1>4, Zenon DEF N, Places

\* How a text ends that is not what it should be, or complete.
LEMMA OverStays ==
  ASSUME NEW T \in Seq(Token), NEW S, Runs(T, S), NEW m \in 0..Len(T)
  PROVE  /\ S[m].want = "bad" => Ruined(S[m], S[Len(T)])
         /\ S[m].want \in {"done", "more"} =>
               S[Len(T)].want \in {"done", "more"} /\ S[Len(T)].members = S[m].members
  <1> DEFINE N == Len(T)
             Same(n) == /\ S[m].want = "bad" => Ruined(S[m], S[n])
                        /\ S[m].want \in {"done", "more"} =>
                              S[n].want \in {"done", "more"} /\ S[n].members = S[m].members
             A == {d \in Nat : m + d <= N => Same(m + d)}
  <1>1. N \in Nat /\ m \in Nat /\ m <= N
    BY LenProperties
  <1>2. 0 \in A
    <2>1. Same(m) /\ m + 0 = m
      BY <1>1 DEF Ruined
    <2> HIDE DEF Same
    <2> QED
      BY <2>1
  <1>3. ASSUME NEW d \in Nat \ {0}, d - 1 \in A PROVE d \in A
    <2> SUFFICES ASSUME m + d <= N PROVE Same(m + d)
      OBVIOUS
    <2> DEFINE n == m + d
    <2>1. n - 1 = m + (d - 1) /\ n \in Places(T) /\ n # N + 1 /\ n \in Nat /\ n - 1 <= N
      BY <1>1 DEF Places
    <2>2. Same(n - 1)
      <3> HIDE DEF Same
      <3> QED
        BY <1>1, <1>3, <2>1
    <2> HIDE DEF n
    <2>3. S[n] = Read(S[n - 1], n, At(T, n)) /\ S[n - 1] \in State /\ At(T, n) \in Token
      BY <2>1, RunStep
    <2>4. /\ S[n - 1].want = "bad" => Ruined(S[n - 1], S[n])
          /\ S[n - 1].want \in {"done", "more"} => S[n].want = "more" /\ Like(S[n - 1], S[n])
      BY <2>1, <2>3, ReadOver
    <2>5. Same(n)
      BY <2>2, <2>4 DEF Ruined, Like
    <2> QED
      BY <2>5 DEF n
  <1>4. N - m \in Nat /\ m + (N - m) = N
    BY <1>1
  <1>5. N - m \in A
    <2> HIDE DEF A
    <2> QED
      BY <1>2, <1>3, <1>4, NumbersFollow
  <1> QED
    BY <1>4, <1>5

\* Nothing more is ever complete.
Stuck(T, S, s) == S[Len(T)].members = s.members /\ S[Len(T)].want \notin {"done", "more"}

\* A text that is not what it should be never gets a member again.
LEMMA RuinedStuck ==
  ASSUME NEW T \in Seq(Token), NEW S, Runs(T, S), NEW m \in 0..Len(T), NEW s, Ruined(s, S[m])
  PROVE  Stuck(T, S, s)
  BY OverStays DEF Ruined, Stuck

-----------------------------------------------------------------------------
(* Values and loops, read by the scanner and by the automaton *)

AfterValue(s, u, i) ==
    u.want = "next" /\ u.open = s.open /\ u.key = s.key /\ u.members = s.members /\ u.begin = BeginAt(s, i)

AfterLoop(s, u) ==
    u.want = "next" /\ u.open = Inner(s) /\ u.key = s.key /\ u.members = s.members /\ u.begin = s.begin

\* A value at i that ends at r, and the rest of a loop that does.
ValueRead(T, S, i, r) ==
    /\ r # 0 => r \in Places(T) /\ r > i /\ AfterValue(S[i - 1], S[r - 1], i)
    /\ r = 0 => Stuck(T, S, S[i - 1])

LoopRead(T, S, i, s, r) ==
    /\ r # 0 => r \in Places(T) /\ r > i /\ AfterLoop(s, S[r - 1])
    /\ r = 0 => Stuck(T, S, s)

InLoop(s, t, what) ==
    IF what = "begin-array" THEN TakesValue(s, t)
    ELSE s.want = "key" \/ (s.want = "first-key" /\ t # "end-object")

ValueTrue(T, S, i) ==
    \A k \in Nat \ {0} :
        TakesValue(S[i - 1], At(T, i)) /\ Len(S[i - 1].open) = k => ValueRead(T, S, i, Skip(T)[i]["value"][k])

LoopTrue(T, S, i) ==
    \A what \in Opening, k \in Nat \ {0} :
        InLoop(S[i - 1], At(T, i), what) /\ Len(S[i - 1].open) = k + 1 /\ Top(S[i - 1]) = what =>
            LoopRead(T, S, i, S[i - 1], Skip(T)[i][what][k])

\* A container inside the others is the innermost.
LEMMA Opened ==
  ASSUME NEW s \in State, NEW t \in Opening, NEW u, u.open = Append(s.open, t)
  PROVE  Len(u.open) = Len(s.open) + 1 /\ Top(u) = t /\ Inner(u) = s.open
  <1> DEFINE o == s.open
             N == Len(o)
             p == Append(o, t)
  <1>1. o \in Seq(Opening) /\ N \in Nat
    BY Fields, Zenon
  <1>2. Len(p) = N + 1 /\ p[N + 1] = t /\ \A i \in 1..N : p[i] = o[i]
    BY <1>1, AppendProperties
  <1>3. u.open = p
    OBVIOUS
  <1>4. \A i \in 1..N : o[i] \in Opening
    BY <1>1, ElementOfSeq
  <1> HIDE DEF o, N, p
  <1>5. Len(u.open) = N + 1 /\ Top(u) = t
    BY <1>2, <1>3 DEF Top
  <1>6. Inner(u) = SubSeq(p, 1, N)
    <2>1. (N + 1) - 1 = N
      BY <1>1
    <2> QED
      BY <1>2, <1>3, <2>1 DEF Inner
  <1>7. /\ SubSeq(p, 1, N) \in Seq(Opening) /\ Len(SubSeq(p, 1, N)) = N
        /\ \A i \in 1..N : SubSeq(p, 1, N)[i] = p[i]
    BY <1>1, <1>2, <1>4, FirstOnes
  <1>8. SubSeq(p, 1, N) = o
    <2> DEFINE q == SubSeq(p, 1, N)
    <2>1. q \in Seq(Opening) /\ Len(q) = Len(o) /\ \A i \in 1..Len(o) : q[i] = o[i]
      BY <1>2, <1>7 DEF N
    <2> HIDE DEF q
    <2>2. q = o
      BY <1>1, <2>1, SeqEqual
    <2> QED
      BY <2>2 DEF q
  <1> QED
    BY <1>5, <1>6, <1>8 DEF o, N

\* The containers without the innermost.
LEMMA InnerLen ==
  ASSUME NEW s \in State, Len(s.open) > 1
  PROVE  Inner(s) # <<>> /\ Len(Inner(s)) = Len(s.open) - 1 /\ ~Outer(s)
  <1> DEFINE L == Len(s.open)
             N == L - 1
  <1>1. s.open \in Seq(Opening) /\ L \in Nat
    BY Fields, Zenon
  <1>2. \A i \in 1..L : s.open[i] \in Opening
    BY <1>1, ElementOfSeq
  <1>3. Inner(s) = SubSeq(s.open, 1, N) /\ (Outer(s) <=> L = 1) /\ L > 1
    BY DEF Inner, Outer
  <1> HIDE DEF L
  <1>4. N \in Nat /\ N > 0 /\ ~Outer(s) /\ \A i \in 1..N : i \in 1..L
    BY <1>1, <1>3
  <1> HIDE DEF N
  <1>5. \A i \in 1..N : s.open[i] \in Opening
    BY <1>2, <1>4
  <1>6. Len(SubSeq(s.open, 1, N)) = N
    BY <1>4, <1>5, FirstOnes
  <1>7. Len(<<>>) = 0
    OBVIOUS
  <1>8. Inner(s) # <<>>
    BY <1>3, <1>4, <1>6, <1>7
  <1> QED
    BY <1>3, <1>4, <1>6, <1>8 DEF N, L

\* An empty container is closed.
LEMMA ReadClose ==
  ASSUME NEW s \in State, NEW n \in Nat, NEW x \in Opening, s.want = Opens(x)
  PROVE  Closes(x) \in Token /\ Read(s, n, Closes(x)) = Close(s)
  <1>1. CASE x = "begin-object"
    <2>1. s.want = "first-key" /\ Closes(x) = "end-object" /\ Closes(x) \in Token /\ "end-object" \notin Key
      BY <1>1, TokensApart DEF Opens, Token, Punctuation
    <2> QED
      BY <2>1 DEF Read
  <1>2. CASE x = "begin-array"
    <2>1. s.want = "first-value" /\ Closes(x) = "end-array" /\ Closes(x) \in Token
      BY <1>2, TokensApart DEF Opens, Token, Punctuation
    <2> QED
      BY <2>1 DEF Read
  <1> QED
    BY <1>1, <1>2, TokensApart

\* A value is read if the loops further on are.
LEMMA ValueStep ==
  ASSUME NEW T \in Seq(Token), NEW S, Runs(T, S), NEW i \in Places(T),
         \A j \in Places(T) : j > i => LoopTrue(T, S, j)
  PROVE  ValueTrue(T, S, i)
  <1> SUFFICES ASSUME NEW k \in Nat \ {0}, TakesValue(S[i - 1], At(T, i)), Len(S[i - 1].open) = k
               PROVE  ValueRead(T, S, i, Skip(T)[i]["value"][k])
    BY DEF ValueTrue
  <1> DEFINE s == S[i - 1]
             t == At(T, i)
             u == S[i]
             r == Skip(T)[i]["value"][k]
             N == Len(T)
  <1>1. r = ValueEnd(T, Skip(T), i, k)
    BY SkipIs DEF Scanned
  <1>2. /\ i - 1 \in 0..N /\ s \in State /\ i \in Nat \ {0} /\ N \in Nat
        /\ i = N + 1 => t = "end" /\ i - 1 = N
        /\ i # N + 1 => /\ i \in 1..N /\ t \in Token /\ u \in State
                        /\ u = Read(s, i, t) /\ i + 1 \in Places(T) /\ (i + 1) - 1 = i
    BY RunStep
  <1>3. TakesValue(s, t) /\ Len(s.open) = k
    OBVIOUS
  <1> HIDE DEF r, u, t, s
  <1>4. CASE i = N + 1
    <2>1. t \notin Scalar /\ t \notin Opening
      BY <1>2, <1>4, TokensApart
    <2>2. r = 0
      BY <1>1, <2>1 DEF ValueEnd, t
    <2>3. S[N] = s
      BY <1>2, <1>4 DEF s
    <2>4. Stuck(T, S, s)
      BY <1>3, <2>3 DEF Stuck, TakesValue
    <2> QED
      BY <2>2, <2>4 DEF ValueRead, r, s
  <1>5. CASE i # N + 1 /\ (TooDeep(k) \/ t \notin Scalar \cup Opening)
    <2>1. Ruined(s, u)
      BY <1>2, <1>3, <1>5, ReadValue
    <2>2. i \in 0..N
      BY <1>2, <1>5
    <2>3. Stuck(T, S, s)
      BY <2>1, <2>2, RuinedStuck DEF u
    <2>4. r = 0
      BY <1>1, <1>5 DEF ValueEnd, t
    <2> QED
      BY <2>3, <2>4 DEF ValueRead, r, s
  <1>6. CASE i # N + 1 /\ ~TooDeep(k) /\ t \in Scalar
    <2>1. AfterValue(s, u, i)
      BY <1>2, <1>3, <1>6, ReadValue DEF AfterValue
    <2>2. r = i + 1
      BY <1>1, <1>6 DEF ValueEnd, t
    <2>3. r # 0 /\ r > i /\ r \in Places(T) /\ r - 1 = i
      BY <1>2, <1>6, <2>2
    <2> QED
      BY <2>1, <2>3 DEF ValueRead, r, s, u
  <1>7. CASE i # N + 1 /\ ~TooDeep(k) /\ t \in Opening
    <2>1. /\ u.want = Opens(t) /\ u.open = Append(s.open, t) /\ u.key = s.key
          /\ u.members = s.members /\ u.begin = BeginAt(s, i)
      BY <1>2, <1>3, <1>7, ReadValue
    <2>2. Len(u.open) = k + 1 /\ Top(u) = t /\ Inner(u) = s.open
      BY <1>2, <1>3, <1>7, <2>1, Opened, Zenon
    <2>3. t \notin Scalar /\ Closes(t) \in {"end-object", "end-array"}
      BY <1>7, TokensApart
    <2>4. i + 1 \in Places(T) /\ i + 1 > i /\ (i + 1) - 1 = i
      BY <1>2, <1>7
    <2>5. CASE At(T, i + 1) = Closes(t)
      <3>1. r = i + 2
        BY <1>1, <1>7, <2>3, <2>5 DEF ValueEnd, t
      <3>2. i + 1 \in 1..N /\ S[i + 1] = Read(S[(i + 1) - 1], i + 1, At(T, i + 1)) /\ (i + 1) + 1 \in Places(T)
        <4>1. At(T, i + 1) # "end"
          BY <2>3, <2>5
        <4> QED
          BY <2>4, <4>1, RunStep
      <3>3. S[i + 1] = Read(u, i + 1, Closes(t)) /\ i + 1 \in Nat
        BY <2>4, <2>5, <3>2 DEF u
      <3>4. S[i + 1] = Close(u)
        BY <1>2, <1>7, <2>1, <3>3, ReadClose
      <3>5. Inner(u) # <<>>
        <4>1. Len(u.open) > 1
          BY <2>2
        <4> QED
          BY <1>2, <1>7, <4>1, InnerLen
      <3>6. AfterValue(s, S[i + 1], i)
        BY <1>2, <1>7, <2>1, <2>2, <3>4, <3>5, CloseIs DEF AfterValue
      <3>7. r # 0 /\ r > i /\ r \in Places(T) /\ r - 1 = i + 1
        BY <1>2, <3>1, <3>2
      <3> QED
        BY <3>6, <3>7 DEF ValueRead, r, s
    <2>6. CASE At(T, i + 1) # Closes(t)
      <3>1. r = Skip(T)[i + 1][t][k]
        BY <1>1, <1>7, <2>3, <2>6 DEF ValueEnd, t
      <3>2. InLoop(u, At(T, i + 1), t)
        BY <1>7, <2>1, <2>6, TokensApart DEF InLoop, Opens, TakesValue
      <3>3. LoopRead(T, S, i + 1, u, r)
        <4>1. LoopTrue(T, S, i + 1) /\ S[(i + 1) - 1] = u
          BY <2>4 DEF u
        <4> QED
          BY <1>7, <2>2, <3>1, <3>2, <4>1 DEF LoopTrue
      <3>4. ASSUME r # 0 PROVE r \in Places(T) /\ r > i /\ AfterValue(s, S[r - 1], i)
        <4>1. r \in Places(T) /\ r > i + 1 /\ AfterLoop(u, S[r - 1])
          BY <3>3, <3>4 DEF LoopRead
        <4>2. r > i
          BY <1>2, <4>1 DEF Places
        <4> QED
          BY <2>1, <2>2, <4>1, <4>2 DEF AfterLoop, AfterValue
      <3>5. ASSUME r = 0 PROVE Stuck(T, S, s)
        BY <2>1, <3>3, <3>5 DEF LoopRead, Stuck
      <3> QED
        BY <3>4, <3>5 DEF ValueRead, r, s
    <2> QED
      BY <2>5, <2>6
  <1> QED
    BY <1>4, <1>5, <1>6, <1>7

\* So is a loop that goes on after a member or an element.
LEMMA GoesTrue ==
  ASSUME NEW T \in Seq(Token), NEW S, Runs(T, S), NEW i \in Places(T),
         \A j \in Places(T) : j > i => LoopTrue(T, S, j),
         NEW s \in State, NEW k \in Nat \ {0}, NEW what \in Opening,
         Len(s.open) = k + 1, Top(s) = what, NEW next,
         next # 0 => /\ next \in Places(T) /\ next > i
                     /\ S[next - 1].want = "next" /\ Like(s, S[next - 1]),
         next = 0 => Stuck(T, S, s)
  PROVE  LoopRead(T, S, i, s, LoopGoes(T, Skip(T), what, k, next))
  <1> DEFINE r == LoopGoes(T, Skip(T), what, k, next)
             N == Len(T)
             u == S[next - 1]
             t == At(T, next)
             v == S[next]
  <1>1. CASE next = 0
    <2>1. r = 0
      BY <1>1 DEF LoopGoes
    <2> QED
      BY <1>1, <2>1 DEF LoopRead
  <1>2. CASE next # 0
    <2>1. next \in Places(T) /\ next > i /\ u.want = "next" /\ Like(s, u) /\ i \in Nat \ {0}
      BY <1>2 DEF Places
    <2>2. /\ next - 1 \in 0..N /\ u \in State /\ next \in Nat \ {0} /\ N \in Nat
          /\ next = N + 1 => t = "end" /\ next - 1 = N
          /\ next # N + 1 => /\ next \in 1..N /\ t \in Token /\ v \in State
                             /\ v = Read(u, next, t) /\ next + 1 \in Places(T) /\ (next + 1) - 1 = next
      BY <2>1, RunStep
    <2>3. r = IF t = Closes(what) THEN next + 1
              ELSE IF t = "value-separator" THEN Skip(T)[next + 1][what][k] ELSE 0
      BY <1>2 DEF LoopGoes
    <2>4. /\ Len(u.open) = k + 1 /\ Top(u) = what /\ ~Outer(u) /\ Inner(u) = Inner(s)
          /\ u.key = s.key /\ u.members = s.members /\ u.begin = s.begin /\ u.open = s.open /\ Inner(u) # <<>>
      <3>1. u.open = s.open /\ u.key = s.key /\ u.members = s.members /\ u.begin = s.begin
        BY <2>1 DEF Like
      <3>2. Len(u.open) = k + 1 /\ Top(u) = what /\ Inner(u) = Inner(s) /\ Len(u.open) > 1
        BY <3>1 DEF Top, Inner
      <3> QED
        BY <2>2, <3>1, <3>2, InnerLen
    <2>5. Closes(what) # "end" /\ Closes(what) # "value-separator"
      BY TokensApart
    <2> HIDE DEF r, u, v, t
    <2>6. CASE next = N + 1
      <3>1. r = 0 /\ S[N] = u
        BY <2>2, <2>3, <2>5, <2>6 DEF u
      <3>2. Stuck(T, S, s)
        BY <2>1, <2>4, <3>1 DEF Stuck
      <3> QED
        BY <3>1, <3>2 DEF LoopRead, r
    <2>7. CASE next # N + 1 /\ t = Closes(what)
      <3>1. AfterLoop(s, v)
        BY <2>1, <2>2, <2>4, <2>7, ReadNext DEF AfterLoop
      <3>2. r # 0 /\ r \in Places(T) /\ r > i /\ r - 1 = next
        BY <2>1, <2>2, <2>3, <2>7
      <3> QED
        BY <3>1, <3>2 DEF LoopRead, r, v
    <2>8. CASE next # N + 1 /\ t = "value-separator"
      <3>1. /\ v.want = (IF what = "begin-object" THEN "key" ELSE "value")
            /\ v.open = s.open /\ v.key = s.key /\ v.begin = s.begin /\ v.members = s.members
        BY <2>1, <2>2, <2>4, <2>8, ReadNext
      <3>2. r = Skip(T)[next + 1][what][k]
        BY <2>3, <2>5, <2>8
      <3>3. next + 1 \in Places(T) /\ next + 1 > i /\ (next + 1) - 1 = next
        BY <2>1, <2>2, <2>8
      <3>4. InLoop(v, At(T, next + 1), what)
        BY <3>1, TokensApart DEF InLoop, TakesValue
      <3>5. Len(v.open) = k + 1 /\ Top(v) = what /\ Inner(v) = Inner(s)
        BY <3>1 DEF Top, Inner
      <3>6. LoopRead(T, S, next + 1, v, r)
        <4>1. LoopTrue(T, S, next + 1) /\ S[(next + 1) - 1] = v
          BY <3>3 DEF v
        <4> QED
          BY <3>2, <3>4, <3>5, <4>1 DEF LoopTrue
      <3>7. ASSUME r # 0 PROVE r \in Places(T) /\ r > i /\ AfterLoop(s, S[r - 1])
        <4>1. r \in Places(T) /\ r > next + 1 /\ AfterLoop(v, S[r - 1])
          BY <3>6, <3>7 DEF LoopRead
        <4>2. r > i
          BY <2>1, <2>2, <4>1 DEF Places
        <4> QED
          BY <3>1, <3>5, <4>1, <4>2 DEF AfterLoop
      <3>8. ASSUME r = 0 PROVE Stuck(T, S, s)
        BY <3>1, <3>6, <3>8 DEF LoopRead, Stuck
      <3> QED
        BY <3>7, <3>8 DEF LoopRead, r
    <2>9. CASE next # N + 1 /\ t # Closes(what) /\ t # "value-separator"
      <3>1. Ruined(u, v)
        BY <2>1, <2>2, <2>4, <2>9, ReadNext
      <3>2. Ruined(s, v) /\ next \in 0..N
        BY <2>2, <2>4, <2>9, <3>1 DEF Ruined
      <3>3. Stuck(T, S, s)
        BY <3>2, RuinedStuck DEF v
      <3>4. r = 0
        BY <2>3, <2>9
      <3> QED
        BY <3>3, <3>4 DEF LoopRead, r
    <2> QED
      BY <2>6, <2>7, <2>8, <2>9
  <1> QED
    BY <1>1, <1>2

\* What is after the name separator of the member at i.
LEMMA Named ==
  ASSUME NEW T \in Seq(Token), NEW S, Runs(T, S), NEW i \in Places(T),
         S[i - 1].want = "key" \/ (S[i - 1].want = "first-key" /\ At(T, i) # "end-object")
  PROVE  /\ ~(At(T, i) \in Key /\ At(T, i + 1) = "name-separator") => Stuck(T, S, S[i - 1])
         /\ At(T, i) \in Key /\ At(T, i + 1) = "name-separator" =>
              /\ i + 2 \in Places(T) /\ S[(i + 2) - 1] \in State /\ S[(i + 2) - 1].want = "value"
              /\ S[(i + 2) - 1].open = S[i - 1].open /\ S[(i + 2) - 1].members = S[i - 1].members
              /\ S[(i + 2) - 1].begin = S[i - 1].begin
              /\ S[(i + 2) - 1].key = (IF Outer(S[i - 1]) THEN At(T, i) ELSE S[i - 1].key)
              /\ At(T, i) = T[i]
  <1> DEFINE s == S[i - 1]
             t == At(T, i)
             u == S[i]
             w == S[i + 1]
             N == Len(T)
  <1>1. /\ i - 1 \in 0..N /\ s \in State /\ i \in Nat \ {0} /\ N \in Nat
        /\ i = N + 1 => t = "end" /\ i - 1 = N
        /\ i # N + 1 => /\ i \in 1..N /\ t = T[i] /\ t \in Token /\ u \in State
                        /\ u = Read(s, i, t) /\ i + 1 \in Places(T) /\ (i + 1) - 1 = i
    BY RunStep
  <1>2. s.want = "key" \/ (s.want = "first-key" /\ t # "end-object")
    OBVIOUS
  <1>3. i + 1 \in Places(T) /\ (i + 1) - 1 = i =>
           /\ i + 1 = N + 1 => At(T, i + 1) = "end" /\ i = N
           /\ i + 1 # N + 1 => /\ At(T, i + 1) \in Token /\ w \in State
                               /\ w = Read(u, i + 1, At(T, i + 1)) /\ (i + 1) + 1 \in Places(T)
                               /\ i + 1 \in Nat /\ i + 1 \in 0..N
    <2> HAVE i + 1 \in Places(T) /\ (i + 1) - 1 = i
    <2>1. /\ i + 1 = N + 1 => At(T, i + 1) = "end" /\ (i + 1) - 1 = N
          /\ i + 1 # N + 1 => /\ i + 1 \in 1..N /\ At(T, i + 1) \in Token /\ w \in State
                              /\ w = Read(S[(i + 1) - 1], i + 1, At(T, i + 1)) /\ (i + 1) + 1 \in Places(T)
      BY RunStep
    <2>2. i + 1 \in 1..N => i + 1 \in Nat /\ i + 1 \in 0..N
      OBVIOUS
    <2> QED
      BY <2>1, <2>2
  <1> HIDE DEF s, t, u, w
  <1>4. CASE i = N + 1
    <2>1. t \notin Key
      BY <1>1, <1>4, TokensApart
    <2>2. S[N] = s
      BY <1>1, <1>4 DEF s
    <2>3. Stuck(T, S, s)
      BY <1>2, <2>2 DEF Stuck
    <2> QED
      BY <2>1, <2>3 DEF s, t
  <1>5. CASE i # N + 1 /\ t \notin Key
    <2>1. Ruined(s, u) /\ i \in 0..N
      BY <1>1, <1>2, <1>5, ReadKey
    <2>2. Stuck(T, S, s)
      BY <2>1, RuinedStuck DEF u
    <2> QED
      BY <1>5, <2>2 DEF s, t
  <1>6. CASE i # N + 1 /\ t \in Key
    <2>1. /\ u.want = "colon" /\ u.open = s.open /\ u.begin = s.begin /\ u.members = s.members
          /\ u.key = (IF Outer(s) THEN t ELSE s.key)
      BY <1>1, <1>2, <1>6, ReadKey
    <2>2. CASE i + 1 = N + 1
      <3>1. At(T, i + 1) # "name-separator" /\ S[N] = u
        BY <1>1, <1>3, <1>6, <2>2 DEF u
      <3>2. Stuck(T, S, s)
        BY <2>1, <3>1 DEF Stuck
      <3> QED
        BY <3>1, <3>2 DEF s
    <2>3. CASE i + 1 # N + 1 /\ At(T, i + 1) # "name-separator"
      <3>1. Ruined(u, w)
        BY <1>1, <1>3, <1>6, <2>1, <2>3, ReadColon
      <3>2. Ruined(s, w) /\ i + 1 \in 0..N
        BY <1>1, <1>3, <1>6, <2>1, <2>3, <3>1 DEF Ruined
      <3>3. Stuck(T, S, s)
        BY <3>2, RuinedStuck DEF w
      <3> QED
        BY <2>3, <3>3 DEF s
    <2>4. CASE i + 1 # N + 1 /\ At(T, i + 1) = "name-separator"
      <3>1. w.want = "value" /\ Like(u, w) /\ w \in State
        BY <1>1, <1>3, <1>6, <2>1, <2>4, ReadColon
      <3>2. (i + 1) + 1 = i + 2 /\ (i + 2) - 1 = i + 1
        BY <1>1
      <3>3. S[(i + 2) - 1] = w /\ i + 2 \in Places(T)
        BY <1>1, <1>3, <1>6, <2>4, <3>2 DEF w
      <3>4. w.open = s.open /\ w.members = s.members /\ w.begin = s.begin /\ w.key = (IF Outer(s) THEN t ELSE s.key)
        BY <2>1, <3>1 DEF Like
      <3> QED
        BY <1>1, <1>6, <2>4, <3>1, <3>3, <3>4 DEF s, t
    <2> QED
      BY <2>2, <2>3, <2>4
  <1> QED
    BY <1>4, <1>5, <1>6

\* A loop is read if values at its place are, and everything further on.
LEMMA LoopStep ==
  ASSUME NEW T \in Seq(Token), NEW S, Runs(T, S), NEW i \in Places(T),
         \A j \in Places(T) : j > i => LoopTrue(T, S, j) /\ ValueTrue(T, S, j),
         ValueTrue(T, S, i)
  PROVE  LoopTrue(T, S, i)
  <1> SUFFICES ASSUME NEW what \in Opening, NEW k \in Nat \ {0}, InLoop(S[i - 1], At(T, i), what),
                      Len(S[i - 1].open) = k + 1, Top(S[i - 1]) = what
               PROVE  LoopRead(T, S, i, S[i - 1], Skip(T)[i][what][k])
    BY DEF LoopTrue
  <1> DEFINE s == S[i - 1]
             F == Skip(T)
             r == F[i][what][k]
             element == F[i]["value"][k + 1]
             member == F[i + 2]["value"][k + 1]
  <1>1. s \in State /\ Len(s.open) = k + 1 /\ Top(s) = what /\ InLoop(s, At(T, i), what) /\ i \in Nat \ {0}
    BY RunStep
  <1>2. r = LoopEnd(T, F, i, what, k, element)
    BY SkipIs DEF Scanned
  <1>3. k + 1 \in Nat \ {0} /\ ~Outer(s)
    <2>1. k + 1 \in Nat \ {0} /\ k + 1 # 1
      OBVIOUS
    <2> QED
      BY <1>1, <2>1 DEF Outer
  <1>4. \A j \in Places(T) : j > i => LoopTrue(T, S, j)
    OBVIOUS
  <1> HIDE DEF F, r, element, member
  <1>5. CASE what = "begin-array"
    <2>1. ValueRead(T, S, i, element)
      <3>1. TakesValue(s, At(T, i))
        BY <1>1, <1>5 DEF InLoop
      <3> QED
        BY <1>1, <1>3, <3>1 DEF ValueTrue, element, F
    <2>2. element # 0 => /\ element \in Places(T) /\ element > i
                         /\ S[element - 1].want = "next" /\ Like(s, S[element - 1])
      BY <1>3, <2>1 DEF ValueRead, AfterValue, BeginAt, Like
    <2>3. element = 0 => Stuck(T, S, s)
      BY <2>1 DEF ValueRead
    <2>4. r = LoopGoes(T, F, what, k, element)
      BY <1>2, <1>5 DEF LoopEnd
    <2>5. LoopRead(T, S, i, s, LoopGoes(T, Skip(T), what, k, element))
      <3> HIDE DEF s
      <3> QED
        BY <1>1, <1>4, <2>2, <2>3, GoesTrue
    <2> QED
      BY <2>4, <2>5 DEF r, F
  <1>6. CASE what # "begin-array" /\ ~(At(T, i) \in Key /\ At(T, i + 1) = "name-separator")
    <2>1. Stuck(T, S, s)
      <3>1. s.want = "key" \/ (s.want = "first-key" /\ At(T, i) # "end-object")
        BY <1>1, <1>6 DEF InLoop
      <3> QED
        BY <1>6, <3>1, Named
    <2>2. r = 0
      BY <1>2, <1>6 DEF LoopEnd
    <2> QED
      BY <2>1, <2>2 DEF LoopRead, r, F
  <1>7. CASE what # "begin-array" /\ At(T, i) \in Key /\ At(T, i + 1) = "name-separator"
    <2> DEFINE w == S[(i + 2) - 1]
    <2>1. /\ i + 2 \in Places(T) /\ w \in State /\ w.want = "value" /\ w.open = s.open
          /\ w.members = s.members /\ w.begin = s.begin /\ w.key = s.key
      <3>1. s.want = "key" \/ (s.want = "first-key" /\ At(T, i) # "end-object")
        BY <1>1, <1>7 DEF InLoop
      <3> QED
        BY <1>3, <1>7, <3>1, Named
    <2>2. i + 2 > i
      BY <1>1
    <2>3. ValueTrue(T, S, i + 2)
      BY <2>1, <2>2
    <2>4. ValueRead(T, S, i + 2, member)
      <3>1. TakesValue(w, At(T, i + 2)) /\ Len(w.open) = k + 1
        BY <1>1, <2>1 DEF TakesValue
      <3> QED
        BY <1>3, <2>3, <3>1 DEF ValueTrue, member, F
    <2>5. member # 0 => /\ member \in Places(T) /\ member > i
                        /\ S[member - 1].want = "next" /\ Like(s, S[member - 1])
      <3> SUFFICES ASSUME member # 0
                   PROVE  /\ member \in Places(T) /\ member > i
                          /\ S[member - 1].want = "next" /\ Like(s, S[member - 1])
        OBVIOUS
      <3>1. member \in Places(T) /\ member > i + 2 /\ AfterValue(w, S[member - 1], i + 2)
        BY <2>4 DEF ValueRead
      <3>2. member > i
        BY <1>1, <3>1 DEF Places
      <3>3. ~Outer(w)
        BY <1>3, <2>1, Zenon DEF Outer
      <3> HIDE DEF w, s
      <3> QED
        BY <2>1, <3>1, <3>2, <3>3 DEF AfterValue, BeginAt, Like
    <2>6. member = 0 => Stuck(T, S, s)
      BY <2>1, <2>4 DEF ValueRead, Stuck
    <2>7. r = LoopGoes(T, F, what, k, member)
      BY <1>2, <1>7 DEF LoopEnd, member
    <2>8. LoopRead(T, S, i, s, LoopGoes(T, Skip(T), what, k, member))
      <3> HIDE DEF s
      <3> QED
        BY <1>1, <1>4, <2>5, <2>6, GoesTrue
    <2> QED
      BY <2>7, <2>8 DEF r, F
  <1> QED
    BY <1>5, <1>6, <1>7

\* The scanner reads values and loops as the automaton does.
LEMMA ScannerTrue ==
  ASSUME NEW T \in Seq(Token), NEW S, Runs(T, S), NEW i \in Places(T)
  PROVE  ValueTrue(T, S, i) /\ LoopTrue(T, S, i)
  <1> DEFINE N == Len(T) + 1
             A == {j \in Places(T) : ValueTrue(T, S, j) /\ LoopTrue(T, S, j)}
  <1>1. N \in Nat /\ Places(T) = 1..N
    BY LenProperties DEF Places
  <1>2. ASSUME NEW j \in 1..N, \A m \in (j + 1)..N : m \in A PROVE j \in A
    <2>1. \A m \in Places(T) : m > j => m \in A
      <3>1. \A m \in Places(T) : m > j => m \in (j + 1)..N
        BY <1>1
      <3> HIDE DEF A
      <3> QED
        BY <1>2, <3>1
    <2>2. \A m \in Places(T) : m > j => LoopTrue(T, S, m) /\ ValueTrue(T, S, m)
      BY <2>1
    <2>3. j \in Places(T)
      BY <1>1
    <2>4. ValueTrue(T, S, j)
      BY <2>2, <2>3, ValueStep
    <2>5. LoopTrue(T, S, j)
      BY <2>2, <2>3, <2>4, LoopStep
    <2> QED
      BY <2>3, <2>4, <2>5
  <1>3. 1..N \subseteq A
    <2> HIDE DEF A, N
    <2> QED
      BY <1>1, <1>2, DownInduce, Zenon
  <1> QED
    BY <1>1, <1>3

-----------------------------------------------------------------------------
(* Members that are complete *)

\* No token takes a member away, or changes one.
LEMMA ReadGrows ==
  ASSUME NEW s \in State, NEW n \in Nat, NEW t \in Token
  PROVE  \/ Read(s, n, t).members = s.members
         \/ Read(s, n, t).members = Append(s.members, Member(s, n))
  <1>1. CASE s.want = "start"
    BY <1>1, Zenon DEF Read, State
  <1>2. CASE s.want \in {"key", "first-key"}
    BY <1>2, ReadKey, CloseIs DEF Ruined
  <1>3. CASE s.want = "colon"
    BY <1>3, ReadColon DEF Ruined, Like
  <1>4. CASE TakesValue(s, t)
    <2>1. Read(s, n, t).members = s.members
      BY <1>4, ReadValue DEF Ruined
    <2> QED
      BY <2>1
  <1>5. CASE s.want = "first-value" /\ t = "end-array"
    <2>1. Read(s, n, t) = Close(s)
      BY <1>5 DEF Read
    <2> QED
      BY <2>1, CloseIs
  <1>6. CASE s.want = "next"
    <2> DEFINE c == Completed(s, n)
    <2>1. c \in State /\ (c.members = s.members \/ c.members = Append(s.members, Member(s, n)))
      BY <1>6, CompletedIs, Zenon
    <2> HIDE DEF c
    <2>2. CASE t = "value-separator"
      <3>1. Read(s, n, t) = [c EXCEPT !.want = IF Top(s) = "begin-object" THEN "key" ELSE "value"]
        BY <1>6, <2>2 DEF Read, c
      <3>2. Read(s, n, t).members = c.members
        BY <2>1, <3>1, Zenon DEF State
      <3> QED
        BY <2>1, <3>2
    <2>3. CASE t = "end-object" /\ Top(s) = "begin-object"
      <3>1. Read(s, n, t) = Close(c)
        BY <1>6, <2>3 DEF Read, c
      <3>2. Read(s, n, t).members = c.members
        BY <2>1, <3>1, CloseIs
      <3> QED
        BY <2>1, <3>2
    <2>4. CASE t = "end-array" /\ Top(s) = "begin-array"
      <3>1. Read(s, n, t) = Close(s)
        BY <1>6, <2>4 DEF Read
      <3> QED
        BY <3>1, CloseIs
    <2>5. CASE t # "value-separator" /\ ~(t = "end-object" /\ Top(s) = "begin-object")
               /\ ~(t = "end-array" /\ Top(s) = "begin-array")
      <3>1. Read(s, n, t) = [s EXCEPT !.want = "bad"]
        BY <1>6, <2>5 DEF Read
      <3>2. Read(s, n, t).members = s.members
        BY <3>1, Zenon DEF State
      <3> QED
        BY <3>2
    <2> QED
      BY <2>2, <2>3, <2>4, <2>5
  <1>7. CASE s.want \in {"done", "more", "bad"}
    BY <1>7, ReadOver DEF Ruined, Like
  <1> QED
    BY <1>1, <1>2, <1>3, <1>4, <1>5, <1>6, <1>7, Fields, Zenon DEF Want, TakesValue

Begin(p, q) == Len(p) <= Len(q) /\ \A i \in 1..Len(p) : q[i] = p[i]

\* A beginning stays one when the sequence gets longer.
LEMMA BeginStep ==
  ASSUME NEW p \in Seq(Entry), NEW q \in Seq(Entry), Begin(p, q), NEW x \in Entry
  PROVE  Begin(p, Append(q, x))
  <1>1. Len(p) \in Nat /\ Len(q) \in Nat /\ Len(Append(q, x)) = Len(q) + 1
        /\ \A i \in 1..Len(q) : Append(q, x)[i] = q[i]
    BY LenProperties, AppendProperties
  <1> DEFINE r == Append(q, x)
  <1> HIDE DEF r
  <1>2. Len(r) = Len(q) + 1 /\ \A i \in 1..Len(q) : r[i] = q[i]
    BY <1>1 DEF r
  <1>3. Begin(p, r)
    BY <1>1, <1>2 DEF Begin
  <1> QED
    BY <1>3 DEF r

\* The members at one time are the first of those at the end.
LEMMA MembersStay ==
  ASSUME NEW T \in Seq(Token), NEW S, Runs(T, S), NEW m \in 0..Len(T)
  PROVE  Begin(S[m].members, S[Len(T)].members)
  <1> DEFINE N == Len(T)
             A == {d \in Nat : m + d <= N => Begin(S[m].members, S[m + d].members)}
  <1>1. N \in Nat /\ m \in Nat /\ m <= N /\ S \in [0..N -> State]
    BY LenProperties DEF Runs
  <1>2. \A n \in 0..N : S[n].members \in Seq(Entry)
    BY <1>1, Fields, Zenon
  <1>3. 0 \in A
    <2>1. S[m].members \in Seq(Entry) /\ m + 0 = m
      BY <1>1, <1>2
    <2>2. Len(S[m].members) \in Nat
      BY <2>1, LenProperties
    <2>3. Begin(S[m].members, S[m].members)
      BY <2>2 DEF Begin
    <2> QED
      BY <2>1, <2>3
  <1>4. ASSUME NEW d \in Nat \ {0}, d - 1 \in A PROVE d \in A
    <2> SUFFICES ASSUME m + d <= N PROVE Begin(S[m].members, S[m + d].members)
      OBVIOUS
    <2> DEFINE n == m + d
    <2>1. n - 1 = m + (d - 1) /\ n \in Places(T) /\ n # N + 1 /\ n \in Nat /\ n - 1 <= N /\ n - 1 \in 0..N
      BY <1>1 DEF Places
    <2>2. Begin(S[m].members, S[n - 1].members)
      BY <1>1, <1>4, <2>1
    <2> HIDE DEF n
    <2>3. S[n] = Read(S[n - 1], n, At(T, n)) /\ S[n - 1] \in State /\ At(T, n) \in Token
      BY <2>1, RunStep
    <2>4. S[n].members = S[n - 1].members \/ S[n].members = Append(S[n - 1].members, Member(S[n - 1], n))
      BY <2>1, <2>3, ReadGrows, Zenon
    <2>5. Member(S[n - 1], n) \in Entry
      BY <2>1, <2>3, Fields, Zenon
    <2>6. S[m].members \in Seq(Entry) /\ S[n - 1].members \in Seq(Entry)
      BY <1>1, <1>2, <2>1
    <2>7. Begin(S[m].members, S[n].members)
      BY <2>2, <2>4, <2>5, <2>6, BeginStep, Zenon
    <2> QED
      BY <2>7 DEF n
  <1>5. N - m \in Nat /\ m + (N - m) = N
    BY <1>1
  <1>6. N - m \in A
    <2> HIDE DEF A
    <2> QED
      BY <1>3, <1>4, <1>5, NumbersFollow
  <1> QED
    BY <1>5, <1>6

\* What the search is to find.
With(ms, key) == {i \in DOMAIN ms : ms[i].key = key}
HasKey(ms, key) == \E i \in DOMAIN ms : ms[i].key = key
FirstWith(ms, key) == ms[CHOOSE i \in With(ms, key) : \A j \in With(ms, key) : i <= j]

Answer(u, key) ==
    IF HasKey(u.members, key) THEN Found(FirstWith(u.members, key).begin, FirstWith(u.members, key).end)
    ELSE Fails(IF u.want \in {"done", "more"} THEN "NOT_FOUND" ELSE "INVALID_JSON")

\* The member after some of other keys, at the beginning of a sequence, is the first of its key.
LEMMA FirstIs ==
  ASSUME NEW p \in Seq(Entry), NEW x \in Entry, NEW q \in Seq(Entry), Begin(Append(p, x), q),
         ~HasKey(p, x.key)
  PROVE  HasKey(q, x.key) /\ FirstWith(q, x.key) = x
  <1> DEFINE n == Len(p) + 1
             key == x.key
             A == With(q, key)
  <1>1. /\ Len(p) \in Nat /\ DOMAIN p = 1..Len(p) /\ Len(q) \in Nat /\ DOMAIN q = 1..Len(q)
        /\ Len(Append(p, x)) = n /\ Append(p, x)[n] = x
        /\ \A i \in 1..Len(p) : Append(p, x)[i] = p[i]
    BY LenProperties, AppendProperties
  <1> DEFINE r == Append(p, x)
  <1> HIDE DEF r
  <1>2. Len(r) = n /\ r[n] = x /\ \A i \in 1..Len(p) : r[i] = p[i]
    BY <1>1 DEF r
  <1>3. n <= Len(q) /\ \A i \in 1..n : q[i] = r[i]
    BY <1>2 DEF Begin, r
  <1>4. n \in A
    BY <1>1, <1>2, <1>3 DEF With
  <1>5. \A i \in A : n <= i
    <2> SUFFICES ASSUME NEW i \in A, ~(n <= i) PROVE FALSE
      OBVIOUS
    <2>1. i \in 1..Len(q) /\ q[i].key = key
      BY <1>1 DEF With
    <2>2. i \in 1..Len(p) /\ i \in 1..n
      BY <1>1, <2>1
    <2>3. p[i].key = key /\ i \in DOMAIN p
      BY <1>1, <1>2, <1>3, <2>1, <2>2
    <2> QED
      BY <2>3 DEF HasKey
  <1>6. \A i \in A : i \in Nat
    BY <1>1 DEF With
  <1>7. n \in Nat
    BY <1>1
  <1> HIDE DEF n, A
  <1>8. \A i \in A : (\A j \in A : i <= j) => i = n
    BY <1>4, <1>5, <1>6, <1>7
  <1>9. (CHOOSE i \in A : \A j \in A : i <= j) = n
    BY <1>4, <1>5, <1>8
  <1>10. q[n] = x
    BY <1>2, <1>3, <1>7, <1>4, <1>1 DEF n
  <1>11. FirstWith(q, key) = x
    BY <1>9, <1>10, Zenon DEF FirstWith, A
  <1>12. HasKey(q, key)
    BY <1>4 DEF HasKey, With, A
  <1> QED
    BY <1>11, <1>12

\* A sequence with one more has a key if the sequence has it, or the one more.
LEMMA HasMore ==
  ASSUME NEW p \in Seq(Entry), NEW x \in Entry, NEW key, ~HasKey(p, key), x.key # key
  PROVE  ~HasKey(Append(p, x), key)
  <1>1. /\ Len(p) \in Nat /\ DOMAIN p = 1..Len(p)
        /\ Len(Append(p, x)) = Len(p) + 1 /\ Append(p, x)[Len(p) + 1] = x /\ Append(p, x) \in Seq(Entry)
        /\ \A i \in 1..Len(p) : Append(p, x)[i] = p[i]
    BY LenProperties, AppendProperties
  <1> DEFINE r == Append(p, x)
  <1>2. DOMAIN r = 1..(Len(p) + 1) /\ r[Len(p) + 1] = x /\ \A i \in 1..Len(p) : r[i] = p[i]
    BY <1>1, LenProperties
  <1> HIDE DEF r
  <1>3. \A i \in 1..(Len(p) + 1) : i = Len(p) + 1 \/ i \in 1..Len(p)
    BY <1>1
  <1>4. ~HasKey(r, key)
    BY <1>1, <1>2, <1>3 DEF HasKey
  <1> QED
    BY <1>4 DEF r

-----------------------------------------------------------------------------
(* The search and the members *)

\* The search from a member of the outer object on, if none before it has the key.
MemberTrue(T, S, key, i) ==
    /\ S[i - 1].open = <<"begin-object">>
    /\ S[i - 1].want = "key" \/ (S[i - 1].want = "first-key" /\ At(T, i) # "end-object")
    /\ ~HasKey(S[i - 1].members, key)
    => FindFrom(T, key)[i] = Answer(S[Len(T)], key)

\* A key that is not there, in a text that is not complete.
LEMMA StuckAnswer ==
  ASSUME NEW T, NEW S, NEW s, NEW key, Stuck(T, S, s), ~HasKey(s.members, key)
  PROVE  Answer(S[Len(T)], key) = Fails("INVALID_JSON")
  BY DEF Stuck, Answer

\* The outer object.
LEMMA OuterOnes ==
  ASSUME NEW s \in State, s.open = <<"begin-object">>
  PROVE  /\ Outer(s) /\ Top(s) = "begin-object" /\ Top(s) \in Opening /\ Len(s.open) = 1
         /\ Inner(s) = <<>>
  <1>1. Len(<<"begin-object">>) = 1 /\ <<"begin-object">>[1] = "begin-object"
    OBVIOUS
  <1>2. Inner(s) = SubSeq(<<"begin-object">>, 1, 1 - 1)
    BY <1>1 DEF Inner
  <1>3. SubSeq(<<"begin-object">>, 1, 1 - 1) = <<>>
    OBVIOUS
  <1> QED
    BY <1>1, <1>2, <1>3, TokensApart DEF Outer, Top

\* The search finds from a member on what it should, if it does further on.
LEMMA MemberStep ==
  ASSUME NEW T \in Seq(Token), NEW S, Runs(T, S), NEW key \in Key, NEW i \in Places(T),
         \A j \in Places(T) : j > i => MemberTrue(T, S, key, j)
  PROVE  MemberTrue(T, S, key, i)
  <1> SUFFICES ASSUME S[i - 1].open = <<"begin-object">>,
                      S[i - 1].want = "key" \/ (S[i - 1].want = "first-key" /\ At(T, i) # "end-object"),
                      ~HasKey(S[i - 1].members, key)
               PROVE  FindFrom(T, key)[i] = Answer(S[Len(T)], key)
    BY DEF MemberTrue
  <1> DEFINE s == S[i - 1]
             N == Len(T)
             G == FindFrom(T, key)
             e == EndOf(T, i)
             w == S[(i + 2) - 1]
             last == S[N]
  <1>1. s \in State /\ i \in Nat \ {0} /\ N \in Nat
    BY RunStep
  <1>2. Outer(s)
    BY <1>1, OuterOnes
  <1>3. G[i] = IF \/ At(T, i) \notin Key \/ At(T, i + 1) # "name-separator"
                  \/ e = 0 \/ ~Delimits(At(T, e))
               THEN Fails("INVALID_JSON")
               ELSE IF KeyEquals(T[i], key) THEN Found(i + 2, e)
               ELSE IF At(T, e) = "end-object" THEN Fails("NOT_FOUND")
               ELSE G[e + 1]
    <2>1. G[i] = FindOn(T, key, G, i)
      BY FindIs
    <2> HIDE DEF G
    <2> QED
      BY <2>1, Zenon DEF FindOn, EndOf
  <1>4. ~HasKey(s.members, key)
    OBVIOUS
  <1> HIDE DEF G, e
  <1>5. CASE ~(At(T, i) \in Key /\ At(T, i + 1) = "name-separator")
    <2>1. Stuck(T, S, s)
      BY <1>5, Named
    <2>2. Answer(S[N], key) = Fails("INVALID_JSON")
      BY <1>4, <2>1, StuckAnswer, Zenon
    <2>3. G[i] = Fails("INVALID_JSON")
      BY <1>3, <1>5
    <2> QED
      BY <2>2, <2>3 DEF G
  <1>6. CASE At(T, i) \in Key /\ At(T, i + 1) = "name-separator"
    <2>1. /\ i + 2 \in Places(T) /\ w \in State /\ w.want = "value" /\ w.open = s.open
          /\ w.members = s.members /\ w.key = T[i] /\ At(T, i) = T[i]
      BY <1>2, <1>6, Named
    <2>2. Outer(w) /\ Len(w.open) = 1
      BY <2>1, OuterOnes
    <2>3. ValueRead(T, S, i + 2, e)
      <3>1. ValueTrue(T, S, i + 2) /\ TakesValue(w, At(T, i + 2)) /\ 1 \in Nat \ {0}
        BY <2>1, ScannerTrue DEF TakesValue
      <3> QED
        BY <2>2, <3>1 DEF ValueTrue, e, EndOf
    <2>4. CASE e = 0
      <3>1. Stuck(T, S, s)
        BY <2>1, <2>3, <2>4 DEF ValueRead, Stuck
      <3>2. Answer(S[N], key) = Fails("INVALID_JSON")
        BY <1>4, <3>1, StuckAnswer, Zenon
      <3>3. G[i] = Fails("INVALID_JSON")
        BY <1>3, <2>4
      <3> QED
        BY <3>2, <3>3 DEF G
    <2>5. CASE e # 0
      <3> DEFINE u == S[e - 1]
                 v == S[e]
                 t == At(T, e)
                 x == Member(u, e)
      <3>1. e \in Places(T) /\ e > i + 2 /\ AfterValue(w, u, i + 2)
        BY <2>3, <2>5 DEF ValueRead
      <3>2. /\ u.want = "next" /\ u.open = <<"begin-object">> /\ u.key = T[i]
            /\ u.members = s.members /\ u.begin = i + 2
        <4>1. BeginAt(w, i + 2) = i + 2
          BY <2>2 DEF BeginAt
        <4> HIDE DEF u, w, s
        <4>2. s.open = <<"begin-object">>
          BY DEF s
        <4> QED
          BY <2>1, <3>1, <4>1, <4>2 DEF AfterValue
      <3>3. /\ e - 1 \in 0..N /\ u \in State /\ e \in Nat \ {0}
            /\ e = N + 1 => t = "end" /\ e - 1 = N
            /\ e # N + 1 => /\ e \in 1..N /\ t \in Token /\ v \in State
                            /\ v = Read(u, e, t) /\ e + 1 \in Places(T) /\ (e + 1) - 1 = e
        BY <3>1, RunStep
      <3>4. Outer(u) /\ Top(u) = "begin-object" /\ Top(u) \in Opening /\ Inner(u) = <<>>
        BY <3>2, <3>3, OuterOnes
      <3>5. x \in Entry /\ x.key = T[i] /\ x.begin = i + 2 /\ x.end = e /\ u.members \in Seq(Entry)
        <4>1. x \in Entry /\ u.members \in Seq(Entry)
          BY <3>3, Fields, Zenon
        <4>2. x = [key |-> u.key, begin |-> u.begin, end |-> e]
          BY DEF Member
        <4> HIDE DEF x, u
        <4> QED
          BY <3>2, <4>1, <4>2
      <3>6. "end-object" = Closes("begin-object")
        BY TokensApart
      <3> HIDE DEF u, v, t, x
      <3>7. CASE e = N + 1
        <4>1. ~Delimits(t) /\ S[N] = u
          BY <3>3, <3>7 DEF Delimits, u
        <4>2. Stuck(T, S, s)
          BY <3>2, <4>1 DEF Stuck
        <4>3. Answer(S[N], key) = Fails("INVALID_JSON")
          BY <1>4, <4>2, StuckAnswer, Zenon
        <4>4. G[i] = Fails("INVALID_JSON")
          BY <1>3, <4>1 DEF t
        <4> QED
          BY <4>3, <4>4 DEF G
      <3>8. CASE e # N + 1 /\ t # "value-separator" /\ t # "end-object"
        <4>1. ~Delimits(t) /\ Ruined(u, v)
          BY <3>2, <3>3, <3>4, <3>6, <3>8, ReadNext DEF Delimits
        <4>2. Ruined(s, v) /\ e \in 0..N
          BY <1>1, <3>2, <3>3, <3>8, <4>1 DEF Ruined
        <4>3. Stuck(T, S, s)
          BY <4>2, RuinedStuck DEF v
        <4>4. Answer(S[N], key) = Fails("INVALID_JSON")
          BY <1>4, <4>3, StuckAnswer, Zenon
        <4>5. G[i] = Fails("INVALID_JSON")
          BY <1>3, <4>1 DEF t
        <4> QED
          BY <4>4, <4>5 DEF G
      <3>9. CASE e # N + 1 /\ (t = "value-separator" \/ t = "end-object")
        <4>1. /\ v.members = Append(u.members, x) /\ v \in State /\ e \in 0..N
              /\ t = "value-separator" => v.want = "key" /\ v.open = <<"begin-object">>
              /\ t = "end-object" => v.want = "done"
          <5>1. v = Read(u, e, t) /\ u \in State /\ e \in Nat /\ t \in Token /\ v \in State /\ e \in 0..N
            BY <1>1, <3>3, <3>9
          <5>2. /\ t = "value-separator" =>
                     /\ v.want = (IF Top(u) = "begin-object" THEN "key" ELSE "value") /\ v.open = u.open
                     /\ v.members = IF Outer(u) THEN Append(u.members, Member(u, e)) ELSE u.members
                /\ t = Closes(Top(u)) =>
                     /\ v.want = (IF Inner(u) = <<>> THEN "done" ELSE "next")
                     /\ v.members = IF Outer(u) THEN Append(u.members, Member(u, e)) ELSE u.members
            <6>1. u.want = "next" /\ Top(u) \in Opening /\ (Outer(u) => Top(u) = "begin-object")
              BY <3>2, <3>4
            <6>2. LET p == Read(u, e, t)
                      more == IF Outer(u) THEN Append(u.members, Member(u, e)) ELSE u.members
                  IN  /\ t = "value-separator" =>
                           /\ p.want = (IF Top(u) = "begin-object" THEN "key" ELSE "value")
                           /\ p.open = u.open /\ p.key = u.key /\ p.begin = u.begin /\ p.members = more
                      /\ t = Closes(Top(u)) =>
                           /\ p.want = (IF Inner(u) = <<>> THEN "done" ELSE "next")
                           /\ p.open = Inner(u) /\ p.key = u.key /\ p.begin = u.begin /\ p.members = more
                      /\ t # "value-separator" /\ t # Closes(Top(u)) => Ruined(u, p)
                      /\ p \in State
              BY <5>1, <6>1, ReadNext, Zenon
            <6> QED
              BY <5>1, <6>2, Zenon
          <5>3. t = "end-object" => t = Closes(Top(u))
            BY <3>4, <3>6
          <5>4. x = Member(u, e)
            BY DEF x
          <5> QED
            BY <3>2, <3>4, <3>9, <5>1, <5>2, <5>3, <5>4, Zenon
        <4>2. Delimits(t) /\ ("value-separator" # "end-object")
          BY <3>9 DEF Delimits
        <4>3. Begin(v.members, S[N].members) /\ S[N].members \in Seq(Entry)
          <5>1. S[N] \in State
            BY <1>1 DEF Runs
          <5> QED
            BY <4>1, <5>1, MembersStay, Fields, Zenon DEF v
        <4>4. CASE T[i] = key
          <5>1. ~HasKey(u.members, x.key)
            BY <1>4, <3>2, <3>5, <4>4
          <5>2. Begin(Append(u.members, x), S[N].members)
            BY <4>1, <4>3
          <5>3. HasKey(S[N].members, key) /\ FirstWith(S[N].members, key) = x
            <6>1. HasKey(S[N].members, x.key) /\ FirstWith(S[N].members, x.key) = x
              BY <3>5, <4>3, <5>1, <5>2, FirstIs
            <6> QED
              BY <3>5, <4>4, <6>1
          <5>4. Answer(S[N], key) = Found(i + 2, e)
            BY <3>5, <5>3 DEF Answer
          <5>5. G[i] = Found(i + 2, e)
            <6>1. KeyEquals(T[i], key)
              BY <4>4 DEF KeyEquals
            <6> QED
              BY <1>3, <1>6, <2>5, <4>2, <6>1 DEF t
          <5> QED
            BY <5>4, <5>5 DEF G
        <4>5. CASE T[i] # key
          <5>1. ~HasKey(v.members, key)
            <6>1. ~HasKey(u.members, key) /\ x.key # key
              BY <1>4, <3>2, <3>5, <4>5
            <6> QED
              BY <3>5, <4>1, <6>1, HasMore
          <5>2. ~KeyEquals(T[i], key)
            BY <4>5 DEF KeyEquals
          <5>3. CASE t = "end-object"
            <6>1. S[N].want \in {"done", "more"} /\ S[N].members = v.members
              BY <4>1, <5>3, OverStays DEF v
            <6>2. Answer(S[N], key) = Fails("NOT_FOUND")
              BY <5>1, <6>1 DEF Answer
            <6>3. G[i] = Fails("NOT_FOUND")
              BY <1>3, <1>6, <2>5, <4>2, <5>2, <5>3 DEF t
            <6> QED
              BY <6>2, <6>3 DEF G
          <5>4. CASE t = "value-separator"
            <6>1. e + 1 \in Places(T) /\ e + 1 > i /\ S[(e + 1) - 1] = v
              BY <1>1, <3>1, <3>3, <3>9 DEF v
            <6>2. MemberTrue(T, S, key, e + 1)
              BY <6>1
            <6>3. G[e + 1] = Answer(S[N], key)
              BY <4>1, <5>1, <5>4, <6>1, <6>2, Zenon DEF MemberTrue, G
            <6>4. G[i] = G[e + 1]
              BY <1>3, <1>6, <2>5, <4>2, <5>2, <5>4 DEF t
            <6> QED
              BY <6>3, <6>4 DEF G
          <5> QED
            BY <3>9, <5>3, <5>4
        <4> QED
          BY <4>4, <4>5
      <3> QED
        BY <3>7, <3>8, <3>9
    <2> QED
      BY <2>4, <2>5
  <1> QED
    BY <1>5, <1>6

\* The search finds what the automaton has of a text.
LEMMA FindTrue ==
  ASSUME NEW T \in Seq(Token), T # <<>>, NEW S, Runs(T, S), NEW key \in Key
  PROVE  Find(T, key) = Answer(S[Len(T)], key)
  <1> DEFINE N == Len(T)
             A == {j \in Places(T) : MemberTrue(T, S, key, j)}
  <1>1. N \in Nat /\ Places(T) = 1..(N + 1) /\ N # 0 /\ 1 \in 1..N /\ N + 1 \in Nat
    <2>1. N \in Nat /\ N # 0
      BY LenProperties, EmptySeq
    <2> QED
      BY <2>1 DEF Places
  <1>2. ASSUME NEW j \in 1..(N + 1), \A m \in (j + 1)..(N + 1) : m \in A PROVE j \in A
    <2>1. \A m \in Places(T) : m > j => MemberTrue(T, S, key, m)
      <3>1. \A m \in Places(T) : m > j => m \in (j + 1)..(N + 1)
        BY <1>1
      <3> QED
        BY <1>2, <3>1
    <2>2. j \in Places(T)
      BY <1>1
    <2> QED
      BY <2>1, <2>2, MemberStep
  <1>3. 1..(N + 1) \subseteq A
    <2> HIDE DEF A, N
    <2> QED
      BY <1>1, <1>2, DownInduce, Zenon
  <1>4. /\ S[0] = Blank /\ Blank \in State /\ At(T, 1) \in Token /\ S[1] = Read(Blank, 1, At(T, 1))
        /\ S[1] \in State /\ 2 \in Places(T) /\ S[2 - 1] = S[1] /\ 1 \in 0..N /\ N \in 0..N
    <2>1. 1 \in Places(T) /\ 1 # N + 1 /\ 1 - 1 = 0 /\ 1 + 1 = 2 /\ 2 - 1 = 1 /\ 1 \in 0..N /\ N \in 0..N
      BY <1>1
    <2>2. S[1 - 1] \in State /\ At(T, 1) \in Token /\ S[1] = Read(S[1 - 1], 1, At(T, 1)) /\ S[1] \in State
          /\ 1 + 1 \in Places(T)
      <3>1. \A i \in Places(T) : i # N + 1 =>
               /\ S[i - 1] \in State /\ At(T, i) \in Token /\ S[i] = Read(S[i - 1], i, At(T, i)) /\ S[i] \in State
               /\ i + 1 \in Places(T)
        BY RunStep
      <3> QED
        BY <2>1, <3>1
    <2>3. S[0] = Blank
      BY DEF Runs
    <2> QED
      BY <2>1, <2>2, <2>3
  <1>5. Blank.want = "start" /\ Blank.members = <<>>
    BY DEF Blank
  <1>6. \A ms : ms = <<>> => ~HasKey(ms, key)
    BY DEF HasKey
  <1>7. Find(T, key) = IF At(T, 1) # "begin-object" THEN Fails("INVALID_JSON")
                       ELSE IF At(T, 2) = "end-object" THEN Fails("NOT_FOUND")
                       ELSE FindFrom(T, key)[2]
    BY FindIs
  <1>8. CASE At(T, 1) # "begin-object"
    <2>1. Read(Blank, 1, At(T, 1)) = [Blank EXCEPT !.want = "bad"]
      BY <1>5, <1>8 DEF Read
    <2>2. Ruined(Blank, S[1])
      BY <1>4, <2>1, Zenon DEF Ruined, State
    <2>3. Stuck(T, S, Blank)
      BY <1>4, <2>2, RuinedStuck
    <2>4. Answer(S[N], key) = Fails("INVALID_JSON")
      BY <1>5, <1>6, <2>3, StuckAnswer, Zenon
    <2> QED
      BY <1>7, <1>8, <2>4
  <1>9. CASE At(T, 1) = "begin-object"
    <2>1. Read(Blank, 1, At(T, 1)) = [Blank EXCEPT !.open = <<"begin-object">>, !.want = "first-key"]
      BY <1>5, <1>9, Zenon DEF Read
    <2>2. S[1].open = <<"begin-object">> /\ S[1].want = "first-key" /\ S[1].members = <<>>
      BY <1>4, <1>5, <2>1, ZenonT(60) DEF State
    <2>3. CASE At(T, 2) = "end-object"
      <3>1. 2 # N + 1
        <4>1. 2 = N + 1 => At(T, 2) = "end"
          BY <1>4, RunStep
        <4> QED
          BY <2>3, <4>1
      <3>2. S[2] = Read(S[1], 2, "end-object") /\ 2 \in 0..N
        <4>1. 2 \in 1..N /\ S[2] = Read(S[2 - 1], 2, At(T, 2))
          <5>1. \A i \in Places(T) : i # N + 1 => i \in 1..N /\ S[i] = Read(S[i - 1], i, At(T, i))
            BY RunStep
          <5> QED
            BY <1>4, <3>1, <5>1
        <4> QED
          BY <1>1, <1>4, <2>3, <4>1
      <3>3. S[2] = Close(S[1])
        <4>1. S[1].want = Opens("begin-object") /\ "begin-object" \in Opening /\ Closes("begin-object") = "end-object"
          BY <2>2, TokensApart DEF Opens
        <4> QED
          BY <1>4, <3>2, <4>1, ReadClose
      <3>4. S[2].want = "done" /\ S[2].members = <<>>
        BY <1>4, <2>2, <3>3, OuterOnes, CloseIs
      <3>5. S[N].want \in {"done", "more"} /\ S[N].members = <<>>
        BY <3>2, <3>4, OverStays
      <3>6. Answer(S[N], key) = Fails("NOT_FOUND")
        BY <1>6, <3>5 DEF Answer
      <3> QED
        BY <1>7, <1>9, <2>3, <3>6
    <2>4. CASE At(T, 2) # "end-object"
      <3>1. MemberTrue(T, S, key, 2)
        BY <1>1, <1>3, <1>4
      <3>2. ~HasKey(S[1].members, key)
        BY <1>6, <2>2
      <3>3. FindFrom(T, key)[2] = Answer(S[N], key)
        BY <1>4, <2>2, <2>4, <3>1, <3>2 DEF MemberTrue
      <3> QED
        BY <1>7, <1>9, <2>4, <3>3
    <2> QED
      BY <2>3, <2>4
  <1> QED
    BY <1>8, <1>9

-----------------------------------------------------------------------------
(* Fields *)

\* At first no text has been written, and a run of it is the automaton's first state.
LEMMA SyntaxInit == Init => SyntaxTrue
  <1>1. ASSUME draft = <<>>, syntax = Blank PROVE SyntaxTrue
    <2>1. Len(<<>>) = 0
      OBVIOUS
    <2> QED
      BY <1>1, <2>1, RunStarts DEF SyntaxTrue
  <1> QED
    BY <1>1 DEF Init

\* msysd writes a token and reads it with its automaton, or begins another text.
LEMMA SyntaxNext ==
  ASSUME draft \in Seq(Token), SyntaxTrue, [Next]_vars
  PROVE  SyntaxTrue'
  <1>1. CASE UNCHANGED <<draft, syntax>>
    BY <1>1 DEF SyntaxTrue
  <1>2. ASSUME NEW t \in Token, Write(t) PROVE SyntaxTrue'
    <2>1. draft' = Append(draft, t) /\ syntax' = Read(syntax, Len(draft) + 1, t)
      BY <1>2 DEF Write
    <2>2. PICK S : Runs(draft, S) /\ syntax = S[Len(draft)]
      BY DEF SyntaxTrue
    <2>3. PICK R : Runs(Append(draft, t), R) /\ R[Len(Append(draft, t))] = Read(S[Len(draft)], Len(draft) + 1, t)
      BY <2>2, RunGoes
    <2>4. Runs(draft', R) /\ syntax' = R[Len(draft')]
      BY <2>1, <2>2, <2>3, Zenon
    <2> QED
      BY <2>4 DEF SyntaxTrue
  <1>3. CASE SendDraft
    <2>1. draft' = <<>> /\ syntax' = Blank
      BY <1>3 DEF SendDraft
    <2>2. Len(<<>>) = 0
      OBVIOUS
    <2>3. \E S : Runs(draft', S) /\ syntax' = S[Len(draft')]
      BY <2>1, <2>2, RunStarts
    <2> QED
      BY <2>3 DEF SyntaxTrue
  <1>4. ASSUME [Next]_vars, ~SendDraft, \A t \in Token : ~Write(t) PROVE UNCHANGED <<draft, syntax>>
    <2>1. ASSUME NEW c \in Capacity, Recv(c) PROVE UNCHANGED <<draft, syntax>>
      BY <2>1 DEF Recv, RecvInvalid, RecvTimeout, RecvEof, RecvError, RecvTooLarge, RecvTooSmall, RecvRecord
    <2>2. CASE Attach \/ Detach \/ PeerClose
      BY <2>2 DEF Attach, Detach, PeerClose
    <2>3. ASSUME NEW c \in Char, AddChar(c) PROVE UNCHANGED <<draft, syntax>>
      BY <2>3 DEF AddChar
    <2>4. ASSUME NEW d \in 0..9, AddDigit(d) PROVE UNCHANGED <<draft, syntax>>
      BY <2>4 DEF AddDigit
    <2>5. CASE UNCHANGED vars
      BY <2>5 DEF vars
    <2> QED
      BY <1>4, <2>1, <2>2, <2>3, <2>4, <2>5 DEF Next
  <1> QED
    BY <1>1, <1>2, <1>3, <1>4

\* What the automaton has of a text, and what is found in it.
LEMMA FieldsNow ==
  ASSUME draft \in Seq(Token), SyntaxTrue
  PROVE  FieldsTrue
  <1> SUFFICES ASSUME draft # <<>>, NEW key \in Key
               PROVE  Find(draft, key) =
                        IF Has(key) THEN Found(First(key).begin, First(key).end)
                        ELSE Fails(IF syntax.want \in {"done", "more"} THEN "NOT_FOUND" ELSE "INVALID_JSON")
    BY Zenon DEF FieldsTrue
  <1>1. PICK S : Runs(draft, S) /\ syntax = S[Len(draft)]
    BY DEF SyntaxTrue
  <1>2. Find(draft, key) = Answer(syntax, key)
    BY <1>1, FindTrue
  <1>3. Has(key) <=> HasKey(syntax.members, key)
    BY DEF Has, HasKey
  <1>4. First(key) = FirstWith(syntax.members, key)
    BY Zenon DEF First, FirstWith, With
  <1> QED
    BY <1>2, <1>3, <1>4, Zenon DEF Answer

\* Whatever text msysd writes, msys_mipc_json_get_raw() and the others find the first complete
\* member with a key, at its place; they say that there is none exactly when the object is
\* complete, and that the text is not JSON exactly when it is not.
THEOREM FieldsFound == Spec => []FieldsTrue
  <1>1. TypeOK => draft \in Seq(Token)
    BY DEF TypeOK
  <1>2. IInv /\ SyntaxTrue /\ [Next]_vars => SyntaxTrue'
    BY <1>1, SyntaxNext DEF IInv
  <1>3. IInv /\ SyntaxTrue => FieldsTrue
    BY <1>1, FieldsNow DEF IInv
  <1> QED
    BY <1>2, <1>3, SyntaxInit, Inductive, PTL DEF Spec
=============================================================================
