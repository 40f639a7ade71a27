-------------------------- MODULE QuestionsProofs --------------------------
(***************************************************************************)
(* The packets of dnsblast: the types, what a resolver reads from a        *)
(* packet, how far the writes of fuzz reach and how many there are, and    *)
(* how often each type is drawn; for any table of weights, any characters  *)
(* and any buffer that holds the longest question.                         *)
(*                                                                         *)
(* The argument.  The functions of Questions are recursive, so that they   *)
(* have first to be shown to exist: Recursion does that once, from the     *)
(* induction over a set of numbers that SetInduction is.  Shares then says *)
(* which numbers of rand an entry of the table is drawn for, and ReadBack, *)
(* by induction from the last label to the first, that a name laid out in  *)
(* a message is the name that is read from it.  The steps of the program   *)
(* come after that.  PacketInv says cell by cell what is in the buffer;    *)
(* BoundInv, that p times 2 to the number of writes stays bounded, and     *)
(* that nothing of fuzz's writes is remembered when the next packet is     *)
(* built, which PacketInv needs.                                           *)
(***************************************************************************)
EXTENDS Questions, TLAPS, SequenceTheorems, FiniteSetTheorems,
        WellFoundedInduction

\* A set of numbers that is not empty has a least one.
LEMMA Least ==
  ASSUME NEW T, T \subseteq Nat, T # {}
  PROVE  \E x \in T : \A y \in T : x <= y
<1> DEFINE R == OpToRel(<, Nat)
<1>1. \A x, y \in Nat : y < x => <<y, x>> \in R
  BY DEF OpToRel
<1>2. IsWellFoundedOn(R, Nat)
  BY NatLessThanWellFounded
<1>3. PICK x \in T : \A y \in T : ~ (<<y, x>> \in R)
  <2> HIDE DEF R
  <2> QED  BY <1>2, WFMin
<1>4. \A y \in T : ~ (y < x) /\ x \in Nat /\ y \in Nat
  BY <1>1, <1>3
<1>5. \A y \in T : x <= y
  BY <1>4
<1> QED
  BY <1>5

\* Induction: a set with 0 that has n + 1 with n has every number.
LEMMA SetInduction ==
  ASSUME NEW S, 0 \in S, \A n \in Nat : n \in S => n + 1 \in S
  PROVE  Nat \subseteq S
<1> DEFINE T == Nat \ S
<1> SUFFICES ASSUME T # {} PROVE FALSE
  OBVIOUS
<1>1. PICK x \in T : \A y \in T : x <= y
  <2>1. T \subseteq Nat
    OBVIOUS
  <2> HIDE DEF T
  <2> QED  BY <2>1, Least
<1>2. x \in Nat /\ x - 1 \in Nat /\ ~ (x <= x - 1) /\ (x - 1) + 1 = x
  OBVIOUS
<1>3. x - 1 \in S
  BY <1>1, <1>2
<1> QED
  BY <1>2, <1>3

\* f is defined by recursion: it starts with a, and its k-th step is G[k].
Recursive(f, V, a, G) ==
  f \in [Nat -> V] /\ f[0] = a /\ \A k \in Nat : f[k + 1] = G[k][f[k]]

Steps(V) == [Nat -> [V -> V]]

\* What recursion asks for exists: there is such a function.
LEMMA Recursion ==
  ASSUME NEW V, NEW a \in V, NEW G \in Steps(V)
  PROVE  \E f : Recursive(f, V, a, G)
<1>0. G \in [Nat -> [V -> V]]
  BY DEF Steps
<1> DEFINE Upto(g, n) == /\ g \in [0 .. n -> V] /\ g[0] = a
                         /\ \A k \in 0 .. n - 1 : g[k + 1] = G[k][g[k]]
           S == {n \in Nat : \E g : Upto(g, n)}
<1>1. 0 \in S
  <2> DEFINE g == [k \in 0 .. 0 |-> a]
  <2>1. Upto(g, 0)
    OBVIOUS
  <2> QED  BY <2>1
<1>2. ASSUME NEW n \in Nat, n \in S PROVE n + 1 \in S
  <2>1. PICK g : Upto(g, n)
    BY <1>2
  <2> DEFINE h == [k \in 0 .. n + 1 |-> IF k = n + 1 THEN G[n][g[n]] ELSE g[k]]
  <2>2. \A k \in 0 .. n + 1 : k # n + 1 => k \in 0 .. n
    OBVIOUS
  <2>3. g[n] \in V /\ G[n][g[n]] \in V
    BY <1>0, <2>1
  <2>4. h \in [0 .. n + 1 -> V] /\ h[0] = a
    BY <2>1, <2>2, <2>3
  <2>5. ASSUME NEW k \in 0 .. n PROVE h[k + 1] = G[k][h[k]]
    <3>1. k \in 0 .. n + 1 /\ k + 1 \in 0 .. n + 1 /\ k # n + 1
      OBVIOUS
    <3>2. CASE k = n
      BY <3>1, <3>2
    <3>3. CASE k # n
      <4>1. k \in 0 .. n - 1 /\ k + 1 # n + 1
        BY <3>3
      <4> QED  BY <2>1, <3>1, <4>1
    <3> QED  BY <3>2, <3>3
  <2>6. (n + 1) - 1 = n
    OBVIOUS
  <2> HIDE DEF h
  <2> QED  BY <2>4, <2>5, <2>6
<1>3. \A n \in Nat : \E g : Upto(g, n)
  <2>1. Nat \subseteq S
    <3> HIDE DEF S
    <3> QED  BY <1>1, <1>2, SetInduction
  <2> QED  BY <2>1
<1>4. \A n \in Nat : \A m \in Nat : \A g, h :
        n <= m /\ Upto(g, n) /\ Upto(h, m) => g[n] = h[n]
  <2> SUFFICES ASSUME NEW n \in Nat, NEW m \in Nat, NEW g, NEW h,
                      n <= m, Upto(g, n), Upto(h, m)
               PROVE  g[n] = h[n]
    <3> HIDE DEF Upto
    <3> QED  OBVIOUS
  <2> DEFINE U == {k \in Nat : k <= n => g[k] = h[k]}
  <2>1. 0 \in U
    OBVIOUS
  <2>2. ASSUME NEW k \in Nat, k \in U PROVE k + 1 \in U
    <3> SUFFICES ASSUME k + 1 <= n PROVE g[k + 1] = h[k + 1]
      OBVIOUS
    <3>1. k \in 0 .. n - 1 /\ k \in 0 .. m - 1 /\ g[k] = h[k]
      BY <2>2
    <3> QED  BY <3>1
  <2>3. Nat \subseteq U
    <3> HIDE DEF U
    <3> QED  BY <2>1, <2>2, SetInduction
  <2> QED  BY <2>3
<1> DEFINE g(n) == CHOOSE g : Upto(g, n)
           f == [n \in Nat |-> g(n)[n]]
<1>5. \A n \in Nat : Upto(g(n), n)
  BY <1>3
<1> HIDE DEF g
<1>6. f \in [Nat -> V]
  BY <1>5
<1>7. f[0] = a
  BY <1>5
<1>8. ASSUME NEW k \in Nat PROVE f[k + 1] = G[k][f[k]]
  <2>1. k + 1 \in Nat /\ k <= k + 1 /\ k \in 0 .. (k + 1) - 1
    OBVIOUS
  <2>2. g(k)[k] = g(k + 1)[k]
    <3> HIDE DEF Upto
    <3> QED  BY <1>4, <1>5, <2>1
  <2>3. g(k + 1)[k + 1] = G[k][g(k + 1)[k]]
    BY <1>5, <2>1
  <2> QED  BY <2>1, <2>2, <2>3
<1> HIDE DEF f
<1> QED
  BY <1>6, <1>7, <1>8 DEF Recursive

\* Two functions that agree at 0 and go on agreeing agree
LEMMA Agree ==
  ASSUME NEW n \in Nat, NEW f, NEW h, f[0] = h[0],
         \A k \in 0 .. n - 1 : f[k] = h[k] => f[k + 1] = h[k + 1]
  PROVE  \A k \in 0 .. n : f[k] = h[k]
<1> DEFINE U == {k \in Nat : k <= n => f[k] = h[k]}
<1>1. 0 \in U
  OBVIOUS
<1>2. ASSUME NEW k \in Nat, k \in U PROVE k + 1 \in U
  <2>1. k + 1 <= n => k \in 0 .. n - 1 /\ f[k] = h[k]
    BY <1>2
  <2> QED  BY <2>1
<1>3. Nat \subseteq U
  <2> HIDE DEF U
  <2> QED  BY <1>1, <1>2, SetInduction
<1> QED  BY <1>3

\* Two sequences laid end to end
LEMMA ConcatIs ==
  ASSUME NEW S, NEW a \in Seq(S), NEW b \in Seq(S)
  PROVE  /\ a \o b \in Seq(S) /\ Len(a \o b) = Len(a) + Len(b)
         /\ \A j \in 1 .. Len(a) : (a \o b)[j] = a[j]
         /\ \A j \in 1 .. Len(b) : (a \o b)[Len(a) + j] = b[j]
OBVIOUS

\* A sequence of sequences and its beginnings laid end to end
Beginnings(P, seqs, S) ==
  /\ P \in [0 .. Len(seqs) -> Seq(S)]
  /\ P[0] = <<>>
  /\ \A k \in 1 .. Len(seqs) : P[k] = P[k - 1] \o seqs[k]

\* FlattenSeq is the longest of the beginnings.
LEMMA FlattenIs ==
  ASSUME NEW S, NEW seqs \in Seq(Seq(S)), seqs # <<>>
  PROVE  \E P : Beginnings(P, seqs, S) /\ FlattenSeq(seqs) = P[Len(seqs)]
<1> DEFINE n == Len(seqs)
           V == Seq(S)
           G == [k \in Nat |-> [v \in V |-> IF k < n THEN v \o seqs[k + 1] ELSE v]]
           Is(f) == f = [i \in 1 .. n |-> IF i = 1 THEN seqs[i]
                                          ELSE f[i - 1] \o seqs[i]]
<1>1. n \in Nat /\ n >= 1 /\ n \in 1 .. n /\ \A k \in 1 .. n : seqs[k] \in V
  OBVIOUS
<1>2. \A v, w \in V : v \o w \in V
  OBVIOUS
<1>3. <<>> \in V /\ \A v \in V : <<>> \o v = v
  BY ConcatEmptySeq
<1> HIDE DEF n, V
<1>4. G \in Steps(V)
  <2> SUFFICES ASSUME NEW k \in Nat, NEW v \in V, k < n
               PROVE  v \o seqs[k + 1] \in V
    BY DEF Steps
  <2>1. k + 1 \in 1 .. n
    BY <1>1
  <2> QED  BY <1>1, <1>2, <2>1
<1>5. PICK h \in [Nat -> V] : h[0] = <<>> /\ \A k \in Nat : h[k + 1] = G[k][h[k]]
  <2> DEFINE e == <<>>
  <2>1. e \in V
    BY <1>3
  <2> HIDE DEF G, e
  <2>2. \E h : Recursive(h, V, e, G)
    BY <1>4, <2>1, Recursion
  <2> QED  BY <2>2 DEF e, Recursive
<1>6. ASSUME NEW i \in 1 .. n PROVE h[i] = h[i - 1] \o seqs[i] /\ h[i - 1] \in V
  <2>1. i - 1 \in Nat /\ i - 1 < n /\ (i - 1) + 1 = i
    BY <1>1
  <2>2. h[i] = G[i - 1][h[i - 1]] /\ h[i - 1] \in V
    BY <1>5, <2>1
  <2> QED  BY <2>1, <2>2
<1>f. h[1] = seqs[1]
  <2>1. 1 \in 1 .. n /\ 1 - 1 = 0
    BY <1>1
  <2>2. h[1] = h[1 - 1] \o seqs[1]
    BY <1>6, <2>1
  <2>3. h[1] = <<>> \o seqs[1] /\ seqs[1] \in V
    BY <1>1, <1>5, <2>1, <2>2
  <2> QED  BY <1>3, <2>3
<1>7. \E f : Is(f)
  <2> DEFINE f == [i \in 1 .. n |-> h[i]]
  <2>1. ASSUME NEW i \in 1 .. n, i # 1
        PROVE  f[i] = f[i - 1] \o seqs[i]
    <3>1. i - 1 \in 1 .. n
      BY <1>1, <2>1
    <3> QED  BY <1>6, <3>1
  <2>2. f[1] = seqs[1]
    <3>1. 1 \in 1 .. n
      BY <1>1
    <3> QED  BY <1>f, <3>1
  <2>3. \A i \in 1 .. n : h[i] = IF i = 1 THEN seqs[i] ELSE f[i - 1] \o seqs[i]
    BY <2>1, <2>2
  <2>4. f = [i \in 1 .. n |-> IF i = 1 THEN seqs[i] ELSE f[i - 1] \o seqs[i]]
    <3> DEFINE b(i) == IF i = 1 THEN seqs[i] ELSE f[i - 1] \o seqs[i]
    <3>1. \A i \in 1 .. n : h[i] = b(i)
      BY <2>3
    <3> HIDE DEF b
    <3>2. f = [i \in 1 .. n |-> b(i)]
      BY <3>1
    <3> QED  BY <3>2 DEF b
  <2> QED  BY <2>4
<1>8. FlattenSeq(seqs) = (CHOOSE f : Is(f))[n]
  BY <1>1 DEF FlattenSeq, n
<1>9. PICK f : Is(f) /\ FlattenSeq(seqs) = f[n]
  BY <1>7, <1>8
<1> DEFINE P == [k \in 0 .. n |-> h[k]]
           U == {k \in Nat : k + 1 <= n => f[k + 1] = h[k + 1]}
<1>10. 0 \in U
  <2>1. 1 \in 1 .. n
    BY <1>1
  <2>2. f[1] = seqs[1] /\ h[1] = seqs[1]
    BY <1>9, <1>f, <2>1
  <2>3. 0 + 1 = 1
    OBVIOUS
  <2> QED  BY <2>1, <2>2, <2>3
<1>11. ASSUME NEW k \in Nat, k \in U PROVE k + 1 \in U
  <2> DEFINE i == (k + 1) + 1
  <2> SUFFICES ASSUME i <= n PROVE f[i] = h[i]
    OBVIOUS
  <2>1. i \in 1 .. n /\ i # 1 /\ i - 1 = k + 1 /\ k + 1 <= n
    BY <1>1
  <2>2. f[i - 1] = h[i - 1]
    BY <1>11, <2>1
  <2>3. f[i] = f[i - 1] \o seqs[i]
    <3> HIDE DEF i
    <3> QED  BY <1>9, <2>1
  <2> QED  BY <1>6, <2>1, <2>2, <2>3
<1>12. f[n] = h[n]
  <2>1. Nat \subseteq U
    <3> HIDE DEF U
    <3> QED  BY <1>10, <1>11, SetInduction
  <2>2. PICK k \in Nat : k + 1 = n
    <3>1. n - 1 \in Nat /\ (n - 1) + 1 = n
      BY <1>1
    <3> QED  BY <3>1
  <2>3. k \in U /\ k + 1 <= n
    BY <1>1, <2>1, <2>2
  <2> QED  BY <2>2, <2>3
<1>13. P \in [0 .. n -> V] /\ P[0] = <<>> /\ P[n] = h[n]
  <2>1. 0 \in 0 .. n /\ n \in 0 .. n /\ \A k \in 0 .. n : k \in Nat
    BY <1>1
  <2> QED  BY <1>5, <2>1
<1>14. \A i \in 1 .. n : P[i] = P[i - 1] \o seqs[i]
  <2>1. \A i \in 1 .. n : i \in 0 .. n /\ i - 1 \in 0 .. n
    BY <1>1
  <2> QED  BY <1>6, <2>1
<1> HIDE DEF P
<1> QED
  BY <1>9, <1>12, <1>13, <1>14 DEF n, V, Beginnings

\* Doubled is what its recursive definition says.
LEMMA DoubledIs ==
  /\ Doubled \in [Nat -> Nat]
  /\ Doubled[0] = 1
  /\ \A n \in Nat : Doubled[n + 1] = 2 * Doubled[n]
<1> DEFINE G == [k \in Nat |-> [v \in Nat |-> 2 * v]]
           Is(f) == f = [n \in Nat |-> IF n = 0 THEN 1 ELSE 2 * f[n - 1]]
<1>1. PICK h : Recursive(h, Nat, 1, G)
  <2>1. G \in Steps(Nat)
    BY DEF Steps
  <2> HIDE DEF G
  <2> QED  BY <2>1, Recursion
<1>2. h \in [Nat -> Nat] /\ h[0] = 1 /\ \A k \in Nat : h[k + 1] = 2 * h[k]
  BY <1>1 DEF Recursive
<1>3. Is(h)
  <2>1. ASSUME NEW n \in Nat, n # 0 PROVE h[n] = 2 * h[n - 1]
    <3>1. n - 1 \in Nat /\ (n - 1) + 1 = n
      BY <2>1
    <3> QED  BY <1>2, <3>1
  <2> QED  BY <1>2, <2>1
<1>4. Is(Doubled)
  <2>1. Doubled = CHOOSE f : Is(f)
    BY DEF Doubled
  <2> HIDE DEF Is
  <2> QED  BY <1>3, <2>1
<1>5. Doubled[0] = 1
  BY <1>4
<1>6. \A n \in Nat : Doubled[n + 1] = 2 * Doubled[n]
  <2> TAKE n \in Nat
  <2>1. n + 1 \in Nat /\ n + 1 # 0 /\ (n + 1) - 1 = n
    OBVIOUS
  <2> QED  BY <1>4, <2>1
<1>7. ASSUME NEW n \in Nat PROVE Doubled[n] = h[n]
  <2>1. \A k \in 0 .. n - 1 : Doubled[k] = h[k] => Doubled[k + 1] = h[k + 1]
    BY <1>2, <1>6
  <2>2. Doubled[0] = h[0]
    BY <1>2, <1>5
  <2>3. \A k \in 0 .. n : Doubled[k] = h[k]
    BY <2>1, <2>2, Agree
  <2> QED  BY <2>3
<1>8. Doubled \in [Nat -> Nat]
  <2>1. Doubled = [n \in Nat |-> Doubled[n]]
    BY <1>4
  <2> QED  BY <1>2, <1>7, <2>1
<1> QED
  BY <1>5, <1>6, <1>8

\* The table of types, entry by entry
LEMMA WeightsAre ==
  /\ Len(Weights) \in Nat /\ Table = 1 .. Len(Weights)
  /\ \A k \in Table : Weights[k].weight \in Nat /\ Weights[k].type \in 1 .. 255
<1> DEFINE Entry == [type : 1 .. 255, weight : Nat \ {0}]
<1>1. Weights \in Seq(Entry)
  BY QuestionsAssumption
<1>2. \A e \in Entry : e.weight \in Nat /\ e.type \in 1 .. 255
  OBVIOUS
<1> HIDE DEF Entry
<1>3. Len(Weights) \in Nat /\ Table = 1 .. Len(Weights)
  BY <1>1 DEF Table
<1>4. \A k \in Table : Weights[k] \in Entry
  BY <1>1, <1>3
<1> QED
  BY <1>2, <1>3, <1>4

\* Pos is what its recursive definition says.
LEMMA PosIs ==
  /\ Pos \in [0 .. Len(Weights) -> Int]
  /\ Pos[0] = RandMax
  /\ \A k \in Table : Pos[k] = Pos[k - 1] - Weights[k].weight
<1> DEFINE n == Len(Weights)
           w(k) == Weights[k].weight
           G == [k \in Nat |-> [v \in Int |-> IF k < n THEN v - w(k + 1) ELSE v]]
           Is(f) == f = [k \in 0 .. n |-> IF k = 0 THEN RandMax
                                          ELSE f[k - 1] - w(k)]
<1>1. /\ n \in Nat /\ Table = 1 .. n /\ RandMax \in Int
      /\ \A k \in 1 .. n : w(k) \in Nat
  BY WeightsAre, QuestionsAssumption
<1>2. Pos = CHOOSE f : Is(f)
  BY DEF Pos
<1> HIDE DEF n, w
<1>3. PICK h : Recursive(h, Int, RandMax, G)
  <2>1. ASSUME NEW k \in Nat, NEW v \in Int, k < n PROVE v - w(k + 1) \in Int
    <3>1. k + 1 \in 1 .. n
      BY <1>1, <2>1
    <3>2. w(k + 1) \in Nat
      BY <1>1, <3>1
    <3> QED  BY <3>2
  <2>2. G \in Steps(Int)
    BY <2>1 DEF Steps
  <2> HIDE DEF G
  <2> QED  BY <1>1, <2>2, Recursion
<1>4. /\ h \in [Nat -> Int] /\ h[0] = RandMax
      /\ \A k \in 1 .. n : h[k] = h[k - 1] - w(k) /\ k - 1 \in 0 .. n /\ k # 0
  <2>1. ASSUME NEW k \in 1 .. n PROVE h[k] = h[k - 1] - w(k)
    <3>1. k - 1 \in Nat /\ (k - 1) + 1 = k /\ k - 1 < n
      BY <1>1
    <3>2. h[k] = G[k - 1][h[k - 1]] /\ h[k - 1] \in Int
      BY <1>3, <3>1 DEF Recursive
    <3> QED  BY <3>1, <3>2
  <2> QED  BY <1>1, <1>3, <2>1 DEF Recursive
<1>5. \E f : Is(f)
  <2> DEFINE f == [k \in 0 .. n |-> h[k]]
             b(k) == IF k = 0 THEN RandMax ELSE f[k - 1] - w(k)
  <2>1. \A k \in 0 .. n : k = 0 \/ k \in 1 .. n
    BY <1>1
  <2>2. \A k \in 0 .. n : h[k] = b(k)
    BY <1>4, <2>1
  <2>3. f = [k \in 0 .. n |-> b(k)]
    <3> HIDE DEF b
    <3> QED  BY <2>2
  <2>4. Is(f)
    BY <2>3
  <2> QED  BY <2>4
<1>6. Is(Pos)
  <2> HIDE DEF Is
  <2> QED  BY <1>2, <1>5
<1>7. Pos[0] = RandMax
  <2>1. 0 \in 0 .. n
    BY <1>1
  <2> QED  BY <1>6, <2>1
<1>8. ASSUME NEW k \in 1 .. n PROVE Pos[k] = Pos[k - 1] - w(k)
  <2>1. k \in 0 .. n /\ k # 0
    BY <1>1
  <2> QED  BY <1>6, <2>1
<1>9. \A k \in 0 .. n : Pos[k] = h[k]
  <2>1. \A k \in 0 .. n - 1 : k + 1 \in 1 .. n /\ (k + 1) - 1 = k
    BY <1>1
  <2>2. \A k \in 0 .. n - 1 : Pos[k] = h[k] => Pos[k + 1] = h[k + 1]
    BY <1>4, <1>8, <2>1
  <2>3. Pos[0] = h[0] /\ n \in Nat
    BY <1>1, <1>4, <1>7
  <2> QED  BY <2>2, <2>3, Agree
<1>10. Pos \in [0 .. n -> Int]
  <2>1. Pos = [k \in 0 .. n |-> Pos[k]]
    BY <1>6
  <2>2. \A k \in 0 .. n : h[k] \in Int
    BY <1>1, <1>4
  <2> QED  BY <1>9, <2>1, <2>2
<1> QED
  BY <1>1, <1>7, <1>8, <1>10 DEF n, w

\* Arithmetic of a size_t: what is below zero wraps.
LEMMA Unsigned ==
  ASSUME NEW x \in Int
  PROVE  /\ x % SizeSpace \in 0 .. SizeSpace - 1 /\ SizeSpace \in Nat
         /\ x \in 0 .. SizeSpace - 1 => x % SizeSpace = x
         /\ x \in (0 - SizeSpace) .. 0 - 1 => x % SizeSpace = x + SizeSpace
<1>1. SizeSpace \in Nat /\ SizeSpace > 0
  BY QuestionsAssumption
<1>2. x % SizeSpace \in 0 .. SizeSpace - 1
  BY <1>1
<1>3. x \in 0 .. SizeSpace - 1 => x % SizeSpace = x
  BY <1>1
<1>4. x \in (0 - SizeSpace) .. 0 - 1 => x % SizeSpace = x + SizeSpace
  BY <1>1
<1> QED
  BY <1>1, <1>2, <1>3, <1>4

\* Room is what its recursive definition says.
LEMMA RoomIs ==
  ASSUME NEW S, NEW labels \in Seq(Seq(S))
  PROVE  /\ Room(labels)[1] = (SizeofQuestionData - 2 - 1) % SizeSpace
         /\ \A k \in 1 .. Len(labels) :
              Room(labels)[k + 1] =
                (Room(labels)[k] - (Len(labels[k]) - 1)) % SizeSpace
<1> DEFINE n == Len(labels)
           l(k) == Len(labels[k])
           a == SizeofQuestionData - 2 - 1
           U(v) == v % SizeSpace
           G == [k \in Nat |->
                   [v \in Int |-> IF k < n THEN U(v - (l(k + 1) - 1)) ELSE v]]
           Is(f) == f = [k \in 1 .. n + 1 |->
                           (IF k = 1 THEN a
                            ELSE f[k - 1] - (l(k - 1) - 1)) % SizeSpace]
<1>1. n \in Nat /\ a \in Int /\ \A k \in 1 .. n : l(k) \in Nat
  <2>1. PointerSize - HeaderSize \in Int
    BY QuestionsAssumption DEF HeaderSize
  <2>2. SizeofQuestionData \in Int
    BY <2>1, Unsigned DEF SizeofQuestionData
  <2> QED  BY <2>2
<1>u. \A v \in Int : U(v) \in Int
  BY Unsigned
<1>2. Room(labels) = CHOOSE f : Is(f)
  BY DEF Room
<1>s. \A f : Is(f) <=> f = [k \in 1 .. n + 1 |->
                              U(IF k = 1 THEN a ELSE f[k - 1] - (l(k - 1) - 1))]
  OBVIOUS
<1> HIDE DEF n, l, a, U
<1>3. PICK h : Recursive(h, Int, U(a), G)
  <2>1. ASSUME NEW k \in Nat, NEW v \in Int, k < n
        PROVE  U(v - (l(k + 1) - 1)) \in Int
    <3>1. k + 1 \in 1 .. n
      BY <1>1, <2>1
    <3>2. l(k + 1) \in Nat
      BY <1>1, <3>1
    <3>3. v - (l(k + 1) - 1) \in Int
      BY <3>2
    <3> QED  BY <1>u, <3>3
  <2>2. G \in Steps(Int)
    BY <2>1 DEF Steps
  <2> HIDE DEF G
  <2>3. U(a) \in Int
    BY <1>1, <1>u
  <2> QED  BY <2>2, <2>3, Recursion
<1>4. \E f : Is(f)
  <2> DEFINE f == [k \in 1 .. n + 1 |-> h[k - 1]]
             b(k) == U(IF k = 1 THEN a ELSE f[k - 1] - (l(k - 1) - 1))
  <2>1. ASSUME NEW k \in 1 .. n + 1 PROVE h[k - 1] = b(k)
    <3>1. CASE k = 1
      <4>1. k - 1 = 0
        BY <3>1
      <4> QED  BY <1>1, <1>3, <3>1, <4>1 DEF Recursive
    <3>2. CASE k # 1
      <4> DEFINE j == k - 2
      <4>1. /\ j \in Nat /\ j < n /\ j + 1 = k - 1 /\ (k - 1) - 1 = j
            /\ k - 1 \in 1 .. n + 1
        BY <1>1, <3>2
      <4>2. h[k - 1] = G[j][h[j]] /\ h[j] \in Int
        <5> HIDE DEF j, G
        <5> QED  BY <1>3, <4>1 DEF Recursive
      <4>3. G[j][h[j]] = U(h[j] - (l(k - 1) - 1))
        <5> HIDE DEF j
        <5> QED  BY <4>1, <4>2
      <4>4. f[k - 1] = h[j]
        <5> HIDE DEF j
        <5> QED  BY <4>1
      <4> QED  BY <3>2, <4>2, <4>3, <4>4
    <3> QED  BY <3>1, <3>2
  <2>2. f = [k \in 1 .. n + 1 |-> b(k)]
    <3> HIDE DEF b
    <3> QED  BY <2>1
  <2>3. Is(f)
    <3> HIDE DEF Is
    <3> QED  BY <1>s, <2>2
  <2> QED  BY <2>3
<1>5. Is(Room(labels))
  <2> HIDE DEF Is
  <2> QED  BY <1>2, <1>4
<1>r. Room(labels) =
        [k \in 1 .. n + 1 |->
           U(IF k = 1 THEN a ELSE Room(labels)[k - 1] - (l(k - 1) - 1))]
  <2> HIDE DEF Is
  <2> QED  BY <1>s, <1>5
<1> HIDE DEF Is
<1>6. Room(labels)[1] = U(a)
  <2>1. 1 \in 1 .. n + 1
    BY <1>1
  <2> QED  BY <1>r, <2>1
<1>7. ASSUME NEW k \in 1 .. n
      PROVE  Room(labels)[k + 1] = U(Room(labels)[k] - (l(k) - 1))
  <2>1. k + 1 \in 1 .. n + 1 /\ k + 1 # 1 /\ (k + 1) - 1 = k
    BY <1>1
  <2> QED  BY <1>r, <2>1
<1> QED
  BY <1>6, <1>7 DEF n, l, a, U
-----------------------------------------------------------------------------
(* The types of the questions *)

\* Further on in the table pos is lower, or the same.
LEMMA PosFalls ==
  ASSUME NEW i \in 0 .. Len(Weights), NEW j \in i .. Len(Weights)
  PROVE  Pos[j] <= Pos[i]
<1> DEFINE n == Len(Weights)
           U == {d \in Nat : i + d <= n => Pos[i + d] <= Pos[i]}
<1>1. n \in Nat /\ Table = 1 .. n
  BY WeightsAre
<1>2. \A k \in 0 .. n : Pos[k] \in Int
  BY PosIs
<1>3. \A k \in 1 .. n : Pos[k] = Pos[k - 1] - Weights[k].weight /\ Weights[k].weight \in Nat
  BY <1>1, WeightsAre, PosIs
<1> HIDE DEF n
<1>4. 0 \in U
  <2>1. i + 0 = i /\ Pos[i] \in Int
    BY <1>1, <1>2 DEF n
  <2> QED  BY <2>1
<1>5. ASSUME NEW d \in Nat, d \in U PROVE d + 1 \in U
  <2> SUFFICES ASSUME i + (d + 1) <= n PROVE Pos[i + (d + 1)] <= Pos[i]
    OBVIOUS
  <2> DEFINE k == i + (d + 1)
  <2>1. k \in 1 .. n /\ k - 1 = i + d /\ i + d <= n /\ i + d \in 0 .. n /\ i \in 0 .. n
    BY <1>1 DEF n
  <2>2. Pos[k - 1] <= Pos[i] /\ Pos[k - 1] \in Int /\ Pos[i] \in Int
    BY <1>2, <1>5, <2>1
  <2> HIDE DEF k
  <2>3. Pos[k] = Pos[k - 1] - Weights[k].weight /\ Weights[k].weight \in Nat
    BY <1>3, <2>1
  <2> DEFINE w == Weights[k].weight
             q == Pos[k - 1]
  <2>4. w \in Nat /\ q \in Int /\ q <= Pos[i] /\ Pos[k] = q - w
    BY <2>2, <2>3
  <2> HIDE DEF w, q
  <2>5. Pos[k] <= Pos[i]
    BY <2>2, <2>4
  <2> QED  BY <2>5 DEF k
<1>6. Nat \subseteq U
  <2> HIDE DEF U
  <2> QED  BY <1>4, <1>5, SetInduction
<1>7. j - i \in Nat /\ i + (j - i) = j /\ j <= n
  BY <1>1 DEF n
<1>8. j - i \in U
  BY <1>6, <1>7
<1> QED
  BY <1>7, <1>8

\* What get_random_type stops at is the first entry that fits.
LEMMA DrawnIs ==
  ASSUME NEW rnd, \E k \in Table : Hit(rnd, k)
  PROVE  /\ Drawn(rnd) \in Table /\ Hit(rnd, Drawn(rnd))
         /\ \A j \in 1 .. Drawn(rnd) - 1 : ~Hit(rnd, j)
<1> DEFINE T == {k \in Table : Hit(rnd, k)}
           First(k) == Hit(rnd, k) /\ \A j \in 1 .. k - 1 : ~Hit(rnd, j)
<1>1. Table = 1 .. Len(Weights) /\ Len(Weights) \in Nat
  BY WeightsAre
<1>2. T # {} /\ T \subseteq Nat
  BY <1>1
<1>3. PICK x \in T : \A y \in T : x <= y
  <2> HIDE DEF T
  <2> QED  BY <1>2, Least
<1>4. First(x)
  <2>1. ASSUME NEW j \in 1 .. x - 1, Hit(rnd, j) PROVE FALSE
    <3>1. j \in Table /\ ~ (x <= j)
      BY <1>1, <1>3, <2>1
    <3> QED  BY <1>3, <2>1, <3>1
  <2> QED  BY <1>3, <2>1
<1>5. Drawn(rnd) = CHOOSE k \in Table : First(k)
  BY <1>2 DEF Drawn
<1>6. x \in Table
  BY <1>3
<1> HIDE DEF First
<1>7. Drawn(rnd) \in Table /\ First(Drawn(rnd))
  BY <1>4, <1>5, <1>6
<1> QED
  BY <1>7 DEF First

\* An entry is drawn for just the numbers between its pos and the one before.
LEMMA Shares ==
  ASSUME NEW k \in Table, Pos[k] >= 0
  PROVE  Cardinality({r \in 0 .. RandMax : Drawn(r) = k}) = Weights[k].weight
<1> DEFINE n == Len(Weights)
           w == Weights[k].weight
<1>1. n \in Nat /\ Table = 1 .. n /\ RandMax \in Nat
  BY WeightsAre, QuestionsAssumption
<1>2. w \in Nat
  BY WeightsAre
<1>3. k \in 1 .. n /\ k - 1 \in 0 .. n /\ k \in Nat
  BY <1>1
<1>4. Pos[k] \in Int /\ Pos[k - 1] \in Int /\ Pos[k] = Pos[k - 1] - w
  BY <1>1, <1>3, PosIs
<1>5. Pos[k - 1] <= RandMax
  <2>1. 0 \in 0 .. n /\ k - 1 \in 0 .. n
    BY <1>1, <1>3
  <2> QED  BY <2>1, PosFalls, PosIs
<1> HIDE DEF w
<1>6. ASSUME NEW r \in 0 .. RandMax, Drawn(r) = k
      PROVE  r \in Pos[k] + 1 .. Pos[k - 1]
  <2>1. Hit(r, k) /\ \A j \in 1 .. k - 1 : ~Hit(r, j)
    <3>1. \E q \in Table : Hit(r, q)
      BY <1>3, <1>6 DEF Drawn
    <3> QED  BY <1>6, <3>1, DrawnIs
  <2>2. r > Pos[k]
    BY <2>1 DEF Hit
  <2>3. r <= Pos[k - 1]
    <3>1. CASE k = 1
      <4>1. k - 1 = 0
        BY <3>1
      <4>2. Pos[k - 1] = RandMax
        BY <4>1, PosIs
      <4> QED  BY <1>1, <4>2
    <3>2. CASE k # 1
      <4>1. k - 1 \in 1 .. k - 1
        BY <1>3, <3>2
      <4>2. ~ (r > Pos[k - 1])
        BY <2>1, <4>1 DEF Hit
      <4> QED  BY <1>4, <4>2
    <3> QED  BY <3>1, <3>2
  <2> QED  BY <1>4, <2>2, <2>3
<1>7. ASSUME NEW r \in Pos[k] + 1 .. Pos[k - 1]
      PROVE  r \in 0 .. RandMax /\ Drawn(r) = k
  <2>1. r \in 0 .. RandMax
    BY <1>1, <1>4, <1>5
  <2>2. Hit(r, k)
    BY <1>4 DEF Hit
  <2> DEFINE d == Drawn(r)
  <2>4. d \in 1 .. n /\ Hit(r, d) /\ \A j \in 1 .. d - 1 : ~Hit(r, j)
    BY <1>1, <2>2, DrawnIs
  <2> HIDE DEF d
  <2>5. ~ (k < d)
    <3>1. k < d => k \in 1 .. d - 1
      BY <1>3, <2>4
    <3> QED  BY <2>2, <2>4, <3>1
  <2>6. ~ (d < k)
    <3> SUFFICES ASSUME d < k PROVE FALSE
      OBVIOUS
    <3>1. d \in 0 .. n /\ k - 1 \in d .. n
      BY <1>1, <1>3, <2>4
    <3>2. Pos[k - 1] <= Pos[d] /\ Pos[d] \in Int
      BY <3>1, PosFalls, PosIs
    <3>3. r > Pos[d]
      BY <2>4 DEF Hit
    <3> QED  BY <1>4, <3>2, <3>3
  <2> QED  BY <1>3, <2>1, <2>4, <2>5, <2>6 DEF d
<1>8. {r \in 0 .. RandMax : Drawn(r) = k} = Pos[k] + 1 .. Pos[k - 1]
  BY <1>6, <1>7
<1>9. Cardinality(Pos[k] + 1 .. Pos[k - 1]) = w
  <2>1. Cardinality(Pos[k] + 1 .. Pos[k - 1])
          = IF Pos[k] + 1 > Pos[k - 1] THEN 0 ELSE Pos[k - 1] - (Pos[k] + 1) + 1
    <3>1. Pos[k] + 1 \in Int
      BY <1>4
    <3> QED  BY <1>4, <3>1, FS_Interval
  <2> QED  BY <1>2, <1>4, <2>1
<1> QED
  BY <1>8, <1>9 DEF w
-----------------------------------------------------------------------------
(* What a resolver reads *)

\* What is read from i on, if f is what is read from any later place
Reading(f, msg, i) ==
  LET next == i + msg[i] + 1
  IN  IF msg[i] = 0 THEN [labels |-> <<>>, end |-> i]
      ELSE IF next > Len(msg) THEN [labels |-> <<>>, end |-> 0]
      ELSE [labels |-> <<SubSeq(msg, i + 1, next - 1)>> \o f[next].labels,
            end |-> f[next].end]

\* NameIn is what its recursive definition says.
LEMMA NameInIs ==
  ASSUME NEW msg \in Seq(Nat)
  PROVE  \A i \in 1 .. Len(msg) : NameIn(msg)[i] = Reading(NameIn(msg), msg, i)
<1> DEFINE n == Len(msg)
           Is(f, m) == f = [i \in n - m + 1 .. n |-> Reading(f, msg, i)]
           U == {m \in Nat : m <= n => \E f : Is(f, m)}
<1>1. n \in Nat /\ \A i \in 1 .. n : msg[i] \in Nat
  OBVIOUS
<1>2. ASSUME NEW f, NEW g, NEW i \in 1 .. n,
             \A k \in i + 1 .. n : f[k] = g[k]
      PROVE  Reading(f, msg, i) = Reading(g, msg, i)
  <2>1. CASE msg[i] = 0
    BY <2>1 DEF Reading
  <2>2. CASE msg[i] # 0 /\ i + msg[i] + 1 <= n
    <3> DEFINE next == i + msg[i] + 1
    <3>1. next \in i + 1 .. n /\ ~ (next > Len(msg))
      BY <1>1, <2>2
    <3>2. f[next] = g[next]
      BY <1>2, <3>1
    <3> QED  BY <2>2, <3>1, <3>2 DEF Reading
  <2>3. CASE msg[i] # 0 /\ ~ (i + msg[i] + 1 <= n)
    <3>1. i + msg[i] + 1 > Len(msg)
      BY <1>1, <2>3
    <3> QED  BY <2>3, <3>1 DEF Reading
  <2> QED  BY <2>1, <2>2, <2>3
<1> HIDE DEF n
<1>3. 0 \in U
  <2> DEFINE f == [i \in n - 0 + 1 .. n |-> 0]
  <2>1. n - 0 + 1 .. n = {}
    BY <1>1
  <2>2. Is(f, 0)
    BY <2>1
  <2> QED  BY <2>2
<1>4. ASSUME NEW m \in Nat, m \in U PROVE m + 1 \in U
  <2> SUFFICES ASSUME m + 1 <= n PROVE \E f : Is(f, m + 1)
    OBVIOUS
  <2> DEFINE d == n - m
  <2>1. PICK f : Is(f, m)
    BY <1>1, <1>4
  <2>2. d \in 1 .. n /\ n - (m + 1) + 1 = d /\ n - m + 1 = d + 1
    BY <1>1
  <2> HIDE DEF d
  <2> DEFINE g == [i \in d .. n |-> IF i = d THEN Reading(f, msg, d) ELSE f[i]]
  <2>3. f = [i \in d + 1 .. n |-> Reading(f, msg, i)]
    BY <2>1, <2>2
  <2>4. \A k \in d + 1 .. n : f[k] = g[k]
    BY <2>2
  <2>5. ASSUME NEW i \in d .. n PROVE g[i] = Reading(g, msg, i)
    <3>1. \A k \in i + 1 .. n : f[k] = g[k]
      BY <2>2, <2>4
    <3>2. i \in 1 .. n
      BY <1>1, <2>2
    <3> HIDE DEF g
    <3>3. Reading(f, msg, i) = Reading(g, msg, i)
      BY <1>2, <3>1, <3>2
    <3>4. g[i] = Reading(f, msg, i)
      <4>1. CASE i = d
        BY <2>2, <4>1 DEF g
      <4>2. CASE i # d
        <5>1. i \in d + 1 .. n
          BY <2>2, <4>2
        <5> QED  BY <2>3, <2>4, <5>1
      <4> QED  BY <4>1, <4>2
    <3> QED  BY <3>3, <3>4
  <2>6. g = [i \in d .. n |-> Reading(g, msg, i)]
    <3>1. DOMAIN g = d .. n /\ g = [i \in d .. n |-> g[i]]
      OBVIOUS
    <3> HIDE DEF g
    <3> QED  BY <2>5, <3>1
  <2> HIDE DEF g
  <2>7. Is(g, m + 1)
    BY <2>2, <2>6
  <2> QED  BY <2>7
<1>5. \E f : Is(f, n)
  <2>1. Nat \subseteq U
    <3> HIDE DEF U
    <3> QED  BY <1>3, <1>4, SetInduction
  <2>2. n \in U /\ n <= n
    BY <1>1, <2>1
  <2> QED  BY <2>2
<1>6. n - n + 1 = 1
  BY <1>1
<1>7. \E f : f = [i \in 1 .. n |-> Reading(f, msg, i)]
  BY <1>5, <1>6
<1>8. NameIn(msg) = CHOOSE f : f = [i \in 1 .. n |-> Reading(f, msg, i)]
  BY DEF NameIn, Reading, n
<1>9. NameIn(msg) = [i \in 1 .. n |-> Reading(NameIn(msg), msg, i)]
  BY <1>7, <1>8
<1> QED
  BY <1>9 DEF n

\* The beginnings of a sequence of sequences are beginnings of the whole.
LEMMA BeginningStays ==
  ASSUME NEW S, NEW seqs \in Seq(Seq(S)), NEW P, Beginnings(P, seqs, S),
         NEW k \in 0 .. Len(seqs)
  PROVE  /\ Len(P[k]) <= Len(P[Len(seqs)])
         /\ \A j \in 1 .. Len(P[k]) : P[Len(seqs)][j] = P[k][j]
<1> DEFINE n == Len(seqs)
           Kept(m) == /\ Len(P[k]) <= Len(P[m])
                      /\ \A j \in 1 .. Len(P[k]) : P[m][j] = P[k][j]
           U == {d \in Nat : k + d <= n => Kept(k + d)}
<1>1. n \in Nat /\ k \in Nat /\ k <= n
  OBVIOUS
<1>2. \A m \in 0 .. n : P[m] \in Seq(S) /\ Len(P[m]) \in Nat
  <2>1. \A m \in 0 .. n : P[m] \in Seq(S)
    BY DEF Beginnings
  <2> QED  BY <2>1
<1>3. \A m \in 1 .. n : P[m] = P[m - 1] \o seqs[m] /\ seqs[m] \in Seq(S)
  <2>1. \A m \in 1 .. n : seqs[m] \in Seq(S)
    OBVIOUS
  <2> QED  BY <2>1 DEF Beginnings
<1> HIDE DEF n
<1>4. 0 \in U
  <2>1. k + 0 = k
    BY <1>1
  <2> QED  BY <1>1, <1>2, <2>1
<1>5. ASSUME NEW d \in Nat, d \in U PROVE d + 1 \in U
  <2> DEFINE m == k + (d + 1)
  <2>1. ASSUME m <= n PROVE Kept(m)
    <3>1. m \in 1 .. n /\ m - 1 = k + d /\ m - 1 \in 0 .. n /\ k + d <= n
      BY <1>1, <2>1
    <3>2. Kept(m - 1)
      BY <1>5, <3>1
    <3> HIDE DEF m
    <3>3. P[m] = P[m - 1] \o seqs[m] /\ seqs[m] \in Seq(S) /\ P[m - 1] \in Seq(S)
      BY <1>2, <1>3, <3>1
    <3>4. /\ Len(P[m]) = Len(P[m - 1]) + Len(seqs[m])
          /\ \A j \in 1 .. Len(P[m - 1]) : P[m][j] = P[m - 1][j]
      <4> DEFINE a == P[m - 1]
                 b == seqs[m]
      <4>1. a \in Seq(S) /\ b \in Seq(S) /\ P[m] = a \o b
        BY <3>3
      <4> HIDE DEF a, b
      <4>2. /\ Len(P[m]) = Len(a) + Len(b)
            /\ \A j \in 1 .. Len(a) : P[m][j] = a[j]
        BY <4>1, ConcatIs
      <4> QED  BY <4>2 DEF a, b
    <3>5. Len(P[k]) \in Nat /\ Len(P[m - 1]) \in Nat /\ Len(seqs[m]) \in Nat
      BY <1>1, <1>2, <3>1, <3>3
    <3>6. \A j \in 1 .. Len(P[k]) : j \in 1 .. Len(P[m - 1])
      BY <3>2, <3>5
    <3>7. Len(P[k]) <= Len(P[m])
      <4> DEFINE x == Len(P[k])
                 y == Len(P[m - 1])
                 z == Len(seqs[m])
      <4>1. x \in Nat /\ y \in Nat /\ z \in Nat /\ x <= y /\ Len(P[m]) = y + z
        BY <3>2, <3>4, <3>5
      <4> HIDE DEF x, y, z
      <4>2. x <= Len(P[m])
        BY <4>1
      <4> QED  BY <4>2 DEF x
    <3>8. \A j \in 1 .. Len(P[k]) : P[m][j] = P[k][j]
      BY <3>2, <3>4, <3>6
    <3> QED  BY <3>7, <3>8
  <2>2. d + 1 \in Nat
    OBVIOUS
  <2> HIDE DEF Kept
  <2> QED  BY <2>1, <2>2
<1>6. n - k \in Nat /\ k + (n - k) = n
  BY <1>1
<1>7. n - k \in U
  <2>1. Nat \subseteq U
    <3> HIDE DEF U
    <3> QED  BY <1>4, <1>5, SetInduction
  <2> QED  BY <1>6, <2>1
<1>8. Kept(n)
  <2> HIDE DEF Kept
  <2> QED  BY <1>1, <1>6, <1>7
<1> QED
  BY <1>8 DEF n

\* A part of a sequence, cell by cell
LEMMA PartIs ==
  ASSUME NEW S, NEW s \in Seq(S), NEW a \in 1 .. Len(s) + 1,
         NEW b \in a - 1 .. Len(s)
  PROVE  /\ SubSeq(s, a, b) \in Seq(S) /\ Len(SubSeq(s, a, b)) = b - a + 1
         /\ \A j \in 1 .. b - a + 1 : SubSeq(s, a, b)[j] = s[a + j - 1]
OBVIOUS

\* A part of a sequence is its first element and the rest.
LEMMA HeadOff ==
  ASSUME NEW S, NEW s \in Seq(S), NEW k \in 1 .. Len(s), NEW n, n = Len(s)
  PROVE  <<s[k]>> \o SubSeq(s, k + 1, n) = SubSeq(s, k, n)
<1> DEFINE a == <<s[k]>>
           b == SubSeq(s, k + 1, n)
           t == SubSeq(s, k, n)
<1>1. a \in Seq(S) /\ Len(a) = 1 /\ a[1] = s[k]
  OBVIOUS
<1>2. b \in Seq(S) /\ Len(b) = n - k /\ \A j \in 1 .. n - k : b[j] = s[k + j]
  OBVIOUS
<1>3. t \in Seq(S) /\ Len(t) = n - k + 1 /\ \A j \in 1 .. n - k + 1 : t[j] = s[k + j - 1]
  OBVIOUS
<1> HIDE DEF a, b, t
<1>4. /\ a \o b \in Seq(S) /\ Len(a \o b) = n - k + 1
      /\ (a \o b)[1] = s[k]
      /\ \A j \in 1 .. n - k : (a \o b)[1 + j] = s[k + j]
  <2>1. /\ a \o b \in Seq(S) /\ Len(a \o b) = Len(a) + Len(b)
        /\ \A j \in 1 .. Len(a) : (a \o b)[j] = a[j]
        /\ \A j \in 1 .. Len(b) : (a \o b)[Len(a) + j] = b[j]
    <3>1. a \in Seq(S) /\ b \in Seq(S)
      BY <1>1, <1>2
    <3> QED  BY <3>1, ConcatIs
  <2> QED  BY <1>1, <1>2, <2>1
<1> DEFINE u == a \o b
<1> HIDE DEF u
<1>5. ASSUME NEW j \in 1 .. n - k + 1 PROVE u[j] = t[j]
  <2>1. CASE j = 1
    BY <1>3, <1>4, <2>1 DEF u
  <2>2. CASE j # 1
    <3>1. j - 1 \in 1 .. n - k /\ 1 + (j - 1) = j /\ k + (j - 1) = k + j - 1
      BY <2>2
    <3> QED  BY <1>3, <1>4, <3>1 DEF u
  <2> QED  BY <2>1, <2>2
<1>6. u \in Seq(S) /\ Len(u) = Len(t)
  BY <1>3, <1>4 DEF u
<1>7. u = t
  BY <1>3, <1>5, <1>6, SeqEqual
<1> QED
  BY <1>7 DEF u, a, b, t

\* w is q and behind it the label L with its length
Piece(w, q, L) ==
  /\ Len(L) \in Nat \ {0} /\ Len(q) \in Nat
  /\ Len(w) = Len(q) + Len(L) + 1
  /\ w[Len(q) + 1] = Len(L)
  /\ \A j \in 1 .. Len(L) : w[Len(q) + 1 + j] = L[j]

\* A component laid behind q is the length of the label and the label.
LEMMA PieceIs ==
  ASSUME NEW S, NEW q \in Seq(S), NEW L \in Seq(S), L # <<>>, Len(L) \in S
  PROVE  Piece(q \o Component(L), q, L)
<1> DEFINE w == q \o Component(L)
           c == Len(q)
           l == Len(L)
           b == <<l>>
           C == b \o L
<1>1. c \in Nat /\ l \in Nat \ {0}
  OBVIOUS
<1>2. b \in Seq(S) /\ Len(b) = 1 /\ b[1] = l
  OBVIOUS
<1>3. w = q \o C
  BY DEF Component
<1> HIDE DEF b, w
<1>4. C \in Seq(S) /\ Len(C) = 1 + l /\ C[1] = l
      /\ \A j \in 1 .. l : C[1 + j] = L[j]
  <2>1. b \in Seq(S) /\ L \in Seq(S)
    BY <1>2
  <2>2. /\ C \in Seq(S) /\ Len(C) = Len(b) + Len(L)
        /\ \A j \in 1 .. Len(b) : C[j] = b[j]
        /\ \A j \in 1 .. Len(L) : C[Len(b) + j] = L[j]
    BY <2>1, ConcatIs
  <2> HIDE DEF C
  <2> QED  BY <1>2, <2>2
<1> HIDE DEF C
<1>6. Len(w) = c + Len(C) /\ \A j \in 1 .. Len(C) : w[c + j] = C[j]
  <2>1. q \in Seq(S) /\ C \in Seq(S)
    BY <1>4
  <2> QED  BY <1>3, <2>1, ConcatIs
<1>5. \A j \in 1 .. l : C[1 + j] = L[j]
  BY <1>4
<1>7. ASSUME NEW j \in 1 .. l PROVE w[c + 1 + j] = L[j]
  <2>1. 1 + j \in 1 .. Len(C) /\ c + 1 + j = c + (1 + j)
    BY <1>1, <1>4
  <2> QED  BY <1>5, <1>6, <2>1
<1>8. w[c + 1] = l /\ Len(w) = c + l + 1
  <2>1. 1 \in 1 .. Len(C)
    BY <1>1, <1>4
  <2> QED  BY <1>1, <1>4, <1>6, <2>1
<1>9. Piece(w, q, L)
  BY <1>1, <1>7, <1>8 DEF c, l, Piece
<1> QED  BY <1>9 DEF w

\* The labels, each with its length, stand in msg behind the h-th cell.
LaidOut(V, labels, comps, P, whole, msg, h) ==
  /\ V \subseteq Nat /\ Nat \subseteq V
  /\ labels \in Seq(Seq(V)) /\ labels # <<>>
  /\ \A k \in 1 .. Len(labels) : labels[k] # <<>>
  /\ comps \in Seq(Seq(V)) /\ Len(comps) = Len(labels)
  /\ \A k \in 1 .. Len(labels) : comps[k] = Component(labels[k])
  /\ Beginnings(P, comps, V) /\ whole = P[Len(comps)]
  /\ msg \in Seq(V) /\ h \in Nat
  /\ h + Len(whole) + 1 <= Len(msg)
  /\ \A j \in 1 .. Len(whole) : msg[h + j] = whole[j]
  /\ msg[h + Len(whole) + 1] = 0

\* A name laid out in a message is what a resolver reads there.
LEMMA ReadBack ==
  ASSUME NEW V, NEW labels, NEW comps, NEW P, NEW whole, NEW msg, NEW h,
         LaidOut(V, labels, comps, P, whole, msg, h)
  PROVE  NameIn(msg)[h + 1] = [labels |-> labels, end |-> h + Len(whole) + 1]
<1>0. /\ V \subseteq Nat /\ Nat \subseteq V
      /\ labels \in Seq(Seq(V)) /\ labels # <<>>
      /\ \A k \in 1 .. Len(labels) : labels[k] # <<>>
      /\ comps \in Seq(Seq(V)) /\ Len(comps) = Len(labels)
      /\ \A k \in 1 .. Len(labels) : comps[k] = Component(labels[k])
      /\ Beginnings(P, comps, V) /\ whole = P[Len(comps)]
      /\ msg \in Seq(V) /\ h \in Nat
      /\ h + Len(whole) + 1 <= Len(msg)
      /\ \A j \in 1 .. Len(whole) : msg[h + j] = whole[j]
      /\ msg[h + Len(whole) + 1] = 0
  BY DEF LaidOut
<1> USE <1>0
<1> DEFINE n == Len(comps)
           e == h + Len(whole) + 1
           at(k) == h + Len(P[k]) + 1
           Read(k) == NameIn(msg)[at(k)]
                        = [labels |-> SubSeq(labels, k + 1, n), end |-> e]
           U == {m \in Nat : m <= n => Read(n - m)}
<1>1. n \in Nat /\ n = Len(labels) /\ 0 \in 0 .. n /\ n \in 0 .. n
  OBVIOUS
<1>2. ASSUME NEW k \in 0 .. n
      PROVE  /\ P[k] \in Seq(V) /\ Len(P[k]) \in Nat /\ Len(P[k]) <= Len(whole)
             /\ \A j \in 1 .. Len(P[k]) : whole[j] = P[k][j]
  <2>1. P[k] \in Seq(V)
    BY DEF Beginnings
  <2>2. Len(P[k]) \in Nat
    BY <2>1
  <2>3. /\ Len(P[k]) <= Len(P[Len(comps)])
        /\ \A j \in 1 .. Len(P[k]) : P[Len(comps)][j] = P[k][j]
    <3>1. /\ comps \in Seq(Seq(V)) /\ Beginnings(P, comps, V)
          /\ k \in 0 .. Len(comps)
      OBVIOUS
    <3> QED  BY ONLY <3>1, BeginningStays
  <2> QED  BY <2>1, <2>2, <2>3
<1>w. Len(whole) \in Nat
  BY <1>1, <1>2
<1>3. ASSUME NEW k \in 0 .. n, NEW j \in 1 .. Len(P[k])
      PROVE  h + j \in 1 .. Len(msg) /\ msg[h + j] = P[k][j]
  <2> DEFINE x == Len(P[k])
             y == Len(whole)
             z == Len(msg)
  <2>1. x \in Nat /\ x <= y /\ y \in Nat /\ z \in Nat /\ h + y + 1 <= z
        /\ j \in 1 .. x
    BY <1>2, <1>w
  <2>2. whole[j] = P[k][j]
    BY <1>2
  <2>3. j \in 1 .. y /\ h + j \in 1 .. z
    <3> HIDE DEF x, y, z
    <3> QED  BY <2>1
  <2> QED  BY <2>2, <2>3
<1>4. \A i \in 1 .. Len(msg) : NameIn(msg)[i] = Reading(NameIn(msg), msg, i)
  <2>1. msg \in Seq(Nat)
    OBVIOUS
  <2> QED  BY <2>1, NameInIs
<1>5. P[0] = <<>> /\ \A k \in 1 .. n : P[k] = P[k - 1] \o Component(labels[k])
  BY <1>1 DEF Beginnings
<1>6. e \in 1 .. Len(msg) /\ msg[e] = 0 /\ Len(msg) \in Nat /\ at(n) = e
  BY <1>w
<1> HIDE DEF n, e
<1>7. ASSUME NEW k \in 1 .. n
      PROVE  LET l == Len(labels[k])
             IN  /\ l \in Nat \ {0}
                 /\ at(k - 1) \in 1 .. Len(msg) /\ msg[at(k - 1)] = l
                 /\ at(k) = at(k - 1) + l + 1 /\ at(k) <= Len(msg)
                 /\ \A j \in 1 .. l : msg[at(k - 1) + j] = labels[k][j]
  <2>1. /\ labels[k] \in Seq(V) /\ labels[k] # <<>>
        /\ k \in 0 .. n /\ k - 1 \in 0 .. n
    BY <1>1
  <2>2. /\ P[k - 1] \in Seq(V) /\ P[k] = P[k - 1] \o Component(labels[k])
        /\ Len(P[k]) <= Len(whole)
    BY <1>2, <1>5, <2>1
  <2> DEFINE c == Len(P[k - 1])
             l == Len(labels[k])
             w == P[k]
  <2>3. /\ l \in Nat \ {0} /\ c \in Nat /\ Len(w) = c + l + 1 /\ w[c + 1] = l
        /\ \A j \in 1 .. l : w[c + 1 + j] = labels[k][j]
    <3>1. Len(labels[k]) \in V
      BY <2>1
    <3> DEFINE q == P[k - 1]
               L == labels[k]
    <3>2. /\ q \in Seq(V) /\ L \in Seq(V) /\ L # <<>> /\ Len(L) \in V
          /\ w = q \o Component(L)
      BY <2>1, <2>2, <3>1
    <3> HIDE DEF q, L, w
    <3>3. Piece(q \o Component(L), q, L)
      BY ONLY <3>2, PieceIs
    <3> QED  BY ONLY <3>2, <3>3 DEF q, L, Piece
  <2>4. \A j \in 1 .. Len(w) : h + j \in 1 .. Len(msg) /\ msg[h + j] = w[j]
    BY <1>3, <2>1
  <2>5. at(k - 1) = h + c + 1 /\ at(k) = h + Len(w) + 1
    OBVIOUS
  <2>6. Len(w) <= Len(whole) /\ h + Len(whole) + 1 <= Len(msg)
    BY <2>2
  <2> DEFINE x == Len(w)
             y == Len(whole)
             z == Len(msg)
  <2>10. x = c + l + 1 /\ l \in Nat \ {0} /\ c \in Nat /\ y \in Nat /\ z \in Nat
         /\ at(k - 1) = h + c + 1 /\ at(k) = h + x + 1 /\ x <= y /\ h + y + 1 <= z
    BY <1>w, <1>6, <2>3, <2>5, <2>6
  <2> HIDE DEF c, l, w, at
  <2>7. at(k - 1) \in 1 .. Len(msg) /\ msg[at(k - 1)] = l
    <3>1. c + 1 \in 1 .. Len(w) /\ h + (c + 1) = h + c + 1
      BY <2>3
    <3>2. h + (c + 1) \in 1 .. Len(msg) /\ msg[h + (c + 1)] = w[c + 1]
      BY <2>4, <3>1
    <3>3. w[c + 1] = l
      BY <2>3
    <3>4. at(k - 1) = h + (c + 1)
      BY <2>5, <3>1
    <3> QED  BY <3>2, <3>3, <3>4
  <2>8. at(k) = at(k - 1) + l + 1 /\ at(k) <= Len(msg)
    <3> HIDE DEF x, y
    <3>1. at(k) = at(k - 1) + l + 1 /\ at(k) <= z
      <4> HIDE DEF z
      <4> QED  BY <2>10
    <3> QED  BY <3>1
  <2>9. ASSUME NEW j \in 1 .. l PROVE msg[at(k - 1) + j] = labels[k][j]
    <3>1. c + 1 + j \in 1 .. Len(w) /\ h + (c + 1 + j) = h + c + 1 + j
      BY <2>3, SMTT(30)
    <3>2. msg[h + (c + 1 + j)] = w[c + 1 + j] /\ w[c + 1 + j] = labels[k][j]
      BY <2>3, <2>4, <3>1
    <3> QED  BY <2>5, <3>1, <3>2
  <2> QED  BY <2>3, <2>7, <2>8, <2>9 DEF l
<1>8. 0 \in U
  <2>1. n - 0 = n
    BY <1>1
  <2>2. NameIn(msg)[e] = [labels |-> <<>>, end |-> e]
    BY <1>4, <1>6 DEF Reading
  <2>3. SubSeq(labels, n + 1, n) = <<>>
    BY <1>1
  <2>4. Read(n)
    BY <1>6, <2>2, <2>3
  <2> HIDE DEF Read
  <2> QED  BY <2>1, <2>4
<1>9. ASSUME NEW m \in Nat, m \in U PROVE m + 1 \in U
  <2> SUFFICES ASSUME m + 1 <= n PROVE Read(n - (m + 1))
    <3>1. m + 1 \in Nat
      OBVIOUS
    <3> HIDE DEF Read
    <3> QED  BY <3>1
  <2> DEFINE k == n - m
             i == at(k - 1)
             l == Len(labels[k])
             sub == SubSeq(labels, k + 1, n)
  <2>1. k \in 1 .. n /\ n - (m + 1) = k - 1 /\ (k - 1) + 1 = k /\ m <= n
    BY <1>1
  <2>2. NameIn(msg)[at(k)] = [labels |-> sub, end |-> e]
    BY <1>9, <2>1
  <2> HIDE DEF k
  <2>3. /\ l \in Nat \ {0} /\ i \in 1 .. Len(msg) /\ msg[i] = l
        /\ at(k) = i + l + 1 /\ at(k) <= Len(msg)
        /\ \A j \in 1 .. l : msg[i + j] = labels[k][j]
    BY <1>7, <2>1
  <2> HIDE DEF at, l, i, sub
  <2>4. /\ i + msg[i] + 1 = at(k) /\ msg[i] # 0 /\ ~ (at(k) > Len(msg))
        /\ at(k) - 1 = i + l
    <3> DEFINE z == Len(msg)
               x == at(k)
    <3>1. l \in Nat \ {0} /\ i \in 1 .. z /\ z \in Nat /\ x = i + l + 1 /\ x <= z
      BY <1>6, <2>3
    <3>2. msg[i] = l
      BY <2>3
    <3> HIDE DEF z, x
    <3>3. i + l + 1 = x /\ l # 0 /\ ~ (x > z) /\ x - 1 = i + l
      BY <3>1
    <3> QED  BY <3>2, <3>3 DEF z, x
  <2>5. NameIn(msg)[i]
          = [labels |-> <<SubSeq(msg, i + 1, i + l)>> \o sub, end |-> e]
    <3> DEFINE f == NameIn(msg)
    <3>1. f[i] = Reading(f, msg, i)
      BY <1>4, <2>3
    <3> HIDE DEF f
    <3>2. Reading(f, msg, i)
            = [labels |-> <<SubSeq(msg, i + 1, i + l)>> \o f[at(k)].labels,
               end |-> f[at(k)].end]
      BY <2>4 DEF Reading
    <3>3. f[at(k)].labels = sub /\ f[at(k)].end = e
      BY <2>2 DEF f
    <3>4. f[i] = [labels |-> <<SubSeq(msg, i + 1, i + l)>> \o sub, end |-> e]
      BY <3>1, <3>2, <3>3
    <3> QED  BY <3>4 DEF f
  <2>6. SubSeq(msg, i + 1, i + l) = labels[k]
    <3> DEFINE L == labels[k]
               x == SubSeq(msg, i + 1, i + l)
    <3>1. L \in Seq(V) /\ Len(L) = l
      BY <1>1, <2>1 DEF l
    <3>2. i + 1 \in 1 .. Len(msg) + 1 /\ i + l \in i .. Len(msg)
          /\ (i + l) - (i + 1) + 1 = l /\ i + l \in (i + 1) - 1 .. Len(msg)
      <4> DEFINE z == Len(msg)
                 y == at(k)
      <4>1. l \in Nat \ {0} /\ i \in 1 .. z /\ z \in Nat /\ y = i + l + 1 /\ y <= z
        BY <1>6, <2>3
      <4> HIDE DEF z, y
      <4>2. i + 1 \in 1 .. z + 1 /\ i + l \in i .. z
            /\ (i + l) - (i + 1) + 1 = l /\ i + l \in (i + 1) - 1 .. z
        BY <4>1
      <4> QED  BY <4>2 DEF z
    <3>3. x \in Seq(V) /\ Len(x) = l /\ \A j \in 1 .. l : x[j] = msg[(i + 1) + j - 1]
      <4>1. msg \in Seq(V) /\ i + 1 \in 1 .. Len(msg) + 1
            /\ i + l \in (i + 1) - 1 .. Len(msg)
        BY <3>2
      <4> DEFINE a == i + 1
                 b == i + l
      <4>2. b - a + 1 = l
        BY <3>2
      <4> HIDE DEF a, b
      <4>3. /\ SubSeq(msg, a, b) \in Seq(V) /\ Len(SubSeq(msg, a, b)) = b - a + 1
            /\ \A j \in 1 .. b - a + 1 : SubSeq(msg, a, b)[j] = msg[a + j - 1]
        BY ONLY <4>1, PartIs DEF a, b
      <4> QED  BY <4>2, <4>3 DEF a, b
    <3>4. \A j \in 1 .. l : x[j] = L[j]
      <4>1. \A j \in 1 .. l : i + j = (i + 1) + j - 1
        BY <2>3
      <4> QED  BY <2>3, <3>3, <4>1, SMTT(30)
    <3> HIDE DEF x, L
    <3>5. x = L
      BY <3>1, <3>3, <3>4, SeqEqual
    <3> QED  BY <3>5 DEF x, L
  <2>7. <<labels[k]>> \o sub = SubSeq(labels, k, n)
    <3>1. k \in 1 .. Len(labels) /\ n = Len(labels)
      BY <1>1, <2>1
    <3> QED  BY <3>1, HeadOff DEF sub
  <2>8. NameIn(msg)[at(k - 1)] = [labels |-> SubSeq(labels, k, n), end |-> e]
    BY <2>5, <2>6, <2>7 DEF i
  <2> QED  BY <2>1, <2>8
<1>10. Read(0)
  <2>1. Nat \subseteq U
    <3> HIDE DEF U
    <3> QED  BY <1>8, <1>9, SetInduction
  <2>2. n \in Nat /\ n <= n /\ n - n = 0
    BY <1>1
  <2> HIDE DEF Read
  <2>3. n \in U
    BY <2>1, <2>2
  <2>4. Read(n - n)
    BY <2>2, <2>3
  <2> QED  BY <2>2, <2>4
<1>11. at(0) = h + 1 /\ SubSeq(labels, 0 + 1, n) = labels
  <2>1. Len(P[0]) = 0
    BY <1>5
  <2>2. SubSeq(labels, 1, n) = labels
    BY <1>1
  <2> QED  BY <2>1, <2>2
<1> QED
  BY <1>10, <1>11 DEF n, e
-----------------------------------------------------------------------------
(* The names and their encoding *)

\* The names dnsblast asks for have two labels, or four of three digits.
Short(labels) ==
  /\ labels \in Seq(Seq(Nat))
  /\ \/ Len(labels) = 2 /\ \A k \in 1 .. 2 : Len(labels[k]) <= 4
     \/ Len(labels) = 4 /\ \A k \in 1 .. 4 : Len(labels[k]) <= 3

\* The names of hosts: two labels of four and three characters
LEMMA HostsShort ==
  ASSUME NEW n \in Hosts
  PROVE  Short(n) /\ \A k \in 1 .. Len(n) : n[k] # <<>>
<1>1. PICK a \in Chars, b \in Chars, c \in Chars, d \in Chars :
        n = << <<a, b, c, d>>, Com >>
  BY DEF Hosts
<1>2. a \in Nat /\ b \in Nat /\ c \in Nat /\ d \in Nat
  BY QuestionsAssumption
<1> DEFINE x == <<a, b, c, d>>
           y == Com
<1>3. x \in Seq(Nat) /\ Len(x) = 4 /\ x # <<>>
  BY <1>2
<1>4. y \in Seq(Nat) /\ Len(y) = 3 /\ y # <<>>
  BY DEF Com
<1>5. n = <<x, y>>
  BY <1>1
<1> HIDE DEF x, y
<1>6. n \in Seq(Seq(Nat)) /\ Len(n) = 2 /\ n[1] = x /\ n[2] = y
  BY <1>3, <1>4, <1>5
<1>7. ASSUME NEW k \in 1 .. 2 PROVE Len(n[k]) <= 4 /\ n[k] # <<>>
  <2>1. k = 1 \/ k = 2
    OBVIOUS
  <2>2. CASE k = 1
    <3>1. n[k] = x
      BY <1>6, <2>2
    <3>2. Len(x) <= 4 /\ x # <<>>
      BY <1>3
    <3> QED  BY ONLY <3>1, <3>2, Zenon
  <2>3. CASE k = 2
    <3>1. n[k] = y
      BY <1>6, <2>3
    <3>2. Len(y) <= 4 /\ y # <<>>
      BY <1>4
    <3> QED  BY ONLY <3>1, <3>2, Zenon
  <2> QED  BY <2>1, <2>2, <2>3
<1>8. Short(n)
  BY <1>6, <1>7 DEF Short
<1> QED
  BY <1>6, <1>7, <1>8

\* What "%d" makes of an octet
Digits(x) == x \in Seq(Nat) /\ Len(x) <= 3 /\ x # <<>>

\* An octet has one to three digits.
LEMMA DecimalIs ==
  ASSUME NEW n \in 0 .. 255
  PROVE  Digits(Decimal(n))
<1> DEFINE digit(d) == 48 + (d % 10)
<1>1. digit(n) \in Nat /\ digit(n \div 10) \in Nat /\ digit(n \div 100) \in Nat
  OBVIOUS
<1>2. Decimal(n) = IF n < 10 THEN <<digit(n)>>
                   ELSE IF n < 100 THEN <<digit(n \div 10), digit(n)>>
                   ELSE <<digit(n \div 100), digit(n \div 10), digit(n)>>
  BY DEF Decimal
<1> HIDE DEF digit
<1>3. CASE n < 10
  BY <1>1, <1>2, <1>3 DEF Digits
<1>4. CASE ~ (n < 10) /\ n < 100
  BY <1>1, <1>2, <1>4 DEF Digits
<1>5. CASE ~ (n < 10) /\ ~ (n < 100)
  BY <1>1, <1>2, <1>5 DEF Digits
<1> QED
  BY <1>3, <1>4, <1>5

\* The names for PTR: four labels of at most three digits
LEMMA AddressesShort ==
  ASSUME NEW n \in Addresses
  PROVE  Short(n) /\ \A k \in 1 .. Len(n) : n[k] # <<>>
<1>1. PICK a \in OctetValues, b \in OctetValues, c \in OctetValues,
           d \in OctetValues :
        n = <<Decimal(a), Decimal(b), Decimal(c), Decimal(d)>>
  BY DEF Addresses
<1>2. a \in 0 .. 255 /\ b \in 0 .. 255 /\ c \in 0 .. 255 /\ d \in 0 .. 255
  BY QuestionsAssumption
<1>3. Digits(Decimal(a)) /\ Digits(Decimal(b)) /\ Digits(Decimal(c))
      /\ Digits(Decimal(d))
  BY <1>2, DecimalIs
<1> DEFINE w == Decimal(a)
           x == Decimal(b)
           y == Decimal(c)
           z == Decimal(d)
<1>4. n = <<w, x, y, z>> /\ Digits(w) /\ Digits(x) /\ Digits(y) /\ Digits(z)
  BY <1>1, <1>3
<1> HIDE DEF w, x, y, z
<1>5. /\ n \in Seq(Seq(Nat)) /\ Len(n) = 4
      /\ n[1] = w /\ n[2] = x /\ n[3] = y /\ n[4] = z
  BY <1>4 DEF Digits
<1>6. ASSUME NEW k \in 1 .. 4 PROVE Digits(n[k])
  <2>1. k = 1 \/ k = 2 \/ k = 3 \/ k = 4
    OBVIOUS
  <2> QED  BY <1>4, <1>5, <2>1
<1>7. \A k \in 1 .. 4 : Len(n[k]) <= 3 /\ n[k] # <<>>
  BY <1>6 DEF Digits
<1>8. Short(n)
  BY <1>5, <1>7 DEF Short
<1> QED
  BY <1>5, <1>7, <1>8

\* The name main begins with: two empty labels
LEMMA RootShort == Short(Root)
<1>1. <<>> \in Seq(Nat) /\ Len(<<>>) = 0
  OBVIOUS
<1> DEFINE x == <<>>
<1>2. x \in Seq(Nat) /\ Len(x) = 0 /\ Root = <<x, x>>
  BY <1>1 DEF Root
<1> HIDE DEF x
<1>3. Root \in Seq(Seq(Nat)) /\ Len(Root) = 2 /\ Root[1] = x /\ Root[2] = x
  BY <1>2
<1>4. \A k \in 1 .. 2 : k = 1 \/ k = 2
  OBVIOUS
<1> QED
  BY <1>2, <1>3, <1>4 DEF Short

\* encode_name refuses none of them: the room it is told is next to all of
\* what a size_t can hold.
LEMMA ShortEncodable ==
  ASSUME NEW labels, Short(labels)
  PROVE  Encodable(labels)
<1> DEFINE n == Len(labels)
           l(k) == Len(labels[k])
           room(k) == Room(labels)[k]
<1>1. /\ labels \in Seq(Seq(Nat)) /\ n \in {2, 4}
      /\ \A k \in 1 .. n : l(k) \in Nat /\ l(k) <= 4
  <2>1. labels \in Seq(Seq(Nat)) /\ n \in {2, 4}
    BY DEF Short
  <2>2. \A k \in 1 .. n : labels[k] \in Seq(Nat) /\ Len(labels[k]) \in Nat
    BY <2>1
  <2>3. ASSUME NEW k \in 1 .. n PROVE Len(labels[k]) <= 4
    <3>1. CASE n = 2 /\ \A j \in 1 .. 2 : Len(labels[j]) <= 4
      BY <3>1
    <3>2. CASE n = 4 /\ \A j \in 1 .. 4 : Len(labels[j]) <= 3
      <4>1. Len(labels[k]) <= 3 /\ Len(labels[k]) \in Nat
        BY <2>2, <3>2
      <4> QED  BY <4>1
    <3> QED  BY <3>1, <3>2 DEF Short
  <2> QED  BY <2>1, <2>2, <2>3
<1> DEFINE Z == SizeSpace
<1>2. Z \in Nat /\ Z >= 65536 /\ PointerSize \in {4, 8}
  BY QuestionsAssumption
<1>3. /\ room(1) = (SizeofQuestionData - 2 - 1) % Z
      /\ \A k \in 1 .. n : room(k + 1) = (room(k) - (l(k) - 1)) % Z
  BY <1>1, RoomIs
<1> HIDE DEF n, l, room
<1>4. room(1) \in Z - 11 .. Z - 7
  <2> DEFINE x == PointerSize - HeaderSize
             y == SizeofQuestionData - 2 - 1
  <2>1. x \in {-8, -4} /\ x \in Int /\ x \in (0 - Z) .. 0 - 1
    BY <1>2 DEF HeaderSize
  <2>2. SizeofQuestionData = x + Z
    BY <2>1, Unsigned DEF SizeofQuestionData
  <2>3. y \in Z - 11 .. Z - 7 /\ y \in Int /\ y \in 0 .. Z - 1
    BY <1>2, <2>1, <2>2
  <2> HIDE DEF y
  <2>4. y % Z = y
    BY <2>3, Unsigned
  <2> QED  BY <1>3, <2>3, <2>4 DEF y
<1>5. ASSUME NEW k \in 1 .. n, k \in 1 .. 3,
             room(k) \in Z - 8 - 3 * k .. Z - 8 + k
      PROVE  room(k + 1) \in Z - 8 - 3 * (k + 1) .. Z - 8 + (k + 1)
  <2> DEFINE y == room(k) - (l(k) - 1)
  <2>1. l(k) \in Nat /\ l(k) <= 4
    BY <1>1
  <2>2. y \in Z - 8 - 3 * (k + 1) .. Z - 8 + (k + 1) /\ y \in Int
    BY <1>2, <1>5, <2>1
  <2>3. room(k + 1) = y % Z
    BY <1>3
  <2> HIDE DEF y
  <2>4. y \in 0 .. Z - 1
    BY <1>2, <1>5, <2>2
  <2>5. y % Z = y
    BY <2>2, <2>4, Unsigned
  <2> QED  BY <2>2, <2>3, <2>5
<1>6. room(1) \in Z - 8 - 3 * 1 .. Z - 8 + 1 /\ 1 \in 1 .. n /\ 1 + 1 = 2
  BY <1>1, <1>2, <1>4
<1>7. room(2) \in Z - 8 - 3 * 2 .. Z - 8 + 2 /\ 2 \in 1 .. n /\ 2 + 1 = 3
  BY <1>1, <1>5, <1>6
<1>8. n = 4 => /\ room(3) \in Z - 8 - 3 * 3 .. Z - 8 + 3
               /\ room(4) \in Z - 8 - 3 * 4 .. Z - 8 + 4
  <2> SUFFICES ASSUME n = 4
               PROVE  /\ room(3) \in Z - 8 - 3 * 3 .. Z - 8 + 3
                      /\ room(4) \in Z - 8 - 3 * 4 .. Z - 8 + 4
    OBVIOUS
  <2>1. room(3) \in Z - 8 - 3 * 3 .. Z - 8 + 3
    BY <1>5, <1>7
  <2>2. 3 \in 1 .. n /\ 3 + 1 = 4
    OBVIOUS
  <2> QED  BY <1>5, <2>1, <2>2
<1>n. ASSUME NEW k \in 1 .. n PROVE l(k) <= 255 /\ l(k) < room(k)
  <2>1. k = 1 \/ k = 2 \/ (n = 4 /\ k = 3) \/ (n = 4 /\ k = 4)
    BY <1>1
  <2>2. room(k) \in Z - 20 .. Z - 4
    BY <1>2, <1>6, <1>7, <1>8, <2>1
  <2>3. l(k) \in Nat /\ l(k) <= 4
    BY <1>1
  <2> QED  BY <1>2, <2>2, <2>3
<1>9. DOMAIN labels = 1 .. n
  BY <1>1 DEF n
<1> QED
  BY <1>n, <1>9 DEF Encodable, l, room

\* The component of a label is one byte longer than the label.
LEMMA ComponentIs ==
  ASSUME NEW L \in Seq(Nat)
  PROVE  /\ Component(L) \in Seq(Nat) /\ Component(L) = <<Len(L)>> \o L
         /\ Len(Component(L)) = Len(L) + 1 /\ Len(L) \in Nat
<1> DEFINE b == <<Len(L)>>
<1>1. L \in Seq(Nat) /\ Len(L) \in Nat
  OBVIOUS
<1>2. b \in Seq(Nat) /\ Len(b) = 1
  BY <1>1
<1> HIDE DEF b
<1>3. b \o L \in Seq(Nat) /\ Len(b \o L) = 1 + Len(L)
  <2>1. b \o L \in Seq(Nat) /\ Len(b \o L) = Len(b) + Len(L)
    BY <1>1, <1>2, ConcatIs
  <2>2. Len(b) = 1
    BY <1>2
  <2> QED  BY <2>1, <2>2
<1>4. 1 + Len(L) = Len(L) + 1
  BY <1>1
<1>5. Component(L) = b \o L
  BY DEF Component, b
<1> QED  BY <1>1, <1>3, <1>4, <1>5 DEF b

\* The encoding of a name: its components, and a zero; 17 bytes at most.
LEMMA EncodedIs ==
  ASSUME NEW V, V = Nat, NEW labels, Short(labels),
         NEW comps, comps = [k \in DOMAIN labels |-> Component(labels[k])]
  PROVE  /\ comps \in Seq(Seq(V)) /\ Len(comps) = Len(labels)
         /\ \A k \in 1 .. Len(labels) : comps[k] = Component(labels[k])
         /\ \E P : /\ Beginnings(P, comps, V)
                   /\ EncodedName(labels) = P[Len(labels)] \o <<0>>
                   /\ P[Len(labels)] \in Seq(V) /\ Len(P[Len(labels)]) <= 16
<1> DEFINE n == Len(labels)
           l(k) == Len(labels[k])
<1>1. labels \in Seq(Seq(Nat)) /\ n \in {2, 4} /\ DOMAIN labels = 1 .. n
  BY DEF Short
<1>2. ASSUME NEW k \in 1 .. n
      PROVE  /\ Component(labels[k]) \in Seq(V)
             /\ Len(Component(labels[k])) = l(k) + 1 /\ l(k) \in Nat
  <2>1. labels[k] \in Seq(Nat)
    BY <1>1
  <2> QED  BY <2>1, ComponentIs
<1>3. /\ comps \in Seq(Seq(V)) /\ Len(comps) = n
      /\ \A k \in 1 .. n : comps[k] = Component(labels[k])
  <2>1. comps = [k \in 1 .. n |-> Component(labels[k])]
    BY <1>1
  <2>2. n \in Nat
    BY <1>1
  <2> HIDE DEF n
  <2>3. \A k \in 1 .. n : Component(labels[k]) \in Seq(V)
    BY <1>2
  <2>4. comps \in Seq(Seq(V)) /\ Len(comps) = n
    BY <2>1, <2>2, <2>3
  <2> QED  BY <2>1, <2>4
<1>4. comps # <<>>
  <2>1. Len(comps) # 0
    BY <1>1, <1>3
  <2> QED  BY <2>1
<1>5. PICK P : Beginnings(P, comps, V) /\ FlattenSeq(comps) = P[Len(comps)]
  <2>1. comps \in Seq(Seq(V)) /\ comps # <<>>
    BY <1>3, <1>4
  <2> QED  BY ONLY <2>1, FlattenIs
<1>6. EncodedName(labels) = P[n] \o <<0>>
  <2>1. Encodable(labels)
    BY ShortEncodable
  <2>2. EncodedName(labels) = FlattenSeq(comps) \o <<0>>
    BY <2>1 DEF EncodedName
  <2> QED  BY <1>3, <1>5, <2>2
<1>7. /\ \A k \in 0 .. n : P[k] \in Seq(V)
      /\ P[0] = <<>>
      /\ \A k \in 1 .. n : P[k] = P[k - 1] \o comps[k]
  BY <1>3, <1>5 DEF Beginnings
<1> DEFINE q(k) == Len(P[k])
<1>8. ASSUME NEW k \in 1 .. n
      PROVE  q(k) = q(k - 1) + l(k) + 1 /\ q(k - 1) \in Nat /\ l(k) \in Nat
  <2>1. k - 1 \in 0 .. n
    BY <1>1
  <2> DEFINE a == P[k - 1]
             b == comps[k]
             t == Len(labels[k])
  <2>2. a \in Seq(V) /\ b \in Seq(V) /\ P[k] = a \o b /\ Len(b) = t + 1 /\ t \in Nat
    BY <1>2, <1>3, <1>7, <2>1
  <2> HIDE DEF a, b, t
  <2>3. Len(P[k]) = Len(a) + Len(b) /\ Len(a) \in Nat
    <3>1. a \in Seq(V) /\ b \in Seq(V)
      BY <2>2
    <3>2. Len(a \o b) = Len(a) + Len(b) /\ Len(a) \in Nat
      BY ONLY <3>1
    <3> QED  BY <2>2, <3>2
  <2>4. Len(P[k]) = Len(a) + t + 1
    BY <2>2, <2>3
  <2> QED  BY <2>2, <2>3, <2>4 DEF a, t
<1>9. (n = 2 /\ \A k \in 1 .. 2 : l(k) <= 4) \/ (n = 4 /\ \A k \in 1 .. 4 : l(k) <= 3)
  BY DEF Short
<1>10. q(0) = 0
  BY <1>7
<1>11. 1 - 1 = 0 /\ 2 - 1 = 1 /\ 3 - 1 = 2 /\ 4 - 1 = 3
  OBVIOUS
<1> HIDE DEF n, q, l
<1>12. ASSUME n = 2 /\ \A k \in 1 .. 2 : l(k) <= 4 PROVE q(n) <= 16
  <2>1. q(1) = q(0) + l(1) + 1 /\ l(1) \in Nat /\ l(1) <= 4
    BY <1>8, <1>11, <1>12
  <2>2. q(2) = q(1) + l(2) + 1 /\ l(2) \in Nat /\ l(2) <= 4
    BY <1>8, <1>11, <1>12
  <2>3. q(2) <= 10
    BY <1>10, <2>1, <2>2
  <2>4. q(2) <= 16
    BY <1>10, <2>1, <2>2
  <2> QED  BY <1>12, <2>4
<1>13. ASSUME n = 4 /\ \A k \in 1 .. 4 : l(k) <= 3 PROVE q(n) <= 16
  <2>1. q(1) = q(0) + l(1) + 1 /\ l(1) \in Nat /\ l(1) <= 3
    BY <1>8, <1>11, <1>13
  <2>2. q(2) = q(1) + l(2) + 1 /\ l(2) \in Nat /\ l(2) <= 3
    BY <1>8, <1>11, <1>13
  <2>3. q(3) = q(2) + l(3) + 1 /\ l(3) \in Nat /\ l(3) <= 3
    BY <1>8, <1>11, <1>13
  <2>4. q(4) = q(3) + l(4) + 1 /\ l(4) \in Nat /\ l(4) <= 3
    BY <1>8, <1>11, <1>13
  <2>5. q(4) <= 16
    BY <1>10, <2>1, <2>2, <2>3, <2>4
  <2> QED  BY <1>13, <2>5
<1>14. q(n) <= 16
  BY <1>9, <1>12, <1>13
<1>15. P[n] \in Seq(V)
  <2>1. n \in 0 .. n
    BY <1>1
  <2> QED  BY <1>7, <2>1
<1> QED
  BY <1>3, <1>5, <1>6, <1>14, <1>15 DEF n, q

\* None of these names is without labels.
LEMMA ShortNonempty ==
  ASSUME NEW labels, Short(labels)
  PROVE  labels # <<>>
<1>1. Len(labels) # 0
  BY DEF Short
<1> QED  BY <1>1

\* Every name main asks for is short, and "." alone has empty labels.
LEMMA NamesShort ==
  ASSUME name \in Hosts \cup Addresses \cup {Root}
  PROVE  /\ Short(name)
         /\ name # Root => name # <<>> /\ \A k \in 1 .. Len(name) : name[k] # <<>>
<1>1. CASE name \in Hosts
  <2>1. Short(name) /\ \A k \in 1 .. Len(name) : name[k] # <<>>
    BY <1>1, HostsShort
  <2> QED  BY <2>1, ShortNonempty
<1>2. CASE name \in Addresses
  <2>1. Short(name) /\ \A k \in 1 .. Len(name) : name[k] # <<>>
    BY <1>2, AddressesShort
  <2> QED  BY <2>1, ShortNonempty
<1>3. CASE name = Root
  BY <1>3, RootShort
<1> QED
  BY <1>1, <1>2, <1>3

\* A number of one byte in two
LEMMA HtonsIs ==
  ASSUME NEW val \in 0 .. 255
  PROVE  Htons(val) = <<0, val>>
<1>1. val \div 256 = 0 /\ val % 256 = val
  OBVIOUS
<1> QED  BY <1>1 DEF Htons

\* Behind the header: the encoded name, the type and the class.
LEMMA DataIs ==
  ASSUME NEW V, V = Nat, NEW body \in Seq(V), body = EncodedName(name),
         type \in 0 .. 255
  PROVE  /\ Data \in Seq(V) /\ Len(Data) = Len(body) + 4 /\ Len(body) \in Nat
         /\ \A j \in 1 .. Len(body) : Data[j] = body[j]
         /\ Data[Len(body) + 1] = 0 /\ Data[Len(body) + 2] = type
         /\ Data[Len(body) + 3] = 0 /\ Data[Len(body) + 4] = ClassIn
<1> DEFINE t == <<0, type>>
           c == <<0, ClassIn>>
           x == body \o t
           l == Len(body)
<1>1. Data = (body \o t) \o c
  <2>1. ClassIn \in 0 .. 255
    BY DEF ClassIn
  <2>2. Htons(type) = t /\ Htons(ClassIn) = c
    BY <2>1, HtonsIs
  <2> QED  BY <2>2 DEF Data
<1>2. t \in Seq(V) /\ Len(t) = 2 /\ t[1] = 0 /\ t[2] = type
  OBVIOUS
<1>3. c \in Seq(V) /\ Len(c) = 2 /\ c[1] = 0 /\ c[2] = ClassIn
  BY DEF ClassIn
<1> HIDE DEF t, c
<1>4. /\ x \in Seq(V) /\ Len(x) = l + Len(t)
      /\ \A j \in 1 .. l : x[j] = body[j]
      /\ \A j \in 1 .. Len(t) : x[l + j] = t[j]
  <2>1. body \in Seq(V) /\ t \in Seq(V)
    BY <1>2
  <2> QED  BY ONLY <2>1, ConcatIs
<1>5. /\ x \o c \in Seq(V) /\ Len(x \o c) = Len(x) + Len(c)
      /\ \A j \in 1 .. Len(x) : (x \o c)[j] = x[j]
      /\ \A j \in 1 .. Len(c) : (x \o c)[Len(x) + j] = c[j]
  <2>1. x \in Seq(V) /\ c \in Seq(V)
    BY <1>3, <1>4
  <2> HIDE DEF x
  <2> QED  BY ONLY <2>1, ConcatIs
<1>6. Data = x \o c
  BY <1>1
<1>7. l \in Nat
  OBVIOUS
<1> HIDE DEF x, l
<1>8. Data \in Seq(V) /\ Len(Data) = l + 4 /\ Len(x) = l + 2
  <2>1. Len(x) = l + 2
    BY <1>2, <1>4, <1>7
  <2>2. Len(Data) = Len(x) + 2
    BY <1>3, <1>5, <1>6
  <2> QED  BY <1>5, <1>6, <1>7, <2>1, <2>2
<1>9. /\ \A j \in 1 .. l + 2 : Data[j] = x[j]
      /\ Data[l + 3] = 0 /\ Data[l + 4] = ClassIn
  <2>1. 1 \in 1 .. Len(c) /\ 2 \in 1 .. Len(c) /\ Len(x) + 1 = l + 3 /\ Len(x) + 2 = l + 4
    BY <1>3, <1>7, <1>8
  <2>2. Data[Len(x) + 1] = 0 /\ Data[Len(x) + 2] = ClassIn
    BY <1>3, <1>5, <1>6, <2>1
  <2> QED  BY <1>5, <1>6, <1>8, <2>1, <2>2
<1>10. x[l + 1] = 0 /\ x[l + 2] = type
  <2>1. 1 \in 1 .. Len(t) /\ 2 \in 1 .. Len(t)
    BY <1>2
  <2> QED  BY <1>2, <1>4, <2>1
<1>11. \A j \in 1 .. l : Data[j] = body[j]
  <2>1. \A j \in 1 .. l : j \in 1 .. l + 2
    BY <1>7
  <2> QED  BY <1>4, <1>9, <2>1
<1>12. Data[l + 1] = 0 /\ Data[l + 2] = type
  <2>1. l + 1 \in 1 .. l + 2 /\ l + 2 \in 1 .. l + 2
    BY <1>7
  <2> QED  BY <1>9, <1>10, <2>1
<1> QED
  BY <1>7, <1>8, <1>9, <1>11, <1>12 DEF l

\* The packet blast writes: the id, what the header holds, and the question.
LEMMA WrittenIs ==
  ASSUME NEW V, V = Nat, question \in Seq(V),
         Len(question) = HeaderWords + DataSize,
         Data \in Seq(V), Len(Data) <= DataSize, id \in Nat,
         NEW w, w = Written
  PROVE  /\ w \in Seq(V) /\ Len(w) = HeaderWords + Len(Data)
         /\ Len(Data) \in Nat /\ Len(w) <= Len(question)
         /\ w[1] = id
         /\ \A i \in 2 .. HeaderWords : w[i] = question[i]
         /\ \A j \in 1 .. Len(Data) : w[HeaderWords + j] = Data[j]
<1> DEFINE a == <<id>>
           b == SubSeq(question, 2, HeaderWords)
           x == a \o b
           d == Data
<1>1. a \in Seq(V) /\ Len(a) = 1 /\ a[1] = id
  OBVIOUS
<1>2. b \in Seq(V) /\ Len(b) = 5 /\ \A j \in 1 .. 5 : b[j] = question[2 + j - 1]
  <2>1. DataSize \in Nat
    BY QuestionsAssumption
  <2>2. 2 \in 1 .. Len(question) + 1 /\ 6 \in 2 - 1 .. Len(question) /\ 6 - 2 + 1 = 5
    BY <2>1 DEF HeaderWords
  <2>3. b = SubSeq(question, 2, 6)
    BY DEF HeaderWords
  <2> HIDE DEF b
  <2> QED  BY <2>2, <2>3, PartIs, SMTT(30)
<1>3. w = (a \o b) \o d
  BY DEF Written
<1>4. d \in Seq(V) /\ Len(d) \in Nat
  OBVIOUS
<1> HIDE DEF a, b, d
<1>5. /\ x \in Seq(V) /\ Len(x) = Len(a) + Len(b)
      /\ \A j \in 1 .. Len(a) : x[j] = a[j]
      /\ \A j \in 1 .. Len(b) : x[Len(a) + j] = b[j]
  <2>1. a \in Seq(V) /\ b \in Seq(V)
    BY <1>1, <1>2
  <2> QED  BY ONLY <2>1, ConcatIs
<1>6. w = x \o d
  BY <1>3
<1> HIDE DEF x
<1>7. /\ w \in Seq(V) /\ Len(w) = Len(x) + Len(d)
      /\ \A j \in 1 .. Len(x) : w[j] = x[j]
      /\ \A j \in 1 .. Len(d) : w[Len(x) + j] = d[j]
  <2>1. x \in Seq(V) /\ d \in Seq(V) /\ w = x \o d
    BY <1>4, <1>5, <1>6
  <2> QED  BY ONLY <2>1, ConcatIs
<1>8. Len(x) = 6
  BY <1>1, <1>2, <1>5
<1>9. w[1] = id
  <2>1. 1 \in 1 .. Len(a) /\ 1 \in 1 .. Len(x)
    BY <1>1, <1>8
  <2> QED  BY <1>1, <1>5, <1>7, <2>1
<1>10. ASSUME NEW i \in 2 .. 6 PROVE w[i] = question[i]
  <2>1. i - 1 \in 1 .. 5 /\ i \in 1 .. 6 /\ 2 + (i - 1) - 1 = i /\ 1 + (i - 1) = i
    OBVIOUS
  <2>2. w[i] = x[i]
    BY <1>7, <1>8, <2>1
  <2>3. x[1 + (i - 1)] = b[i - 1]
    BY <1>1, <1>2, <1>5, <2>1
  <2>4. b[i - 1] = question[2 + (i - 1) - 1]
    BY <1>2, <2>1
  <2> QED  BY <2>1, <2>2, <2>3, <2>4
<1>11. Len(w) <= Len(question)
  <2>1. DataSize \in Nat
    BY QuestionsAssumption
  <2>2. Len(w) = 6 + Len(d) /\ Len(d) <= DataSize /\ Len(d) \in Nat
    BY <1>4, <1>7, <1>8 DEF d
  <2>3. Len(w) <= 6 + DataSize
    BY <2>1, <2>2
  <2> QED  BY <2>3 DEF HeaderWords
<1>12. HeaderWords = 6
  BY DEF HeaderWords
<1> QED
  BY <1>4, <1>7, <1>8, <1>9, <1>10, <1>11, <1>12 DEF d

\* The buffer a packet is written to keeps its length, and what is behind.
LEMMA BufferIs ==
  ASSUME NEW V, NEW w \in Seq(V), NEW s \in Seq(V), Len(w) <= Len(s)
  PROVE  LET t == w \o SubSeq(s, Len(w) + 1, Len(s))
         IN  /\ t \in Seq(V) /\ Len(t) = Len(s)
             /\ \A i \in 1 .. Len(w) : t[i] = w[i]
<1> DEFINE r == SubSeq(s, Len(w) + 1, Len(s))
           m == Len(w)
           n == Len(s)
<1>1. m \in Nat /\ n \in Nat /\ m <= n
  OBVIOUS
<1>2. r \in Seq(V) /\ Len(r) = n - m
  <2>1. m + 1 \in 1 .. n + 1 /\ n \in (m + 1) - 1 .. n /\ n - (m + 1) + 1 = n - m
    BY <1>1
  <2> QED  BY <2>1, PartIs
<1> HIDE DEF r
<1>3. /\ w \o r \in Seq(V) /\ Len(w \o r) = m + Len(r)
      /\ \A j \in 1 .. m : (w \o r)[j] = w[j]
  BY <1>2, ConcatIs
<1>4. Len(w \o r) = n
  <2> HIDE DEF m, n
  <2> QED  BY <1>1, <1>2, <1>3
<1> QED
  BY <1>3, <1>4 DEF r

\* 16 bits: from the id counted on, the id before is worked out.
LEMMA IdBefore ==
  ASSUME NEW N \in Nat \ {0}, NEW i \in 0 .. N - 1
  PROVE  (i + 1) % N \in 0 .. N - 1 /\ (((i + 1) % N) - 1) % N = i
<1>1. CASE i + 1 < N
  <2>1. (i + 1) % N = i + 1 /\ i % N = i
    BY <1>1
  <2> QED  BY <1>1, <2>1
<1>2. CASE i + 1 = N
  <2>1. (i + 1) % N = 0
    BY <1>2
  <2>2. (0 - 1) % N = N - 1
    OBVIOUS
  <2> QED  BY <1>2, <2>1, <2>2
<1> QED
  BY <1>1, <1>2
-----------------------------------------------------------------------------
(* Type correctness *)

Types == {Weights[k].type : k \in Table}

\* The type of a question is one of the table, whatever rand returns.
LEMMA TypesDrawn ==
  ASSUME NEW rnd \in 0 .. RandMax
  PROVE  TypesFor(rnd) \subseteq Types
<1>1. CASE \E k \in Table : Hit(rnd, k)
  <2>1. Drawn(rnd) \in Table
    BY <1>1, DrawnIs
  <2> QED  BY <2>1 DEF TypesFor, Types
<1>2. CASE ~ \E k \in Table : Hit(rnd, k)
  <2>1. Drawn(rnd) = 0
    BY <1>2 DEF Drawn
  <2> QED  BY <2>1 DEF TypesFor, Types
<1> QED
  BY <1>1, <1>2

\* A type fits one byte.
LEMMA TypesSmall ==
  ASSUME NEW t \in Types \cup {0}
  PROVE  t \in 0 .. 255
<1>1. \A k \in Table : Weights[k].type \in 0 .. 255
  BY WeightsAre
<1> QED  BY <1>1 DEF Types

\* In every state the data is at most what the buffer has for it, and
\* at least the bytes of type and class.
LEMMA DataFits ==
  ASSUME TypeOK, NEW V, V = Nat
  PROVE  Data \in Seq(V) /\ Len(Data) <= DataSize /\ Len(Data) \in Nat
<1>1. Short(name)
  BY NamesShort DEF TypeOK
<1>2. type \in 0 .. 255
  BY TypesSmall DEF TypeOK, Types
<1> DEFINE comps == [k \in DOMAIN name |-> Component(name[k])]
           body == EncodedName(name)
<1>3. PICK P : /\ body = P[Len(name)] \o <<0>>
               /\ P[Len(name)] \in Seq(V) /\ Len(P[Len(name)]) <= 16
  BY <1>1, EncodedIs
<1>4. body \in Seq(V) /\ Len(body) <= 17
  <2> DEFINE q == P[Len(name)]
             z == <<0>>
  <2>1. z \in Seq(V) /\ Len(z) = 1 /\ q \in Seq(V) /\ Len(q) <= 16 /\ Len(q) \in Nat
    BY <1>3
  <2>2. body = q \o z
    BY <1>3
  <2> HIDE DEF q, z, body
  <2>3. body \in Seq(V) /\ Len(body) = Len(q) + Len(z)
    <3>1. q \in Seq(V) /\ z \in Seq(V) /\ body = q \o z
      BY <2>1, <2>2
    <3> QED  BY ONLY <3>1, ConcatIs
  <2> QED  BY <2>1, <2>3
<1>5. Data \in Seq(V) /\ Len(Data) = Len(body) + 4 /\ Len(body) \in Nat
  BY <1>2, <1>4, DataIs
<1>6. DataSize \in Nat /\ DataSize >= 21
  BY QuestionsAssumption
<1> QED
  <2> HIDE DEF body
  <2>1. Len(body) <= 17
    BY <1>4
  <2>2. Len(Data) <= DataSize /\ Len(Data) \in Nat
    BY <1>5, <1>6, <2>1
  <2> QED  BY <1>5, <2>2

\* What Build does to the buffer
LEMMA BuildIs ==
  ASSUME TypeOK, Build, NEW V, V = Nat
  PROVE  /\ question' \in Seq(V) /\ Len(question') = Len(question)
         /\ packet_size' = HeaderWords + Len(Data) /\ packet_size' <= Len(question)
         /\ question'[1] = id
         /\ \A i \in 2 .. HeaderWords : question'[i] = question[i]
         /\ \A j \in 1 .. Len(Data) : question'[HeaderWords + j] = Data[j]
         /\ Data \in Seq(V) /\ Len(Data) \in Nat
<1> DEFINE w == Written
           n == Len(Data)
<1>1. Data \in Seq(V) /\ n <= DataSize /\ n \in Nat
  BY DataFits
<1>2. question \in Seq(V) /\ Len(question) = HeaderWords + DataSize /\ id \in Nat
  BY QuestionsAssumption DEF TypeOK
<1>3. /\ w \in Seq(V) /\ Len(w) = HeaderWords + n /\ Len(w) <= Len(question)
      /\ w[1] = id
      /\ \A i \in 2 .. HeaderWords : w[i] = question[i]
      /\ \A j \in 1 .. n : w[HeaderWords + j] = Data[j]
  BY <1>1, <1>2, WrittenIs
<1>4. /\ question' = w \o SubSeq(question, Len(w) + 1, Len(question))
      /\ packet_size' = Len(w)
  BY DEF Build
<1> HIDE DEF w
<1>5. /\ question' \in Seq(V) /\ Len(question') = Len(question)
      /\ \A i \in 1 .. Len(w) : question'[i] = w[i]
  <2>1. /\ w \in Seq(V) /\ question \in Seq(V) /\ Len(w) <= Len(question)
        /\ question' = w \o SubSeq(question, Len(w) + 1, Len(question))
    BY <1>2, <1>3, <1>4
  <2> QED  BY ONLY <2>1, BufferIs
<1> HIDE DEF n
<1>6. /\ 1 \in 1 .. Len(w)
      /\ \A i \in 2 .. HeaderWords : i \in 1 .. Len(w)
      /\ \A j \in 1 .. n : HeaderWords + j \in 1 .. Len(w)
  BY <1>1, <1>3 DEF HeaderWords
<1> QED
  BY <1>1, <1>3, <1>4, <1>5, <1>6 DEF n

\* The variables have their types when main begins.
LEMMA TypeInit == Init => TypeOK
<1> SUFFICES ASSUME Init PROVE TypeOK
  OBVIOUS
<1>1. SeedModes \subseteq BOOLEAN /\ FuzzModes \subseteq BOOLEAN
      /\ RefuzzMax \in Nat /\ IdSpace \in Nat \ {0} /\ DataSize \in Nat
  BY QuestionsAssumption
<1>2. question \in Seq(Nat) /\ Len(question) = HeaderWords + DataSize
  <2> DEFINE a == <<0, 256, 1, 0, 0, 0>>
             b == [i \in 1 .. DataSize |-> 0]
  <2>1. a \in Seq(Nat) /\ Len(a) = 6
    OBVIOUS
  <2>2. b \in Seq(Nat) /\ Len(b) = DataSize
    BY <1>1
  <2>3. question = a \o b
    BY DEF Init
  <2> HIDE DEF a, b
  <2>4. a \o b \in Seq(Nat) /\ Len(a \o b) = Len(a) + Len(b)
    <3>1. a \in Seq(Nat) /\ b \in Seq(Nat)
      BY <2>1, <2>2
    <3> QED  BY ONLY <3>1, ConcatIs
  <2> QED  BY <2>1, <2>2, <2>3, <2>4 DEF HeaderWords
<1>3. Len(question) \in Nat
  BY <1>2
<1>4. fuzzed \in Seq(1 .. Len(question))
  BY DEF Init
<1> QED
  BY <1>1, <1>2, <1>3, <1>4 DEF Init, TypeOK, flags

\* Every step keeps the types.
LEMMA TypeStep == TypeOK /\ [Next]_vars => TypeOK'
<1> SUFFICES ASSUME TypeOK, [Next]_vars PROVE TypeOK'
  OBVIOUS
<1>1. CASE NewQuestion
  <2>1. type' \in Types
    <3>1. PICK rnd \in 0 .. RandMax : type' \in TypesFor(rnd)
      BY <1>1 DEF NewQuestion
    <3> QED  BY <3>1, TypesDrawn
  <2>2. name' \in Hosts \cup Addresses
    BY <1>1 DEF NewQuestion
  <2> QED  BY <1>1, <2>1, <2>2 DEF NewQuestion, TypeOK, flags, Types
<1>2. CASE Repeat
  BY <1>2 DEF Repeat, TypeOK, flags, asked
<1>3. CASE Build
  <2>1. id' \in 0 .. IdSpace - 1
    <3>1. IdSpace \in Nat \ {0} /\ id \in 0 .. IdSpace - 1
      BY QuestionsAssumption DEF TypeOK
    <3>2. id' = (id + 1) % IdSpace
      BY <1>3 DEF Build, NextId
    <3> QED  BY <3>1, <3>2, IdBefore
  <2> DEFINE V == Nat
  <2>2. V = Nat
    OBVIOUS
  <2> HIDE DEF V
  <2>3. /\ question' \in Seq(V) /\ Len(question') = Len(question)
        /\ packet_size' = HeaderWords + Len(Data) /\ packet_size' <= Len(question)
        /\ Len(Data) \in Nat
    BY <1>3, <2>2, BuildIs
  <2>4. packet_size' \in 0 .. Len(question')
    <3>1. Len(question) \in Nat
      BY DEF TypeOK
    <3> QED  BY <2>3, <3>1 DEF HeaderWords
  <2>5. p' \in 0 .. RefuzzMax /\ pc' \in {"fuzz", "send"}
    <3>1. RefuzzMax \in Nat
      BY QuestionsAssumption
    <3> QED  BY <1>3, <3>1 DEF Build
  <2>6. fuzzed' \in Seq(1 .. Len(question'))
    BY <1>3, <2>3 DEF Build, TypeOK
  <2>7. UNCHANGED <<deterministic, fuzz, first, name, type>>
    BY <1>3 DEF Build, flags, asked
  <2> QED  BY <2>1, <2>2, <2>3, <2>4, <2>5, <2>6, <2>7 DEF TypeOK
<1>4. CASE Fuzz
  <2>1. PICK i \in 1 .. packet_size, v \in FuzzValues :
          /\ question' = [question EXCEPT ![i] = v]
          /\ fuzzed' = Append(fuzzed, i)
    BY <1>4 DEF Fuzz
  <2>2. v \in Nat /\ i \in 1 .. Len(question)
    BY QuestionsAssumption DEF TypeOK
  <2>3. question' \in Seq(Nat) /\ Len(question') = Len(question)
    BY <2>1, <2>2 DEF TypeOK
  <2>4. fuzzed' \in Seq(1 .. Len(question'))
    BY <2>1, <2>2, <2>3 DEF TypeOK
  <2>5. p' \in 0 .. RefuzzMax
    <3>1. RefuzzMax \in Nat /\ p \in 0 .. RefuzzMax
      BY QuestionsAssumption DEF TypeOK
    <3>2. p \div 2 \in 0 .. RefuzzMax
      BY <3>1
    <3> QED  BY <1>4, <3>1, <3>2 DEF Fuzz, Halved
  <2>6. pc' \in {"fuzz", "send"}
    BY <1>4 DEF Fuzz
  <2>7. UNCHANGED <<deterministic, fuzz, first, name, type, id, packet_size>>
    BY <1>4 DEF Fuzz, flags, asked
  <2> QED  BY <2>3, <2>4, <2>5, <2>6, <2>7 DEF TypeOK
<1>5. CASE Send
  <2>1. UNCHANGED <<deterministic, fuzz, first, name, type, id, question, p>>
        /\ pc' = "turn" /\ packet_size' = 0 /\ fuzzed' = <<>>
    BY <1>5 DEF Send, flags, asked
  <2>2. Len(question') \in Nat /\ fuzzed' \in Seq(1 .. Len(question'))
    BY <2>1 DEF TypeOK
  <2> QED  BY <2>1, <2>2 DEF TypeOK
<1>6. CASE UNCHANGED vars
  BY <1>6 DEF vars, TypeOK, flags, asked
<1> QED
  BY <1>1, <1>2, <1>3, <1>4, <1>5, <1>6 DEF Next

\* In every state the variables have their types: the id 16 bits, and what
\* blast writes and sends lies within the buffer.  Nothing in encode_name sees
\* to that, as it is told a room of nearly SizeSpace; it follows from the
\* lengths of the names of hosts and of addresses.
THEOREM TypeCorrect == Spec => []TypeOK
<1> QED  BY TypeInit, TypeStep, PTL DEF Spec

\* The loop of get_random_type gives every type as many numbers of rand as
\* its weight says, whatever the weights are.
THEOREM SharesCorrect == Spec => []SharesAreWeights
<1>1. SharesAreWeights
  BY Shares DEF SharesAreWeights
<1> QED  BY <1>1, PTL
-----------------------------------------------------------------------------
(* How often fuzz writes *)

\* With every write the probability p of another is halved: p times 2 to the
\* number of writes stays at most REFUZZ_PROBABILITY.
BoundInv ==
  /\ pc \in {"turn", "packet"} => fuzzed = <<>>
  /\ pc = "fuzz" => /\ p * Doubled[Len(fuzzed)] <= RefuzzMax
                    /\ fuzzed # <<>> => p > 0
  /\ FuzzBounded

\* Half of x times twice d is at most x times d.
LEMMA HalvedProduct ==
  ASSUME NEW x \in Nat, NEW d \in Nat
  PROVE  (x \div 2) * (2 * d) <= x * d
<1> DEFINE h == x \div 2
<1>1. h \in Nat /\ (x = 2 * h \/ x = 2 * h + 1)
  OBVIOUS
<1> HIDE DEF h
<1>2. h * (2 * d) = 2 * (h * d)
  BY <1>1
<1>3. CASE x = 2 * h
  <2>1. x * d = 2 * (h * d)
    BY <1>1, <1>3
  <2>2. h * (2 * d) <= x * d
    BY <1>1, <1>2, <2>1
  <2> QED  BY <2>2 DEF h
<1>4. CASE x = 2 * h + 1
  <2>1. x * d = 2 * (h * d) + d
    BY <1>1, <1>4
  <2>2. h * d \in Nat
    BY <1>1
  <2>3. h * (2 * d) <= x * d
    BY <1>2, <2>1, <2>2
  <2> QED  BY <2>3 DEF h
<1> QED
  BY <1>1, <1>3, <1>4

\* Every step keeps the bound on the writes of fuzz.
LEMMA BoundStep == TypeOK /\ BoundInv /\ [Next]_vars => BoundInv'
<1> SUFFICES ASSUME TypeOK, BoundInv, [Next]_vars PROVE BoundInv'
  OBVIOUS
<1>1. Len(fuzzed) \in Nat /\ RefuzzMax \in Nat /\ p \in Nat
  BY QuestionsAssumption DEF TypeOK
<1>2. \A n \in Nat : Doubled[n] \in Nat /\ Doubled[n + 1] = 2 * Doubled[n]
  BY DoubledIs
<1>3. CASE NewQuestion \/ Repeat
  <2>1. pc = "turn" /\ pc' = "packet" /\ fuzzed' = fuzzed
    BY <1>3 DEF NewQuestion, Repeat
  <2>2. fuzzed = <<>>
    BY <2>1 DEF BoundInv
  <2> QED  BY <2>1, <2>2 DEF BoundInv, FuzzBounded
<1>4. CASE Build
  <2>1. pc = "packet" /\ pc' \in {"fuzz", "send"} /\ fuzzed' = fuzzed
        /\ (pc' = "fuzz" => p' = RefuzzMax)
    BY <1>4 DEF Build
  <2>2. fuzzed' = <<>>
    BY <2>1 DEF BoundInv
  <2>3. Len(fuzzed') = 0 /\ Doubled[0] = 1
    BY <2>2, DoubledIs
  <2>4. RefuzzMax * 1 = RefuzzMax
    BY <1>1
  <2> QED  BY <1>1, <2>1, <2>2, <2>3, <2>4 DEF BoundInv, FuzzBounded
<1>5. CASE Fuzz
  <2> DEFINE n == Len(fuzzed)
             d == Doubled[n]
             h == p \div 2
  <2>1. p * d <= RefuzzMax /\ (fuzzed # <<>> => p > 0)
    BY <1>5 DEF BoundInv, Fuzz
  <2>2. Len(fuzzed') = n + 1 /\ fuzzed' # <<>>
    <3>1. PICK i : fuzzed' = Append(fuzzed, i)
      BY <1>5 DEF Fuzz
    <3>2. Len(fuzzed') = n + 1
      BY <3>1 DEF TypeOK
    <3> QED  BY <1>1, <3>2
  <2>3. d \in Nat /\ Doubled[n + 1] = 2 * d
    BY <1>1, <1>2
  <2>4. n + 1 > 1 => d <= RefuzzMax
    <3>1. n + 1 > 1 => p > 0
      BY <1>1, <2>1
    <3> HIDE DEF n, d
    <3>2. p > 0 => d <= p * d
      <4> SUFFICES ASSUME p > 0 PROVE d <= p * d
        OBVIOUS
      <4>1. p - 1 \in Nat /\ p * d = (p - 1) * d + d
        BY <1>1, <2>3
      <4>2. (p - 1) * d \in Nat
        BY <2>3, <4>1
      <4> QED  BY <2>3, <4>1, <4>2
    <3>3. p * d \in Nat
      BY <1>1, <2>3
    <3> QED  BY <1>1, <2>1, <2>3, <3>1, <3>2, <3>3
  <2>5. FuzzBounded'
    <3>1. Len(fuzzed') - 1 = n
      BY <1>1, <2>2
    <3> QED  BY <2>2, <2>4, <3>1 DEF FuzzBounded
  <2>6. CASE pc' = "fuzz"
    <3>1. p' = h /\ h > 0
      BY <1>5, <2>6 DEF Fuzz, Halved
    <3>2. h * (2 * d) <= p * d
      BY <1>1, <2>3, HalvedProduct
    <3>3. h * (2 * d) <= RefuzzMax
      <4>1. h * (2 * d) \in Int /\ p * d \in Int
        BY <1>1, <2>3
      <4> QED  BY <1>1, <2>1, <3>2, <4>1
    <3> HIDE DEF h, d, n
    <3>4. p' * Doubled[Len(fuzzed')] <= RefuzzMax
      BY <2>2, <2>3, <3>1, <3>3
    <3> QED  BY <2>5, <2>6, <3>1, <3>4 DEF BoundInv
  <2>7. CASE pc' # "fuzz"
    <3>1. pc' = "send"
      BY <1>5, <2>7 DEF Fuzz
    <3> QED  BY <2>5, <3>1 DEF BoundInv
  <2> QED  BY <2>6, <2>7
<1>6. CASE Send
  <2>1. pc' = "turn" /\ fuzzed' = <<>>
    BY <1>6 DEF Send
  <2> QED  BY <2>1 DEF BoundInv, FuzzBounded
<1>7. CASE UNCHANGED vars
  BY <1>7 DEF vars, BoundInv, FuzzBounded
<1> QED
  BY <1>3, <1>4, <1>5, <1>6, <1>7 DEF Next

\* fuzz ends whatever rand returns: n writes to one packet take a
\* REFUZZ_PROBABILITY of at least 2 to the n - 1.
THEOREM FuzzBoundedCorrect == Spec => []FuzzBounded
<1>1. Init => BoundInv
  BY DEF Init, BoundInv, FuzzBounded
<1>2. BoundInv => FuzzBounded
  BY DEF BoundInv
<1> QED
  BY <1>1, <1>2, BoundStep, TypeCorrect, PTL DEF Spec
-----------------------------------------------------------------------------
(* What is in the packet *)

\* The flags and counts init_context puts into the header
HeaderFlags == <<256, 1, 0, 0, 0>>

\* What blast puts into the i-th cell of the packet
Cell(i) == IF i = 1 THEN (id - 1) % IdSpace
           ELSE IF i \in 2 .. HeaderWords THEN HeaderFlags[i - 1]
           ELSE Data[i - HeaderWords]

\* The i-th cell is as blast left it, or fuzz has been there.
CellOK(i) ==
  \/ i \in 2 .. HeaderWords /\ fuzz
  \/ \E k \in DOMAIN fuzzed : fuzzed[k] = i
  \/ question[i] = Cell(i)

\* Without -f the header keeps its flags and counts, and fuzz does not run.
\* A packet that has been written has its whole length and its cells.
PacketInv ==
  /\ ~fuzz => /\ fuzzed = <<>> /\ pc # "fuzz"
              /\ \A i \in 2 .. HeaderWords : question[i] = HeaderFlags[i - 1]
  /\ pc \in {"fuzz", "send"} =>
       /\ packet_size = HeaderWords + Len(Data)
       /\ \A i \in 1 .. packet_size : CellOK(i)

\* The buffer init_context lays out
LEMMA PacketInit == Init => PacketInv
<1> SUFFICES ASSUME Init PROVE PacketInv
  OBVIOUS
<1>1. \A i \in 2 .. HeaderWords : question[i] = HeaderFlags[i - 1]
  <2> DEFINE a == <<0, 256, 1, 0, 0, 0>>
             b == [i \in 1 .. DataSize |-> 0]
  <2>1. a \in Seq(Nat) /\ Len(a) = 6
    OBVIOUS
  <2>2. b \in Seq(Nat)
    BY QuestionsAssumption
  <2>3. \A i \in 2 .. 6 : a[i] = HeaderFlags[i - 1]
    <3>1. ASSUME NEW i \in 2 .. 6 PROVE a[i] = HeaderFlags[i - 1]
      <4>1. i = 2 \/ i = 3 \/ i = 4 \/ i = 5 \/ i = 6
        OBVIOUS
      <4> QED  BY <4>1 DEF HeaderFlags
    <3> QED  BY <3>1
  <2>4. question = a \o b
    BY DEF Init
  <2> HIDE DEF a, b
  <2>5. \A i \in 1 .. Len(a) : (a \o b)[i] = a[i]
    <3>1. a \in Seq(Nat) /\ b \in Seq(Nat)
      BY <2>1, <2>2
    <3> QED  BY ONLY <3>1, ConcatIs
  <2>6. \A i \in 2 .. HeaderWords : i \in 2 .. 6 /\ i \in 1 .. Len(a)
    BY <2>1 DEF HeaderWords
  <2> QED  BY <2>3, <2>4, <2>5, <2>6
<1> QED
  BY <1>1 DEF Init, PacketInv

\* Every step keeps the cells: Build makes them, Fuzz says where it has been.
LEMMA PacketStep == TypeOK /\ BoundInv /\ PacketInv /\ [Next]_vars => PacketInv'
<1> SUFFICES ASSUME TypeOK, BoundInv, PacketInv, [Next]_vars PROVE PacketInv'
  OBVIOUS
<1>1. CASE NewQuestion \/ Repeat
  <2>1. pc' = "packet" /\ UNCHANGED <<fuzz, fuzzed, question>>
    BY <1>1 DEF NewQuestion, Repeat, flags
  <2> QED  BY <2>1 DEF PacketInv
<1>2. CASE Build
  <2> DEFINE V == Nat
             n == Len(Data)
  <2>1. V = Nat
    OBVIOUS
  <2> HIDE DEF V
  <2>2. /\ packet_size' = HeaderWords + n
        /\ question'[1] = id
        /\ \A i \in 2 .. HeaderWords : question'[i] = question[i]
        /\ \A j \in 1 .. n : question'[HeaderWords + j] = Data[j]
        /\ n \in Nat
    BY <1>2, <2>1, BuildIs
  <2>3. /\ UNCHANGED <<fuzz, fuzzed, name, type>> /\ fuzzed = <<>>
        /\ pc' = IF fuzz THEN "fuzz" ELSE "send"
    BY <1>2 DEF Build, flags, asked, BoundInv
  <2>4. Data' = Data
    BY <2>3 DEF Data
  <2>5. (id' - 1) % IdSpace = id
    <3>1. IdSpace \in Nat \ {0} /\ id \in 0 .. IdSpace - 1
      BY QuestionsAssumption DEF TypeOK
    <3>2. id' = (id + 1) % IdSpace
      BY <1>2 DEF Build, NextId
    <3> QED  BY <3>1, <3>2, IdBefore
  <2> HIDE DEF n
  <2>6. ASSUME NEW i \in 1 .. packet_size' PROVE CellOK(i)'
    <3>1. CASE i = 1
      BY <2>2, <2>5, <3>1 DEF CellOK, Cell
    <3>2. CASE i \in 2 .. HeaderWords
      <4>1. ~fuzz => question'[i] = HeaderFlags[i - 1]
        BY <2>2, <3>2 DEF PacketInv
      <4>2. i # 1
        BY <3>2
      <4> QED  BY <2>3, <3>2, <4>1, <4>2 DEF CellOK, Cell
    <3>3. CASE i # 1 /\ i \notin 2 .. HeaderWords
      <4>1. i - HeaderWords \in 1 .. n /\ HeaderWords + (i - HeaderWords) = i
        BY <2>2, <3>3 DEF HeaderWords
      <4>2. question'[i] = Data[i - HeaderWords]
        BY <2>2, <4>1
      <4> QED  BY <2>4, <3>3, <4>2 DEF CellOK, Cell
    <3> QED  BY <3>1, <3>2, <3>3
  <2>7. ~fuzz' => /\ fuzzed' = <<>> /\ pc' # "fuzz"
                  /\ \A i \in 2 .. HeaderWords : question'[i] = HeaderFlags[i - 1]
    BY <2>2, <2>3 DEF PacketInv
  <2>8. packet_size' = HeaderWords + Len(Data')
    BY <2>2, <2>4 DEF n
  <2> QED  BY <2>6, <2>7, <2>8 DEF PacketInv
<1>3. CASE Fuzz
  <2>1. PICK i \in 1 .. packet_size, v \in FuzzValues :
          /\ question' = [question EXCEPT ![i] = v]
          /\ fuzzed' = Append(fuzzed, i)
    BY <1>3 DEF Fuzz
  <2>2. UNCHANGED <<fuzz, name, type, id, packet_size>> /\ pc = "fuzz"
    BY <1>3 DEF Fuzz, flags, asked
  <2>3. Data' = Data
    BY <2>2 DEF Data
  <2>4. fuzz
    BY <2>2 DEF PacketInv
  <2>5. /\ \A k \in DOMAIN fuzzed : k \in DOMAIN fuzzed' /\ fuzzed'[k] = fuzzed[k]
        /\ Len(fuzzed) + 1 \in DOMAIN fuzzed' /\ fuzzed'[Len(fuzzed) + 1] = i
    BY <2>1, SMTT(30) DEF TypeOK
  <2>6. ASSUME NEW j \in 1 .. packet_size' PROVE CellOK(j)'
    <3>1. CellOK(j)
      BY <2>2 DEF PacketInv
    <3>2. CASE j = i
      BY <2>5, <3>2 DEF CellOK
    <3>3. CASE j # i
      <4>1. question'[j] = question[j]
        <5>1. question \in Seq(Nat)
          BY DEF TypeOK
        <5> QED  BY <2>1, <3>3, <5>1
      <4>2. Cell(j)' = Cell(j)
        BY <2>2, <2>3 DEF Cell
      <4>3. (\E k \in DOMAIN fuzzed : fuzzed[k] = j)
              => \E k \in DOMAIN fuzzed' : fuzzed'[k] = j
        BY <2>5
      <4> QED  BY <2>2, <3>1, <4>1, <4>2, <4>3 DEF CellOK
    <3> QED  BY <3>2, <3>3
  <2>7. packet_size' = HeaderWords + Len(Data')
    BY <2>2, <2>3 DEF PacketInv
  <2> QED  BY <2>2, <2>4, <2>6, <2>7 DEF PacketInv
<1>4. CASE Send
  <2>1. pc' = "turn" /\ fuzzed' = <<>> /\ UNCHANGED <<fuzz, question>>
    BY <1>4 DEF Send, flags
  <2> QED  BY <2>1 DEF PacketInv
<1>5. CASE UNCHANGED vars
  <2>1. UNCHANGED <<pc, fuzz, name, type, id, question, packet_size, fuzzed>>
    BY <1>5 DEF vars, flags, asked
  <2>2. Data' = Data
    BY <2>1 DEF Data
  <2>3. \A i : CellOK(i)' <=> CellOK(i)
    BY <2>1, <2>2 DEF CellOK, Cell
  <2> QED  BY <2>1, <2>2, <2>3 DEF PacketInv
<1> QED
  BY <1>1, <1>2, <1>3, <1>4, <1>5 DEF Next

\* The three together are inductive.
LEMMA PacketCorrect == Spec => [](TypeOK /\ BoundInv /\ PacketInv)
<1>1. Init => TypeOK /\ BoundInv /\ PacketInv
  BY TypeInit, PacketInit DEF Init, BoundInv, FuzzBounded
<1>2. TypeOK /\ BoundInv /\ PacketInv /\ [Next]_vars
        => (TypeOK /\ BoundInv /\ PacketInv)'
  BY TypeStep, BoundStep, PacketStep
<1> QED
  BY <1>1, <1>2, PTL DEF Spec

\* What a packet is, cell by cell
LEMMA PacketIs ==
  ASSUME TypeOK
  PROVE  /\ Packet \in Seq(Nat) /\ Len(Packet) = packet_size
         /\ \A i \in 1 .. packet_size : Packet[i] = question[i]
<1>1. question \in Seq(Nat) /\ packet_size \in 0 .. Len(question)
  BY DEF TypeOK
<1> QED  BY <1>1 DEF Packet

\* What fuzz did to a packet reaches later ones only in the flags and counts
\* of the header, which blast does not write.
THEOREM FuzzStaysInHeaderCorrect == Spec => []FuzzStaysInHeader
<1>1. TypeOK /\ PacketInv => FuzzStaysInHeader
  <2> SUFFICES ASSUME TypeOK, PacketInv, pc \in {"fuzz", "send"},
                      NEW i \in 1 .. packet_size
               PROVE  \/ i \in 2 .. HeaderWords /\ fuzz
                      \/ \E k \in DOMAIN fuzzed : fuzzed[k] = i
                      \/ Packet[i] =
                           CASE i = 1 -> (id - 1) % IdSpace
                             [] i \in 2 .. HeaderWords -> <<256, 1, 0, 0, 0>>[i - 1]
                             [] OTHER -> Data[i - HeaderWords]
    BY DEF FuzzStaysInHeader
  <2>1. CellOK(i)
    BY DEF PacketInv
  <2>2. Packet[i] = question[i]
    BY PacketIs
  <2>3. Cell(i) = CASE i = 1 -> (id - 1) % IdSpace
                    [] i \in 2 .. HeaderWords -> <<256, 1, 0, 0, 0>>[i - 1]
                    [] OTHER -> Data[i - HeaderWords]
    BY DEF Cell, HeaderFlags
  <2> QED  BY <2>1, <2>2, <2>3 DEF CellOK
<1> QED
  BY <1>1, PacketCorrect, PTL

\* A packet nothing but blast has written to, and what is read from it
LEMMA ReadsBack ==
  ASSUME TypeOK, name # Root, packet_size = HeaderWords + Len(Data),
         \A i \in 1 .. packet_size : Packet[i] = Cell(i)
  PROVE  LET read == NameIn(Packet)[HeaderWords + 1]
         IN  /\ Packet[1] = (id - 1) % IdSpace
             /\ SubSeq(Packet, 2, HeaderWords) = <<256, 1, 0, 0, 0>>
             /\ read.labels = name
             /\ SubSeq(Packet, read.end + 1, packet_size)
                  = <<0, type, 0, ClassIn>>
<1> DEFINE V == Nat
           comps == [k \in DOMAIN name |-> Component(name[k])]
           msg == Packet
           n == Len(Data)
<1>v. V = Nat /\ V \subseteq Nat /\ Nat \subseteq V
  OBVIOUS
<1> HIDE DEF V
<1>1. Short(name) /\ name # <<>> /\ \A k \in 1 .. Len(name) : name[k] # <<>>
  BY NamesShort DEF TypeOK
<1>2. /\ comps \in Seq(Seq(V)) /\ Len(comps) = Len(name)
      /\ \A k \in 1 .. Len(name) : comps[k] = Component(name[k])
      /\ \E P : /\ Beginnings(P, comps, V)
                /\ EncodedName(name) = P[Len(name)] \o <<0>>
                /\ P[Len(name)] \in Seq(V) /\ Len(P[Len(name)]) <= 16
  BY <1>v, <1>1, EncodedIs
<1> HIDE DEF comps
<1>3. PICK P : /\ Beginnings(P, comps, V)
               /\ EncodedName(name) = P[Len(name)] \o <<0>>
               /\ P[Len(name)] \in Seq(V)
  BY <1>2
<1> DEFINE whole == P[Len(comps)]
           body == EncodedName(name)
           z == <<0>>
           l == Len(whole)
<1>4. whole \in Seq(V) /\ body = whole \o z /\ l \in Nat
  <2>1. P[Len(comps)] = P[Len(name)]
    BY <1>2
  <2> QED  BY <1>3, <2>1
<1>5. z \in Seq(V) /\ Len(z) = 1 /\ z[1] = 0
  BY <1>v
<1> HIDE DEF whole, z
<1>6. /\ body \in Seq(V) /\ Len(body) = l + Len(z)
      /\ \A j \in 1 .. l : body[j] = whole[j]
      /\ \A j \in 1 .. Len(z) : body[l + j] = z[j]
  <2>1. whole \in Seq(V) /\ z \in Seq(V) /\ body = whole \o z
    BY <1>4, <1>5
  <2> HIDE DEF body
  <2> QED  BY ONLY <2>1, ConcatIs DEF l
<1>7. type \in 0 .. 255
  BY TypesSmall DEF TypeOK, Types
<1> HIDE DEF l
<1>8. /\ Data \in Seq(V) /\ n = Len(body) + 4 /\ Len(body) \in Nat
      /\ \A j \in 1 .. Len(body) : Data[j] = body[j]
      /\ Data[Len(body) + 1] = 0 /\ Data[Len(body) + 2] = type
      /\ Data[Len(body) + 3] = 0 /\ Data[Len(body) + 4] = ClassIn
  BY <1>v, <1>6, <1>7, DataIs
<1> HIDE DEF body, n
<1>9. Len(body) = l + 1 /\ n = l + 5 /\ packet_size = l + 11
  <2>1. Len(body) = l + 1
    BY <1>5, <1>6
  <2>2. n = l + 5
    BY <1>4, <1>8, <2>1
  <2>3. packet_size = 6 + n
    BY DEF n, HeaderWords
  <2> QED  BY <1>4, <2>1, <2>2, <2>3
<1>10. /\ \A j \in 1 .. l : Data[j] = whole[j]
       /\ Data[l + 1] = 0 /\ Data[l + 2] = 0 /\ Data[l + 3] = type
       /\ Data[l + 4] = 0 /\ Data[l + 5] = ClassIn
  <2>1. \A j \in 1 .. l : Data[j] = whole[j]
    <3>1. \A j \in 1 .. l : j \in 1 .. Len(body)
      BY <1>4, <1>9
    <3> QED  BY <1>6, <1>8, <3>1
  <2>2. Data[l + 1] = 0
    <3>1. 1 \in 1 .. Len(z) /\ l + 1 \in 1 .. Len(body)
      BY <1>4, <1>5, <1>9
    <3> QED  BY <1>5, <1>6, <1>8, <3>1
  <2>3. /\ Len(body) + 1 = l + 2 /\ Len(body) + 2 = l + 3
        /\ Len(body) + 3 = l + 4 /\ Len(body) + 4 = l + 5
    BY <1>4, <1>9
  <2> QED  BY <1>8, <2>1, <2>2, <2>3
<1>11. /\ msg \in Seq(V) /\ Len(msg) = l + 11
       /\ \A i \in 1 .. l + 11 : msg[i] = Cell(i)
  BY <1>v, <1>9, PacketIs
<1> HIDE DEF msg
<1>12. ASSUME NEW j \in 1 .. l + 5 PROVE msg[6 + j] = Data[j]
  <2>1. 6 + j \in 1 .. l + 11 /\ 6 + j # 1 /\ 6 + j \notin 2 .. 6 /\ (6 + j) - 6 = j
    BY <1>4
  <2>2. Cell(6 + j) = Data[(6 + j) - 6]
    BY <2>1 DEF Cell, HeaderWords
  <2> QED  BY <1>11, <2>1, <2>2
<1>13. msg[1] = (id - 1) % IdSpace
  <2>1. 1 \in 1 .. l + 11
    BY <1>4
  <2> QED  BY <1>11, <2>1 DEF Cell
<1>14. SubSeq(msg, 2, HeaderWords) = <<256, 1, 0, 0, 0>>
  <2>1. 2 \in 1 .. Len(msg) + 1 /\ 6 \in 2 - 1 .. Len(msg) /\ 6 - 2 + 1 = 5
    BY <1>4, <1>11
  <2> DEFINE x == SubSeq(msg, 2, 6)
             y == <<256, 1, 0, 0, 0>>
  <2>2. x \in Seq(V) /\ Len(x) = 5 /\ \A j \in 1 .. 5 : x[j] = msg[2 + j - 1]
    BY <1>11, <2>1, PartIs
  <2>3. y \in Seq(V) /\ Len(y) = 5 /\ y = HeaderFlags
    BY <1>v DEF HeaderFlags
  <2> HIDE DEF x, y
  <2>4. ASSUME NEW j \in 1 .. 5 PROVE x[j] = y[j]
    <3>1. /\ 2 + j - 1 \in 1 .. l + 11 /\ 2 + j - 1 # 1
          /\ 2 + j - 1 \in 2 .. HeaderWords /\ (2 + j - 1) - 1 = j
      BY <1>4 DEF HeaderWords
    <3>2. Cell(2 + j - 1) = HeaderFlags[(2 + j - 1) - 1]
      BY <3>1 DEF Cell
    <3> QED  BY <1>11, <2>2, <2>3, <3>1, <3>2
  <2>5. x = y
    BY <2>2, <2>3, <2>4, SeqEqual
  <2> QED  BY <2>5 DEF x, y, HeaderWords
<1>15. NameIn(msg)[6 + 1] = [labels |-> name, end |-> 6 + l + 1]
  <2>1. name \in Seq(Seq(V))
    BY <1>v, <1>1 DEF Short
  <2>2. 6 \in Nat /\ 6 + l + 1 <= Len(msg)
    BY <1>4, <1>11
  <2>3. \A j \in 1 .. l : msg[6 + j] = whole[j]
    <3>1. \A j \in 1 .. l : j \in 1 .. l + 5
      BY <1>4
    <3> QED  BY <1>10, <1>12, <3>1
  <2>4. msg[6 + l + 1] = 0
    <3>1. l + 1 \in 1 .. l + 5 /\ 6 + (l + 1) = 6 + l + 1
      BY <1>4
    <3> QED  BY <1>10, <1>12, <3>1
  <2> DEFINE h == 6
  <2>5. LaidOut(V, name, comps, P, whole, msg, h)
    BY <1>v, <1>1, <1>2, <1>3, <1>11, <2>1, <2>2, <2>3, <2>4
       DEF l, whole, LaidOut
  <2> HIDE DEF h
  <2>6. NameIn(msg)[h + 1] = [labels |-> name, end |-> h + Len(whole) + 1]
    BY ONLY <2>5, ReadBack
  <2> QED  BY <2>6 DEF l, h
<1> DEFINE read == NameIn(msg)[HeaderWords + 1]
<1>16. read.labels = name /\ read.end = l + 7
  <2>1. read = [labels |-> name, end |-> 6 + l + 1]
    BY <1>15 DEF HeaderWords
  <2> HIDE DEF read
  <2>2. 6 + l + 1 = l + 7
    BY <1>4
  <2> QED  BY <2>1, <2>2
<1> HIDE DEF read
<1>17. SubSeq(msg, read.end + 1, packet_size) = <<0, type, 0, ClassIn>>
  <2> DEFINE x == SubSeq(msg, l + 8, l + 11)
             y == <<0, type, 0, ClassIn>>
  <2>1. /\ l + 8 \in 1 .. Len(msg) + 1 /\ l + 11 \in (l + 8) - 1 .. Len(msg)
        /\ (l + 11) - (l + 8) + 1 = 4
    BY <1>4, <1>11
  <2>2. x \in Seq(V) /\ Len(x) = 4 /\ \A j \in 1 .. 4 : x[j] = msg[(l + 8) + j - 1]
    <3> DEFINE a == l + 8
               b == l + 11
    <3>1. msg \in Seq(V) /\ a \in 1 .. Len(msg) + 1 /\ b \in a - 1 .. Len(msg)
      BY <1>11, <2>1
    <3>2. b - a + 1 = 4
      BY <2>1
    <3> HIDE DEF a, b
    <3>3. /\ SubSeq(msg, a, b) \in Seq(V) /\ Len(SubSeq(msg, a, b)) = b - a + 1
          /\ \A j \in 1 .. b - a + 1 : SubSeq(msg, a, b)[j] = msg[a + j - 1]
      BY ONLY <3>1, PartIs
    <3> QED  BY <3>2, <3>3 DEF a, b
  <2>3. y \in Seq(V) /\ Len(y) = 4 /\ y[1] = 0 /\ y[2] = type /\ y[3] = 0
        /\ y[4] = ClassIn
    BY <1>v, <1>7 DEF ClassIn
  <2> HIDE DEF x, y
  <2>4. ASSUME NEW j \in 1 .. 4 PROVE x[j] = y[j]
    <3>1. /\ l + 1 + j \in 1 .. l + 5 /\ 6 + (l + 1 + j) = (l + 8) + j - 1
      BY <1>4
    <3>2. x[j] = Data[l + 1 + j]
      BY <1>12, <2>2, <3>1
    <3>3. j = 1 \/ j = 2 \/ j = 3 \/ j = 4
      OBVIOUS
    <3>4. l + 1 + 1 = l + 2 /\ l + 1 + 2 = l + 3 /\ l + 1 + 3 = l + 4 /\ l + 1 + 4 = l + 5
      BY <1>4
    <3> QED  BY <1>10, <2>3, <3>2, <3>3, <3>4
  <2>5. x = y
    BY <2>2, <2>3, <2>4, SeqEqual
  <2>6. read.end + 1 = l + 8
    BY <1>4, <1>16
  <2> QED  BY <1>9, <2>5, <2>6 DEF x, y
<1> QED
  BY <1>13, <1>14, <1>16, <1>17 DEF msg, read

\* Without -f a resolver reads from every packet just the question that was
\* drawn, whatever longer packets the buffer has held before.
THEOREM ReadAsDrawnCorrect == Spec => []ReadAsDrawn
<1>1. TypeOK /\ PacketInv => ReadAsDrawn
  <2> SUFFICES ASSUME TypeOK, PacketInv, pc = "send", ~fuzz, name # Root
               PROVE  LET read == NameIn(Packet)[HeaderWords + 1]
                      IN  /\ Packet[1] = (id - 1) % IdSpace
                          /\ SubSeq(Packet, 2, HeaderWords) = <<256, 1, 0, 0, 0>>
                          /\ read.labels = name
                          /\ SubSeq(Packet, read.end + 1, packet_size)
                               = <<0, type, 0, ClassIn>>
    BY DEF ReadAsDrawn
  <2>1. packet_size = HeaderWords + Len(Data)
    BY DEF PacketInv
  <2>2. ASSUME NEW i \in 1 .. packet_size PROVE Packet[i] = Cell(i)
    <3>1. CellOK(i) /\ fuzzed = <<>>
      BY DEF PacketInv
    <3>2. question[i] = Cell(i)
      BY <3>1 DEF CellOK
    <3> QED  BY <3>2, PacketIs
  <2> QED  BY <2>1, <2>2, ReadsBack
<1> QED
  BY <1>1, PacketCorrect, PTL
=============================================================================
