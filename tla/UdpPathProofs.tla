--------------------------- MODULE UdpPathProofs ---------------------------
(***************************************************************************)
(* What receive can rely on although it looks at no id: as long as the     *)
(* path makes no copy, every query is in one place at most, and is counted *)
(* once at most.  The argument is about the path alone, and is used for    *)
(* both programs.                                                          *)
(***************************************************************************)
EXTENDS UdpPath, FiniteSets, FiniteSetTheorems, TLAPS

\* Of the queries 1 .. sent, those in seen have been counted; every other one
\* is once on the way, or once in the socket, or nowhere.
Once(w, q, sent, seen) ==
  /\ seen \subseteq 1 .. sent
  /\ \A m \in w : m.n \in (1 .. sent) \ seen
  /\ \A a, b \in w : a.n = b.n => a = b
  /\ \A i \in 1 .. Len(q) : q[i].n \in (1 .. sent) \ seen
  /\ \A i, j \in 1 .. Len(q) : q[i].n = q[j].n => i = j
  /\ \A m \in w, i \in 1 .. Len(q) : m.n # q[i].n

\* sendto: the next query goes out.
LEMMA OnceSent ==
  ASSUME NEW w, NEW q \in Seq(Datagrams), NEW sent \in Nat, NEW seen,
         Once(w, q, sent, seen), NEW m \in Datagrams, m.n = sent + 1
  PROVE  Once(w \cup {m}, q, sent + 1, seen)
<1>1. sent + 1 \in 1 .. sent + 1 /\ sent + 1 \notin 1 .. sent
  OBVIOUS
<1>2. \A k \in 1 .. sent : k \in 1 .. sent + 1 /\ k # sent + 1
  OBVIOUS
<1> HIDE DEF Datagrams
<1> QED
  BY <1>1, <1>2 DEF Once

\* A datagram leaves the path, into a buffer or for good.
LEMMA OnceLost ==
  ASSUME NEW w, NEW q, NEW sent, NEW seen, Once(w, q, sent, seen), NEW m
  PROVE  Once(w \ {m}, q, sent, seen)
BY DEF Once

LEMMA OnceDelivered ==
  ASSUME NEW w, NEW q \in Seq(Datagrams), NEW sent, NEW seen,
         Once(w, q, sent, seen), NEW m \in w, m \in Datagrams
  PROVE  Once(w \ {m}, Append(q, m), sent, seen)
<1> DEFINE p == Append(q, m)
           l == Len(q)
<1>1. l \in Nat /\ Len(p) = l + 1 /\ p[l + 1] = m
  OBVIOUS
<1>2. \A i \in 1 .. l : p[i] = q[i]
  OBVIOUS
<1>3. \A i \in 1 .. l + 1 : i \in 1 .. l \/ i = l + 1
  BY <1>1
<1> HIDE DEF p, l
<1>4. \A i \in 1 .. l : q[i].n \in (1 .. sent) \ seen /\ m.n # q[i].n
  BY DEF Once, l
<1>5. \A i \in 1 .. Len(p) : p[i].n \in (1 .. sent) \ seen
  BY <1>1, <1>2, <1>3, <1>4 DEF Once
<1>6. \A i, j \in 1 .. Len(p) : p[i].n = p[j].n => i = j
  BY <1>1, <1>2, <1>3, <1>4 DEF Once, l
<1>7. \A a \in w \ {m}, i \in 1 .. Len(p) : a.n # p[i].n
  BY <1>1, <1>2, <1>3 DEF Once, l
<1> QED
  BY <1>5, <1>6, <1>7 DEF Once, p

\* The network and the resolver
LEMMA OncePath ==
  ASSUME PathTypeOK, PathNext, dups' = 0, NEW sent, NEW seen,
         dups = 0 => Once(wire, rcvbuf, sent, seen)
  PROVE  Once(wire', rcvbuf', sent, seen)
<1>1. PICK m \in wire : Deliver(m) \/ Lose(m) \/ Duplicate(m)
  BY DEF PathNext
<1>2. dups \in Nat /\ rcvbuf \in Seq(Datagrams) /\ m \in Datagrams
  BY DEF PathTypeOK
<1>3. ~Duplicate(m)
  BY <1>2 DEF Duplicate
<1>4. Once(wire, rcvbuf, sent, seen)
  BY <1>1, <1>3 DEF Deliver, Lose
<1>5. wire' = wire \ {m} /\ rcvbuf' \in {rcvbuf, Append(rcvbuf, m)}
  BY <1>1, <1>3 DEF Deliver, Lose
<1>6. Once(wire \ {m}, rcvbuf, sent, seen)
  BY <1>4, OnceLost
<1>7. Once(wire \ {m}, Append(rcvbuf, m), sent, seen)
  BY <1>2, <1>4, OnceDelivered
<1> QED
  BY <1>5, <1>6, <1>7

\* recv: the oldest answer is one that was not counted yet.
LEMMA OnceTaken ==
  ASSUME NEW w, NEW q \in Seq(Datagrams), NEW sent, NEW seen,
         Once(w, q, sent, seen), q # <<>>
  PROVE  /\ Once(w, Tail(q), sent, seen \cup {Head(q).n})
         /\ Head(q).n \notin seen
<1> DEFINE t == Tail(q)
           l == Len(t)
           h == Head(q)
<1>1. l \in Nat /\ Len(q) = l + 1 /\ h = q[1]
  OBVIOUS
<1>2. \A i \in 1 .. l : t[i] = q[i + 1]
  OBVIOUS
<1>3. \A i \in 1 .. l : i + 1 \in 1 .. Len(q) /\ i + 1 # 1
  BY <1>1
<1>4. 1 \in 1 .. Len(q)
  BY <1>1
<1>5. \A i, j \in 1 .. l : i + 1 = j + 1 => i = j
  BY <1>1
<1> HIDE DEF t, l, h
<1>6. h.n \in (1 .. sent) \ seen
  BY <1>1, <1>4 DEF Once
<1>7. \A i \in 1 .. l : t[i].n \in (1 .. sent) \ (seen \cup {h.n})
  <2> SUFFICES ASSUME NEW i \in 1 .. l
               PROVE  t[i].n \in (1 .. sent) \ seen /\ t[i].n # h.n
    OBVIOUS
  <2>1. i + 1 \in 1 .. Len(q) /\ i + 1 # 1 /\ t[i] = q[i + 1]
    BY <1>2, <1>3
  <2> HIDE DEF Once
  <2> QED  BY <1>1, <1>4, <2>1 DEF Once
<1>8. \A i, j \in 1 .. l : t[i].n = t[j].n => i = j
  BY <1>2, <1>3, <1>5 DEF Once
<1>9. \A m \in w : /\ m.n \in (1 .. sent) \ (seen \cup {h.n})
                   /\ \A i \in 1 .. l : m.n # t[i].n
  BY <1>1, <1>2, <1>3, <1>4 DEF Once
<1> QED
  BY <1>6, <1>7, <1>8, <1>9 DEF Once, t, l, h

\* One more has been counted.
LEMMA OnceCounted ==
  ASSUME NEW sent \in Nat, NEW seen \in SUBSET (1 .. sent), NEW n, n \notin seen
  PROVE  /\ Cardinality(seen) \in Nat
         /\ Cardinality(seen \cup {n}) = Cardinality(seen) + 1
<1>1. IsFiniteSet(1 .. sent)
  BY FS_Interval
<1>2. IsFiniteSet(seen)
  BY <1>1, FS_Subset
<1>3. Cardinality(seen) \in Nat
  BY <1>2, FS_CardinalityType
<1>4. Cardinality(seen \cup {n}) = Cardinality(seen) + 1
  BY <1>2, FS_AddElement
<1> QED
  BY <1>3, <1>4

\* As many queries counted as were sent: all of them.
LEMMA OnceAll ==
  ASSUME NEW n \in Nat, NEW seen \in SUBSET (1 .. n), Cardinality(seen) = n
  PROVE  seen = 1 .. n
<1>1. IsFiniteSet(1 .. n) /\ Cardinality(1 .. n) = n
  BY FS_Interval
<1> QED
  BY <1>1, FS_Subset

\* The path makes up no datagram.
LEMMA PathWithin ==
  ASSUME NEW S, wire \subseteq S, rcvbuf \in Seq(S), PathNext
  PROVE  wire' \subseteq S /\ rcvbuf' \in Seq(S)
<1>1. PICK m \in wire : Deliver(m) \/ Lose(m) \/ Duplicate(m)
  BY DEF PathNext
<1>2. m \in S /\ wire' \subseteq S
  BY <1>1 DEF Deliver, Lose, Duplicate
<1>3. rcvbuf' = rcvbuf \/ rcvbuf' = Append(rcvbuf, m)
  BY <1>1 DEF Deliver, Lose, Duplicate
<1> QED
  BY <1>2, <1>3
=============================================================================
