------------------------- MODULE ShadowStreamProofs -------------------------
(***************************************************************************)
(* What is relayed is complete and in order: StreamIntact, for any number  *)
(* of connections, any buffer size and any requests; and the server keeps  *)
(* the promise of Tunnel.                                                  *)
(*                                                                         *)
(* The argument.  Whole says of one session what StreamIntact says, and    *)
(* that nothing has come back before the stream begins, which it needs to  *)
(* begin with nothing owed to the client.  It is not inductive alone: that *)
(* a buffer is filled only when nothing waits in it comes from the shape   *)
(* of the session, IInv of ShadowProofs.  The first part is about          *)
(* sequences: what is cut off the front of a buffer and what stays in it   *)
(* make up what was in it.  Then there is one lemma for each callback that *)
(* moves data; the others end the stream or leave it as it is.             *)
(*                                                                         *)
(* The promise has the same cases.  A lemma for each callback says in      *)
(* numbers how far its session came (Follows); Whole says that the bytes   *)
(* counted are the right ones; and each way of following is an action of   *)
(* Tunnel (FollowsServes).                                                 *)
(***************************************************************************)
EXTENDS ShadowProofs, SequenceTheorems

\* Receiving goes on where it was.
LEMMA UptoChunk ==
  ASSUME NEW a \in Nat, NEW k \in Nat
  PROVE  Upto(a) \o Chunk(a, k) = Upto(a + k)
<1>1. Upto(a) \in Seq(Nat) /\ Len(Upto(a)) = a
  <2>1. Upto(a) \in [1 .. a -> Nat]  BY DEF Upto
  <2> QED  BY <2>1
<1>2. Chunk(a, k) \in Seq(Nat) /\ Len(Chunk(a, k)) = k  BY ChunkType
<1>3. Upto(a + k) \in Seq(Nat) /\ Len(Upto(a + k)) = a + k
  <2>1. Upto(a + k) \in [1 .. (a + k) -> Nat] /\ a + k \in Nat  BY DEF Upto
  <2> QED  BY <2>1
<1> DEFINE u == Upto(a)
           v == Chunk(a, k)
           q == u \o v
<1>6. \A i \in 1 .. a : u[i] = i  BY DEF Upto
<1>7. \A i \in 1 .. k : v[i] = a + i  BY DEF Chunk
<1>8. u \in Seq(Nat) /\ Len(u) = a /\ v \in Seq(Nat) /\ Len(v) = k
  BY <1>1, <1>2
<1> HIDE DEF u, v
<1>4. q \in Seq(Nat) /\ Len(q) = a + k  BY SMTT(30), <1>8
<1>5. ASSUME NEW i \in 1 .. a + k
      PROVE  q[i] = Upto(a + k)[i]
  <2>1. Upto(a + k)[i] = i  BY DEF Upto
  <2>2. i \in Int /\ 1 <= i /\ i <= a + k  OBVIOUS
  <2>6. i \in 1 .. Len(u) + Len(v)  BY <1>8, <2>2
  <2>3. q[i] = IF i <= a THEN u[i] ELSE v[i - a]
    BY <1>8, <2>6, ConcatProperties
  <2>4. CASE i <= a
    <3>1. i \in 1 .. a  BY <2>2, <2>4
    <3> QED  BY <1>6, <2>1, <2>3, <2>4, <3>1
  <2>5. CASE ~(i <= a)
    <3>1. i - a \in 1 .. k /\ a + (i - a) = i  BY <2>2, <2>5
    <3> QED  BY <1>7, <2>1, <2>3, <2>5, <3>1
  <2> QED  BY <2>4, <2>5
<1> HIDE DEF q
<1> QED  BY <1>3, <1>4, <1>5, SeqEqual DEF q, u, v

LEMMA WholePrefix ==
  ASSUME NEW q \in Seq(Nat)
  PROVE  SubSeq(q, 1, Len(q)) = q /\ SubSeq(q, 1, 0) = << >>
OBVIOUS

LEMMA UnsentEmpty ==
  ASSUME NEW b \in Buffer, b.len = 0
  PROVE  Unsent(b) = << >>
<1>1. Unsent(b) \in Seq(Nat) /\ Len(Unsent(b)) = 0  BY UnsentType
<1> QED  BY <1>1

LEMMA UnsentAt ==
  ASSUME NEW b \in Buffer, NEW i \in 1 .. b.len
  PROVE  Unsent(b)[i] = IF b.idx + i \in DOMAIN b.data THEN b.data[b.idx + i]
                        ELSE 0
BY DEF Unsent

\* What is sent and what is left is what there was.
LEMMA Cut ==
  ASSUME NEW b \in Buffer, NEW n \in 0 .. b.len
  PROVE  SubSeq(Unsent(b), 1, n) \o Unsent(Sent(b, n)) = Unsent(b)
<1> DEFINE u == Unsent(b)
           t == Sent(b, n)
           p == SubSeq(u, 1, n)
           v == Unsent(t)
           q == p \o v
<1>1. b.len \in Nat /\ b.idx \in Nat /\ n \in Nat  BY DEF Buffer
<1>2. t \in Buffer /\ t.len = b.len - n /\ t.idx = b.idx + n /\ t.data = b.data
  BY <1>1, SentType DEF Sent, Buffer
<1>3. u \in Seq(Nat) /\ Len(u) = b.len  BY UnsentType
<1>4. v \in Seq(Nat) /\ Len(v) = b.len - n  BY <1>2, UnsentType
<1>5. \A i \in 1 .. (b.len - n) : v[i] = u[n + i]
  <2> SUFFICES ASSUME NEW i \in 1 .. (b.len - n)
               PROVE  v[i] = u[n + i]
    OBVIOUS
  <2>1. i \in 1 .. t.len /\ n + i \in 1 .. b.len  BY <1>1, <1>2
  <2>2. t.idx + i = b.idx + (n + i)  BY <1>1, <1>2
  <2> QED  BY <1>2, <2>1, <2>2, UnsentAt
<1> HIDE DEF u, t, v
<1>6. p \in Seq(Nat) /\ Len(p) = n  BY <1>1, <1>3
<1>7. \A i \in 1 .. n : p[i] = u[i]  BY <1>1, <1>3
<1> HIDE DEF p
<1>8. q \in Seq(Nat) /\ Len(q) = b.len  BY SMTT(30), <1>1, <1>4, <1>6
<1>9. ASSUME NEW i \in 1 .. b.len
      PROVE  q[i] = u[i]
  <2>1. i \in Int /\ 1 <= i /\ i <= b.len  BY <1>1
  <2>2. i \in 1 .. Len(p) + Len(v)  BY <1>1, <1>4, <1>6, <2>1
  <2>3. q[i] = IF i <= n THEN p[i] ELSE v[i - n]
    BY <1>4, <1>6, <2>2, ConcatProperties
  <2>4. CASE i <= n
    <3>1. i \in 1 .. n  BY <1>1, <2>1, <2>4
    <3> QED  BY <1>7, <2>3, <2>4, <3>1
  <2>5. CASE ~(i <= n)
    <3>1. i - n \in 1 .. (b.len - n) /\ n + (i - n) = i  BY <1>1, <2>1, <2>5
    <3> QED  BY <1>5, <2>3, <2>5, <3>1
  <2> QED  BY <2>4, <2>5
<1> HIDE DEF q
<1>10. q = u  BY <1>3, <1>8, <1>9, SeqEqual
<1> QED  BY <1>10 DEF q, p, u, v, t

\* A buffer that has just been filled holds what it was filled with.
LEMMA FilledWhole ==
  ASSUME NEW b \in Buffer, NEW bytes \in Seq(Nat), b.idx = 0
  PROVE  Unsent(Filled(b, bytes)) = bytes
<1> DEFINE f == Filled(b, bytes)
<1>1. f \in Buffer /\ f.len = Len(bytes)  BY FilledType
<1>2. f.idx = 0 /\ f.data = bytes  BY DEF Filled, Buffer
<1>3. Unsent(f) \in Seq(Nat) /\ Len(Unsent(f)) = Len(bytes)  BY <1>1, UnsentType
<1>4. ASSUME NEW i \in 1 .. Len(bytes)
      PROVE  Unsent(f)[i] = bytes[i]
  <2>1. f.idx + i = i /\ i \in DOMAIN bytes  BY <1>2
  <2> QED  BY <1>1, <1>2, <2>1, UnsentAt
<1> HIDE DEF f
<1>5. Unsent(f) = bytes  BY <1>3, <1>4, SeqEqual
<1> QED  BY <1>5 DEF f

LEMMA SameBuffer ==
  ASSUME NEW a \in Buffer, NEW b \in Buffer,
         a.data = b.data, a.idx = b.idx, a.len = b.len
  PROVE  a = b
BY DEF Buffer

LEMMA SentFields ==
  ASSUME NEW b \in Buffer, NEW n \in 0 .. b.len
  PROVE  /\ Sent(b, n).data = b.data /\ Rest(b, n).data = b.data
         /\ Sent(b, n).idx = b.idx + n /\ Rest(b, n).idx = n
         /\ Sent(b, n).len = b.len - n /\ Rest(b, n).len = b.len - n
BY DEF Sent, Rest, Buffer

\* The same for a buffer that is filled and cut by Rest, whatever idx was.
LEMMA FilledCut ==
  ASSUME NEW b \in Buffer, NEW bytes \in Seq(Nat), NEW n \in 0 .. Len(bytes)
  PROVE  SubSeq(bytes, 1, n) \o Unsent(Rest(Filled(b, bytes), n)) = bytes
<1> DEFINE z == [b EXCEPT !.idx = 0]
           f == Filled(z, bytes)
<1>1. z \in Buffer /\ z.idx = 0  BY DEF Buffer
<1>2. Unsent(f) = bytes  BY <1>1, FilledWhole
<1>3. f \in Buffer /\ f.len = Len(bytes)  BY <1>1, FilledType
<1> DEFINE g == Filled(b, bytes)
           l == Len(bytes)
<1>4. Rest(g, n) = Sent(f, n)
  <2>1. n \in Nat /\ l \in Nat  OBVIOUS
  <2>2. g.data = bytes /\ g.len = l /\ f.data = bytes /\ f.len = l /\ f.idx = 0
    BY DEF Filled, Buffer
  <2>3. g \in Buffer /\ f \in Buffer  BY <1>1, FilledType
  <2> HIDE DEF g, f, l
  <2>4. 0 + n = n  BY <2>1
  <2>5. n \in 0 .. g.len /\ n \in 0 .. f.len  BY <2>2 DEF l
  <2>6. Rest(g, n) \in Buffer /\ Sent(f, n) \in Buffer  BY <2>3, <2>5, SentType
  <2>7. /\ Rest(g, n).data = Sent(f, n).data
        /\ Rest(g, n).idx = Sent(f, n).idx
        /\ Rest(g, n).len = Sent(f, n).len
    BY <2>2, <2>3, <2>4, <2>5, SentFields
  <2> QED  BY <2>6, <2>7, SameBuffer
<1> QED  BY <1>2, <1>3, <1>4, Cut
-----------------------------------------------------------------------------
\* What was received and is not sent on yet, in each direction
PendingUp(s) ==
  IF "remote_send" \in s.io THEN Unsent(s.rbuf)
  ELSE IF s.stage = "resolve" THEN Unsent(s.sbuf)
  ELSE <<>>
PendingDown(s) == IF "server_send" \in s.io THEN Unsent(s.sbuf) ELSE <<>>

\* StreamIntact for one session, with how it begins
Whole(s) ==
  /\ s.stage = "init" /\ ~s.has_remote => s.up = 0
  /\ s.stage \in {"init", "resolve"} => s.down = 0 /\ s.toClient = <<>>
  /\ s.stage \in {"init", "resolve", "stream"} =>
       s.toRemote \o PendingUp(s) = Upto(s.up)
  /\ s.stage = "stream" => s.toClient \o PendingDown(s) = Upto(s.down)

LEMMA EndedWhole ==
  ASSUME NEW s, s.stage \notin {"init", "resolve", "stream"}
  PROVE  Whole(s)
BY DEF Whole

\* Nothing that Whole looks at is different.
SameData(s, t) ==
  /\ t.stage = s.stage /\ t.io = s.io /\ t.has_remote = s.has_remote
  /\ t.sbuf = s.sbuf /\ t.rbuf = s.rbuf
  /\ t.up = s.up /\ t.toRemote = s.toRemote
  /\ t.down = s.down /\ t.toClient = s.toClient

LEMMA SameDataWhole ==
  ASSUME NEW s, NEW t, Whole(s), SameData(s, t)
  PROVE  Whole(t)
BY DEF SameData, Whole, PendingUp, PendingDown

LEMMA BecomesWhole ==
  ASSUME RelayInv, NEW c \in Conns, NEW t, Becomes(c, t), Whole(t)
  PROVE  Whole(session'[c])
<1>1. session'[c] = Settled(t)  BY DEF Becomes, RelayInv, RelayTypeOK
<1>2. Fresh.stage = "none"  BY DEF Fresh
<1> QED  BY <1>1, <1>2, EndedWhole DEF Settled

LEMMA SendTypes ==
  ASSUME NEW s \in Session
  PROVE  /\ s.sbuf \in Buffer /\ s.rbuf \in Buffer
         /\ s.toRemote \in Seq(Nat) /\ s.toClient \in Seq(Nat)
         /\ s.up \in Nat /\ s.down \in Nat
         /\ Unsent(s.sbuf) \in Seq(Nat) /\ Unsent(s.rbuf) \in Seq(Nat)
<1>1. /\ s.sbuf \in Buffer /\ s.rbuf \in Buffer
      /\ s.toRemote \in Seq(Nat) /\ s.toClient \in Seq(Nat)
      /\ s.up \in Nat /\ s.down \in Nat
  BY DEF Session
<1> QED  BY <1>1, UnsentType

LEMMA ClosedWhole ==
  ASSUME NEW s \in Session
  PROVE  Whole(CloseServer(s)) /\ Whole(CloseBoth(s))
BY CloseServerFields, CloseBothEnds, EndedWhole

\* Three pieces of a stream
LEMMA Pieces ==
  ASSUME NEW a \in Seq(Nat), NEW b \in Seq(Nat), NEW c \in Seq(Nat)
  PROVE  (a \o b) \o c = a \o (b \o c) /\ a \o <<>> = a /\ <<>> \o a = a
<1>1. (a \o b) \o c = a \o (b \o c)  BY SMTT(30), ConcatAssociative
<1> QED  BY <1>1, ConcatEmptySeq
-----------------------------------------------------------------------------
\* The callbacks, one lemma for each action that moves data

LEMMA AcceptWhole ==
  ASSUME RelayInv, NEW c \in Conns, Accept(c)
  PROVE  Whole(session'[c])
<1> DEFINE t == [NewServer EXCEPT !.io = {"server_recv"}]
<1>1. /\ t.stage = "init" /\ t.io = {"server_recv"} /\ t.up = 0
      /\ t.toRemote = <<>> /\ t.down = 0 /\ t.toClient = <<>>
  BY DEF NewServer, Fresh
<1>2. Becomes(c, t)  BY DEF Accept
<1> HIDE DEF t
<1>3. Upto(0) = <<>>  BY DEF Upto
<1>4. Whole(t)  BY <1>1, <1>3 DEF Whole, PendingUp, PendingDown
<1> QED  BY <1>2, <1>4, BecomesWhole

\* A chunk that follows what was received, and of which n bytes are sent on
LEMMA Received ==
  ASSUME NEW u \in Nat, NEW k \in Nat, NEW b \in Buffer, NEW n \in 0 .. k
  PROVE  LET bytes == Chunk(u, k)
             p == Upto(u) \o SubSeq(bytes, 1, n)
         IN  /\ u + k \in Nat /\ Upto(u) \o bytes = Upto(u + k)
             /\ Upto(u) \o bytes \in Seq(Nat)
             /\ p \in Seq(Nat) /\ Rest(Filled(b, bytes), n) \in Buffer
             /\ p \o Unsent(Rest(Filled(b, bytes), n)) = Upto(u + k)
<1> DEFINE bytes == Chunk(u, k)
           a == Upto(u)
           c == SubSeq(bytes, 1, n)
           f == Filled(b, bytes)
           d == Unsent(Rest(f, n))
<1>1. a \in Seq(Nat)
  <2>1. a \in [1 .. u -> Nat]  BY DEF Upto
  <2> QED  BY <2>1
<1>2. bytes \in Seq(Nat) /\ Len(bytes) = k  BY ChunkType
<1>3. a \o bytes = Upto(u + k)  BY UptoChunk
<1> HIDE DEF a, bytes
<1>4. n \in 0 .. Len(bytes) /\ f \in Buffer /\ n \in 0 .. f.len
  BY <1>2, FilledType
<1>5. c \o d = bytes  BY <1>2, <1>4, FilledCut
<1> HIDE DEF f
<1>6. Rest(f, n) \in Buffer /\ d \in Seq(Nat)  BY <1>4, SentType, UnsentType
<1> HIDE DEF d
<1>7. c \in Seq(Nat)  BY <1>2, <1>4
<1> HIDE DEF c
<1>8. (a \o c) \o d = a \o (c \o d)  BY <1>1, <1>6, <1>7, Pieces
<1>9. a \o c \in Seq(Nat) /\ a \o bytes \in Seq(Nat)  BY <1>1, <1>2, <1>7
<1>10. (a \o c) \o d = Upto(u + k)  BY <1>3, <1>5, <1>8
<1>11. u + k \in Nat  OBVIOUS
<1> QED  BY <1>3, <1>6, <1>9, <1>10, <1>11 DEF a, bytes, c, d, f

LEMMA StreamWhole ==
  ASSUME NEW t, t.stage = "stream",
         t.toRemote \o PendingUp(t) = Upto(t.up),
         t.toClient \o PendingDown(t) = Upto(t.down)
  PROVE  Whole(t)
BY DEF Whole

LEMMA ClientDataWhole ==
  ASSUME RelayInv, NEW c \in Conns, Whole(session[c]), ClientData(c)
  PROVE  Whole(session'[c])
<1> DEFINE s == session[c]
<1>1. PICK k \in 1 .. BufSize :
        LET bytes == Chunk(s.up, k)
            t == [s EXCEPT !.idle = 0, !.up = @ + k, !.rbuf = Filled(@, bytes)]
        IN  \/ Becomes(c, CloseBoth(t))
            \/ Becomes(c, [t EXCEPT !.toRemote = @ \o bytes])
            \/ \E n \in 0 .. k - 1 :
                 Becomes(c, [t EXCEPT
                   !.toRemote = @ \o SubSeq(bytes, 1, n),
                   !.rbuf = Rest(@, n),
                   !.io = Wait(@, "server_recv", "remote_send")])
  BY DEF ClientData
<1>2. Readable(c) /\ s.stage = "stream"  BY DEF ClientData
<1>3. Good(s) /\ s \in Session /\ Shaped(s)  BY <1>2, ReadableFacts DEF Good
<1>4. k \in Nat /\ 0 \in 0 .. Timeout  BY RelayAssumption
<1>5. "remote_send" \notin s.io  BY <1>2, <1>3 DEF Readable, Shaped
<1>6. s.toRemote = Upto(s.up) /\ s.toClient \o PendingDown(s) = Upto(s.down)
  BY <1>2, <1>3, <1>5, SendTypes, Pieces DEF Whole, PendingUp
<1>7. s.up \in Nat /\ s.rbuf \in Buffer /\ s.io \subseteq Watchers
  BY <1>3 DEF Session
<1> DEFINE bytes == Chunk(s.up, k)
           b == Filled(s.rbuf, bytes)
           u == s.up + k
           t == [s EXCEPT !.idle = 0, !.up = u, !.rbuf = b]
           p(n) == s.toRemote \o SubSeq(bytes, 1, n)
<1>8. bytes \in Seq(Nat) /\ b \in Buffer
  BY <1>4, <1>7, ChunkType, FilledType
<1>9. 0 \in 0 .. k  BY <1>4
<1>10. u \in Nat /\ s.toRemote \o bytes = Upto(u) /\ s.toRemote \o bytes \in Seq(Nat)
  BY <1>4, <1>6, <1>7, <1>9, Received
<1>11. ASSUME NEW n \in 0 .. k - 1
       PROVE  /\ p(n) \in Seq(Nat) /\ Rest(b, n) \in Buffer
              /\ p(n) \o Unsent(Rest(b, n)) = Upto(u)
  <2>1. n \in 0 .. k  BY <1>4
  <2>2. /\ Upto(s.up) \o SubSeq(bytes, 1, n) \in Seq(Nat)
        /\ Rest(b, n) \in Buffer
        /\ (Upto(s.up) \o SubSeq(bytes, 1, n)) \o Unsent(Rest(b, n))
             = Upto(u)
    BY <1>4, <1>7, <2>1, Received
  <2>3. p(n) = Upto(s.up) \o SubSeq(bytes, 1, n)  BY <1>6
  <2> HIDE DEF p, b, bytes, u
  <2> QED  BY <2>2, <2>3
<1>12. \/ Becomes(c, CloseBoth(t))
       \/ Becomes(c, [t EXCEPT !.toRemote = t.toRemote \o bytes])
       \/ \E n \in 0 .. k - 1 :
            Becomes(c, [t EXCEPT
              !.toRemote = t.toRemote \o SubSeq(bytes, 1, n),
              !.rbuf = Rest(t.rbuf, n),
              !.io = Wait(t.io, "server_recv", "remote_send")])
  BY <1>1
<1> HIDE DEF bytes, b, u
<1>13. /\ t \in Session /\ t.stage = "stream" /\ t.io = s.io /\ t.up = u
       /\ t.toRemote = s.toRemote /\ t.rbuf = b /\ t.sbuf = s.sbuf
       /\ t.down = s.down /\ t.toClient = s.toClient
  BY <1>2, <1>3, <1>4, <1>8, <1>10 DEF Session
<1> HIDE DEF t
<1>14. CASE Becomes(c, CloseBoth(t))
  BY <1>13, <1>14, ClosedWhole, BecomesWhole
<1>15. CASE Becomes(c, [t EXCEPT !.toRemote = t.toRemote \o bytes])
  <2> DEFINE q == t.toRemote \o bytes
             v == [t EXCEPT !.toRemote = q]
  <2>1. q = Upto(u) /\ q \in Seq(Nat)  BY <1>10, <1>13
  <2> HIDE DEF q
  <2>2. /\ v.stage = "stream" /\ v.io = s.io /\ v.up = u /\ v.toRemote = q
        /\ v.sbuf = s.sbuf /\ v.down = s.down /\ v.toClient = s.toClient
    BY <1>13 DEF Session
  <2> HIDE DEF v
  <2>3. PendingUp(v) = <<>> /\ PendingDown(v) = PendingDown(s)
    BY <1>5, <2>2 DEF PendingUp, PendingDown
  <2>4. q \o <<>> = Upto(u)  BY <2>1, Pieces
  <2>5. Whole(v)  BY <1>6, <2>2, <2>3, <2>4, StreamWhole
  <2> QED  BY <1>15, <2>5, BecomesWhole DEF q, v
<1>16. ASSUME NEW n \in 0 .. k - 1,
              Becomes(c, [t EXCEPT
                !.toRemote = t.toRemote \o SubSeq(bytes, 1, n),
                !.rbuf = Rest(t.rbuf, n),
                !.io = Wait(t.io, "server_recv", "remote_send")])
       PROVE  Whole(session'[c])
  <2> DEFINE q == t.toRemote \o SubSeq(bytes, 1, n)
             r == Rest(t.rbuf, n)
             w == Wait(t.io, "server_recv", "remote_send")
             v == [t EXCEPT !.toRemote = q, !.rbuf = r, !.io = w]
  <2>1. q \in Seq(Nat) /\ r \in Buffer /\ q \o Unsent(r) = Upto(u)
    BY <1>11, <1>13
  <2>2. /\ w \subseteq Watchers /\ "remote_send" \in w
        /\ ("server_send" \in w) = ("server_send" \in s.io)
    BY <1>7, <1>13 DEF Wait, Watchers
  <2>3. Becomes(c, v)  BY <1>16
  <2> HIDE DEF q, r, w
  <2>4. /\ v.stage = "stream" /\ v.io = w /\ v.up = u /\ v.toRemote = q
        /\ v.rbuf = r /\ v.sbuf = s.sbuf
        /\ v.down = s.down /\ v.toClient = s.toClient
    BY <1>13 DEF Session
  <2> HIDE DEF v
  <2>5. PendingUp(v) = Unsent(r) /\ PendingDown(v) = PendingDown(s)
    BY <2>2, <2>4 DEF PendingUp, PendingDown
  <2>6. Whole(v)  BY <1>6, <2>1, <2>4, <2>5, StreamWhole
  <2> QED  BY <2>3, <2>6, BecomesWhole
<1> QED  BY <1>12, <1>14, <1>15, <1>16

LEMMA RemoteDataWhole ==
  ASSUME RelayInv, NEW c \in Conns, Whole(session[c]), RemoteData(c)
  PROVE  Whole(session'[c])
<1> DEFINE s == session[c]
<1>1. PICK k \in 1 .. BufSize :
        LET bytes == Chunk(s.down, k)
            t == [s EXCEPT !.idle = 0, !.down = @ + k, !.sbuf = Filled(@, bytes)]
        IN  \/ Becomes(c, CloseBoth(t))
            \/ Becomes(c, [t EXCEPT !.toClient = @ \o bytes])
            \/ \E n \in 0 .. k - 1 :
                 Becomes(c, [t EXCEPT
                   !.toClient = @ \o SubSeq(bytes, 1, n),
                   !.sbuf = Rest(@, n),
                   !.io = Wait(@, "remote_recv", "server_send")])
  BY DEF RemoteData
<1>2. Answering(c) /\ s.stage # "stop"  BY DEF RemoteData
<1>3. Good(s) /\ s \in Session /\ Shaped(s) /\ s.stage = "stream"
  BY <1>2, AnsweringFacts DEF Good
<1>4. k \in Nat /\ 0 \in 0 .. Timeout  BY RelayAssumption
<1>5. "server_send" \notin s.io  BY <1>2, <1>3 DEF Answering, Shaped
<1>6. s.toClient = Upto(s.down) /\ s.toRemote \o PendingUp(s) = Upto(s.up)
  BY <1>2, <1>3, <1>5, SendTypes, Pieces DEF Whole, PendingDown
<1>7. s.down \in Nat /\ s.sbuf \in Buffer /\ s.io \subseteq Watchers
  BY <1>3 DEF Session
<1> DEFINE bytes == Chunk(s.down, k)
           b == Filled(s.sbuf, bytes)
           u == s.down + k
           t == [s EXCEPT !.idle = 0, !.down = u, !.sbuf = b]
           p(n) == s.toClient \o SubSeq(bytes, 1, n)
<1>8. bytes \in Seq(Nat) /\ b \in Buffer
  BY <1>4, <1>7, ChunkType, FilledType
<1>9. 0 \in 0 .. k  BY <1>4
<1>10. u \in Nat /\ s.toClient \o bytes = Upto(u) /\ s.toClient \o bytes \in Seq(Nat)
  BY <1>4, <1>6, <1>7, <1>9, Received
<1>11. ASSUME NEW n \in 0 .. k - 1
       PROVE  /\ p(n) \in Seq(Nat) /\ Rest(b, n) \in Buffer
              /\ p(n) \o Unsent(Rest(b, n)) = Upto(u)
  <2>1. n \in 0 .. k  BY <1>4
  <2>2. /\ Upto(s.down) \o SubSeq(bytes, 1, n) \in Seq(Nat)
        /\ Rest(b, n) \in Buffer
        /\ (Upto(s.down) \o SubSeq(bytes, 1, n)) \o Unsent(Rest(b, n))
             = Upto(u)
    BY <1>4, <1>7, <2>1, Received
  <2>3. p(n) = Upto(s.down) \o SubSeq(bytes, 1, n)  BY <1>6
  <2> HIDE DEF p, b, bytes, u
  <2> QED  BY <2>2, <2>3
<1>12. \/ Becomes(c, CloseBoth(t))
       \/ Becomes(c, [t EXCEPT !.toClient = t.toClient \o bytes])
       \/ \E n \in 0 .. k - 1 :
            Becomes(c, [t EXCEPT
              !.toClient = t.toClient \o SubSeq(bytes, 1, n),
              !.sbuf = Rest(t.sbuf, n),
              !.io = Wait(t.io, "remote_recv", "server_send")])
  BY <1>1
<1> HIDE DEF bytes, b, u
<1>13. /\ t \in Session /\ t.stage = "stream" /\ t.io = s.io /\ t.down = u
       /\ t.toClient = s.toClient /\ t.sbuf = b /\ t.rbuf = s.rbuf
       /\ t.up = s.up /\ t.toRemote = s.toRemote
  BY <1>2, <1>3, <1>4, <1>8, <1>10 DEF Session
<1> HIDE DEF t
<1>14. CASE Becomes(c, CloseBoth(t))
  BY <1>13, <1>14, ClosedWhole, BecomesWhole
<1>15. CASE Becomes(c, [t EXCEPT !.toClient = t.toClient \o bytes])
  <2> DEFINE q == t.toClient \o bytes
             v == [t EXCEPT !.toClient = q]
  <2>1. q = Upto(u) /\ q \in Seq(Nat)  BY <1>10, <1>13
  <2> HIDE DEF q
  <2>2. /\ v.stage = "stream" /\ v.io = s.io /\ v.down = u /\ v.toClient = q
        /\ v.rbuf = s.rbuf /\ v.up = s.up /\ v.toRemote = s.toRemote
    BY <1>13 DEF Session
  <2> HIDE DEF v
  <2>3. PendingDown(v) = <<>> /\ PendingUp(v) = PendingUp(s)
    BY <1>3, <1>5, <2>2 DEF PendingDown, PendingUp
  <2>4. q \o <<>> = Upto(u)  BY <2>1, Pieces
  <2>5. Whole(v)  BY <1>6, <2>2, <2>3, <2>4, StreamWhole
  <2> QED  BY <1>15, <2>5, BecomesWhole DEF q, v
<1>16. ASSUME NEW n \in 0 .. k - 1,
              Becomes(c, [t EXCEPT
                !.toClient = t.toClient \o SubSeq(bytes, 1, n),
                !.sbuf = Rest(t.sbuf, n),
                !.io = Wait(t.io, "remote_recv", "server_send")])
       PROVE  Whole(session'[c])
  <2> DEFINE q == t.toClient \o SubSeq(bytes, 1, n)
             r == Rest(t.sbuf, n)
             w == Wait(t.io, "remote_recv", "server_send")
             v == [t EXCEPT !.toClient = q, !.sbuf = r, !.io = w]
  <2>1. q \in Seq(Nat) /\ r \in Buffer /\ q \o Unsent(r) = Upto(u)
    BY <1>11, <1>13
  <2>2. /\ w \subseteq Watchers /\ "server_send" \in w
        /\ ("remote_send" \in w) = ("remote_send" \in s.io)
    BY <1>7, <1>13 DEF Wait, Watchers
  <2>3. Becomes(c, v)  BY <1>16
  <2> HIDE DEF q, r, w
  <2>4. /\ v.stage = "stream" /\ v.io = w /\ v.down = u /\ v.toClient = q
        /\ v.sbuf = r /\ v.rbuf = s.rbuf
        /\ v.up = s.up /\ v.toRemote = s.toRemote
    BY <1>13 DEF Session
  <2> HIDE DEF v
  <2>5. PendingDown(v) = Unsent(r) /\ PendingUp(v) = PendingUp(s)
    BY <1>3, <2>2, <2>4 DEF PendingDown, PendingUp
  <2>6. Whole(v)  BY <1>6, <2>1, <2>4, <2>5, StreamWhole
  <2> QED  BY <2>3, <2>6, BecomesWhole
<1> QED  BY <1>12, <1>14, <1>15, <1>16

\* The payload that came with the request
LEMMA PayloadWhole ==
  ASSUME NEW s, Good(s), Whole(s), s.stage = "init", ~s.has_remote,
         NEW r \in Request, Accepted(r)
  PROVE  LET p == WithPayload(s, r)
         IN  /\ p.toRemote \o Unsent(p.sbuf) = Upto(p.up)
             /\ p.down = 0 /\ p.toClient = <<>>
<1> DEFINE o == Offset(r)
           u == r.len - o
           d == [i \in 1 .. r.len |-> IF i <= o THEN 0 ELSE i - o]
           b == [data |-> d, idx |-> o, len |-> u]
           p == WithPayload(s, r)
<1>1. s \in Session /\ Shaped(s)  BY DEF Good
<1>2. o \in Nat /\ r.len \in Nat /\ r.len >= o
  BY OffsetType DEF Request, Accepted
<1>3. p.up = u /\ p.sbuf = b /\ p.toRemote = s.toRemote /\ p.down = s.down
      /\ p.toClient = s.toClient /\ p \in Session
  <2>1. Good(p)  BY PayloadGood
  <2> QED  BY <1>1, <2>1 DEF WithPayload, Session, Good
<1>4. s.toRemote = <<>> /\ s.down = 0 /\ s.toClient = <<>>
  <2>1. s.io = {"server_recv"}  BY <1>1 DEF Shaped
  <2>2. PendingUp(s) = <<>>  BY <2>1 DEF PendingUp
  <2>3. Upto(0) = <<>>  BY DEF Upto
  <2>4. s.toRemote \o <<>> = <<>> /\ s.toRemote \in Seq(Nat)
    BY <1>1, <2>2, <2>3 DEF Whole, Session
  <2>5. s.toRemote \o <<>> = s.toRemote  BY <2>4, Pieces
  <2> QED  BY <2>4, <2>5 DEF Whole
<1> HIDE DEF p, o
<1>5. u \in Nat  BY <1>2
<1>6. b \in Buffer  BY <1>1, <1>3 DEF Session
<1>7. ASSUME NEW i \in 1 .. u
      PROVE  Unsent(b)[i] = i
  <2>1. o + i \in 1 .. r.len /\ ~(o + i <= o) /\ (o + i) - o = i  BY <1>2
  <2>2. d[o + i] = i  BY <2>1
  <2>3. b.len = u /\ b.idx = o /\ b.data = d /\ o + i \in DOMAIN d  BY <2>1
  <2> HIDE DEF b, d
  <2> QED  BY <1>6, <2>2, <2>3, UnsentAt
<1>8. Unsent(b) \in Seq(Nat) /\ Len(Unsent(b)) = u  BY <1>6, UnsentType
<1> HIDE DEF b, u
<1>9. Upto(u) \in Seq(Nat) /\ Len(Upto(u)) = u
  <2>1. Upto(u) \in [1 .. u -> Nat]  BY <1>5 DEF Upto
  <2> QED  BY <1>5, <2>1
<1>10. \A i \in 1 .. u : Upto(u)[i] = i  BY DEF Upto
<1>11. Unsent(b) = Upto(u)  BY <1>7, <1>8, <1>9, <1>10, SeqEqual
<1>12. <<>> \o Unsent(b) = Upto(u)  BY <1>8, <1>11, Pieces
<1> QED  BY <1>3, <1>4, <1>12 DEF p

\* What a fast open did not take moves to the buffer of the new remote.
LEMMA AttachWhole ==
  ASSUME NEW s, Good(s), s.stage \in {"init", "resolve"}, ~s.has_remote,
         NEW n \in 0 .. s.sbuf.len,
         s.toRemote \o Unsent(s.sbuf) = Upto(s.up),
         s.down = 0, s.toClient = <<>>
  PROVE  Whole(Attach(Opened(NewRemote(s), n)))
<1>1. s \in Session /\ Shaped(s)  BY DEF Good
<1>2. NoBuf \in Buffer /\ NoBuf.idx = 0 /\ NoBuf.len = 0  BY DEF NoBuf, Buffer
<1>3. s.sbuf \in Buffer /\ s.toRemote \in Seq(Nat)  BY <1>1 DEF Session
<1> DEFINE p == NewRemote(s)
<1>4. /\ p \in Session /\ p.sbuf = s.sbuf /\ p.toRemote = s.toRemote
      /\ p.stage = s.stage /\ p.io = s.io /\ p.has_remote = TRUE
      /\ p.rbuf = NoBuf /\ p.up = s.up
      /\ p.down = s.down /\ p.toClient = s.toClient
  BY <1>1, <1>2 DEF NewRemote, Session
<1> HIDE DEF p
<1> DEFINE h == SubSeq(Unsent(s.sbuf), 1, n)
           q == p.toRemote \o SubSeq(Unsent(p.sbuf), 1, n)
           b == Sent(p.sbuf, n)
           o == Opened(p, n)
<1>5. q \in Seq(Nat) /\ h \in Seq(Nat)
  <2>1. Unsent(s.sbuf) \in Seq(Nat) /\ Len(Unsent(s.sbuf)) = s.sbuf.len
    BY <1>3, UnsentType
  <2>2. s.sbuf.len \in Nat  BY <1>3 DEF Buffer
  <2>3. h \in Seq(Nat)  BY <2>1, <2>2
  <2> QED  BY <1>3, <1>4, <2>3
<1>6. b \in Buffer  BY <1>3, <1>4, SentType
<1>7. o = [p EXCEPT !.toRemote = q, !.sbuf = b]  BY DEF Opened
<1>8. h \o Unsent(b) = Unsent(s.sbuf) /\ q = s.toRemote \o h
  BY <1>3, <1>4, Cut
<1> HIDE DEF h, q, b, o
<1>9. Unsent(b) \in Seq(Nat)  BY <1>6, UnsentType
<1>10. q \o Unsent(b) = Upto(s.up)
  <2>1. (s.toRemote \o h) \o Unsent(b) = s.toRemote \o (h \o Unsent(b))
    BY ZenonT(40), <1>3, <1>5, <1>9, Pieces
  <2> QED  BY <1>8, <2>1
<1>11. /\ o \in Session /\ o.toRemote = q /\ o.sbuf = b
       /\ o.stage = s.stage /\ o.io = s.io /\ o.has_remote = TRUE
       /\ o.rbuf = NoBuf /\ o.up = s.up
       /\ o.down = s.down /\ o.toClient = s.toClient
  BY <1>4, <1>5, <1>6, <1>7 DEF Session
<1> DEFINE rb == IF o.sbuf.len > 0 THEN Filled(o.rbuf, Unsent(o.sbuf)) ELSE o.rbuf
           sb == IF o.sbuf.len > 0 THEN [o.sbuf EXCEPT !.len = 0, !.idx = 0]
                 ELSE o.sbuf
           w == (s.io \ {"server_recv"}) \cup {"remote_send"}
           l == [o EXCEPT !.to_remote = TRUE, !.to_server = TRUE,
                          !.rbuf = rb, !.sbuf = sb]
           t == [l EXCEPT !.io = w]
<1>12. rb \in Buffer /\ Unsent(rb) = Unsent(b)
  <2>1. CASE b.len > 0
    <3>1. rb = Filled(NoBuf, Unsent(b))  BY <1>11, <2>1
    <3> HIDE DEF rb
    <3> QED  BY <1>2, <1>9, <3>1, FilledType, FilledWhole
  <2>2. CASE ~(b.len > 0)
    <3>1. rb = NoBuf /\ b.len = 0  BY <1>6, <1>11, <2>2 DEF Buffer
    <3> HIDE DEF rb
    <3> QED  BY <1>2, <1>6, <3>1, UnsentEmpty
  <2> QED  BY <2>1, <2>2
<1>13. sb \in Buffer
  <2>1. o.sbuf \in Buffer  BY <1>6, <1>11
  <2> QED  BY <2>1 DEF Buffer
<1>14. Linked(o) = l  BY DEF Linked
<1> HIDE DEF rb, sb
<1>15. /\ l \in Session /\ l.toRemote = q /\ l.rbuf = rb
       /\ l.stage = s.stage /\ l.io = s.io /\ l.has_remote = TRUE
       /\ l.up = s.up /\ l.down = s.down /\ l.toClient = s.toClient
  BY <1>11, <1>12, <1>13 DEF Session
<1> HIDE DEF l
<1>16. Attach(o) = t  BY <1>14, <1>15 DEF Attach
<1>17. "remote_send" \in w  OBVIOUS
<1> HIDE DEF w
<1>18. /\ t.toRemote = q /\ t.rbuf = rb /\ t.io = w
       /\ t.stage = s.stage /\ t.has_remote = TRUE
       /\ t.up = s.up /\ t.down = s.down /\ t.toClient = s.toClient
  BY <1>15 DEF Session
<1> HIDE DEF t
<1>19. PendingUp(t) = Unsent(b)  BY <1>12, <1>17, <1>18 DEF PendingUp
<1>20. Whole(t)  BY <1>10, <1>18, <1>19 DEF Whole
<1> QED  BY <1>16, <1>20 DEF o, p

LEMMA ConnectsWhole ==
  ASSUME RelayInv, NEW c \in Conns, NEW s, Good(s),
         s.stage \in {"init", "resolve"}, ~s.has_remote,
         s.toRemote \o Unsent(s.sbuf) = Upto(s.up),
         s.down = 0, s.toClient = <<>>,
         Connects(c, s) \/ ConnectFails(c, s)
  PROVE  Whole(session'[c])
<1>1. session \in [Conns -> Session] /\ s \in Session
  BY DEF RelayInv, RelayTypeOK, Good
<1>2. CASE Connects(c, s)
  <2>1. PICK n \in 0 .. s.sbuf.len :
          session' = [session EXCEPT ![c] = Attach(Opened(NewRemote(s), n))]
    BY <1>2 DEF Connects
  <2>2. session'[c] = Attach(Opened(NewRemote(s), n))  BY <1>1, <2>1
  <2> QED  BY <2>2, AttachWhole
<1>3. CASE ConnectFails(c, s)
  <2>1. session'[c] = Settled(CloseServer(s))  BY <1>1, <1>3 DEF ConnectFails
  <2>2. CloseServer(s).stage = "none"  BY <1>1, CloseServerFields
  <2>3. Settled(CloseServer(s)).stage = "none"  BY <2>2 DEF Settled, Fresh
  <2> QED  BY <2>1, <2>3, EndedWhole
<1> QED  BY <1>2, <1>3

LEMMA RequestDirectWhole ==
  ASSUME RelayInv, NEW c \in Conns, Whole(session[c]), RequestDirect(c)
  PROVE  Whole(session'[c])
<1>1. Readable(c) /\ session[c].stage = "init"
  BY DEF RequestDirect, Requesting
<1>2. PICK r \in Requests :
        /\ Accepted(r)
        /\ \/ Connects(c, WithPayload(session[c], r))
           \/ ConnectFails(c, WithPayload(session[c], r))
  BY DEF RequestDirect
<1> DEFINE s == WithPayload(session[c], r)
<1>3. r \in Request  BY RelayAssumption
<1>4. Good(session[c]) /\ ~session[c].has_remote  BY <1>1, ReadableFacts
<1>5. Good(s) /\ SameShape(session[c], s)  BY <1>2, <1>3, <1>4, PayloadGood
<1>6. s.stage = "init" /\ ~s.has_remote  BY <1>1, <1>4, <1>5 DEF SameShape
<1>7. s.toRemote \o Unsent(s.sbuf) = Upto(s.up) /\ s.down = 0 /\ s.toClient = <<>>
  BY <1>1, <1>2, <1>3, <1>4, PayloadWhole
<1> HIDE DEF s
<1> QED  BY <1>2, <1>5, <1>6, <1>7, ConnectsWhole DEF s

LEMMA RequestNamedWhole ==
  ASSUME RelayInv, NEW c \in Conns, Whole(session[c]), RequestNamed(c)
  PROVE  Whole(session'[c])
<1>1. Readable(c) /\ session[c].stage = "init"
  BY DEF RequestNamed, Requesting
<1>2. PICK r \in Requests :
        /\ Accepted(r)
        /\ Becomes(c, [WithPayload(session[c], r) EXCEPT
                         !.stage = "resolve",
                         !.io = @ \ {"server_recv"},
                         !.has_query = TRUE, !.to_query = TRUE,
                         !.asked_by = TRUE])
  BY DEF RequestNamed
<1> DEFINE s == WithPayload(session[c], r)
           w == s.io \ {"server_recv"}
           t == [s EXCEPT !.stage = "resolve", !.io = w, !.has_query = TRUE,
                          !.to_query = TRUE, !.asked_by = TRUE]
<1>3. r \in Request  BY RelayAssumption
<1>4. Good(session[c]) /\ ~session[c].has_remote  BY <1>1, ReadableFacts
<1>5. Good(s) /\ SameShape(session[c], s)  BY <1>2, <1>3, <1>4, PayloadGood
<1>6. s.stage = "init" /\ ~s.has_remote  BY <1>1, <1>4, <1>5 DEF SameShape
<1>7. s.toRemote \o Unsent(s.sbuf) = Upto(s.up) /\ s.down = 0 /\ s.toClient = <<>>
  BY <1>1, <1>2, <1>3, <1>4, PayloadWhole
<1>8. Becomes(c, t)  BY <1>2
<1> HIDE DEF s
<1>9. s \in Session /\ Shaped(s)  BY <1>5 DEF Good
<1>10. w = {}  BY <1>6, <1>9 DEF Shaped
<1> HIDE DEF w
<1>11. /\ t.stage = "resolve" /\ t.io = {} /\ t.sbuf = s.sbuf /\ t.up = s.up
       /\ t.toRemote = s.toRemote /\ t.down = s.down /\ t.toClient = s.toClient
  BY <1>9, <1>10 DEF Session
<1> HIDE DEF t
<1>12. PendingUp(t) = Unsent(s.sbuf)  BY <1>11 DEF PendingUp
<1>13. Whole(t)  BY <1>7, <1>11, <1>12 DEF Whole
<1> QED  BY <1>8, <1>13, BecomesWhole

LEMMA ResolvCbWhole ==
  ASSUME RelayInv, NEW c \in Conns, Whole(session[c]), ResolvCb(c)
  PROVE  Whole(session'[c])
<1> DEFINE s == session[c]
<1>1. Good(s) /\ s \in Session /\ Shaped(s)  BY DEF RelayInv, Good
<1>2. CASE ResolveFails(c)
  BY <1>1, <1>2, ClosedWhole, BecomesWhole
  DEF ResolveFails, Resolving
<1>3. CASE Resolved(c)
  <2>1. s.stage = "resolve" /\ ~s.to_remote
    BY <1>3 DEF Resolved, Resolving
  <2>2. Whole(s)  OBVIOUS
  <2>3. Connects(c, s) \/ ConnectFails(c, s)  BY <1>3 DEF Resolved
  <2> HIDE DEF s
  <2>4. ~s.has_remote  BY <1>1, <2>1 DEF Shaped, LinkedSession, Session
  <2>5. s.io = {}  BY <1>1, <2>1, <2>4 DEF Shaped
  <2>6. PendingUp(s) = Unsent(s.sbuf)  BY <2>1, <2>5 DEF PendingUp
  <2>7. s.toRemote \o Unsent(s.sbuf) = Upto(s.up) /\ s.down = 0 /\ s.toClient = <<>>
    BY <2>1, <2>2, <2>6 DEF Whole
  <2>8. Whole(session'[c])  BY <1>1, <2>1, <2>3, <2>4, <2>7, ConnectsWhole
  <2> QED  BY <2>8
<1>4. CASE QueryFreed(c)
  <2> DEFINE t == [s EXCEPT !.has_query = FALSE, !.asked_by = FALSE,
                            !.to_query = @ /\ ~s.asked_by]
  <2>1. Becomes(c, t)  BY <1>4 DEF QueryFreed
  <2>2. SameData(s, t)  BY <1>1 DEF SameData, Session
  <2> HIDE DEF t
  <2> QED  BY <2>1, <2>2, SameDataWhole, BecomesWhole
<1> QED  BY <1>2, <1>3, <1>4 DEF ResolvCb

\* Nothing waited: the stream begins.
LEMMA ConnectedEmptyWhole ==
  ASSUME RelayInv, NEW c \in Conns, Whole(session[c]), ConnectedEmpty(c)
  PROVE  Whole(session'[c])
<1> DEFINE s == session[c]
           w == (s.io \ {"remote_send"}) \cup {"server_recv", "remote_recv"}
           t == [s EXCEPT !.connected = TRUE, !.stage = "stream", !.io = w]
<1>1. Writable(c) /\ s.to_server /\ ~s.connected /\ s.rbuf.len = 0
  BY DEF ConnectedEmpty
<1>2. /\ Good(s) /\ s \in Session /\ Whole(s)
      /\ s.stage \in {"init", "resolve", "stream"} /\ s.has_remote
  BY <1>1, WritableFacts
<1>3. Becomes(c, t)  BY DEF ConnectedEmpty
<1>4. "remote_send" \in s.io  BY <1>1 DEF Writable
<1> HIDE DEF s
<1>5. s.stage \in {"init", "resolve"}  BY <1>1, <1>2 DEF Good, Shaped
<1>6. s.io = {"remote_send"}  BY <1>2, <1>5 DEF Good, Shaped
<1>7. w = {"server_recv", "remote_recv"}  BY <1>6
<1> HIDE DEF w
<1>8. /\ t.stage = "stream" /\ t.io = w
      /\ t.toRemote = s.toRemote /\ t.up = s.up
      /\ t.down = s.down /\ t.toClient = s.toClient
  BY <1>2 DEF Session
<1> HIDE DEF t
<1>9. PendingUp(s) = <<>>
  BY <1>1, <1>2, <1>4, SendTypes, UnsentEmpty DEF PendingUp
<1>10. PendingUp(t) = <<>> /\ PendingDown(t) = <<>>
  BY <1>7, <1>8 DEF PendingUp, PendingDown
<1>11. s.down = 0 /\ s.toClient = <<>> /\ s.toRemote \o <<>> = Upto(s.up)
  BY <1>2, <1>5, <1>9 DEF Whole
<1>12. <<>> \o <<>> = Upto(0)  BY DEF Upto
<1>13. Whole(t)  BY <1>8, <1>10, <1>11, <1>12, StreamWhole
<1> QED  BY <1>3, <1>13, BecomesWhole

\* A part of what waits is sent: the rest waits, or nothing does.
LEMMA SentOn ==
  ASSUME NEW a \in Seq(Nat), NEW b \in Buffer, NEW n \in 0 .. b.len
  PROVE  LET q == a \o SubSeq(Unsent(b), 1, n)
         IN  /\ q \in Seq(Nat) /\ Sent(b, n) \in Buffer
             /\ q \o Unsent(Sent(b, n)) = a \o Unsent(b)
             /\ n = b.len => q = a \o Unsent(b)
<1> DEFINE h == SubSeq(Unsent(b), 1, n)
           d == Unsent(Sent(b, n))
<1>1. b.len \in Nat  BY DEF Buffer
<1>2. Unsent(b) \in Seq(Nat) /\ Len(Unsent(b)) = b.len  BY UnsentType
<1>3. Sent(b, n) \in Buffer  BY SentType
<1>4. d \in Seq(Nat)  BY <1>3, UnsentType
<1>5. h \in Seq(Nat)  BY <1>1, <1>2
<1>6. h \o d = Unsent(b)  BY Cut
<1>7. n = b.len => h = Unsent(b)  BY <1>2, WholePrefix
<1> HIDE DEF h, d
<1>8. (a \o h) \o d = a \o (h \o d)  BY <1>4, <1>5, Pieces
<1>9. a \o h \in Seq(Nat)  BY <1>5
<1> QED  BY <1>3, <1>6, <1>7, <1>8, <1>9 DEF h, d

LEMMA RemoteSendWhole ==
  ASSUME RelayInv, NEW c \in Conns, Whole(session[c]), RemoteSend(c)
  PROVE  Whole(session'[c])
<1> DEFINE s == session[c]
<1>1. PICK n \in 0 .. s.rbuf.len :
        Becomes(c, IF s.rbuf.len = 0 THEN CloseBoth(s)
                   ELSE IF n < s.rbuf.len THEN RemoteSends(s, n)
                   ELSE Streaming([RemoteSends(s, n) EXCEPT !.rbuf.len = 0,
                                                            !.rbuf.idx = 0]))
  BY DEF RemoteSend
<1>2. Writable(c) /\ s.to_server  BY DEF RemoteSend
<1>3. /\ Good(s) /\ s \in Session /\ Shaped(s) /\ Whole(s)
      /\ s.stage \in {"init", "resolve", "stream"} /\ s.has_remote
  BY <1>2, WritableFacts DEF Good
<1>4. "remote_send" \in s.io  BY <1>2 DEF Writable
<1> HIDE DEF s
<1> DEFINE q == s.toRemote \o SubSeq(Unsent(s.rbuf), 1, n)
           b == Sent(s.rbuf, n)
           t == RemoteSends(s, n)
<1>5. s.rbuf \in Buffer /\ s.toRemote \in Seq(Nat) /\ s.rbuf.len \in Nat
  BY <1>3 DEF Session, Buffer
<1>6. s.toRemote \o Unsent(s.rbuf) = Upto(s.up)
  BY <1>3, <1>4 DEF Whole, PendingUp
<1>7. /\ q \in Seq(Nat) /\ b \in Buffer /\ q \o Unsent(b) = Upto(s.up)
      /\ n = s.rbuf.len => q = Upto(s.up)
  BY <1>5, <1>6, SentOn
<1>8. t = [s EXCEPT !.connected = TRUE, !.toRemote = q, !.rbuf = b]
  BY DEF RemoteSends
<1> HIDE DEF q, b, t
<1>9. /\ t \in Session /\ t.stage = s.stage /\ t.io = s.io
      /\ t.has_remote = s.has_remote /\ t.toRemote = q /\ t.rbuf = b
      /\ t.sbuf = s.sbuf /\ t.up = s.up
      /\ t.down = s.down /\ t.toClient = s.toClient
  BY <1>3, <1>7, <1>8 DEF Session
<1>10. CASE s.rbuf.len = 0
  BY <1>1, <1>3, <1>10, ClosedWhole, BecomesWhole DEF s
<1>11. CASE s.rbuf.len # 0 /\ n < s.rbuf.len
  <2>1. PendingUp(t) = Unsent(b) /\ PendingDown(t) = PendingDown(s)
    BY <1>4, <1>9 DEF PendingUp, PendingDown
  <2>2. Whole(t)  BY <1>3, <1>7, <1>9, <2>1 DEF Whole
  <2>3. Becomes(c, t)  BY <1>1, <1>11 DEF s, t
  <2> QED  BY <2>2, <2>3, BecomesWhole
<1>12. CASE s.rbuf.len # 0 /\ ~(n < s.rbuf.len)
  <2> DEFINE e == [t.rbuf EXCEPT !.len = 0, !.idx = 0]
             u == [t EXCEPT !.rbuf = e]
             w == (u.io \ {"remote_send"}) \cup {"server_recv"}
                  \cup (IF u.stage = "stream" THEN {} ELSE {"remote_recv"})
             v == [u EXCEPT !.stage = "stream", !.io = w]
  <2>1. e \in Buffer  BY <1>9 DEF Session, Buffer
  <2>2. [t EXCEPT !.rbuf.len = 0, !.rbuf.idx = 0] = u  BY <1>9 DEF Session
  <2> HIDE DEF e
  <2>3. /\ u \in Session /\ u.stage = s.stage /\ u.io = s.io
        /\ u.toRemote = q /\ u.sbuf = s.sbuf /\ u.up = s.up
        /\ u.down = s.down /\ u.toClient = s.toClient
    BY <1>9, <2>1 DEF Session
  <2> HIDE DEF u
  <2>4. Streaming(u) = v  BY DEF Streaming
  <2>5. /\ "remote_send" \notin w
        /\ ("server_send" \in w) = ("server_send" \in s.io)
    BY <2>3
  <2> HIDE DEF w
  <2>6. /\ v.stage = "stream" /\ v.io = w /\ v.toRemote = q
        /\ v.sbuf = s.sbuf /\ v.up = s.up
        /\ v.down = s.down /\ v.toClient = s.toClient
    BY <2>3 DEF Session
  <2> HIDE DEF v
  <2>7. PendingUp(v) = <<>> /\ PendingDown(v) = PendingDown(s)
    BY <2>5, <2>6 DEF PendingUp, PendingDown
  <2>8. q \o <<>> = Upto(s.up)
    <3>1. n = s.rbuf.len  BY <1>5, <1>12
    <3> QED  BY <1>7, <3>1, Pieces
  <2>9. s.toClient \o PendingDown(s) = Upto(s.down)
    <3>1. CASE s.stage = "stream"  BY <1>3, <3>1 DEF Whole
    <3>2. CASE s.stage # "stream"
      <4>1. s.io = {"remote_send"}  BY <1>3, <3>2 DEF Shaped
      <4>2. PendingDown(s) = <<>>  BY <4>1 DEF PendingDown
      <4>3. s.down = 0 /\ s.toClient = <<>>  BY <1>3, <3>2 DEF Whole
      <4>4. <<>> \o <<>> = Upto(0)  BY DEF Upto
      <4> QED  BY <4>2, <4>3, <4>4
    <3> QED  BY <3>1, <3>2
  <2>10. Whole(v)  BY <2>6, <2>7, <2>8, <2>9, StreamWhole
  <2>11. Becomes(c, v)  BY <1>1, <1>12, <2>2, <2>4 DEF s, t
  <2> QED  BY <2>10, <2>11, BecomesWhole
<1> QED  BY <1>10, <1>11, <1>12

LEMMA ServerSendWhole ==
  ASSUME RelayInv, NEW c \in Conns, Whole(session[c]), ServerSend(c)
  PROVE  Whole(session'[c])
<1> DEFINE s == session[c]
           T(n) == [s EXCEPT !.toClient = @ \o SubSeq(Unsent(s.sbuf), 1, n),
                             !.sbuf = Sent(@, n)]
<1>1. PICK n \in 0 .. s.sbuf.len :
        Becomes(c, IF ~s.to_remote THEN CloseServer(s)
                   ELSE IF s.sbuf.len = 0 THEN CloseBoth(s)
                   ELSE IF n < s.sbuf.len THEN T(n)
                   ELSE Answered(T(n)))
  BY DEF ServerSend
<1>2. /\ Good(s) /\ s \in Session /\ Shaped(s) /\ Whole(s)
      /\ s.stage \in {"stream", "stop"}
  BY WaitingFacts DEF ServerSend, Good
<1>3. "server_send" \in s.io  BY DEF ServerSend, Waiting
<1> DEFINE q == s.toClient \o SubSeq(Unsent(s.sbuf), 1, n)
           b == Sent(s.sbuf, n)
           t == T(n)
<1>4. s.sbuf \in Buffer /\ s.toClient \in Seq(Nat) /\ s.sbuf.len \in Nat
  BY <1>2 DEF Session, Buffer
<1>5. /\ q \in Seq(Nat) /\ b \in Buffer
      /\ q \o Unsent(b) = s.toClient \o Unsent(s.sbuf)
      /\ n = s.sbuf.len => q = s.toClient \o Unsent(s.sbuf)
  BY <1>4, SentOn
<1>6. t = [s EXCEPT !.toClient = q, !.sbuf = b]  OBVIOUS
<1> HIDE DEF q, b, T
<1>7. /\ t \in Session /\ t.stage = s.stage /\ t.io = s.io
      /\ t.toRemote = s.toRemote /\ t.rbuf = s.rbuf /\ t.sbuf = b
      /\ t.up = s.up /\ t.down = s.down /\ t.toClient = q
  BY ZenonT(40), <1>2, <1>5, <1>6 DEF Session
<1> HIDE DEF s
<1>8. CASE ~s.to_remote
  BY <1>1, <1>2, <1>8, ClosedWhole, BecomesWhole DEF s
<1>9. CASE s.to_remote /\ s.sbuf.len = 0
  BY <1>1, <1>2, <1>9, ClosedWhole, BecomesWhole DEF s
<1>10. s.stage = "stream" =>
         /\ s.toRemote \o PendingUp(s) = Upto(s.up)
         /\ s.toClient \o Unsent(s.sbuf) = Upto(s.down)
  BY <1>2, <1>3 DEF Whole, PendingDown
<1>11. CASE s.to_remote /\ s.sbuf.len # 0 /\ n < s.sbuf.len
  <2>1. Becomes(c, t)  BY <1>1, <1>11 DEF s
  <2> HIDE DEF t
  <2>2. CASE s.stage = "stop"  BY <1>7, <2>1, <2>2, EndedWhole, BecomesWhole
  <2>3. CASE s.stage = "stream"
    <3>1. PendingUp(t) = PendingUp(s) /\ PendingDown(t) = Unsent(b)
      BY <1>3, <1>7, <2>3 DEF PendingUp, PendingDown
    <3>2. Whole(t)  BY <1>5, <1>7, <1>10, <2>3, <3>1, StreamWhole
    <3> QED  BY <2>1, <3>2, BecomesWhole
  <2> QED  BY <1>2, <2>2, <2>3
<1>12. CASE s.to_remote /\ s.sbuf.len # 0 /\ ~(n < s.sbuf.len)
  <2>1. Becomes(c, Answered(t))  BY <1>1, <1>12 DEF s
  <2> HIDE DEF t
  <2> DEFINE e == [t.sbuf EXCEPT !.len = 0, !.idx = 0]
             w == (t.io \ {"server_send"}) \cup {"remote_recv"}
             v == [t EXCEPT !.sbuf = e, !.io = w]
  <2>2. Answered(t) = v
    <3>1. [t EXCEPT !.sbuf.len = 0, !.sbuf.idx = 0] = [t EXCEPT !.sbuf = e]
      BY <1>7 DEF Session
    <3> QED  BY <3>1 DEF Answered
  <2>3. /\ "server_send" \notin w
        /\ ("remote_send" \in w) = ("remote_send" \in s.io)
    BY <1>7
  <2> HIDE DEF e, w
  <2>4. /\ v.stage = s.stage /\ v.io = w
        /\ v.toRemote = s.toRemote /\ v.rbuf = s.rbuf
        /\ v.up = s.up /\ v.down = s.down /\ v.toClient = q
    BY <1>7 DEF Session
  <2> HIDE DEF v
  <2>5. CASE s.stage = "stop"
    BY <2>1, <2>2, <2>4, <2>5, EndedWhole, BecomesWhole
  <2>6. CASE s.stage = "stream"
    <3>1. PendingUp(v) = PendingUp(s) /\ PendingDown(v) = <<>>
      BY <2>3, <2>4, <2>6 DEF PendingUp, PendingDown
    <3>2. q \o <<>> = Upto(s.down)
      <4>1. n = s.sbuf.len  BY <1>4, <1>12
      <4> QED  BY <1>5, <1>10, <2>6, <4>1, Pieces
    <3>3. Whole(v)  BY <1>10, <2>4, <2>6, <3>1, <3>2, StreamWhole
    <3> QED  BY <2>1, <2>2, <3>3, BecomesWhole
  <2> QED  BY <1>2, <2>5, <2>6
<1> QED  BY <1>8, <1>9, <1>11, <1>12

\* The rest leaves the data alone, or ends the stream.
LEMMA OtherWhole ==
  ASSUME RelayInv, NEW c \in Conns, Whole(session[c]),
         \/ ClientCloses(c) \/ ClientSilent(c) \/ ClientIgnored(c)
         \/ ClientGarbage(c) \/ ClientFragment(c) \/ RequestRefused(c)
         \/ RequestDenied(c) \/ ServerSendFails(c) \/ RemoteSendFails(c)
         \/ RemoteCloses(c) \/ RemoteSilent(c) \/ RemoteIgnored(c)
         \/ OrphanCloses(c) \/ TimesOut(c)
  PROVE  Whole(session'[c])
<1> DEFINE s == session[c]
<1>1. s \in Session /\ Shaped(s) /\ Whole(s)  BY DEF RelayInv, Good
<1>2. ASSUME NEW i
      PROVE  Whole([s EXCEPT !.idle = i])
  <2>1. SameData(s, [s EXCEPT !.idle = i])  BY <1>1 DEF SameData, Session
  <2> QED  BY <1>1, <2>1, SameDataWhole
<1>3. CASE ClientCloses(c)
  BY <1>1, <1>3, ClosedWhole, BecomesWhole DEF ClientCloses, HungUp
<1>4. CASE ClientSilent(c)
  BY <1>1, <1>2, <1>4, BecomesWhole DEF ClientSilent, Renewed
<1>5. CASE ClientIgnored(c)
  <2>1. PICK k \in 1 .. BufSize :
          Becomes(c, [s EXCEPT !.sbuf.data =
                        [i \in DOMAIN @ |-> IF i <= k THEN 0 ELSE @[i]]])
    BY <1>5 DEF ClientIgnored
  <2> DEFINE b == [s.sbuf EXCEPT !.data =
                     [i \in DOMAIN @ |-> IF i <= k THEN 0 ELSE @[i]]]
             t == [s EXCEPT !.sbuf = b]
  <2>2. Becomes(c, t)  BY <2>1
  <2> HIDE DEF b
  <2>3. t.stage = "stop"  BY <1>1, <1>5 DEF ClientIgnored, Session
  <2> HIDE DEF t
  <2> QED  BY <2>2, <2>3, EndedWhole, BecomesWhole
<1>6. CASE ClientGarbage(c)
  <2> DEFINE t == [Renewed(s) EXCEPT !.stage = "stop"]
  <2>1. Becomes(c, t)  BY <1>6 DEF ClientGarbage
  <2>2. t.stage = "stop"  BY <1>1 DEF Renewed, Session
  <2> HIDE DEF t
  <2> QED  BY <2>1, <2>2, EndedWhole, BecomesWhole
<1>7. CASE ClientFragment(c)
  <2> DEFINE t == [s EXCEPT !.stage = "stop"]
             u == [s EXCEPT !.frag = @ + 1]
  <2>1. Becomes(c, t) \/ Becomes(c, u)  BY <1>7 DEF ClientFragment
  <2>2. t.stage = "stop"  BY <1>1 DEF Session
  <2>3. SameData(s, u)  BY <1>1 DEF SameData, Session
  <2> HIDE DEF t, u
  <2> QED  BY <1>1, <2>1, <2>2, <2>3, EndedWhole, SameDataWhole, BecomesWhole
<1>8. CASE RequestRefused(c)
  <2> DEFINE t == [s EXCEPT !.stage = "stop"]
  <2>1. Becomes(c, t)  BY <1>8 DEF RequestRefused
  <2>2. t.stage = "stop"  BY <1>1 DEF Session
  <2> HIDE DEF t
  <2> QED  BY <2>1, <2>2, EndedWhole, BecomesWhole
<1>9. CASE RequestDenied(c) \/ ServerSendFails(c) \/ RemoteSendFails(c)
           \/ RemoteCloses(c) \/ TimesOut(c)
  BY <1>1, <1>9, ClosedWhole, BecomesWhole
  DEF RequestDenied, ServerSendFails, RemoteSendFails, RemoteCloses, TimesOut
<1>10. CASE RemoteSilent(c) \/ RemoteIgnored(c)
  BY <1>2, <1>10, BecomesWhole DEF RemoteSilent, RemoteIgnored
<1>11. CASE OrphanCloses(c)
  <2> DEFINE t == CloseRemote(s)
  <2>1. Becomes(c, t) /\ ~s.to_server
        /\ s.io \cap {"remote_recv", "remote_send"} # {}
    BY <1>11 DEF OrphanCloses
  <2>2. s.stage = "none"
    <3> HIDE DEF s
    <3> QED  BY <1>1, <2>1 DEF Shaped, LinkedSession
  <2>3. t.stage = "none"  BY <1>1, <2>2, CloseRemoteFields
  <2> HIDE DEF t
  <2> QED  BY <2>1, <2>3, EndedWhole, BecomesWhole
<1> QED  BY <1>3, <1>4, <1>5, <1>6, <1>7, <1>8, <1>9, <1>10, <1>11

LEMMA CallbackWhole ==
  ASSUME RelayInv, NEW c \in Conns, Whole(session[c]), Callback(c)
  PROVE  Whole(session'[c])
<1>1. CASE ServerRecvCb(c)
  BY <1>1, ClientDataWhole, RequestDirectWhole, RequestNamedWhole, OtherWhole
  DEF ServerRecvCb
<1>2. CASE RemoteSendCb(c)
  BY <1>2, ConnectedEmptyWhole, RemoteSendWhole, OtherWhole DEF RemoteSendCb
<1>3. CASE RemoteRecvCb(c)
  BY <1>3, RemoteDataWhole, OtherWhole DEF RemoteRecvCb
<1>4. CASE ServerSendCb(c)
  BY <1>4, ServerSendWhole, OtherWhole DEF ServerSendCb
<1> QED
  BY <1>1, <1>2, <1>3, <1>4, AcceptWhole, ResolvCbWhole, OtherWhole DEF Callback
-----------------------------------------------------------------------------
\* The invariant, and the theorem

AllWhole == \A c \in Conns : Whole(session[c])

LEMMA InitWhole == Init => AllWhole
<1>1. Fresh.stage = "none"  BY DEF Fresh
<1>2. Whole(Fresh)  BY <1>1, EndedWhole
<1> QED  BY <1>2 DEF Init, RelayInit, AllWhole

LEMMA NextWhole == IInv /\ AllWhole /\ [Next]_vars => AllWhole'
<1> SUFFICES ASSUME IInv, AllWhole, [Next]_vars, NEW c \in Conns
             PROVE  Whole(session'[c])
  BY DEF AllWhole
<1>1. RelayInv /\ session[c] \in Session /\ Whole(session[c])
  BY DEF IInv, RelayInv, RelayTypeOK, AllWhole
<1>2. CASE session' = session  BY <1>1, <1>2
<1>3. CASE Serve
  <2>1. CASE Tick
    <3> DEFINE t == [session[c] EXCEPT !.idle = @ + 1]
    <3>1. session'[c] \in {session[c], t}  BY <2>1 DEF Tick
    <3>2. SameData(session[c], t)  BY <1>1 DEF SameData, Session
    <3> HIDE DEF t
    <3>3. Whole(t)  BY <1>1, <3>2, SameDataWhole
    <3> QED  BY <1>1, <3>1, <3>3
  <2>2. CASE \E d \in Conns : Callback(d)
    <3>1. PICK d \in Conns : Callback(d)  BY <2>2
    <3>2. CASE d = c  BY <1>1, <3>1, <3>2, CallbackWhole
    <3>3. CASE d # c
      <4>1. session'[c] = session[c]  BY <1>1, <3>1, <3>3, OneConnection
      <4> QED  BY <1>1, <4>1
    <3> QED  BY <3>2, <3>3
  <2> QED  BY <1>3, <2>1, <2>2 DEF Serve, RelayNext
<1>4. CASE CleanUp
  <2>1. session'[c] = IF session[c].stage = "none" THEN session[c]
                      ELSE Settled(FreeConnection(session[c]))
    BY <1>4 DEF CleanUp
  <2>2. session[c].stage # "none" => FreeConnection(session[c]).stage = "none"
    BY <1>1, FreeConnectionGood DEF RelayInv, Remains
  <2>3. Fresh.stage = "none"  BY DEF Fresh
  <2>4. session'[c].stage = "none"  BY <2>1, <2>2, <2>3 DEF Settled
  <2> QED  BY <2>4, EndedWhole
<1>5. CASE ConnectFatal
  <2>1. session'[c].stage = "none"  BY <1>5 DEF ConnectFatal, Fresh
  <2> QED  BY <2>1, EndedWhole
<1> QED
  BY <1>2, <1>3, <1>4, <1>5
  DEF Next, Configure, StartFails, Listen, ListenFails, BindFails, ListenDone,
      InitUdp, Signal, PluginDies, Stay, vars, relayVars

\* Whatever the requests, the sizes of the buffers and what the sockets take:
\* until a server is stopped its client and its remote get what the other one
\* sent, in order and complete.
THEOREM StreamIntactCorrect == Spec => []StreamIntact
<1>1. IInv /\ AllWhole => StreamIntact
  BY DEF AllWhole, Whole, PendingUp, PendingDown, StreamIntact
<1> QED  BY <1>1, InitWhole, NextWhole, SpecIInv, PTL DEF Spec
-----------------------------------------------------------------------------
(***************************************************************************)
(* The promise.  Follows says of a session before and after a step what    *)
(* Tunnel allows, in numbers: that the bytes are the right ones is Whole.  *)
(***************************************************************************)

\* A stream of which a part is known is known up to there.
LEMMA PrefixOfUpto ==
  ASSUME NEW a \in Seq(Nat), NEW b \in Seq(Nat), NEW n \in Nat, a \o b = Upto(n)
  PROVE  a = Upto(Len(a)) /\ Len(a) <= n /\ (b = <<>> => Len(a) = n)
<1> DEFINE q == a \o b
           l == Len(a)
<1>1. l \in Nat /\ Len(b) \in Nat /\ Len(q) = l + Len(b)
  BY ConcatProperties
<1>2. Upto(n) \in [1 .. n -> Nat] /\ Upto(l) \in [1 .. l -> Nat]
  BY <1>1 DEF Upto
<1>3. Upto(n) \in Seq(Nat) /\ Len(Upto(n)) = n
  BY <1>2
<1>4. Upto(l) \in Seq(Nat) /\ Len(Upto(l)) = l
  <2> HIDE DEF l
  <2> QED  BY <1>1, <1>2
<1>5. n = l + Len(b)
  <2>1. q = Upto(n)  OBVIOUS
  <2> HIDE DEF q, l
  <2> QED  BY <1>1, <1>3, <2>1
<1>6. ASSUME NEW i \in 1 .. l PROVE a[i] = Upto(l)[i]
  <2>1. i \in 1 .. n /\ i \in 1 .. Len(a) + Len(b) /\ i <= Len(a)
    BY <1>1, <1>5
  <2>2. q[i] = a[i]
    BY <2>1, ConcatProperties
  <2>3. Upto(n)[i] = i /\ Upto(l)[i] = i
    BY <2>1 DEF Upto
  <2> QED  BY <2>2, <2>3
<1>7. a = Upto(l)
  <2> HIDE DEF l
  <2>1. Len(a) = l  BY DEF l
  <2> QED  BY <1>4, <1>6, <2>1, SeqEqual
<1>8. b = <<>> => Len(b) = 0
  OBVIOUS
<1> HIDE DEF q
<1> QED
  BY <1>1, <1>5, <1>7, <1>8

\* What is delivered of each direction, and what is not yet
LEMMA WholePipes ==
  ASSUME NEW s \in Session, Whole(s)
  PROVE  /\ s.stage \in {"init", "resolve", "stream"} =>
              /\ s.toRemote = Upto(Len(s.toRemote)) /\ Len(s.toRemote) <= s.up
              /\ PendingUp(s) = <<>> => Len(s.toRemote) = s.up
         /\ s.stage = "stream" =>
              /\ s.toClient = Upto(Len(s.toClient)) /\ Len(s.toClient) <= s.down
              /\ PendingDown(s) = <<>> => Len(s.toClient) = s.down
<1>1. /\ s.toRemote \in Seq(Nat) /\ s.toClient \in Seq(Nat)
      /\ s.up \in Nat /\ s.down \in Nat
      /\ Unsent(s.sbuf) \in Seq(Nat) /\ Unsent(s.rbuf) \in Seq(Nat)
  BY SendTypes
<1>2. PendingUp(s) \in Seq(Nat) /\ PendingDown(s) \in Seq(Nat)
  BY <1>1 DEF PendingUp, PendingDown
<1>3. s.stage \in {"init", "resolve", "stream"} =>
        s.toRemote \o PendingUp(s) = Upto(s.up)
  BY DEF Whole
<1>4. s.stage = "stream" => s.toClient \o PendingDown(s) = Upto(s.down)
  BY DEF Whole
<1> QED
  BY <1>1, <1>2, <1>3, <1>4, PrefixOfUpto

Opening(s) == s.stage = "init" /\ ~s.has_remote
Connecting(s) == s.stage = "resolve" \/ (s.stage = "init" /\ s.has_remote)

UpStays(s, t) == t.up = s.up /\ t.toRemote = s.toRemote
DownStays(s, t) == t.down = s.down /\ t.toClient = s.toClient

UpFlows(s, t) ==
  /\ Len(s.toRemote) <= Len(t.toRemote)
  /\ \/ t.up = s.up
     \/ Len(s.toRemote) = s.up /\ t.up \in s.up .. s.up + BufSize

DownFlows(s, t) ==
  /\ Len(s.toClient) <= Len(t.toClient)
  /\ \/ t.down = s.down
     \/ Len(s.toClient) = s.down /\ t.down \in s.down .. s.down + BufSize

\* What the step of one connection may do, as Tunnel has it
Follows(s, t) ==
  \/ t.stage = "none"
  \/ Connection(t) = Connection(s)
  \/ s.stage = "none" /\ Opening(t)
  \/ Opening(s) /\ Connecting(t) /\ t.up \in Payloads
  \/ /\ Connecting(s) /\ t.up = s.up /\ Len(s.toRemote) <= Len(t.toRemote)
     /\ \/ Connecting(t)
        \/ /\ t.stage = "stream" /\ Len(t.toRemote) = t.up
           /\ t.down = 0 /\ t.toClient = <<>>
  \/ /\ s.stage = "stream" /\ t.stage = "stream"
     /\ \/ UpFlows(s, t) /\ DownStays(s, t)
        \/ UpStays(s, t) /\ DownFlows(s, t)
  \/ /\ Opening(s) \/ s.stage = "stream"
     /\ t.stage = "stop" /\ UpStays(s, t)

LEMMA SameConnection ==
  ASSUME NEW s, NEW t, t.stage = s.stage, t.has_remote = s.has_remote,
         UpStays(s, t), DownStays(s, t)
  PROVE  Connection(t) = Connection(s)
BY DEF Connection, UpStays, DownStays

LEMMA BecomesFollows ==
  ASSUME RelayInv, NEW c \in Conns, NEW t, Becomes(c, t),
         Follows(session[c], t)
  PROVE  Follows(session[c], session'[c])
<1>1. session'[c] = Settled(t)  BY DEF Becomes, RelayInv, RelayTypeOK
<1>2. Fresh.stage = "none"  BY DEF Fresh
<1>3. CASE t.stage = "none"
  <2>1. session'[c].stage = "none"  BY <1>1, <1>2, <1>3 DEF Settled
  <2> QED  BY <2>1 DEF Follows
<1>4. CASE t.stage # "none"
  <2>1. session'[c] = t  BY <1>1, <1>4 DEF Settled
  <2> QED  BY <2>1
<1> QED  BY <1>3, <1>4

LEMMA EndedFollows ==
  ASSUME RelayInv, NEW c \in Conns,
         \/ Becomes(c, CloseServer(session[c]))
         \/ Becomes(c, CloseBoth(session[c]))
  PROVE  Follows(session[c], session'[c])
<1>1. session[c] \in Session  BY DEF RelayInv, RelayTypeOK
<1>2. /\ CloseServer(session[c]).stage = "none"
      /\ CloseBoth(session[c]).stage = "none"
  BY <1>1, CloseServerFields, CloseBothEnds
<1>3. /\ Follows(session[c], CloseServer(session[c]))
      /\ Follows(session[c], CloseBoth(session[c]))
  BY <1>2 DEF Follows
<1> QED  BY <1>3, BecomesFollows

\* Data follow each other.
LEMMA Longer ==
  ASSUME NEW a \in Seq(Nat), NEW x \in Seq(Nat)
  PROVE  /\ Len(a \o x) \in Nat /\ Len(a) \in Nat
         /\ Len(a) <= Len(a \o x)
         /\ Len(a \o x) = Len(a) + Len(x)
<1>1. Len(a \o x) = Len(a) + Len(x)  BY ConcatProperties
<1>2. Len(a) \in Nat /\ Len(x) \in Nat  OBVIOUS
<1> QED  BY <1>1, <1>2

LEMMA AcceptFollows ==
  ASSUME RelayInv, NEW c \in Conns, Accept(c)
  PROVE  Follows(session[c], session'[c])
<1> DEFINE t == [NewServer EXCEPT !.io = {"server_recv"}]
<1>1. Becomes(c, t) /\ session[c].stage = "none"  BY DEF Accept, Fresh
<1>2. Opening(t)  BY DEF NewServer, Fresh, Opening
<1> HIDE DEF t
<1>3. Follows(session[c], t)  BY <1>1, <1>2 DEF Follows
<1> QED  BY <1>1, <1>3, BecomesFollows

LEMMA ClientDataFollows ==
  ASSUME RelayInv, NEW c \in Conns, Whole(session[c]), ClientData(c)
  PROVE  Follows(session[c], session'[c])
<1> DEFINE s == session[c]
<1>1. PICK k \in 1 .. BufSize :
        LET bytes == Chunk(s.up, k)
            t == [s EXCEPT !.idle = 0, !.up = @ + k, !.rbuf = Filled(@, bytes)]
        IN  /\ s.up + k <= MaxBytes[c]
            /\ \/ Becomes(c, CloseBoth(t))
               \/ Becomes(c, [t EXCEPT !.toRemote = @ \o bytes])
               \/ \E n \in 0 .. k - 1 :
                    Becomes(c, [t EXCEPT
                      !.toRemote = @ \o SubSeq(bytes, 1, n),
                      !.rbuf = Rest(@, n),
                      !.io = Wait(@, "server_recv", "remote_send")])
  BY DEF ClientData
<1>2. Readable(c) /\ s.stage = "stream"  BY DEF ClientData
<1>3. Good(s) /\ s \in Session /\ Shaped(s) /\ Whole(s)
  BY <1>2, ReadableFacts DEF Good
<1> DEFINE bytes == Chunk(s.up, k)
           b == Filled(s.rbuf, bytes)
           u == s.up + k
           t == [s EXCEPT !.idle = 0, !.up = u, !.rbuf = b]
<1>4. /\ u <= MaxBytes[c]
      /\ \/ Becomes(c, CloseBoth(t))
         \/ Becomes(c, [t EXCEPT !.toRemote = t.toRemote \o bytes])
         \/ \E n \in 0 .. k - 1 :
              Becomes(c, [t EXCEPT
                !.toRemote = t.toRemote \o SubSeq(bytes, 1, n),
                !.rbuf = Rest(t.rbuf, n),
                !.io = Wait(t.io, "server_recv", "remote_send")])
  BY <1>1
<1>5. "server_recv" \in s.io  BY <1>2 DEF Readable
<1> HIDE DEF s
<1>6. k \in Nat /\ 0 \in 0 .. Timeout
  BY RelayAssumption
<1>7. s.up \in Nat /\ s.toRemote \in Seq(Nat) /\ s.rbuf \in Buffer
  BY <1>3 DEF Session
<1>8. Len(s.toRemote) = s.up
  <2>1. "remote_send" \notin s.io  BY <1>2, <1>3, <1>5 DEF Shaped
  <2>2. PendingUp(s) = <<>>  BY <1>2, <2>1 DEF PendingUp
  <2> QED  BY <1>2, <1>3, <2>2, WholePipes
<1>9. u \in Nat /\ u \in s.up .. s.up + BufSize
  BY <1>6, <1>7, RelayAssumption
<1>10. bytes \in Seq(Nat) /\ Len(bytes) = k /\ b \in Buffer
  BY <1>6, <1>7, ChunkType, FilledType
<1> HIDE DEF bytes, b, u
<1>11. /\ t \in Session /\ t.stage = "stream" /\ t.up = u
       /\ t.toRemote = s.toRemote /\ DownStays(s, t)
  BY <1>2, <1>3, <1>6, <1>9, <1>10 DEF Session, DownStays
<1> HIDE DEF t
<1>12. ASSUME NEW x \in Seq(Nat), NEW v, v.stage = "stream", v.up = u,
              v.toRemote = t.toRemote \o x, DownStays(t, v)
       PROVE  Follows(s, v)
  <2>1. Len(s.toRemote) <= Len(v.toRemote)
    BY <1>7, <1>11, <1>12, Longer
  <2>2. UpFlows(s, v)  BY <1>8, <1>9, <1>12, <2>1 DEF UpFlows
  <2>3. DownStays(s, v)  BY <1>11, <1>12 DEF DownStays
  <2> QED  BY <1>2, <1>12, <2>2, <2>3 DEF Follows
<1>13. CASE Becomes(c, CloseBoth(t))
  <2>1. Follows(s, CloseBoth(t))  BY <1>11, CloseBothEnds DEF Follows
  <2> QED  BY <1>13, <2>1, BecomesFollows DEF s
<1>14. CASE Becomes(c, [t EXCEPT !.toRemote = t.toRemote \o bytes])
  <2> DEFINE q == t.toRemote \o bytes
             v == [t EXCEPT !.toRemote = q]
  <2> HIDE DEF q
  <2>1. v.stage = "stream" /\ v.up = u /\ v.toRemote = q /\ DownStays(t, v)
    BY <1>11 DEF Session, DownStays
  <2> HIDE DEF v
  <2>2. Follows(s, v)  BY <1>10, <1>12, <2>1 DEF q
  <2> QED  BY <1>14, <2>2, BecomesFollows DEF s, q, v
<1>15. ASSUME NEW n \in 0 .. k - 1,
              Becomes(c, [t EXCEPT
                !.toRemote = t.toRemote \o SubSeq(bytes, 1, n),
                !.rbuf = Rest(t.rbuf, n),
                !.io = Wait(t.io, "server_recv", "remote_send")])
       PROVE  Follows(s, session'[c])
  <2> DEFINE x == SubSeq(bytes, 1, n)
             q == t.toRemote \o x
             r == Rest(t.rbuf, n)
             w == Wait(t.io, "server_recv", "remote_send")
             v == [t EXCEPT !.toRemote = q, !.rbuf = r, !.io = w]
  <2>1. x \in Seq(Nat)  BY <1>6, <1>10
  <2>2. Becomes(c, v)  BY <1>15
  <2> HIDE DEF q, r, w
  <2>3. v.stage = "stream" /\ v.up = u /\ v.toRemote = q /\ DownStays(t, v)
    BY <1>11 DEF Session, DownStays
  <2> HIDE DEF v, x
  <2>4. Follows(s, v)  BY <1>12, <2>1, <2>3 DEF q
  <2> QED  BY <2>2, <2>4, BecomesFollows DEF s
<1> QED  BY <1>4, <1>13, <1>14, <1>15 DEF s

LEMMA RemoteDataFollows ==
  ASSUME RelayInv, NEW c \in Conns, Whole(session[c]), RemoteData(c)
  PROVE  Follows(session[c], session'[c])
<1> DEFINE s == session[c]
<1>1. PICK k \in 1 .. BufSize :
        LET bytes == Chunk(s.down, k)
            t == [s EXCEPT !.idle = 0, !.down = @ + k, !.sbuf = Filled(@, bytes)]
        IN  /\ s.down + k <= MaxBytes[c]
            /\ \/ Becomes(c, CloseBoth(t))
               \/ Becomes(c, [t EXCEPT !.toClient = @ \o bytes])
               \/ \E n \in 0 .. k - 1 :
                    Becomes(c, [t EXCEPT
                      !.toClient = @ \o SubSeq(bytes, 1, n),
                      !.sbuf = Rest(@, n),
                      !.io = Wait(@, "remote_recv", "server_send")])
  BY DEF RemoteData
<1>2. Answering(c) /\ s.stage = "stream"
  BY AnsweringFacts DEF RemoteData
<1>3. Good(s) /\ s \in Session /\ Shaped(s) /\ Whole(s)
  BY <1>2, AnsweringFacts DEF Good
<1> DEFINE bytes == Chunk(s.down, k)
           b == Filled(s.sbuf, bytes)
           u == s.down + k
           t == [s EXCEPT !.idle = 0, !.down = u, !.sbuf = b]
<1>4. /\ u <= MaxBytes[c]
      /\ \/ Becomes(c, CloseBoth(t))
         \/ Becomes(c, [t EXCEPT !.toClient = t.toClient \o bytes])
         \/ \E n \in 0 .. k - 1 :
              Becomes(c, [t EXCEPT
                !.toClient = t.toClient \o SubSeq(bytes, 1, n),
                !.sbuf = Rest(t.sbuf, n),
                !.io = Wait(t.io, "remote_recv", "server_send")])
  BY <1>1
<1>5. "remote_recv" \in s.io  BY <1>2 DEF Answering
<1> HIDE DEF s
<1>6. k \in Nat /\ 0 \in 0 .. Timeout
  BY RelayAssumption
<1>7. s.down \in Nat /\ s.toClient \in Seq(Nat) /\ s.sbuf \in Buffer
  BY <1>3 DEF Session
<1>8. Len(s.toClient) = s.down
  <2>1. "server_send" \notin s.io  BY <1>2, <1>3, <1>5 DEF Shaped
  <2>2. PendingDown(s) = <<>>  BY <1>2, <2>1 DEF PendingDown
  <2> QED  BY <1>2, <1>3, <2>2, WholePipes
<1>9. u \in Nat /\ u \in s.down .. s.down + BufSize
  BY <1>6, <1>7, RelayAssumption
<1>10. bytes \in Seq(Nat) /\ Len(bytes) = k /\ b \in Buffer
  BY <1>6, <1>7, ChunkType, FilledType
<1> HIDE DEF bytes, b, u
<1>11. /\ t \in Session /\ t.stage = "stream" /\ t.down = u
       /\ t.toClient = s.toClient /\ UpStays(s, t)
  BY <1>2, <1>3, <1>6, <1>9, <1>10 DEF Session, UpStays
<1> HIDE DEF t
<1>12. ASSUME NEW x \in Seq(Nat), NEW v, v.stage = "stream", v.down = u,
              v.toClient = t.toClient \o x, UpStays(t, v)
       PROVE  Follows(s, v)
  <2>1. Len(s.toClient) <= Len(v.toClient)
    BY <1>7, <1>11, <1>12, Longer
  <2>2. DownFlows(s, v)  BY <1>8, <1>9, <1>12, <2>1 DEF DownFlows
  <2>3. UpStays(s, v)  BY <1>11, <1>12 DEF UpStays
  <2> QED  BY <1>2, <1>12, <2>2, <2>3 DEF Follows
<1>13. CASE Becomes(c, CloseBoth(t))
  <2>1. Follows(s, CloseBoth(t))  BY <1>11, CloseBothEnds DEF Follows
  <2> QED  BY <1>13, <2>1, BecomesFollows DEF s
<1>14. CASE Becomes(c, [t EXCEPT !.toClient = t.toClient \o bytes])
  <2> DEFINE q == t.toClient \o bytes
             v == [t EXCEPT !.toClient = q]
  <2> HIDE DEF q
  <2>1. v.stage = "stream" /\ v.down = u /\ v.toClient = q /\ UpStays(t, v)
    BY <1>11 DEF Session, UpStays
  <2> HIDE DEF v
  <2>2. Follows(s, v)  BY <1>10, <1>12, <2>1 DEF q
  <2> QED  BY <1>14, <2>2, BecomesFollows DEF s, q, v
<1>15. ASSUME NEW n \in 0 .. k - 1,
              Becomes(c, [t EXCEPT
                !.toClient = t.toClient \o SubSeq(bytes, 1, n),
                !.sbuf = Rest(t.sbuf, n),
                !.io = Wait(t.io, "remote_recv", "server_send")])
       PROVE  Follows(s, session'[c])
  <2> DEFINE x == SubSeq(bytes, 1, n)
             q == t.toClient \o x
             r == Rest(t.sbuf, n)
             w == Wait(t.io, "remote_recv", "server_send")
             v == [t EXCEPT !.toClient = q, !.sbuf = r, !.io = w]
  <2>1. x \in Seq(Nat)  BY <1>6, <1>10
  <2>2. Becomes(c, v)  BY <1>15
  <2> HIDE DEF q, r, w
  <2>3. v.stage = "stream" /\ v.down = u /\ v.toClient = q /\ UpStays(t, v)
    BY <1>11 DEF Session, UpStays
  <2> HIDE DEF v, x
  <2>4. Follows(s, v)  BY <1>12, <2>1, <2>3 DEF q
  <2> QED  BY <2>2, <2>4, BecomesFollows DEF s
<1> QED  BY <1>4, <1>13, <1>14, <1>15 DEF s

\* A connection is being made for what s asks, or it ends.
LEMMA ConnectsFields ==
  ASSUME RelayInv, NEW c \in Conns, NEW s \in Session,
         Connects(c, s) \/ ConnectFails(c, s)
  PROVE  LET t == session'[c]
         IN  \/ t.stage = "none"
             \/ /\ t.stage = s.stage /\ t.has_remote
                /\ t.up = s.up /\ Len(s.toRemote) <= Len(t.toRemote)
<1>1. session \in [Conns -> Session]  BY DEF RelayInv, RelayTypeOK
<1>2. CASE ConnectFails(c, s)
  <2>1. session'[c] = Settled(CloseServer(s))  BY <1>1, <1>2 DEF ConnectFails
  <2>2. CloseServer(s).stage = "none" /\ Fresh.stage = "none"
    BY CloseServerFields DEF Fresh
  <2> QED  BY <2>1, <2>2 DEF Settled
<1>3. CASE Connects(c, s)
  <2>1. PICK n \in 0 .. s.sbuf.len :
          session' = [session EXCEPT ![c] = Attach(Opened(NewRemote(s), n))]
    BY <1>3 DEF Connects
  <2> DEFINE p == NewRemote(s)
             x == SubSeq(Unsent(p.sbuf), 1, n)
             q == p.toRemote \o x
             b == Sent(p.sbuf, n)
             o == Opened(p, n)
             t == Attach(o)
  <2>2. session'[c] = t  BY <1>1, <2>1
  <2>3. s.sbuf \in Buffer /\ s.toRemote \in Seq(Nat)  BY DEF Session
  <2>4. /\ p.sbuf = s.sbuf /\ p.toRemote = s.toRemote /\ p.stage = s.stage
        /\ p.has_remote = TRUE /\ p.up = s.up
    BY DEF NewRemote, Session
  <2>5. x \in Seq(Nat)
    <3>1. Unsent(s.sbuf) \in Seq(Nat) /\ Len(Unsent(s.sbuf)) = s.sbuf.len
          /\ s.sbuf.len \in Nat
      BY <2>3, UnsentType DEF Buffer
    <3> QED  BY <2>4, <3>1
  <2>6. Len(s.toRemote) <= Len(q)  BY <2>3, <2>4, <2>5, Longer
  <2>7. o = [p EXCEPT !.toRemote = q, !.sbuf = b]  BY DEF Opened
  <2> HIDE DEF q, x, b
  <2>8. /\ o.toRemote = q /\ o.stage = s.stage /\ o.has_remote = TRUE
        /\ o.up = s.up
    BY <2>4, <2>7 DEF NewRemote, Session, p
  <2>9. /\ t.toRemote = o.toRemote /\ t.stage = o.stage
        /\ t.has_remote = o.has_remote /\ t.up = o.up
    BY <2>7 DEF Attach, Linked, NewRemote, Session, p
  <2> HIDE DEF t, o, p
  <2> QED  BY <2>2, <2>6, <2>8, <2>9
<1> QED  BY <1>2, <1>3

\* What is known of a request before it is acted on
LEMMA PayloadFields ==
  ASSUME RelayInv, NEW c \in Conns, Requesting(c),
         NEW r \in Requests, Accepted(r), r.len <= Offset(r) + MaxBytes[c]
  PROVE  LET p == WithPayload(session[c], r)
         IN  /\ Opening(session[c]) /\ p \in Session
             /\ p.stage = "init" /\ p.up \in Payloads
<1> DEFINE s == session[c]
           p == WithPayload(s, r)
           u == r.len - Offset(r)
<1>1. Good(s) /\ s \in Session /\ s.stage = "init" /\ ~s.has_remote
  BY ReadableFacts DEF Requesting
<1>2. r \in Request  BY RelayAssumption
<1>3. Good(p) /\ SameShape(s, p)  BY <1>1, <1>2, PayloadGood
<1>4. u \in Payloads  BY DEF Payloads
<1>5. p.up = u
  <2> HIDE DEF s, u
  <2> QED  BY <1>1 DEF WithPayload, Session, u
<1> QED  BY <1>1, <1>3, <1>4, <1>5 DEF Opening, SameShape, Good

LEMMA RequestDirectFollows ==
  ASSUME RelayInv, NEW c \in Conns, RequestDirect(c)
  PROVE  Follows(session[c], session'[c])
<1>1. PICK r \in Requests :
        /\ Accepted(r) /\ r.len <= Offset(r) + MaxBytes[c]
        /\ \/ Connects(c, WithPayload(session[c], r))
           \/ ConnectFails(c, WithPayload(session[c], r))
  BY DEF RequestDirect
<1> DEFINE s == WithPayload(session[c], r)
           t == session'[c]
<1>2. /\ Opening(session[c]) /\ s \in Session
      /\ s.stage = "init" /\ s.up \in Payloads
  BY <1>1, PayloadFields DEF RequestDirect
<1>3. Connects(c, s) \/ ConnectFails(c, s)  BY <1>1
<1> HIDE DEF s
<1>4. \/ t.stage = "none"
      \/ t.stage = s.stage /\ t.has_remote /\ t.up = s.up
  BY <1>2, <1>3, ConnectsFields
<1> QED  BY <1>2, <1>4 DEF Follows, Connecting

LEMMA RequestNamedFollows ==
  ASSUME RelayInv, NEW c \in Conns, RequestNamed(c)
  PROVE  Follows(session[c], session'[c])
<1>1. PICK r \in Requests :
        /\ Accepted(r) /\ r.len <= Offset(r) + MaxBytes[c]
        /\ Becomes(c, [WithPayload(session[c], r) EXCEPT
                         !.stage = "resolve",
                         !.io = @ \ {"server_recv"},
                         !.has_query = TRUE, !.to_query = TRUE,
                         !.asked_by = TRUE])
  BY DEF RequestNamed
<1> DEFINE s == WithPayload(session[c], r)
           t == [s EXCEPT !.stage = "resolve", !.io = @ \ {"server_recv"},
                          !.has_query = TRUE, !.to_query = TRUE,
                          !.asked_by = TRUE]
<1>2. Opening(session[c]) /\ s \in Session /\ s.up \in Payloads
  BY <1>1, PayloadFields DEF RequestNamed
<1>3. Becomes(c, t)  BY <1>1
<1> HIDE DEF s
<1>4. t.stage = "resolve" /\ t.up = s.up  BY <1>2 DEF Session
<1> HIDE DEF t
<1>5. Follows(session[c], t)  BY <1>2, <1>4 DEF Follows, Connecting
<1> QED  BY <1>3, <1>5, BecomesFollows

LEMMA ResolvCbFollows ==
  ASSUME RelayInv, NEW c \in Conns, ResolvCb(c)
  PROVE  Follows(session[c], session'[c])
<1> DEFINE s == session[c]
           t == session'[c]
<1>1. s \in Session  BY DEF RelayInv, RelayTypeOK
<1>2. CASE ResolveFails(c)  BY <1>2, EndedFollows DEF ResolveFails
<1>3. CASE Resolved(c)
  <2>1. s.stage = "resolve" /\ (Connects(c, s) \/ ConnectFails(c, s))
    BY <1>3 DEF Resolved, Resolving
  <2>2. \/ t.stage = "none"
        \/ /\ t.stage = s.stage /\ t.up = s.up
           /\ Len(s.toRemote) <= Len(t.toRemote)
    BY <1>1, <2>1, ConnectsFields
  <2> HIDE DEF s, t
  <2>3. Follows(s, t)  BY <2>1, <2>2 DEF Follows, Connecting
  <2> QED  BY <2>3 DEF s, t
<1>4. CASE QueryFreed(c)
  <2> DEFINE a == s.to_query /\ ~s.asked_by
             v == [s EXCEPT !.has_query = FALSE, !.asked_by = FALSE,
                            !.to_query = a]
  <2>1. Becomes(c, v)  BY <1>4 DEF QueryFreed
  <2> HIDE DEF a
  <2>2. /\ v.stage = s.stage /\ v.has_remote = s.has_remote
        /\ UpStays(s, v) /\ DownStays(s, v)
    BY <1>1 DEF Session, UpStays, DownStays
  <2> HIDE DEF v
  <2>3. Follows(s, v)  BY <2>2, SameConnection DEF Follows
  <2> QED  BY <2>1, <2>3, BecomesFollows
<1> QED  BY <1>2, <1>3, <1>4 DEF ResolvCb

LEMMA ConnectedEmptyFollows ==
  ASSUME RelayInv, NEW c \in Conns, Whole(session[c]), ConnectedEmpty(c)
  PROVE  Follows(session[c], session'[c])
<1> DEFINE s == session[c]
           t == [s EXCEPT !.connected = TRUE, !.stage = "stream",
                          !.io = (@ \ {"remote_send"})
                                 \cup {"server_recv", "remote_recv"}]
<1>1. Writable(c) /\ s.to_server /\ ~s.connected /\ s.rbuf.len = 0
  BY DEF ConnectedEmpty
<1>2. /\ Good(s) /\ s \in Session /\ Whole(s)
      /\ s.stage \in {"init", "resolve", "stream"} /\ s.has_remote
  BY <1>1, WritableFacts
<1>3. Becomes(c, t)  BY DEF ConnectedEmpty
<1>4. "remote_send" \in s.io  BY <1>1 DEF Writable
<1> HIDE DEF s
<1>5. s.stage \in {"init", "resolve"}  BY <1>1, <1>2 DEF Good, Shaped
<1>6. t.stage = "stream" /\ UpStays(s, t) /\ DownStays(s, t)
  BY <1>2 DEF Session, UpStays, DownStays
<1> HIDE DEF t
<1>7. PendingUp(s) = <<>>
  BY <1>1, <1>2, <1>4, SendTypes, UnsentEmpty DEF PendingUp
<1>8. Len(s.toRemote) = s.up  BY <1>2, <1>5, <1>7, WholePipes
<1>9. s.down = 0 /\ s.toClient = <<>> /\ s.up \in Nat
  BY <1>2, <1>5 DEF Whole, Session
<1>10. Follows(s, t)
  BY <1>2, <1>5, <1>6, <1>8, <1>9 DEF Follows, Connecting, UpStays, DownStays
<1> QED  BY <1>3, <1>10, BecomesFollows DEF s

\* From the end of a stream that is sent on, seen from what was pending
LEMMA SentLonger ==
  ASSUME NEW a \in Seq(Nat), NEW b \in Buffer, NEW n \in 0 .. b.len
  PROVE  LET q == a \o SubSeq(Unsent(b), 1, n)
         IN  q \in Seq(Nat) /\ Len(a) <= Len(q)
<1> DEFINE x == SubSeq(Unsent(b), 1, n)
<1>1. b.len \in Nat /\ Unsent(b) \in Seq(Nat) /\ Len(Unsent(b)) = b.len
  BY UnsentType DEF Buffer
<1>2. x \in Seq(Nat)  BY <1>1
<1> HIDE DEF x
<1>3. a \o x \in Seq(Nat)  BY <1>2
<1> QED  BY <1>2, <1>3, Longer DEF x

\* What was sent of the request is Whole again, and all of it when the stream
\* begins.
LEMMA RemoteSendFollows ==
  ASSUME RelayInv, NEW c \in Conns, Whole(session[c]), RemoteSend(c)
  PROVE  Follows(session[c], session'[c])
<1> DEFINE s == session[c]
<1>1. PICK n \in 0 .. s.rbuf.len :
        Becomes(c, IF s.rbuf.len = 0 THEN CloseBoth(s)
                   ELSE IF n < s.rbuf.len THEN RemoteSends(s, n)
                   ELSE Streaming([RemoteSends(s, n) EXCEPT !.rbuf.len = 0,
                                                            !.rbuf.idx = 0]))
  BY DEF RemoteSend
<1>2. Writable(c) /\ s.to_server  BY DEF RemoteSend
<1>3. /\ Good(s) /\ s \in Session /\ Shaped(s) /\ Whole(s)
      /\ s.stage \in {"init", "resolve", "stream"} /\ s.has_remote
  BY <1>2, WritableFacts DEF Good
<1>4. "remote_send" \in s.io  BY <1>2 DEF Writable
<1> HIDE DEF s
<1> DEFINE q == s.toRemote \o SubSeq(Unsent(s.rbuf), 1, n)
           b == Sent(s.rbuf, n)
           t == RemoteSends(s, n)
           v == Streaming([t EXCEPT !.rbuf.len = 0, !.rbuf.idx = 0])
<1>5. s.rbuf \in Buffer /\ s.toRemote \in Seq(Nat) /\ s.rbuf.len \in Nat
      /\ s.up \in Nat
  BY <1>3 DEF Session, Buffer
<1>6. q \in Seq(Nat) /\ Len(s.toRemote) <= Len(q)  BY <1>5, SentLonger
<1>7. n = s.rbuf.len => Len(q) = s.up
  <2>1. s.toRemote \o Unsent(s.rbuf) = Upto(s.up)
    BY <1>3, <1>4 DEF Whole, PendingUp
  <2>2. n = s.rbuf.len => q = Upto(s.up)  BY <1>5, <2>1, SentOn
  <2>3. n = s.rbuf.len => q \o <<>> = Upto(s.up)  BY <1>6, <2>2, Pieces
  <2>4. <<>> \in Seq(Nat)  OBVIOUS
  <2> HIDE DEF q
  <2> QED  BY <1>5, <1>6, <2>3, <2>4, PrefixOfUpto
<1>8. t = [s EXCEPT !.connected = TRUE, !.toRemote = q, !.rbuf = b]
  BY DEF RemoteSends
<1> HIDE DEF q, b
<1>9. /\ t.stage = s.stage /\ t.has_remote = s.has_remote
      /\ t.toRemote = q /\ t.up = s.up /\ DownStays(s, t)
  BY <1>3, <1>8 DEF Session, DownStays
<1>10. /\ v.stage = "stream" /\ v.toRemote = q /\ v.up = s.up
       /\ DownStays(s, v)
  BY <1>3, <1>8 DEF Session, DownStays, Streaming
<1> HIDE DEF t, v
<1>11. \/ Becomes(c, CloseBoth(s)) \/ Becomes(c, t)
       \/ n = s.rbuf.len /\ Becomes(c, v)
  BY <1>1, <1>5 DEF s, t, v
<1>12. s.stage \in {"init", "resolve"} =>
         Connecting(s) /\ s.down = 0 /\ s.toClient = <<>>
  BY <1>3 DEF Connecting, Whole
<1>13. Follows(s, t)
  <2>1. s.stage \in {"init", "resolve"} => Connecting(t)
    BY <1>3, <1>9 DEF Connecting
  <2>2. UpFlows(s, t)  BY <1>6, <1>9 DEF UpFlows
  <2> QED  BY <1>3, <1>6, <1>9, <1>12, <2>1, <2>2 DEF Follows
<1>14. n = s.rbuf.len => Follows(s, v)
  <2>1. UpFlows(s, v)  BY <1>6, <1>10 DEF UpFlows
  <2> QED
    BY <1>3, <1>6, <1>7, <1>10, <1>12, <2>1 DEF Follows, DownStays
<1> QED  BY <1>11, <1>13, <1>14, BecomesFollows, EndedFollows DEF s

LEMMA ServerSendFollows ==
  ASSUME RelayInv, NEW c \in Conns, ServerSend(c)
  PROVE  Follows(session[c], session'[c])
<1> DEFINE s == session[c]
           T(n) == [s EXCEPT !.toClient = @ \o SubSeq(Unsent(s.sbuf), 1, n),
                             !.sbuf = Sent(@, n)]
<1>1. PICK n \in 0 .. s.sbuf.len :
        Becomes(c, IF ~s.to_remote THEN CloseServer(s)
                   ELSE IF s.sbuf.len = 0 THEN CloseBoth(s)
                   ELSE IF n < s.sbuf.len THEN T(n)
                   ELSE Answered(T(n)))
  BY DEF ServerSend
<1>2. s \in Session /\ s.stage \in {"stream", "stop"}
  BY WaitingFacts DEF ServerSend
<1> DEFINE q == s.toClient \o SubSeq(Unsent(s.sbuf), 1, n)
           b == Sent(s.sbuf, n)
           t == T(n)
           v == Answered(t)
<1>3. s.sbuf \in Buffer /\ s.toClient \in Seq(Nat)  BY <1>2 DEF Session
<1>4. q \in Seq(Nat) /\ Len(s.toClient) <= Len(q)  BY <1>3, SentLonger
<1>5. t = [s EXCEPT !.toClient = q, !.sbuf = b]  OBVIOUS
<1>6. \/ Becomes(c, CloseServer(s)) \/ Becomes(c, CloseBoth(s))
      \/ Becomes(c, t) \/ Becomes(c, v)
  BY <1>1
<1> HIDE DEF q, b, T
<1>7. /\ t.stage = s.stage /\ t.toClient = q /\ t.down = s.down
      /\ t.has_remote = s.has_remote /\ UpStays(s, t)
  BY <1>2, <1>5 DEF Session, UpStays
<1>8. /\ v.stage = s.stage /\ v.toClient = q /\ v.down = s.down
      /\ v.has_remote = s.has_remote /\ UpStays(s, v)
  BY <1>2, <1>5 DEF Session, UpStays, Answered
<1> HIDE DEF t, v, s
<1>9. ASSUME NEW w, w.stage = s.stage, w.toClient = q, w.down = s.down,
             UpStays(s, w)
      PROVE  Follows(s, w)
  <2>1. CASE s.stage = "stop"
    <3>1. Connection(w) = Connection(s)
      BY <1>9, <2>1 DEF Connection, UpStays
    <3> QED  BY <3>1 DEF Follows
  <2>2. CASE s.stage = "stream"
    <3>1. DownFlows(s, w)  BY <1>4, <1>9 DEF DownFlows
    <3> QED  BY <1>9, <2>2, <3>1 DEF Follows
  <2> QED  BY <1>2, <2>1, <2>2
<1>10. Follows(s, t) /\ Follows(s, v)  BY <1>7, <1>8, <1>9
<1> QED  BY <1>6, <1>10, BecomesFollows, EndedFollows DEF s

LEMMA OtherFollows ==
  ASSUME RelayInv, NEW c \in Conns,
         \/ ClientCloses(c) \/ ClientSilent(c) \/ ClientIgnored(c)
         \/ ClientGarbage(c) \/ ClientFragment(c) \/ RequestRefused(c)
         \/ RequestDenied(c) \/ ServerSendFails(c) \/ RemoteSendFails(c)
         \/ RemoteCloses(c) \/ RemoteSilent(c) \/ RemoteIgnored(c)
         \/ OrphanCloses(c) \/ TimesOut(c)
  PROVE  Follows(session[c], session'[c])
<1> DEFINE s == session[c]
<1>1. s \in Session /\ Shaped(s)  BY DEF RelayInv, Good
<1>2. ASSUME NEW t, t.stage = s.stage, t.has_remote = s.has_remote,
             UpStays(s, t), DownStays(s, t)
      PROVE  Follows(s, t)
  BY <1>2, SameConnection DEF Follows
<1>3. ASSUME NEW t, Readable(c), s.stage # "stop", t.stage = "stop",
             UpStays(s, t)
      PROVE  Follows(s, t)
  <2>1. Opening(s) \/ s.stage = "stream"
    BY <1>3, ReadableFacts DEF Opening
  <2> QED  BY <1>3, <2>1 DEF Follows
<1>4. ASSUME NEW i PROVE Follows(s, [s EXCEPT !.idle = i])
  <2> DEFINE t == [s EXCEPT !.idle = i]
  <2>1. /\ t.stage = s.stage /\ t.has_remote = s.has_remote
        /\ UpStays(s, t) /\ DownStays(s, t)
    BY <1>1 DEF Session, UpStays, DownStays
  <2> HIDE DEF t, s
  <2>2. Follows(s, t)  BY <1>2, <2>1
  <2> QED  BY <2>2 DEF t
<1>5. Follows(s, s)  BY DEF Follows
<1>6. CASE ClientCloses(c)  BY <1>6, EndedFollows DEF ClientCloses, HungUp
<1>7. CASE ClientSilent(c)
  BY <1>4, <1>5, <1>7, BecomesFollows DEF ClientSilent, Renewed
<1>8. CASE ClientIgnored(c)
  <2> DEFINE D(k) == [i \in DOMAIN s.sbuf.data |->
                        IF i <= k THEN 0 ELSE s.sbuf.data[i]]
             t(k) == [s EXCEPT !.sbuf.data = D(k)]
  <2>1. PICK k \in 1 .. BufSize : Becomes(c, t(k))  BY <1>8 DEF ClientIgnored
  <2> HIDE DEF D
  <2>2. /\ t(k).stage = s.stage /\ t(k).has_remote = s.has_remote
        /\ UpStays(s, t(k)) /\ DownStays(s, t(k))
    BY <1>1 DEF Session, UpStays, DownStays
  <2> HIDE DEF t
  <2>3. Follows(s, t(k))  BY <1>2, <2>2
  <2> QED  BY <2>1, <2>3, BecomesFollows
<1>9. CASE ClientGarbage(c)
  <2> DEFINE t == [Renewed(s) EXCEPT !.stage = "stop"]
  <2>1. Becomes(c, t) /\ Readable(c) /\ s.stage # "stop"
    BY <1>9 DEF ClientGarbage
  <2>2. t.stage = "stop" /\ UpStays(s, t)
    BY <1>1 DEF Renewed, Session, UpStays
  <2> HIDE DEF t, s
  <2>3. Follows(s, t)  BY <1>3, <2>1, <2>2
  <2> QED  BY <2>1, <2>3, BecomesFollows DEF s
<1>10. ASSUME Readable(c), s.stage = "init"
       PROVE  Follows(s, [s EXCEPT !.stage = "stop"])
  <2> DEFINE t == [s EXCEPT !.stage = "stop"]
  <2>1. t.stage = "stop" /\ UpStays(s, t)  BY <1>1 DEF Session, UpStays
  <2> HIDE DEF t, s
  <2>2. Follows(s, t)  BY <1>3, <1>10, <2>1
  <2> QED  BY <2>2 DEF t
<1>11. CASE ClientFragment(c)
  <2> DEFINE f == s.frag + 1
             u == [s EXCEPT !.frag = f]
  <2>1. /\ Readable(c) /\ s.stage = "init"
        /\ Becomes(c, [s EXCEPT !.stage = "stop"]) \/ Becomes(c, u)
    BY <1>11 DEF ClientFragment
  <2> HIDE DEF f
  <2>2. /\ u.stage = s.stage /\ u.has_remote = s.has_remote
        /\ UpStays(s, u) /\ DownStays(s, u)
    BY <1>1 DEF Session, UpStays, DownStays
  <2> HIDE DEF u
  <2>3. Follows(s, u)  BY <1>2, <2>2
  <2> QED  BY <1>10, <2>1, <2>3, BecomesFollows
<1>12. CASE RequestRefused(c)
  BY <1>10, <1>12, BecomesFollows DEF RequestRefused, Requesting
<1>13. CASE RequestDenied(c) \/ ServerSendFails(c) \/ RemoteSendFails(c)
            \/ RemoteCloses(c) \/ TimesOut(c)
  BY <1>13, EndedFollows
  DEF RequestDenied, ServerSendFails, RemoteSendFails, RemoteCloses, TimesOut
<1>14. CASE RemoteSilent(c) \/ RemoteIgnored(c)
  BY <1>4, <1>14, BecomesFollows DEF RemoteSilent, RemoteIgnored
<1>15. CASE OrphanCloses(c)
  <2> DEFINE t == CloseRemote(s)
  <2>1. Becomes(c, t) /\ ~s.to_server
        /\ s.io \cap {"remote_recv", "remote_send"} # {}
    BY <1>15 DEF OrphanCloses
  <2>2. s.stage = "none"
    <3> HIDE DEF s
    <3> QED  BY <1>1, <2>1 DEF Shaped, LinkedSession
  <2>3. t.stage = "none"  BY <1>1, <2>2, CloseRemoteFields
  <2> HIDE DEF t
  <2>4. Follows(s, t)  BY <2>3 DEF Follows
  <2> QED  BY <2>1, <2>4, BecomesFollows
<1> QED
  BY <1>6, <1>7, <1>8, <1>9, <1>11, <1>12, <1>13, <1>14, <1>15

LEMMA CallbackFollows ==
  ASSUME RelayInv, NEW c \in Conns, Whole(session[c]), Callback(c)
  PROVE  Follows(session[c], session'[c])
<1>1. CASE ServerRecvCb(c)
  BY <1>1, ClientDataFollows, RequestDirectFollows, RequestNamedFollows,
     OtherFollows DEF ServerRecvCb
<1>2. CASE RemoteSendCb(c)
  BY <1>2, ConnectedEmptyFollows, RemoteSendFollows, OtherFollows
  DEF RemoteSendCb
<1>3. CASE RemoteRecvCb(c)
  BY <1>3, RemoteDataFollows, OtherFollows DEF RemoteRecvCb
<1>4. CASE ServerSendCb(c)
  BY <1>4, ServerSendFollows, OtherFollows DEF ServerSendCb
<1> QED
  BY <1>1, <1>2, <1>3, <1>4, AcceptFollows, ResolvCbFollows, OtherFollows
  DEF Callback

LEMMA Lengths ==
  ASSUME NEW s \in Session
  PROVE  /\ Len(s.toRemote) \in Nat /\ s.up \in Nat
         /\ Len(s.toClient) \in Nat /\ s.down \in Nat
<1>1. /\ s.toRemote \in Seq(Nat) /\ s.toClient \in Seq(Nat)
      /\ s.up \in Nat /\ s.down \in Nat
  BY DEF Session
<1> QED  BY <1>1

\* Before its request a connection has passed on nothing.
LEMMA OpeningIdle ==
  ASSUME NEW s \in Session, Whole(s), Opening(s)
  PROVE  s.up = 0 /\ s.toRemote = <<>>
<1>1. s.up = 0  BY DEF Opening, Whole
<1>2. s.toRemote \in Seq(Nat)  BY DEF Session
<1>3. Len(s.toRemote) <= 0 /\ Len(s.toRemote) \in Nat
  BY <1>1, <1>2, WholePipes DEF Opening
<1> QED  BY <1>1, <1>2, <1>3

\* What Connection makes of a session, case by case
LEMMA ConnectionIs ==
  ASSUME NEW s \in Session, Whole(s)
  PROVE  LET up == [received |-> s.up, delivered |-> s.toRemote]
             down == [received |-> s.down, delivered |-> s.toClient]
             nothing == Promise!Nothing
         IN  /\ s.stage = "none" => Connection(s) = Promise!Closed
             /\ s.stage # "none" => Connection(s).phase # "closed"
             /\ Opening(s) =>
                  Connection(s) = [phase |-> "opening", up |-> nothing,
                                   down |-> nothing]
             /\ Connecting(s) =>
                  Connection(s) = [phase |-> "connecting", up |-> up,
                                   down |-> nothing]
             /\ s.stage = "stream" =>
                  Connection(s) = [phase |-> "open", up |-> up, down |-> down]
             /\ s.stage = "stop" =>
                  Connection(s) = [phase |-> "stopped", up |-> up,
                                   down |-> nothing]
<1>1. s.stage \in {"none", "init", "resolve", "stream", "stop"}
  BY DEF Session
<1>2. s.up \in Nat /\ s.toRemote \in Seq(Nat) /\ s.has_remote \in BOOLEAN
  BY DEF Session
<1>3. Opening(s) => s.up = 0 /\ s.toRemote = <<>>  BY OpeningIdle
<1>4. Opening(s) \/ Connecting(s) => s.down = 0 /\ s.toClient = <<>>
  BY DEF Opening, Connecting, Whole
<1> DEFINE up == [received |-> s.up, delivered |-> s.toRemote]
           down == [received |-> s.down, delivered |-> s.toClient]
           nothing == [received |-> 0, delivered |-> <<>>]
<1>5. /\ Promise!Nothing = nothing
      /\ Promise!Closed =
           [phase |-> "closed", up |-> nothing, down |-> nothing]
  BY DEF Promise!Nothing, Promise!Closed, Promise!Conn
<1>6. /\ Opening(s) => up = nothing
      /\ Opening(s) \/ Connecting(s) => down = nothing
  BY <1>3, <1>4
<1>7. /\ s.stage = "none" =>
           Connection(s) = [phase |-> "closed", up |-> nothing,
                            down |-> nothing]
      /\ s.stage = "init" =>
           Connection(s) =
             [phase |-> IF s.has_remote THEN "connecting" ELSE "opening",
              up |-> up, down |-> down]
      /\ s.stage = "resolve" =>
           Connection(s) = [phase |-> "connecting", up |-> up, down |-> down]
      /\ s.stage = "stream" =>
           Connection(s) = [phase |-> "open", up |-> up, down |-> down]
      /\ s.stage = "stop" =>
           Connection(s) = [phase |-> "stopped", up |-> up, down |-> nothing]
  BY DEF Connection
<1> HIDE DEF up, down, nothing
<1>8. /\ s.stage = "none" => Connection(s) = Promise!Closed
      /\ s.stage # "none" => Connection(s).phase # "closed"
  BY <1>1, <1>5, <1>7
<1>9. /\ Opening(s) =>
           Connection(s) = [phase |-> "opening", up |-> Promise!Nothing,
                            down |-> Promise!Nothing]
      /\ Connecting(s) =>
           Connection(s) = [phase |-> "connecting", up |-> up,
                            down |-> Promise!Nothing]
  BY <1>5, <1>6, <1>7 DEF Opening, Connecting
<1>10. /\ s.stage = "stream" =>
            Connection(s) = [phase |-> "open", up |-> up, down |-> down]
       /\ s.stage = "stop" =>
            Connection(s) = [phase |-> "stopped", up |-> up,
                             down |-> Promise!Nothing]
  BY <1>5, <1>7
<1> QED  BY <1>8, <1>9, <1>10 DEF up, down

LEMMA UptoSame == ASSUME NEW n PROVE Promise!Upto(n) = Upto(n)
BY DEF Promise!Upto, Upto

\* Only the connection of the callback changes.
LEMMA OneConn ==
  ASSUME NEW c \in Conns, \A d \in Conns \ {c} : session'[d] = session[d]
  PROVE  /\ Connections' = [Connections EXCEPT ![c] = Connection(session'[c])]
         /\ Connections[c] = Connection(session[c])
         /\ DOMAIN Connections = Conns
<1> DEFINE f == [Connections EXCEPT ![c] = Connection(session'[c])]
<1>1. Connections' = [d \in Conns |-> Connection(session'[d])]
  BY DEF Connections, Connection
<1>2. f = [d \in Conns |-> IF d = c THEN Connection(session'[c])
                           ELSE Connection(session[d])]
  BY DEF Connections
<1>3. \A d \in Conns : Connection(session'[d]) =
        IF d = c THEN Connection(session'[c]) ELSE Connection(session[d])
  OBVIOUS
<1>4. Connections' = f  BY <1>1, <1>2, <1>3
<1> QED  BY <1>4 DEF Connections

\* What may become of one way
LEMMA AfterHas ==
  ASSUME NEW p, NEW r \in Nat, NEW l \in Nat, NEW most \in Nat,
         NEW m \in Nat, NEW n \in Nat,
         p.received = r, Len(p.delivered) = l, l <= n, n <= m,
         \/ m = r
         \/ l = r /\ m \in r .. r + most
  PROVE  [received |-> m, delivered |-> Promise!Upto(n)]
           \in Promise!After(p, most)
<1> DEFINE M == IF Len(p.delivered) = p.received
                THEN p.received .. p.received + most
                ELSE {p.received}
           F(k) == {[received |-> k, delivered |-> Promise!Upto(i)] :
                      i \in Len(p.delivered) .. k}
<1>1. m \in M /\ n \in Len(p.delivered) .. m  OBVIOUS
<1>2. [received |-> m, delivered |-> Promise!Upto(n)] \in F(m)  BY <1>1
<1> HIDE DEF M, F
<1>3. [received |-> m, delivered |-> Promise!Upto(n)]
        \in UNION {F(k) : k \in M}
  BY <1>1, <1>2
<1> QED  BY <1>3 DEF Promise!After, M, F

\* A step of one connection, from a to b
Moves(c, a, b) ==
  /\ Connections[c] = a
  /\ Promise!Becomes(c, b)

LEMMA MovesStep ==
  ASSUME NEW c \in Conns, Server' = Server,
         \A d \in Conns \ {c} : session'[d] = session[d]
  PROVE  Moves(c, Connection(session[c]), Connection(session'[c]))
<1>1. /\ Connections' = [Connections EXCEPT ![c] = Connection(session'[c])]
      /\ Connections[c] = Connection(session[c])
  BY OneConn
<1> QED  BY ONLY <1>1, Server' = Server DEF Moves, Promise!Becomes

LEMMA StopServes ==
  ASSUME NEW c \in Conns, NEW s \in Session, NEW t \in Session,
         Whole(s), Whole(t), Opening(s) \/ s.stage = "stream",
         t.stage = "stop", UpStays(s, t),
         Moves(c, Connection(s), Connection(t))
  PROVE  Promise!Serves(c)
<1> DEFINE nothing == Promise!Nothing
           up == [received |-> s.up, delivered |-> s.toRemote]
           down == [received |-> s.down, delivered |-> s.toClient]
           a == Connection(s)
           b == Connection(t)
<1>1. /\ Opening(s) => a = [phase |-> "opening", up |-> nothing,
                            down |-> nothing]
      /\ s.stage = "stream" => a = [phase |-> "open", up |-> up,
                                    down |-> down]
      /\ b = [phase |-> "stopped", up |-> up, down |-> nothing]
  BY ConnectionIs DEF UpStays
<1>2. Opening(s) => up = nothing  BY OpeningIdle DEF Promise!Nothing
<1> HIDE DEF nothing, up, down, a, b
<1>3. /\ a.phase \in {"opening", "open"} /\ a.up = up
      /\ b = Promise!Conn("stopped", up, nothing)
  BY <1>1, <1>2 DEF Promise!Conn
<1>4. Connections[c] = a /\ Promise!Becomes(c, b)  BY DEF Moves, a, b
<1>5. Promise!Stop(c)  BY <1>3, <1>4 DEF Promise!Stop, nothing
<1> QED  BY <1>5 DEF Promise!Serves

LEMMA AskServes ==
  ASSUME NEW c \in Conns, NEW s \in Session, NEW t \in Session,
         Whole(s), Whole(t), Opening(s), Connecting(t), t.up \in Payloads,
         Moves(c, Connection(s), Connection(t))
  PROVE  Promise!Serves(c)
<1> DEFINE nothing == Promise!Nothing
           m == t.up
           n == Len(t.toRemote)
           u == [received |-> m, delivered |-> Promise!Upto(n)]
           a == Connection(s)
           b == Connection(t)
<1>1. t.stage \in {"init", "resolve", "stream"}  BY DEF Connecting
<1>2. t.toRemote = Upto(n) /\ n <= m /\ n \in Nat /\ m \in Nat
  BY <1>1, WholePipes, Lengths
<1>3. /\ a = [phase |-> "opening", up |-> nothing, down |-> nothing]
      /\ b = [phase |-> "connecting", up |-> u, down |-> nothing]
  <2>1. u = [received |-> m, delivered |-> t.toRemote]  BY <1>2, UptoSame
  <2> HIDE DEF m, n, u
  <2> QED  BY <2>1, ConnectionIs DEF m
<1> DEFINE p == [nothing EXCEPT !.received = m]
<1>4. p.received = m /\ Len(p.delivered) = 0
  BY DEF Promise!Nothing
<1>5. m \in Payloads /\ 0 \in Nat /\ 0 <= n
  BY <1>2
<1> HIDE DEF nothing, m, n, a, b, p
<1>6. u \in Promise!After(p, 0)
  BY ONLY <1>2, <1>4, <1>5, AfterHas
<1> HIDE DEF u
<1>7. a.phase = "opening" /\ b = Promise!Conn("connecting", u, nothing)
  BY <1>3 DEF Promise!Conn
<1>8. Connections[c] = a /\ Promise!Becomes(c, b)  BY DEF Moves, a, b
<1>9. Promise!Ask(c)  BY <1>5, <1>6, <1>7, <1>8 DEF Promise!Ask, nothing, p
<1> QED  BY <1>9 DEF Promise!Serves

LEMMA ConnectServes ==
  ASSUME NEW c \in Conns, NEW s \in Session, NEW t \in Session,
         Whole(s), Whole(t),
         Connecting(s), t.up = s.up, Len(s.toRemote) <= Len(t.toRemote),
         \/ Connecting(t)
         \/ /\ t.stage = "stream" /\ Len(t.toRemote) = t.up
            /\ t.down = 0 /\ t.toClient = <<>>,
         Moves(c, Connection(s), Connection(t))
  PROVE  Promise!Serves(c)
<1> DEFINE nothing == Promise!Nothing
           m == s.up
           n == Len(t.toRemote)
           l == Len(s.toRemote)
           v == [received |-> m, delivered |-> s.toRemote]
           u == [received |-> m, delivered |-> Promise!Upto(n)]
           a == Connection(s)
           b == Connection(t)
<1>1. t.stage \in {"init", "resolve", "stream"}  BY DEF Connecting
<1>2. /\ t.toRemote = Upto(n) /\ n <= m /\ n \in Nat /\ m \in Nat
      /\ l \in Nat /\ l <= n
  BY <1>1, WholePipes, Lengths
<1>3. /\ a = [phase |-> "connecting", up |-> v, down |-> nothing]
      /\ Connecting(t) =>
           b = [phase |-> "connecting", up |-> u, down |-> nothing]
      /\ ~Connecting(t) =>
           b = [phase |-> "open", up |-> u, down |-> nothing] /\ n = m
  BY <1>2, ConnectionIs, UptoSame DEF Promise!Nothing
<1>4. v.received = m /\ Len(v.delivered) = l  OBVIOUS
<1>5. Promise!Upto(n) \in Seq(Nat) /\ Len(Promise!Upto(n)) = n
  <2> HIDE DEF n
  <2> QED  BY <1>2 DEF Promise!Upto
<1> HIDE DEF nothing, m, n, l, v, a, b
<1>6. u \in Promise!After(v, 0)  BY <1>2, <1>4, AfterHas
<1>7. Len(u.delivered) = n /\ u.received = m  BY <1>5
<1> HIDE DEF u
<1>8. /\ a.phase = "connecting" /\ a.up = v
      /\ \/ b = Promise!Conn("connecting", u, nothing)
         \/ n = m /\ b = Promise!Conn("open", u, nothing)
  BY <1>3 DEF Promise!Conn
<1>9. Connections[c] = a /\ Promise!Becomes(c, b)  BY DEF Moves, a, b
<1>10. Promise!Connect(c)
  BY <1>6, <1>7, <1>8, <1>9 DEF Promise!Connect, nothing
<1> QED  BY <1>10 DEF Promise!Serves

LEMMA RelayUpServes ==
  ASSUME NEW c \in Conns, NEW s \in Session, NEW t \in Session,
         Whole(s), Whole(t),
         s.stage = "stream", t.stage = "stream",
         UpFlows(s, t), DownStays(s, t),
         Moves(c, Connection(s), Connection(t))
  PROVE  Promise!Serves(c)
<1> DEFINE v == [received |-> s.up, delivered |-> s.toRemote]
           r == s.up
           l == Len(s.toRemote)
           m == t.up
           n == Len(t.toRemote)
           u == [received |-> m, delivered |-> Promise!Upto(n)]
           down == [received |-> s.down, delivered |-> s.toClient]
           a == Connection(s)
           b == Connection(t)
<1>1. /\ t.toRemote = Upto(n) /\ n <= m /\ n \in Nat /\ m \in Nat
      /\ r \in Nat /\ l \in Nat
  BY WholePipes, Lengths
<1>2. /\ a = [phase |-> "open", up |-> v, down |-> down]
      /\ b = [phase |-> "open", up |-> u, down |-> down]
  BY <1>1, ConnectionIs, UptoSame DEF DownStays
<1>3. v.received = r /\ Len(v.delivered) = l  OBVIOUS
<1>4. l <= n /\ (m = r \/ (l = r /\ m \in r .. r + BufSize))
  BY DEF UpFlows
<1> HIDE DEF v, r, l, m, n, down, a, b
<1>5. u \in Promise!After(v, BufSize)
  BY <1>1, <1>3, <1>4, AfterHas, RelayAssumption
<1> HIDE DEF u
<1>6. /\ a.phase = "open" /\ a.up = v /\ a.down = down
      /\ b = Promise!Conn("open", u, down)
  BY <1>2 DEF Promise!Conn
<1>7. Connections[c] = a /\ Promise!Becomes(c, b)  BY DEF Moves, a, b
<1>8. Promise!Relay(c)  BY <1>5, <1>6, <1>7 DEF Promise!Relay
<1> QED  BY <1>8 DEF Promise!Serves

LEMMA RelayDownServes ==
  ASSUME NEW c \in Conns, NEW s \in Session, NEW t \in Session,
         Whole(s), Whole(t),
         s.stage = "stream", t.stage = "stream",
         UpStays(s, t), DownFlows(s, t),
         Moves(c, Connection(s), Connection(t))
  PROVE  Promise!Serves(c)
<1> DEFINE v == [received |-> s.down, delivered |-> s.toClient]
           r == s.down
           l == Len(s.toClient)
           m == t.down
           n == Len(t.toClient)
           u == [received |-> m, delivered |-> Promise!Upto(n)]
           up == [received |-> s.up, delivered |-> s.toRemote]
           a == Connection(s)
           b == Connection(t)
<1>1. /\ t.toClient = Upto(n) /\ n <= m /\ n \in Nat /\ m \in Nat
      /\ r \in Nat /\ l \in Nat
  BY WholePipes, Lengths
<1>2. /\ a = [phase |-> "open", up |-> up, down |-> v]
      /\ b = [phase |-> "open", up |-> up, down |-> u]
  BY <1>1, ConnectionIs, UptoSame DEF UpStays
<1>3. v.received = r /\ Len(v.delivered) = l  OBVIOUS
<1>4. l <= n /\ (m = r \/ (l = r /\ m \in r .. r + BufSize))
  BY DEF DownFlows
<1> HIDE DEF v, r, l, m, n, up, a, b
<1>5. u \in Promise!After(v, BufSize)
  BY <1>1, <1>3, <1>4, AfterHas, RelayAssumption
<1> HIDE DEF u
<1>6. /\ a.phase = "open" /\ a.down = v /\ a.up = up
      /\ b = Promise!Conn("open", up, u)
  BY <1>2 DEF Promise!Conn
<1>7. Connections[c] = a /\ Promise!Becomes(c, b)  BY DEF Moves, a, b
<1>8. Promise!Relay(c)  BY <1>5, <1>6, <1>7 DEF Promise!Relay
<1> QED  BY <1>8 DEF Promise!Serves

LEMMA OpenServes ==
  ASSUME NEW c \in Conns, NEW s \in Session, NEW t \in Session,
         Whole(s), Whole(t), s.stage = "none", Opening(t),
         Moves(c, Connection(s), Connection(t))
  PROVE  Promise!Serves(c)
<1> DEFINE a == Connection(s)
           b == Connection(t)
<1>1. a = Promise!Closed
      /\ b = Promise!Conn("opening", Promise!Nothing, Promise!Nothing)
  BY ConnectionIs DEF Promise!Conn
<1> HIDE DEF a, b
<1>2. Connections[c] = a /\ Promise!Becomes(c, b)  BY DEF Moves, a, b
<1>3. Promise!Open(c)  BY <1>1, <1>2 DEF Promise!Open
<1> QED  BY <1>3 DEF Promise!Serves

\* What follows is what Tunnel lets a connection do.
LEMMA FollowsServes ==
  ASSUME NEW c \in Conns, Server' = Server,
         \A d \in Conns \ {c} : session'[d] = session[d],
         session[c] \in Session, Whole(session[c]),
         session'[c] \in Session, Whole(session'[c]),
         Follows(session[c], session'[c])
  PROVE  Promise!Serves(c) \/ UNCHANGED Promise!vars
<1> DEFINE s == session[c]
           t == session'[c]
<1>1. Moves(c, Connection(s), Connection(t))  BY MovesStep
<1>2. /\ s \in Session /\ Whole(s) /\ t \in Session /\ Whole(t)
      /\ Follows(s, t)
  OBVIOUS
<1>3. DOMAIN Connections = Conns
      /\ Connections = [d \in Conns |-> Connections[d]]
  BY DEF Connections
<1> HIDE DEF s, t
<1>4. CASE t.stage = "none"
  <2>1. Connection(t) = Promise!Closed  BY <1>2, <1>4, ConnectionIs
  <2>2. Promise!Close(c)  BY <1>1, <2>1 DEF Promise!Close, Moves
  <2> QED  BY <2>2 DEF Promise!Serves
<1>5. CASE Connection(t) = Connection(s)
  <2>1. Connections[c] = Connection(t) /\ Promise!Becomes(c, Connection(t))
    BY <1>1, <1>5 DEF Moves
  <2>2. /\ Connections' = [Connections EXCEPT ![c] = Connections[c]]
        /\ UNCHANGED Server
    BY <2>1 DEF Promise!Becomes
  <2>3. [Connections EXCEPT ![c] = Connections[c]] = Connections
    BY <1>3
  <2> QED  BY <2>2, <2>3 DEF Promise!vars
<1> QED
  BY <1>1, <1>2, <1>4, <1>5, StopServes, AskServes, ConnectServes,
     RelayUpServes, RelayDownServes, OpenServes
  DEF Follows

\* A session that has ended is a closed connection.
LEMMA EndedCloses ==
  ASSUME NEW s, s.stage = "none"
  PROVE  Connection(s) = Promise!Closed
BY DEF Connection, Promise!Closed, Promise!Conn, Promise!Nothing

LEMMA PromiseCallback ==
  ASSUME IInv, IInv', AllWhole, AllWhole', phase = "loop", phase' = "loop",
         NEW c \in Conns, Callback(c)
  PROVE  [Promise!Next]_(Promise!vars)
<1>1. Server = "serving" /\ Server' = "serving"  BY DEF Server
<1>2. RelayInv /\ RelayInv'
  BY DEF IInv
<1>3. /\ session[c] \in Session /\ Whole(session[c])
      /\ session'[c] \in Session /\ Whole(session'[c])
  BY <1>2 DEF RelayInv, RelayTypeOK, AllWhole
<1>4. \A d \in Conns \ {c} : session'[d] = session[d]
  BY <1>2, OneConnection
<1>5. Follows(session[c], session'[c])
  BY <1>2, <1>3, CallbackFollows
<1>6. Promise!Serves(c) \/ UNCHANGED Promise!vars
  BY <1>1, <1>3, <1>4, <1>5, FollowsServes
<1> QED  BY <1>1, <1>6 DEF Promise!Next

LEMMA PromiseTick ==
  ASSUME IInv, Tick, phase' = phase
  PROVE  UNCHANGED Promise!vars
<1>1. \A c \in Conns : Connection(session'[c]) = Connection(session[c])
  <2> SUFFICES ASSUME NEW c \in Conns
               PROVE  Connection(session'[c]) = Connection(session[c])
    OBVIOUS
  <2> DEFINE s == session[c]
             t == [s EXCEPT !.idle = @ + 1]
  <2>1. session'[c] \in {s, t}  BY DEF Tick
  <2>2. s \in Session  BY DEF IInv, RelayInv, RelayTypeOK
  <2>3. /\ t.stage = s.stage /\ t.has_remote = s.has_remote
        /\ UpStays(s, t) /\ DownStays(s, t)
    BY <2>2 DEF Session, UpStays, DownStays
  <2> HIDE DEF t
  <2>4. Connection(t) = Connection(s)  BY <2>3, SameConnection
  <2> QED  BY <2>1, <2>4
<1>2. Connections' = Connections  BY <1>1 DEF Connections
<1>3. Server' = Server  BY DEF Server
<1> QED  BY <1>2, <1>3 DEF Promise!vars

LEMMA PromiseCleanUp ==
  ASSUME IInv, CleanUp
  PROVE  Promise!Shutdown
<1>1. Server = "serving" /\ Server' = "over"  BY DEF CleanUp, Server
<1>2. ASSUME NEW c \in Conns PROVE Connection(session'[c]) = Promise!Closed
  <2>1. session'[c] = IF session[c].stage = "none" THEN session[c]
                      ELSE Settled(FreeConnection(session[c]))
    BY DEF CleanUp
  <2>2. session[c].stage # "none" => FreeConnection(session[c]).stage = "none"
    BY FreeConnectionGood DEF IInv, RelayInv, Remains
  <2>3. Fresh.stage = "none"  BY DEF Fresh
  <2>4. session'[c].stage = "none"  BY <2>1, <2>2, <2>3 DEF Settled
  <2> QED  BY <2>4, EndedCloses
<1>3. Connections' = [c \in Conns |-> Promise!Closed]
  BY <1>2 DEF Connections
<1> QED  BY <1>1, <1>3 DEF Promise!Shutdown

LEMMA PromiseConnectFatal ==
  ASSUME ConnectFatal
  PROVE  Promise!Shutdown
<1>1. Server = "serving" /\ Server' = "over"  BY DEF ConnectFatal, Server
<1>2. ASSUME NEW c \in Conns PROVE Connection(session'[c]) = Promise!Closed
  <2>1. session'[c].stage = "none"  BY DEF ConnectFatal, Fresh
  <2> QED  BY <2>1, EndedCloses
<1>3. Connections' = [c \in Conns |-> Promise!Closed]
  BY <1>2 DEF Connections
<1> QED  BY <1>1, <1>3 DEF Promise!Shutdown

LEMMA PromiseStarts ==
  ASSUME session' = session,
         \/ Server' = Server
         \/ Server = "starting" /\ Server' \in {"serving", "over"}
  PROVE  [Promise!Next]_(Promise!vars)
<1>1. Connections' = Connections  BY DEF Connections
<1>2. CASE Server' = Server  BY <1>1, <1>2 DEF Promise!vars
<1>3. CASE Server = "starting" /\ Server' \in {"serving", "over"}
  BY <1>1, <1>3 DEF Promise!Next, Promise!Start
<1> QED  BY <1>2, <1>3

LEMMA PromiseStep ==
  ASSUME IInv, IInv', AllWhole, AllWhole', [Next]_vars
  PROVE  [Promise!Next]_(Promise!vars)
<1>1. CASE Serve
  <2>1. phase = "loop" /\ phase' = "loop"  BY <1>1 DEF Serve, mainVars
  <2>2. CASE Tick  BY <2>1, <2>2, PromiseTick
  <2>3. CASE \E c \in Conns : Callback(c)  BY <2>1, <2>3, PromiseCallback
  <2> QED  BY <1>1, <2>2, <2>3 DEF Serve, RelayNext
<1>2. CASE CleanUp  BY <1>2, PromiseCleanUp DEF Promise!Next
<1>3. CASE Configure \/ StartFails \/ Listen \/ ListenFails \/ BindFails
           \/ ListenDone \/ InitUdp
  <2>1. session' = session
    BY <1>3 DEF Configure, StartFails, Listen, ListenFails, BindFails,
                ListenDone, InitUdp, relayVars
  <2>2. /\ phase \in {"options", "listen", "udp"}
        /\ phase' \in {"options", "listen", "udp", "loop", "failed"}
    BY <1>3 DEF Configure, StartFails, Listen, ListenFails, BindFails,
                ListenDone, InitUdp, Listening, AfterListen
  <2>3. /\ Server = "starting"
        /\ Server' \in {"starting", "serving", "over"}
    BY <2>2 DEF Server
  <2> QED  BY <2>1, <2>3, PromiseStarts
<1>4. CASE Signal \/ PluginDies \/ Stay \/ UNCHANGED vars
  <2>1. session' = session
    BY <1>4 DEF Signal, PluginDies, Stay, vars, relayVars
  <2>2. phase' = phase \/ (phase = "loop" /\ phase' = "cleanup")
    BY <1>4 DEF Signal, PluginDies, Stay, vars, mainVars
  <2>3. CASE phase' = phase
    <3>1. Server' = Server  BY <2>3 DEF Server
    <3> QED  BY <2>1, <3>1, PromiseStarts
  <2>4. CASE phase = "loop" /\ phase' = "cleanup"
    <3>1. Server' = Server  BY <2>4 DEF Server
    <3> QED  BY <2>1, <3>1, PromiseStarts
  <2> QED  BY <2>2, <2>3, <2>4
<1>5. CASE ConnectFatal  BY <1>5, PromiseConnectFatal DEF Promise!Next
<1> QED  BY <1>1, <1>2, <1>3, <1>4, <1>5 DEF Next

\* The relay does what Tunnel promises, whatever the requests, the sizes of the
\* buffers, the order of the callbacks and what the sockets take: every step of
\* the server is a step of the tunnel or none it can see.
THEOREM TunnelImplemented == Spec => ImplementsTunnel
<1>1. Init => Promise!Init
  <2> SUFFICES ASSUME Init PROVE Promise!Init
    OBVIOUS
  <2>1. Server = "starting"  BY DEF Init, Server
  <2>2. \A c \in Conns : session[c].stage = "none"
    BY DEF Init, RelayInit, Fresh
  <2>3. Connections = [c \in Conns |-> Promise!Closed]
    BY <2>2, EndedCloses DEF Connections
  <2> QED  BY <2>1, <2>3 DEF Promise!Init
<1>2. IInv /\ IInv' /\ AllWhole /\ AllWhole' /\ [Next]_vars
        => [Promise!Next]_(Promise!vars)
  BY PromiseStep
<1> QED
  BY <1>1, <1>2, InitWhole, NextWhole, SpecIInv, PTL
  DEF Spec, ImplementsTunnel, Promise!Spec
=============================================================================
