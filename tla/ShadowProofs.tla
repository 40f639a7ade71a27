---------------------------- MODULE ShadowProofs ----------------------------
(***************************************************************************)
(* What holds of ShadowServer for any number of connections, buffers,      *)
(* requests and timeouts, and any command line.                            *)
(*                                                                         *)
(* The argument.  Which watchers are active is decided by the stage of a   *)
(* connection, and by whether it has a remote; Shaped says how.  It is     *)
(* inductive by itself: every callback is entered in a shape in which it   *)
(* finds what it uses, and leaves one.  RelayInv has it for every          *)
(* connection.  MainInv is what main knows where it is.  The two together, *)
(* with the types, are IInv, and all theorems but StopIsFinalCorrect are   *)
(* consequences of it; that one is a property of steps, and is shown from  *)
(* IInv callback by callback.                                              *)
(***************************************************************************)
EXTENDS ShadowServer, TLAPS

\* Buffers, and what is cut from them, keep their types.

LEMMA UnsentType ==
  ASSUME NEW b \in Buffer
  PROVE  /\ Unsent(b) \in Seq(Nat)
         /\ Len(Unsent(b)) = b.len
<1>1. \A i \in 1 .. b.len :
        (IF b.idx + i \in DOMAIN b.data THEN b.data[b.idx + i] ELSE 0) \in Nat
  BY DEF Buffer
<1>2. b.len \in Nat  BY DEF Buffer
<1>3. Unsent(b) \in [1 .. b.len -> Nat]  BY <1>1 DEF Unsent
<1> QED  BY <1>2, <1>3

LEMMA ChunkType ==
  ASSUME NEW n \in Nat, NEW k \in Nat
  PROVE  Chunk(n, k) \in Seq(Nat) /\ Len(Chunk(n, k)) = k
<1>1. Chunk(n, k) \in [1 .. k -> Nat]  BY DEF Chunk
<1> QED  BY <1>1

LEMMA FilledType ==
  ASSUME NEW b \in Buffer, NEW bytes \in Seq(Nat)
  PROVE  /\ Filled(b, bytes) \in Buffer
         /\ Filled(b, bytes).len = Len(bytes)
<1>1. Len(bytes) \in Nat  OBVIOUS
<1> HIDE DEF Buffer
<1> DEFINE l == Len(bytes)
<1>2. l \in Nat  BY <1>1
<1>3. Filled(b, bytes) = [b EXCEPT !.data = bytes, !.len = l]  BY DEF Filled
<1> HIDE DEF l
<1>4. [b EXCEPT !.data = bytes, !.len = l] \in Buffer  BY <1>2 DEF Buffer
<1>5. [b EXCEPT !.data = bytes, !.len = l].len = l  BY DEF Buffer
<1> QED  BY <1>3, <1>4, <1>5 DEF l

LEMMA SentType ==
  ASSUME NEW b \in Buffer, NEW n \in 0 .. b.len
  PROVE  Sent(b, n) \in Buffer /\ Rest(b, n) \in Buffer
<1>1. b.len \in Nat /\ b.idx \in Nat  BY DEF Buffer
<1> DEFINE l == b.len - n
           i == b.idx + n
<1>2. l \in Nat /\ i \in Nat /\ n \in Nat  BY <1>1
<1>3. /\ Sent(b, n) = [b EXCEPT !.idx = i, !.len = l]
      /\ Rest(b, n) = [b EXCEPT !.idx = n, !.len = l]
  BY DEF Sent, Rest
<1> HIDE DEF l, i
<1>4. [b EXCEPT !.idx = i, !.len = l] \in Buffer  BY <1>2 DEF Buffer
<1>5. [b EXCEPT !.idx = n, !.len = l] \in Buffer  BY <1>2 DEF Buffer
<1> QED  BY <1>3, <1>4, <1>5

LEMMA PrefixType ==
  ASSUME NEW t \in Seq(Nat), NEW q \in Seq(Nat), NEW n \in 0 .. Len(q)
  PROVE  t \o SubSeq(q, 1, n) \in Seq(Nat)
<1>1. SubSeq(q, 1, n) \in Seq(Nat)  OBVIOUS
<1> QED  BY <1>1

LEMMA CloseRemoteType ==
  ASSUME NEW s \in Session
  PROVE  CloseRemote(s) \in Session
<1>1. NoBuf \in Buffer  BY DEF NoBuf, Buffer
<1> QED  BY ZenonT(40), <1>1 DEF CloseRemote, FreeRemote, Session

LEMMA FreeServerType ==
  ASSUME NEW s \in Session
  PROVE  FreeServer(s) \in Session
<1>1. NoBuf \in Buffer  BY DEF NoBuf, Buffer
<1>2. 0 \in 0 .. MAX_FRAG + 1  BY RelayAssumption
<1> QED  BY <1>1, <1>2 DEF FreeServer, Session

LEMMA CloseServerType ==
  ASSUME NEW s \in Session
  PROVE  CloseServer(s) \in Session
<1> DEFINE t == [s EXCEPT !.to_query = FALSE,
                          !.asked_by = @ /\ ~s.to_query,
                          !.io = @ \ {"server_send", "server_recv"},
                          !.idle = 0]
<1>1. 0 \in 0 .. Timeout  BY RelayAssumption
<1>2. t \in Session  BY ZenonT(40), <1>1 DEF Session
<1> QED  BY <1>2, FreeServerType DEF CloseServer

\* What is active, by the stage.  While a name is looked up nothing is, while a
\* connection is made only its writer; a stream has one end of each direction;
\* a server that was stopped reads on, and its remote sends nothing any more.
\* Only a server that ends in that stage leaves its remote behind.
Shaped(s) ==
  /\ LinkedSession(s)
  /\ s.has_remote /\ ~s.to_server => s.stage = "none" /\ s.was = "stop"
  /\ s.stage = "init" =>
       s.io = IF s.has_remote THEN {"remote_send"} ELSE {"server_recv"}
  /\ s.stage = "resolve" =>
       s.io = IF s.has_remote THEN {"remote_send"} ELSE {}
  /\ s.stage = "stream" =>
       /\ s.to_remote /\ s.connected
       /\ ("server_recv" \in s.io) = ("remote_send" \notin s.io)
       /\ ("remote_recv" \in s.io) = ("server_send" \notin s.io)
  /\ s.stage = "stop" => "server_recv" \in s.io /\ "remote_send" \notin s.io

Good(s) == s \in Session /\ Shaped(s)

LEMMA CloseServerFields ==
  ASSUME NEW s \in Session
  PROVE  LET t == CloseServer(s) IN
         /\ t.stage = "none" /\ t.was = s.stage
         /\ t.io = s.io \ {"server_send", "server_recv"}
         /\ t.has_remote = s.has_remote /\ t.to_remote = FALSE
         /\ t.to_server = (s.to_server /\ ~s.to_remote)
         /\ t.has_query = s.has_query /\ t.to_query = FALSE
         /\ t.asked_by = (s.asked_by /\ ~s.to_query)
BY DEF CloseServer, FreeServer, Session

LEMMA CloseRemoteFields ==
  ASSUME NEW s \in Session
  PROVE  LET t == CloseRemote(s) IN
         /\ t.stage = s.stage /\ t.was = s.was
         /\ t.io = s.io \ {"remote_send", "remote_recv"}
         /\ t.has_remote = FALSE /\ t.to_server = FALSE
         /\ t.to_remote = (s.to_remote /\ ~s.to_server)
         /\ t.has_query = s.has_query /\ t.to_query = s.to_query
         /\ t.asked_by = s.asked_by
BY DEF CloseRemote, FreeRemote, Session

\* What is left of a server that has been freed
Remains(t) ==
  /\ t.stage = "none"
  /\ t.io \cap {"server_recv", "server_send"} = {}
  /\ t.io \cap {"remote_recv", "remote_send"} # {} => t.has_remote
  /\ t.has_remote => t.was = "stop"
  /\ t.to_remote = FALSE /\ t.to_server = FALSE
  /\ t.to_query = FALSE /\ t.asked_by = FALSE

LEMMA RemainsShaped ==
  ASSUME NEW t, Remains(t)
  PROVE  Shaped(t)
BY DEF Remains, Shaped, LinkedSession

LEMMA CloseServerGood ==
  ASSUME NEW s, Good(s), ~s.to_remote \/ s.stage = "stop", s.stage # "none"
  PROVE  Good(CloseServer(s)) /\ Remains(CloseServer(s))
<1> DEFINE t == CloseServer(s)
<1>1. s \in Session /\ Shaped(s)  BY DEF Good
<1>2. t \in Session  BY <1>1, CloseServerType
<1>3. s.to_remote = s.to_server /\ s.to_remote \in BOOLEAN
  BY <1>1 DEF Session, Shaped, LinkedSession
<1>4. s.has_remote => s.stage = "stop"  BY <1>1, <1>3 DEF Shaped
<1>5. s.asked_by = s.to_query /\ s.asked_by \in BOOLEAN
  BY <1>1 DEF Session, Shaped, LinkedSession
<1>6. s.io \cap {"remote_recv", "remote_send"} # {} => s.has_remote
  BY <1>1 DEF Shaped, LinkedSession
<1>7. /\ t.stage = "none" /\ t.has_remote = s.has_remote /\ t.was = s.stage
      /\ t.io = s.io \ {"server_send", "server_recv"}
      /\ t.to_remote = FALSE /\ t.to_server = FALSE
      /\ t.to_query = FALSE /\ t.asked_by = FALSE
  BY <1>1, <1>3, <1>5, CloseServerFields
<1> HIDE DEF t
<1>8. Remains(t)  BY <1>4, <1>6, <1>7 DEF Remains
<1> QED  BY <1>2, <1>8, RemainsShaped DEF Good, t

LEMMA CloseBothGood ==
  ASSUME NEW s, Good(s), s.stage # "none"
  PROVE  Good(CloseBoth(s))
<1>1. CASE s.to_remote
  <2> DEFINE r == CloseRemote(s)
             t == CloseServer(r)
  <2>1. s \in Session /\ Shaped(s)  BY DEF Good
  <2>2. r \in Session  BY <2>1, CloseRemoteType
  <2>3. t \in Session  BY <2>2, CloseServerType
  <2>4. s.asked_by = s.to_query /\ s.asked_by \in BOOLEAN /\ s.io \subseteq Watchers
    BY <2>1 DEF Session, Shaped, LinkedSession
  <2>5. /\ r.has_remote = FALSE /\ r.to_server = FALSE
        /\ r.io = s.io \ {"remote_send", "remote_recv"}
        /\ r.to_query = s.to_query /\ r.asked_by = s.asked_by
    BY <2>1, CloseRemoteFields
  <2> HIDE DEF r
  <2>6. /\ t.stage = "none" /\ t.has_remote = FALSE
        /\ t.io = r.io \ {"server_send", "server_recv"}
        /\ t.to_remote = FALSE /\ t.to_server = FALSE
        /\ t.to_query = FALSE /\ t.asked_by = FALSE
    BY <2>2, <2>4, <2>5, CloseServerFields
  <2> HIDE DEF t
  <2>7. Remains(t)  BY <2>5, <2>6 DEF Remains
  <2>8. Good(t)  BY <2>3, <2>7, RemainsShaped DEF Good
  <2> QED  BY <1>1, <2>8 DEF CloseBoth, t, r
<1>2. CASE ~s.to_remote
  BY <1>2, CloseServerGood DEF CloseBoth
<1> QED  BY <1>1, <1>2

\* Nothing that Shaped looks at is different.
SameShape(s, t) ==
  /\ t.stage = s.stage /\ t.was = s.was /\ t.io = s.io
  /\ t.has_remote = s.has_remote /\ t.to_remote = s.to_remote
  /\ t.to_server = s.to_server /\ t.has_query = s.has_query
  /\ t.to_query = s.to_query /\ t.asked_by = s.asked_by
  /\ t.connected = s.connected

LEMMA SameShapeGood ==
  ASSUME NEW s, Good(s), NEW t \in Session, SameShape(s, t)
  PROVE  Good(t)
BY DEF SameShape, Good, Shaped, LinkedSession

LEMMA StopGood ==
  ASSUME NEW s, Good(s), s.stage \in {"init", "stream"}, "server_recv" \in s.io
  PROVE  Good([s EXCEPT !.stage = "stop"])
<1> DEFINE t == [s EXCEPT !.stage = "stop"]
<1>1. s \in Session /\ Shaped(s)  BY DEF Good
<1>2. /\ t \in Session
      /\ t.stage = "stop" /\ t.was = s.was /\ t.io = s.io
      /\ t.has_remote = s.has_remote /\ t.to_remote = s.to_remote
      /\ t.to_server = s.to_server /\ t.has_query = s.has_query
      /\ t.to_query = s.to_query /\ t.asked_by = s.asked_by
  BY <1>1 DEF Session
<1> HIDE DEF t
<1>3. Shaped(t)  BY <1>1, <1>2 DEF Shaped, LinkedSession
<1> QED  BY <1>2, <1>3 DEF Good, t

\* A stream that waits for a writer instead of a reader
LEMMA WaitGood ==
  ASSUME NEW s, Good(s), s.stage = "stream",
         NEW reader, NEW writer,
         <<reader, writer>> \in {<<"server_recv", "remote_send">>,
                                 <<"remote_recv", "server_send">>}
  PROVE  Good([s EXCEPT !.io = Wait(@, reader, writer)])
<1> DEFINE w == Wait(s.io, reader, writer)
           t == [s EXCEPT !.io = w]
<1>1. s \in Session /\ Shaped(s)  BY DEF Good
<1>2. w \subseteq Watchers  BY <1>1 DEF Session, Wait, Watchers
<1>3. \/ w = (s.io \ {"server_recv"}) \cup {"remote_send"}
      \/ w = (s.io \ {"remote_recv"}) \cup {"server_send"}
  BY DEF Wait
<1> HIDE DEF w
<1>4. /\ t \in Session
      /\ t.stage = s.stage /\ t.was = s.was /\ t.io = w
      /\ t.has_remote = s.has_remote /\ t.to_remote = s.to_remote
      /\ t.to_server = s.to_server /\ t.has_query = s.has_query
      /\ t.to_query = s.to_query /\ t.asked_by = s.asked_by
      /\ t.connected = s.connected
  BY <1>1, <1>2 DEF Session
<1> HIDE DEF t
<1>5. Shaped(t)  BY <1>1, <1>3, <1>4 DEF Shaped, LinkedSession
<1> QED  BY <1>4, <1>5 DEF Good, t, w
-----------------------------------------------------------------------------
\* The invariant of the relay
RelayInv ==
  RelayTypeOK /\ \A c \in Conns : Good(session[c])

LEMMA FreshGood == Good(Fresh)
<1>1. NoBuf \in Buffer  BY DEF NoBuf, Buffer
<1>2. 0 \in 0 .. MAX_FRAG + 1 /\ 0 \in 0 .. Timeout  BY RelayAssumption
<1>3. Fresh \in Session  BY <1>1, <1>2 DEF Fresh, Session
<1>4. Shaped(Fresh)  BY DEF Fresh, Shaped, LinkedSession
<1> QED  BY <1>3, <1>4 DEF Good

LEMMA StepGood ==
  ASSUME RelayInv, NEW c \in Conns, NEW t, Good(t), fast_open' \in BOOLEAN,
         session' = [session EXCEPT ![c] = Settled(t)]
  PROVE  RelayInv'
<1>1. Good(Settled(t))  BY FreshGood DEF Settled
<1>2. \A d \in Conns : Good(session'[d])
  BY <1>1 DEF RelayInv, RelayTypeOK
<1>3. session' \in [Conns -> Session]
  BY <1>1 DEF RelayInv, RelayTypeOK, Good
<1> QED  BY <1>2, <1>3 DEF RelayInv, RelayTypeOK

LEMMA BecomesGood ==
  ASSUME RelayInv, NEW c \in Conns, NEW t, Good(t), Becomes(c, t)
  PROVE  RelayInv'
BY StepGood DEF Becomes, RelayInv, RelayTypeOK
-----------------------------------------------------------------------------
\* The callbacks, one lemma for each action

LEMMA AcceptStep ==
  ASSUME RelayInv, NEW c \in Conns, Accept(c)
  PROVE  RelayInv'
<1> DEFINE t == [NewServer EXCEPT !.io = {"server_recv"}]
<1>1. Fresh \in Session  BY FreshGood DEF Good
<1>2. /\ t \in Session
      /\ t.stage = "init" /\ t.was = Fresh.was /\ t.io = {"server_recv"}
      /\ t.has_remote = Fresh.has_remote /\ t.to_remote = Fresh.to_remote
      /\ t.to_server = Fresh.to_server /\ t.has_query = Fresh.has_query
      /\ t.to_query = Fresh.to_query /\ t.asked_by = Fresh.asked_by
  BY <1>1 DEF NewServer, Session, Watchers
<1>3. Becomes(c, t)  BY DEF Accept
<1> HIDE DEF t
<1>4. Shaped(t)  BY <1>2 DEF Fresh, Shaped, LinkedSession
<1>5. Good(t)  BY <1>2, <1>4 DEF Good
<1> QED  BY <1>3, <1>5, BecomesGood

LEMMA ReadableFacts ==
  ASSUME RelayInv, NEW c \in Conns, Readable(c)
  PROVE  /\ Good(session[c]) /\ session[c] \in Session
         /\ session[c].stage \in {"init", "stream", "stop"}
         /\ session[c].stage = "init" => ~session[c].has_remote
         /\ session[c].stage = "init" => ~session[c].to_remote
         /\ session[c].stage = "stream" => session[c].to_remote
<1> DEFINE s == session[c]
<1>1. Good(s) /\ s \in Session /\ Shaped(s)  BY DEF RelayInv, Good
<1>2. "server_recv" \in s.io  BY DEF Readable
<1> HIDE DEF s
<1>3. s.stage \in {"none", "init", "resolve", "stream", "stop"}
  BY <1>1 DEF Session
<1>4. s.stage \notin {"none", "resolve"}  BY <1>1, <1>2 DEF Shaped, LinkedSession
<1>5. s.stage = "init" => ~s.has_remote  BY <1>1, <1>2 DEF Shaped
<1>6. s.to_remote => s.has_remote  BY <1>1 DEF Shaped, LinkedSession
<1>7. s.stage = "stream" => s.to_remote  BY <1>1 DEF Shaped
<1> QED  BY <1>1, <1>3, <1>4, <1>5, <1>6, <1>7 DEF s

LEMMA RenewedGood ==
  ASSUME NEW s, Good(s)
  PROVE  Good(Renewed(s)) /\ Renewed(s).stage = s.stage /\ Renewed(s).io = s.io
<1> DEFINE t == [s EXCEPT !.idle = 0]
<1>1. s \in Session  BY DEF Good
<1>2. 0 \in 0 .. Timeout  BY RelayAssumption
<1>3. t \in Session /\ SameShape(s, t)  BY <1>1, <1>2 DEF Session, SameShape
<1>4. Good(t)  BY <1>3, SameShapeGood
<1> QED  BY <1>3, <1>4 DEF Renewed, SameShape

LEMMA ClientClosesStep ==
  ASSUME RelayInv, NEW c \in Conns, ClientCloses(c)
  PROVE  RelayInv'
<1>1. Readable(c) /\ Becomes(c, HungUp(session[c]))  BY DEF ClientCloses
<1>2. Good(HungUp(session[c]))
  <2>1. CASE session[c].stage = "stream"
    BY <1>1, <2>1, ReadableFacts, CloseBothGood DEF HungUp
  <2>2. CASE session[c].stage # "stream"
    BY <1>1, <2>2, ReadableFacts, CloseServerGood DEF HungUp
  <2> QED  BY <2>1, <2>2
<1> QED  BY <1>1, <1>2, BecomesGood

LEMMA ClientSilentStep ==
  ASSUME RelayInv, NEW c \in Conns, ClientSilent(c)
  PROVE  RelayInv'
BY ReadableFacts, RenewedGood, BecomesGood DEF ClientSilent

LEMMA ClientIgnoredStep ==
  ASSUME RelayInv, NEW c \in Conns, ClientIgnored(c)
  PROVE  RelayInv'
<1> DEFINE s == session[c]
           D(k) == [i \in DOMAIN s.sbuf.data |->
                      IF i <= k THEN 0 ELSE s.sbuf.data[i]]
           t(k) == [s EXCEPT !.sbuf.data = D(k)]
<1>1. PICK k \in 1 .. BufSize : Becomes(c, t(k))  BY DEF ClientIgnored
<1>2. Good(s) /\ s \in Session  BY ReadableFacts DEF ClientIgnored
<1>3. s.sbuf.data \in Seq(Nat)  BY <1>2 DEF Session, Buffer
<1>4. D(k) \in Seq(Nat)
  <2> DEFINE q == s.sbuf.data
  <2>1. q \in [1 .. Len(q) -> Nat] /\ Len(q) \in Nat  BY SMTT(30), <1>3
  <2>2. D(k) \in [1 .. Len(q) -> Nat]  BY <2>1
  <2> QED  BY SMTT(30), <2>1, <2>2
<1> HIDE DEF D
<1>5. t(k) \in Session /\ SameShape(s, t(k))
  BY <1>2, <1>4 DEF Session, Buffer, SameShape
<1> QED  BY <1>1, <1>2, <1>5, SameShapeGood, BecomesGood

LEMMA ClientGarbageStep ==
  ASSUME RelayInv, NEW c \in Conns, ClientGarbage(c)
  PROVE  RelayInv'
<1> DEFINE s == session[c]
           t == Renewed(s)
<1>1. Readable(c) /\ s.stage # "stop"  BY DEF ClientGarbage
<1>2. Good(s) /\ s.stage \in {"init", "stream"} /\ "server_recv" \in s.io
  BY <1>1, ReadableFacts DEF Readable
<1>3. Good(t) /\ t.stage \in {"init", "stream"} /\ "server_recv" \in t.io
  BY <1>2, RenewedGood
<1>4. Becomes(c, [t EXCEPT !.stage = "stop"])  BY DEF ClientGarbage
<1> HIDE DEF t
<1> QED  BY <1>3, <1>4, StopGood, BecomesGood

LEMMA ClientFragmentStep ==
  ASSUME RelayInv, NEW c \in Conns, ClientFragment(c)
  PROVE  RelayInv'
<1> DEFINE s == session[c]
           f == s.frag + 1
           t == [s EXCEPT !.frag = f]
<1>1. /\ Readable(c) /\ s.stage = "init"
      /\ Becomes(c, IF TooFragmented(s) THEN [s EXCEPT !.stage = "stop"] ELSE t)
  BY DEF ClientFragment
<1>2. Good(s) /\ s \in Session /\ "server_recv" \in s.io
  BY <1>1, ReadableFacts DEF Readable
<1>3. CASE TooFragmented(s)  BY <1>1, <1>2, <1>3, StopGood, BecomesGood
<1>4. CASE ~TooFragmented(s)
  <2>1. f \in 0 .. MAX_FRAG + 1
    BY <1>2, <1>4, RelayAssumption DEF TooFragmented, Session
  <2> HIDE DEF f
  <2>2. t \in Session /\ SameShape(s, t)  BY <1>2, <2>1 DEF Session, SameShape
  <2>3. Good(t)  BY <1>2, <2>2, SameShapeGood
  <2> QED  BY <1>1, <1>4, <2>3, BecomesGood
<1> QED  BY <1>3, <1>4

\* A chunk that was received, sent on in part, and the rest left to the writer
LEMMA ClientDataStep ==
  ASSUME RelayInv, NEW c \in Conns, ClientData(c)
  PROVE  RelayInv'
<1> DEFINE s == session[c]
<1>1. PICK k \in 1 .. BufSize :
        LET bytes == Chunk(s.up, k)
            t == [s EXCEPT !.idle = 0, !.up = @ + k, !.rbuf = Filled(@, bytes)]
        IN  \/ Becomes(c, CloseBoth(t))
            \/ Becomes(c, [t EXCEPT !.toRemote = @ \o bytes])
            \/ \E n \in 0 .. k - 1 :
                 Becomes(c, [t EXCEPT
                   !.toRemote = @ \o SubSeq(bytes, 1, n),
                   !.rbuf = Rest(@, n),
                   !.io = Wait(@, "server_recv", "remote_send")])
  BY DEF ClientData
<1>2. Readable(c) /\ s.stage = "stream"  BY DEF ClientData
<1>3. Good(s) /\ s \in Session  BY <1>2, ReadableFacts
<1>4. k \in Nat /\ 0 \in 0 .. Timeout  BY RelayAssumption
<1> DEFINE bytes == Chunk(s.up, k)
           b == Filled(s.rbuf, bytes)
           u == s.up + k
           t == [s EXCEPT !.idle = 0, !.up = u, !.rbuf = b]
<1>5. s.up \in Nat /\ s.rbuf \in Buffer /\ s.toRemote \in Seq(Nat)
  BY <1>3 DEF Session
<1>6. bytes \in Seq(Nat) /\ Len(bytes) = k  BY <1>4, <1>5, ChunkType
<1>7. b \in Buffer /\ b.len = k  BY <1>5, <1>6, FilledType
<1>8. u \in Nat  BY <1>4, <1>5
<1>9. \/ Becomes(c, CloseBoth(t))
      \/ Becomes(c, [t EXCEPT !.toRemote = t.toRemote \o bytes])
      \/ \E n \in 0 .. k - 1 :
           Becomes(c, [t EXCEPT
             !.toRemote = t.toRemote \o SubSeq(bytes, 1, n),
             !.rbuf = Rest(t.rbuf, n),
             !.io = Wait(t.io, "server_recv", "remote_send")])
  BY <1>1
<1> HIDE DEF bytes, b, u
<1>10. t \in Session /\ SameShape(s, t) /\ t.toRemote = s.toRemote /\ t.rbuf = b
  BY <1>3, <1>4, <1>7, <1>8 DEF Session, SameShape
<1>11. Good(t) /\ t.stage = "stream"
  BY <1>2, <1>3, <1>10, SameShapeGood DEF SameShape
<1> HIDE DEF t
<1>12. CASE Becomes(c, CloseBoth(t))
  BY <1>11, <1>12, CloseBothGood, BecomesGood
<1>13. CASE Becomes(c, [t EXCEPT !.toRemote = t.toRemote \o bytes])
  <2> DEFINE q == t.toRemote \o bytes
             v == [t EXCEPT !.toRemote = q]
  <2>1. q \in Seq(Nat)  BY <1>5, <1>6, <1>10
  <2> HIDE DEF q
  <2>2. v \in Session /\ SameShape(t, v)  BY <1>10, <2>1 DEF Session, SameShape
  <2>3. Good(v)  BY <1>11, <2>2, SameShapeGood
  <2> QED  BY <1>13, <2>3, BecomesGood DEF q
<1>14. CASE \E n \in 0 .. k - 1 :
             Becomes(c, [t EXCEPT
               !.toRemote = t.toRemote \o SubSeq(bytes, 1, n),
               !.rbuf = Rest(t.rbuf, n),
               !.io = Wait(t.io, "server_recv", "remote_send")])
  <2>1. PICK n \in 0 .. k - 1 :
          Becomes(c, [t EXCEPT
            !.toRemote = t.toRemote \o SubSeq(bytes, 1, n),
            !.rbuf = Rest(t.rbuf, n),
            !.io = Wait(t.io, "server_recv", "remote_send")])
    BY <1>14
  <2> DEFINE q == t.toRemote \o SubSeq(bytes, 1, n)
             r == Rest(t.rbuf, n)
             v == [t EXCEPT !.toRemote = q, !.rbuf = r]
             w == Wait(t.io, "server_recv", "remote_send")
  <2>2. n \in 0 .. Len(bytes) /\ n \in 0 .. b.len  BY <1>4, <1>6, <1>7
  <2>3. q \in Seq(Nat)  BY <1>5, <1>6, <1>10, <2>2, PrefixType
  <2>4. r \in Buffer  BY <1>7, <1>10, <2>2, SentType
  <2>5. Becomes(c, [v EXCEPT !.io = w])  BY <2>1
  <2> HIDE DEF q, r, w
  <2>6. v \in Session /\ SameShape(t, v)
    BY <1>10, <2>3, <2>4 DEF Session, SameShape
  <2>7. Good(v) /\ v.stage = "stream" /\ v.io = t.io
    BY <1>11, <2>6, SameShapeGood DEF SameShape
  <2> HIDE DEF v
  <2>8. Good([v EXCEPT !.io = Wait(v.io, "server_recv", "remote_send")])
    BY <2>7, WaitGood
  <2> QED  BY <2>5, <2>7, <2>8, BecomesGood DEF w
<1> QED  BY <1>9, <1>12, <1>13, <1>14

LEMMA RequestRefusedStep ==
  ASSUME RelayInv, NEW c \in Conns, RequestRefused(c)
  PROVE  RelayInv'
BY ReadableFacts, StopGood, BecomesGood DEF RequestRefused, Requesting, Readable

LEMMA RequestDeniedStep ==
  ASSUME RelayInv, NEW c \in Conns, RequestDenied(c)
  PROVE  RelayInv'
BY ReadableFacts, CloseServerGood, BecomesGood DEF RequestDenied, Requesting

LEMMA OffsetType ==
  ASSUME NEW r \in Request
  PROVE  Offset(r) \in Nat
<1>1. AddressLen(r) \in Nat  BY RelayAssumption DEF AddressLen, Request
<1> QED  BY <1>1 DEF Offset

LEMMA PayloadGood ==
  ASSUME NEW s, Good(s), NEW r \in Request, Accepted(r)
  PROVE  Good(WithPayload(s, r)) /\ SameShape(s, WithPayload(s, r))
<1> DEFINE o == Offset(r)
           u == r.len - o
           d == [i \in 1 .. r.len |-> IF i <= o THEN 0 ELSE i - o]
           b == [data |-> d, idx |-> o, len |-> u]
           t == [s EXCEPT !.up = u, !.sbuf = b]
<1>1. o \in Nat  BY OffsetType
<1>2. r.len \in Nat /\ r.len >= o  BY DEF Request, Accepted
<1>3. WithPayload(s, r) = t  BY DEF WithPayload
<1> HIDE DEF o
<1>4. u \in Nat  BY <1>1, <1>2
<1>5. d \in Seq(Nat)
  <2>1. \A i \in 1 .. r.len : (IF i <= o THEN 0 ELSE i - o) \in Nat
    BY <1>1, <1>2
  <2>2. d \in [1 .. r.len -> Nat]  BY <2>1
  <2> QED  BY <1>2, <2>2
<1> HIDE DEF u, d
<1>6. b \in Buffer  BY <1>1, <1>4, <1>5 DEF Buffer
<1> HIDE DEF b
<1>7. s \in Session  BY DEF Good
<1>8. t \in Session /\ SameShape(s, t)  BY <1>4, <1>6, <1>7 DEF Session, SameShape
<1> QED  BY <1>3, <1>8, SameShapeGood

\* A remote_t for a server that has none
LEMMA AttachGood ==
  ASSUME NEW s, Good(s), s.stage \in {"init", "resolve"}, ~s.has_remote,
         NEW n \in 0 .. s.sbuf.len
  PROVE  Good(Attach(Opened(NewRemote(s), n)))
<1>1. s \in Session /\ Shaped(s)  BY DEF Good
<1>2. NoBuf \in Buffer  BY DEF NoBuf, Buffer
<1>3. s.sbuf \in Buffer /\ s.toRemote \in Seq(Nat)  BY <1>1 DEF Session
<1> DEFINE p == NewRemote(s)
<1>4. /\ p \in Session /\ p.sbuf = s.sbuf /\ p.toRemote = s.toRemote
      /\ p.stage = s.stage /\ p.was = s.was /\ p.io = s.io
      /\ p.has_remote = TRUE /\ p.has_query = s.has_query
      /\ p.to_query = s.to_query /\ p.asked_by = s.asked_by
  BY <1>1, <1>2 DEF NewRemote, Session
<1> HIDE DEF p
<1> DEFINE q == p.toRemote \o SubSeq(Unsent(p.sbuf), 1, n)
           b == Sent(p.sbuf, n)
           o == Opened(p, n)
<1>5. q \in Seq(Nat)  BY <1>3, <1>4, UnsentType, PrefixType
<1>6. b \in Buffer  BY <1>3, <1>4, SentType
<1>7. o = [p EXCEPT !.toRemote = q, !.sbuf = b]  BY DEF Opened
<1> HIDE DEF q, b, o
<1>8. /\ o \in Session
      /\ o.stage = s.stage /\ o.was = s.was /\ o.io = s.io
      /\ o.has_remote = TRUE /\ o.has_query = s.has_query
      /\ o.to_query = s.to_query /\ o.asked_by = s.asked_by
  BY <1>4, <1>5, <1>6, <1>7 DEF Session
<1> DEFINE rb == IF o.sbuf.len > 0 THEN Filled(o.rbuf, Unsent(o.sbuf)) ELSE o.rbuf
           sb == IF o.sbuf.len > 0 THEN [o.sbuf EXCEPT !.len = 0, !.idx = 0]
                 ELSE o.sbuf
           w == (s.io \ {"server_recv"}) \cup {"remote_send"}
           t == [o EXCEPT !.to_remote = TRUE, !.to_server = TRUE,
                          !.rbuf = rb, !.sbuf = sb, !.io = w]
<1>9. o.sbuf \in Buffer /\ o.rbuf \in Buffer  BY <1>8 DEF Session
<1>10. rb \in Buffer  BY <1>9, UnsentType, FilledType
<1>11. sb \in Buffer  BY <1>9 DEF Buffer
<1>12. /\ Linked(o) = [o EXCEPT !.to_remote = TRUE, !.to_server = TRUE,
                                !.rbuf = rb, !.sbuf = sb]
  BY DEF Linked
<1> HIDE DEF rb, sb
<1>13. Linked(o) \in Session /\ Linked(o).io = s.io
  BY ZenonT(40), <1>8, <1>10, <1>11, <1>12 DEF Session
<1>14. Attach(o) = t  BY <1>12, <1>13 DEF Attach
<1>15. w = {"remote_send"}  BY <1>1 DEF Shaped
<1> HIDE DEF w
<1>16. /\ t \in Session
       /\ t.stage = s.stage /\ t.was = s.was /\ t.io = {"remote_send"}
       /\ t.has_remote = TRUE /\ t.to_remote = TRUE /\ t.to_server = TRUE
       /\ t.has_query = s.has_query
       /\ t.to_query = s.to_query /\ t.asked_by = s.asked_by
  BY <1>8, <1>10, <1>11, <1>15 DEF Session, Watchers
<1> HIDE DEF t
<1>17. Shaped(t)  BY <1>1, <1>16 DEF Shaped, LinkedSession
<1> QED  BY <1>14, <1>16, <1>17 DEF Good, o, p

LEMMA ConnectsStep ==
  ASSUME RelayInv, NEW c \in Conns, NEW s, Good(s),
         s.stage \in {"init", "resolve"}, ~s.has_remote,
         Connects(c, s) \/ ConnectFails(c, s)
  PROVE  RelayInv'
<1>1. fast_open \in BOOLEAN  BY DEF RelayInv, RelayTypeOK
<1>2. CASE Connects(c, s)
  <2>1. PICK n \in 0 .. s.sbuf.len :
          /\ session' = [session EXCEPT ![c] = Attach(Opened(NewRemote(s), n))]
          /\ fast_open' \in IF n > 0 THEN {TRUE} ELSE {FALSE, fast_open}
    BY <1>2 DEF Connects
  <2> DEFINE t == Attach(Opened(NewRemote(s), n))
  <2>2. Good(t)  BY AttachGood
  <2>3. Settled(t) = t
    <3>1. Good(s) /\ s \in Session  BY DEF Good
    <3>2. t.stage = s.stage
      BY <3>1 DEF Attach, Linked, Opened, NewRemote, Session
    <3> QED  BY <3>2 DEF Settled
  <2>4. fast_open' \in BOOLEAN  BY <1>1, <2>1
  <2> HIDE DEF t
  <2> QED  BY <2>1, <2>2, <2>3, <2>4, StepGood DEF t
<1>3. CASE ConnectFails(c, s)
  <2>1. s.to_remote = FALSE
    BY DEF Good, Session, Shaped, LinkedSession
  <2>2. Good(CloseServer(s))  BY <2>1, CloseServerGood
  <2>3. fast_open' \in BOOLEAN  BY <1>1, <1>3 DEF ConnectFails
  <2> QED  BY <1>3, <2>2, <2>3, StepGood DEF ConnectFails
<1> QED  BY <1>2, <1>3

LEMMA RequestDirectStep ==
  ASSUME RelayInv, NEW c \in Conns, RequestDirect(c)
  PROVE  RelayInv'
<1>1. Readable(c) /\ session[c].stage = "init"
  BY DEF RequestDirect, Requesting
<1>2. PICK r \in Requests :
        /\ Accepted(r)
        /\ \/ Connects(c, WithPayload(session[c], r))
           \/ ConnectFails(c, WithPayload(session[c], r))
  BY DEF RequestDirect
<1> DEFINE s == WithPayload(session[c], r)
<1>3. r \in Request  BY RelayAssumption
<1>4. Good(session[c]) /\ ~session[c].has_remote  BY <1>1, ReadableFacts
<1>5. Good(s) /\ SameShape(session[c], s)  BY <1>2, <1>3, <1>4, PayloadGood
<1>6. s.stage = "init" /\ ~s.has_remote  BY <1>1, <1>4, <1>5 DEF SameShape
<1> HIDE DEF s
<1> QED  BY <1>2, <1>5, <1>6, ConnectsStep DEF s

LEMMA RequestNamedStep ==
  ASSUME RelayInv, NEW c \in Conns, RequestNamed(c)
  PROVE  RelayInv'
<1>1. Readable(c) /\ session[c].stage = "init"
  BY DEF RequestNamed, Requesting
<1>2. PICK r \in Requests :
        /\ Accepted(r)
        /\ Becomes(c, [WithPayload(session[c], r) EXCEPT
                         !.stage = "resolve",
                         !.io = @ \ {"server_recv"},
                         !.has_query = TRUE, !.to_query = TRUE,
                         !.asked_by = TRUE])
  BY DEF RequestNamed
<1> DEFINE s == WithPayload(session[c], r)
           w == s.io \ {"server_recv"}
           t == [s EXCEPT !.stage = "resolve", !.io = w, !.has_query = TRUE,
                          !.to_query = TRUE, !.asked_by = TRUE]
<1>3. r \in Request  BY RelayAssumption
<1>4. Good(session[c]) /\ ~session[c].has_remote  BY <1>1, ReadableFacts
<1>5. Good(s) /\ SameShape(session[c], s)  BY <1>2, <1>3, <1>4, PayloadGood
<1>6. s.stage = "init" /\ ~s.has_remote  BY <1>1, <1>4, <1>5 DEF SameShape
<1>7. Becomes(c, t)  BY <1>2
<1> HIDE DEF s
<1>8. s \in Session /\ Shaped(s)  BY <1>5 DEF Good
<1>9. w = {}  BY <1>6, <1>8 DEF Shaped
<1> HIDE DEF w
<1>10. /\ t \in Session
       /\ t.stage = "resolve" /\ t.was = s.was /\ t.io = {}
       /\ t.has_remote = s.has_remote /\ t.to_remote = s.to_remote
       /\ t.to_server = s.to_server /\ t.has_query = TRUE
       /\ t.to_query = TRUE /\ t.asked_by = TRUE
  BY <1>8, <1>9 DEF Session, Watchers
<1> HIDE DEF t
<1>11. Shaped(t)  BY <1>6, <1>8, <1>10 DEF Shaped, LinkedSession
<1> QED  BY <1>7, <1>10, <1>11, BecomesGood DEF Good

LEMMA ResolvCbStep ==
  ASSUME RelayInv, NEW c \in Conns, ResolvCb(c)
  PROVE  RelayInv'
<1> DEFINE s == session[c]
<1>1. Good(s) /\ s \in Session /\ Shaped(s)  BY DEF RelayInv, Good
<1>2. CASE ResolveFails(c)
  BY <1>1, <1>2, CloseServerGood, BecomesGood
  DEF ResolveFails, Resolving
<1>3. CASE Resolved(c)
  <2>1. s.stage = "resolve" /\ ~s.to_remote  BY <1>3 DEF Resolved, Resolving
  <2>2. ~s.has_remote
    BY <1>1, <2>1 DEF Shaped, LinkedSession, Session
  <2> HIDE DEF s
  <2> QED  BY <1>1, <1>3, <2>1, <2>2, ConnectsStep DEF Resolved, s
<1>4. CASE QueryFreed(c)
  <2> DEFINE t == [s EXCEPT !.has_query = FALSE, !.asked_by = FALSE,
                            !.to_query = @ /\ ~s.asked_by]
  <2>1. Becomes(c, t)  BY <1>4 DEF QueryFreed
  <2> HIDE DEF s
  <2>2. s.to_query = s.asked_by /\ s.asked_by \in BOOLEAN
    BY <1>1 DEF Shaped, LinkedSession, Session
  <2>3. (s.to_query /\ ~s.asked_by) = FALSE  BY <2>2
  <2>4. /\ t \in Session
        /\ t.stage = s.stage /\ t.was = s.was /\ t.io = s.io
        /\ t.has_remote = s.has_remote /\ t.to_remote = s.to_remote
        /\ t.to_server = s.to_server /\ t.has_query = FALSE
        /\ t.to_query = FALSE /\ t.asked_by = FALSE
        /\ t.connected = s.connected
    BY <1>1, <2>3 DEF Session
  <2> HIDE DEF t
  <2>5. Shaped(t)  BY <1>1, <2>4 DEF Shaped, LinkedSession
  <2> QED  BY <2>1, <2>4, <2>5, BecomesGood DEF Good
<1> QED  BY <1>2, <1>3, <1>4 DEF ResolvCb

LEMMA OrphanClosesStep ==
  ASSUME RelayInv, NEW c \in Conns, OrphanCloses(c)
  PROVE  RelayInv'
<1> DEFINE s == session[c]
           t == CloseRemote(s)
<1>1. Good(s) /\ s \in Session /\ Shaped(s)  BY DEF RelayInv, Good
<1>2. s.io \cap {"remote_send", "remote_recv"} # {} /\ ~s.to_server
  BY DEF OrphanCloses
<1>3. Becomes(c, t)  BY DEF OrphanCloses
<1>4. t \in Session  BY <1>1, CloseRemoteType
<1> HIDE DEF s
<1>5. s.has_remote  BY <1>1, <1>2 DEF Shaped, LinkedSession
<1>6. s.stage = "none"  BY <1>1, <1>2, <1>5 DEF Shaped
<1>7. s.to_remote = FALSE /\ s.asked_by = FALSE /\ s.to_query = FALSE
  BY <1>1, <1>2, <1>6 DEF Shaped, LinkedSession, Session
<1>8. s.io \cap {"server_recv", "server_send"} = {}
  BY <1>1, <1>6 DEF Shaped, LinkedSession
<1>9. /\ t.stage = "none" /\ t.has_remote = FALSE /\ t.to_server = FALSE
      /\ t.io = s.io \ {"remote_send", "remote_recv"}
      /\ t.to_remote = FALSE /\ t.to_query = FALSE /\ t.asked_by = FALSE
  BY <1>1, <1>6, <1>7, CloseRemoteFields
<1> HIDE DEF t
<1>10. Remains(t)  BY <1>8, <1>9 DEF Remains
<1> QED  BY <1>3, <1>4, <1>10, RemainsShaped, BecomesGood DEF Good

\* A remote that can be written to, and has its server
LEMMA WritableFacts ==
  ASSUME RelayInv, NEW c \in Conns, Writable(c), session[c].to_server
  PROVE  /\ Good(session[c]) /\ session[c] \in Session
         /\ session[c].stage \in {"init", "resolve", "stream"}
         /\ session[c].to_remote /\ session[c].has_remote
<1> DEFINE s == session[c]
<1>1. Good(s) /\ s \in Session /\ Shaped(s)  BY DEF RelayInv, Good
<1>2. "remote_send" \in s.io /\ s.to_server  BY DEF Writable
<1> HIDE DEF s
<1>3. s.to_remote  BY <1>1, <1>2 DEF Shaped, LinkedSession, Session
<1>4. s.has_remote /\ s.stage # "none"
  BY <1>1, <1>3 DEF Shaped, LinkedSession
<1>5. s.stage # "stop"  BY <1>1, <1>2 DEF Shaped
<1>6. s.stage \in {"none", "init", "resolve", "stream", "stop"}
  BY <1>1 DEF Session
<1> QED  BY <1>1, <1>3, <1>4, <1>5, <1>6 DEF s

\* The stream begins, or goes on, with nothing left to send.
LEMMA StreamGood ==
  ASSUME NEW s, Good(s), NEW t \in Session,
         "remote_send" \in s.io, s.to_remote, s.has_remote, t.connected,
         s.stage \in {"init", "resolve", "stream"}, t.stage = "stream",
         t.io = (s.io \ {"remote_send"}) \cup {"server_recv"}
                \cup (IF s.stage = "stream" THEN {} ELSE {"remote_recv"}),
         t.was = s.was, t.has_remote = s.has_remote,
         t.to_remote = s.to_remote, t.to_server = s.to_server,
         t.has_query = s.has_query, t.to_query = s.to_query,
         t.asked_by = s.asked_by
  PROVE  Good(t)
<1>1. Shaped(s)  BY DEF Good
<1>2. CASE s.stage = "stream"
  <2>1. t.io = (s.io \ {"remote_send"}) \cup {"server_recv"}  BY <1>2
  <2>2. /\ ("server_recv" \in t.io) = ("remote_send" \notin t.io)
        /\ ("remote_recv" \in t.io) = ("server_send" \notin t.io)
    BY <1>1, <1>2, <2>1 DEF Shaped
  <2>3. LinkedSession(t)
    BY <1>1, <1>2 DEF Shaped, LinkedSession
  <2>4. t.has_remote /\ ~t.to_server => t.stage = "none" /\ t.was = "stop"
    BY <1>1, <1>2 DEF Shaped
  <2> QED  BY <2>2, <2>3, <2>4 DEF Good, Shaped
<1>3. CASE s.stage # "stream"
  <2>1. s.io = {"remote_send"}  BY <1>1, <1>3 DEF Shaped
  <2>2. t.io = {"server_recv", "remote_recv"}  BY <1>3, <2>1
  <2> QED  BY <1>1, <2>2 DEF Good, Shaped, LinkedSession
<1> QED  BY <1>2, <1>3

LEMMA ConnectedEmptyStep ==
  ASSUME RelayInv, NEW c \in Conns, ConnectedEmpty(c)
  PROVE  RelayInv'
<1> DEFINE s == session[c]
           w == (s.io \ {"remote_send"}) \cup {"server_recv", "remote_recv"}
           t == [s EXCEPT !.connected = TRUE, !.stage = "stream", !.io = w]
<1>1. Writable(c) /\ s.to_server /\ ~s.connected  BY DEF ConnectedEmpty
<1>2. /\ Good(s) /\ s \in Session
      /\ s.stage \in {"init", "resolve", "stream"}
      /\ s.to_remote /\ s.has_remote
  BY <1>1, WritableFacts
<1>3. Becomes(c, t)  BY DEF ConnectedEmpty
<1>4. "remote_send" \in s.io  BY <1>1 DEF Writable
<1> HIDE DEF s
<1>5. s.stage # "stream"  BY <1>1, <1>2 DEF Good, Shaped
<1>6. w \subseteq Watchers  BY <1>2 DEF Session, Watchers
<1>7. w = (s.io \ {"remote_send"}) \cup {"server_recv"}
          \cup (IF s.stage = "stream" THEN {} ELSE {"remote_recv"})
  BY <1>5
<1> HIDE DEF w
<1>8. /\ t \in Session
      /\ t.connected = TRUE /\ t.stage = "stream" /\ t.io = w /\ t.was = s.was
      /\ t.has_remote = s.has_remote /\ t.to_remote = s.to_remote
      /\ t.to_server = s.to_server /\ t.has_query = s.has_query
      /\ t.to_query = s.to_query /\ t.asked_by = s.asked_by
  BY <1>2, <1>6 DEF Session
<1> HIDE DEF t
<1>9. Good(t)  BY <1>2, <1>4, <1>7, <1>8, StreamGood
<1> QED  BY <1>3, <1>9, BecomesGood

LEMMA RemoteSendStep ==
  ASSUME RelayInv, NEW c \in Conns, RemoteSend(c)
  PROVE  RelayInv'
<1> DEFINE s == session[c]
<1>1. PICK n \in 0 .. s.rbuf.len :
        Becomes(c, IF s.rbuf.len = 0 THEN CloseBoth(s)
                   ELSE IF n < s.rbuf.len THEN RemoteSends(s, n)
                   ELSE Streaming([RemoteSends(s, n) EXCEPT !.rbuf.len = 0,
                                                            !.rbuf.idx = 0]))
  BY DEF RemoteSend
<1>2. Writable(c) /\ s.to_server  BY DEF RemoteSend
<1>3. /\ Good(s) /\ s \in Session
      /\ s.stage \in {"init", "resolve", "stream"}
      /\ s.to_remote /\ s.has_remote
  BY <1>2, WritableFacts
<1>4. "remote_send" \in s.io  BY <1>2 DEF Writable
<1> HIDE DEF s
<1> DEFINE q == s.toRemote \o SubSeq(Unsent(s.rbuf), 1, n)
           b == Sent(s.rbuf, n)
           t == RemoteSends(s, n)
<1>5. s.rbuf \in Buffer /\ s.toRemote \in Seq(Nat)  BY <1>3 DEF Session
<1>6. q \in Seq(Nat)  BY <1>5, UnsentType, PrefixType
<1>7. b \in Buffer  BY <1>5, SentType
<1>8. t = [s EXCEPT !.connected = TRUE, !.toRemote = q, !.rbuf = b]
  BY DEF RemoteSends
<1> HIDE DEF q, b, t
<1>9. /\ t \in Session /\ t.connected = TRUE
      /\ t.stage = s.stage /\ t.was = s.was /\ t.io = s.io
      /\ t.has_remote = s.has_remote /\ t.to_remote = s.to_remote
      /\ t.to_server = s.to_server /\ t.has_query = s.has_query
      /\ t.to_query = s.to_query /\ t.asked_by = s.asked_by
  BY <1>3, <1>6, <1>7, <1>8 DEF Session
<1>10. CASE s.rbuf.len = 0
  BY <1>1, <1>3, <1>10, CloseBothGood, BecomesGood DEF s
<1>11. CASE s.rbuf.len # 0 /\ n < s.rbuf.len
  <2>1. Good(t)  BY <1>3, <1>9 DEF Good, Shaped, LinkedSession
  <2> QED  BY <1>1, <1>11, <2>1, BecomesGood DEF s, t
<1>12. CASE s.rbuf.len # 0 /\ ~(n < s.rbuf.len)
  <2> DEFINE e == [t.rbuf EXCEPT !.len = 0, !.idx = 0]
             u == [t EXCEPT !.rbuf = e]
             w == (u.io \ {"remote_send"}) \cup {"server_recv"}
                  \cup (IF u.stage = "stream" THEN {} ELSE {"remote_recv"})
             v == [u EXCEPT !.stage = "stream", !.io = w]
  <2>1. e \in Buffer  BY <1>9 DEF Session, Buffer
  <2>2. [t EXCEPT !.rbuf.len = 0, !.rbuf.idx = 0] = u  BY <1>9 DEF Session
  <2> HIDE DEF e
  <2>3. /\ u \in Session /\ u.connected = TRUE
        /\ u.stage = s.stage /\ u.was = s.was /\ u.io = s.io
        /\ u.has_remote = s.has_remote /\ u.to_remote = s.to_remote
        /\ u.to_server = s.to_server /\ u.has_query = s.has_query
        /\ u.to_query = s.to_query /\ u.asked_by = s.asked_by
    BY <1>9, <2>1 DEF Session
  <2> HIDE DEF u
  <2>4. Streaming(u) = v  BY DEF Streaming
  <2>5. w \subseteq Watchers  BY <2>3 DEF Session, Watchers
  <2>6. w = (s.io \ {"remote_send"}) \cup {"server_recv"}
            \cup (IF s.stage = "stream" THEN {} ELSE {"remote_recv"})
    BY <2>3
  <2> HIDE DEF w
  <2>7. /\ v \in Session /\ v.connected = TRUE
        /\ v.stage = "stream" /\ v.was = s.was /\ v.io = w
        /\ v.has_remote = s.has_remote /\ v.to_remote = s.to_remote
        /\ v.to_server = s.to_server /\ v.has_query = s.has_query
        /\ v.to_query = s.to_query /\ v.asked_by = s.asked_by
    BY <2>3, <2>5 DEF Session
  <2> HIDE DEF v
  <2>8. Good(v)  BY <1>3, <1>4, <2>6, <2>7, StreamGood
  <2>9. Becomes(c, v)  BY <1>1, <1>12, <2>2, <2>4 DEF s, t
  <2> QED  BY <2>8, <2>9, BecomesGood
<1> QED  BY <1>10, <1>11, <1>12

LEMMA RemoteSendCbStep ==
  ASSUME RelayInv, NEW c \in Conns, RemoteSendCb(c)
  PROVE  RelayInv'
<1>1. CASE RemoteSendFails(c)
  BY <1>1, WritableFacts, CloseBothGood, BecomesGood DEF RemoteSendFails
<1> QED  BY <1>1, ConnectedEmptyStep, RemoteSendStep DEF RemoteSendCb

LEMMA AnsweringFacts ==
  ASSUME RelayInv, NEW c \in Conns, Answering(c)
  PROVE  /\ Good(session[c]) /\ session[c] \in Session
         /\ session[c].stage \in {"stream", "stop"}
<1> DEFINE s == session[c]
<1>1. Good(s) /\ s \in Session /\ Shaped(s)  BY DEF RelayInv, Good
<1>2. "remote_recv" \in s.io /\ s.to_server  BY DEF Answering
<1> HIDE DEF s
<1>3. s.to_remote  BY <1>1, <1>2 DEF Shaped, LinkedSession, Session
<1>4. s.has_remote /\ s.stage # "none"
  BY <1>1, <1>3 DEF Shaped, LinkedSession
<1>5. s.stage \notin {"init", "resolve"}  BY <1>1, <1>2, <1>4 DEF Shaped
<1>6. s.stage \in {"none", "init", "resolve", "stream", "stop"}
  BY <1>1 DEF Session
<1> QED  BY <1>1, <1>4, <1>5, <1>6 DEF s

LEMMA RemoteDataStep ==
  ASSUME RelayInv, NEW c \in Conns, RemoteData(c)
  PROVE  RelayInv'
<1> DEFINE s == session[c]
<1>1. PICK k \in 1 .. BufSize :
        LET bytes == Chunk(s.down, k)
            t == [s EXCEPT !.idle = 0, !.down = @ + k, !.sbuf = Filled(@, bytes)]
        IN  \/ Becomes(c, CloseBoth(t))
            \/ Becomes(c, [t EXCEPT !.toClient = @ \o bytes])
            \/ \E n \in 0 .. k - 1 :
                 Becomes(c, [t EXCEPT
                   !.toClient = @ \o SubSeq(bytes, 1, n),
                   !.sbuf = Rest(@, n),
                   !.io = Wait(@, "remote_recv", "server_send")])
  BY DEF RemoteData
<1>2. Answering(c) /\ s.stage # "stop"  BY DEF RemoteData
<1>3. Good(s) /\ s \in Session /\ s.stage = "stream"
  BY <1>2, AnsweringFacts
<1>4. k \in Nat /\ 0 \in 0 .. Timeout  BY RelayAssumption
<1> DEFINE bytes == Chunk(s.down, k)
           b == Filled(s.sbuf, bytes)
           u == s.down + k
           t == [s EXCEPT !.idle = 0, !.down = u, !.sbuf = b]
<1>5. s.down \in Nat /\ s.sbuf \in Buffer /\ s.toClient \in Seq(Nat)
  BY <1>3 DEF Session
<1>6. bytes \in Seq(Nat) /\ Len(bytes) = k  BY <1>4, <1>5, ChunkType
<1>7. b \in Buffer /\ b.len = k  BY <1>5, <1>6, FilledType
<1>8. u \in Nat  BY <1>4, <1>5
<1>9. \/ Becomes(c, CloseBoth(t))
      \/ Becomes(c, [t EXCEPT !.toClient = t.toClient \o bytes])
      \/ \E n \in 0 .. k - 1 :
           Becomes(c, [t EXCEPT
             !.toClient = t.toClient \o SubSeq(bytes, 1, n),
             !.sbuf = Rest(t.sbuf, n),
             !.io = Wait(t.io, "remote_recv", "server_send")])
  BY <1>1
<1> HIDE DEF bytes, b, u
<1>10. t \in Session /\ SameShape(s, t) /\ t.toClient = s.toClient /\ t.sbuf = b
  BY <1>3, <1>4, <1>7, <1>8 DEF Session, SameShape
<1>11. Good(t) /\ t.stage = "stream"
  BY <1>3, <1>10, SameShapeGood DEF SameShape
<1> HIDE DEF t
<1>12. CASE Becomes(c, CloseBoth(t))
  BY <1>11, <1>12, CloseBothGood, BecomesGood
<1>13. CASE Becomes(c, [t EXCEPT !.toClient = t.toClient \o bytes])
  <2> DEFINE q == t.toClient \o bytes
             v == [t EXCEPT !.toClient = q]
  <2>1. q \in Seq(Nat)  BY <1>5, <1>6, <1>10
  <2> HIDE DEF q
  <2>2. v \in Session /\ SameShape(t, v)  BY <1>10, <2>1 DEF Session, SameShape
  <2>3. Good(v)  BY <1>11, <2>2, SameShapeGood
  <2> QED  BY <1>13, <2>3, BecomesGood DEF q
<1>14. CASE \E n \in 0 .. k - 1 :
             Becomes(c, [t EXCEPT
               !.toClient = t.toClient \o SubSeq(bytes, 1, n),
               !.sbuf = Rest(t.sbuf, n),
               !.io = Wait(t.io, "remote_recv", "server_send")])
  <2>1. PICK n \in 0 .. k - 1 :
          Becomes(c, [t EXCEPT
            !.toClient = t.toClient \o SubSeq(bytes, 1, n),
            !.sbuf = Rest(t.sbuf, n),
            !.io = Wait(t.io, "remote_recv", "server_send")])
    BY <1>14
  <2> DEFINE q == t.toClient \o SubSeq(bytes, 1, n)
             r == Rest(t.sbuf, n)
             v == [t EXCEPT !.toClient = q, !.sbuf = r]
             w == Wait(t.io, "remote_recv", "server_send")
  <2>2. n \in 0 .. Len(bytes) /\ n \in 0 .. b.len  BY <1>4, <1>6, <1>7
  <2>3. q \in Seq(Nat)  BY <1>5, <1>6, <1>10, <2>2, PrefixType
  <2>4. r \in Buffer  BY <1>7, <1>10, <2>2, SentType
  <2>5. Becomes(c, [v EXCEPT !.io = w])  BY <2>1
  <2> HIDE DEF q, r, w
  <2>6. v \in Session /\ SameShape(t, v)
    BY <1>10, <2>3, <2>4 DEF Session, SameShape
  <2>7. Good(v) /\ v.stage = "stream" /\ v.io = t.io
    BY <1>11, <2>6, SameShapeGood DEF SameShape
  <2> HIDE DEF v
  <2>8. Good([v EXCEPT !.io = Wait(v.io, "remote_recv", "server_send")])
    BY <2>7, WaitGood
  <2> QED  BY <2>5, <2>7, <2>8, BecomesGood DEF w
<1> QED  BY <1>9, <1>12, <1>13, <1>14

LEMMA IdleGood ==
  ASSUME NEW s, Good(s), NEW i \in 0 .. Timeout
  PROVE  Good([s EXCEPT !.idle = i])
<1> DEFINE t == [s EXCEPT !.idle = i]
<1>1. s \in Session  BY DEF Good
<1>2. t \in Session /\ SameShape(s, t)  BY <1>1 DEF Session, SameShape
<1> QED  BY <1>2, SameShapeGood

LEMMA RemoteRecvCbStep ==
  ASSUME RelayInv, NEW c \in Conns, RemoteRecvCb(c)
  PROVE  RelayInv'
<1>1. 0 \in 0 .. Timeout  BY RelayAssumption
<1>2. CASE RemoteCloses(c)
  BY <1>2, AnsweringFacts, CloseBothGood, BecomesGood DEF RemoteCloses
<1>3. CASE RemoteSilent(c)
  BY <1>1, <1>3, AnsweringFacts, IdleGood, BecomesGood DEF RemoteSilent
<1>4. CASE RemoteIgnored(c)
  BY <1>1, <1>4, AnsweringFacts, IdleGood, BecomesGood DEF RemoteIgnored
<1> QED  BY <1>2, <1>3, <1>4, RemoteDataStep DEF RemoteRecvCb

LEMMA WaitingFacts ==
  ASSUME RelayInv, NEW c \in Conns, Waiting(c)
  PROVE  /\ Good(session[c]) /\ session[c] \in Session
         /\ session[c].stage \in {"stream", "stop"}
<1> DEFINE s == session[c]
<1>1. Good(s) /\ s \in Session /\ Shaped(s)  BY DEF RelayInv, Good
<1>2. "server_send" \in s.io  BY DEF Waiting
<1> HIDE DEF s
<1>3. s.stage \notin {"none", "init", "resolve"}
  BY <1>1, <1>2 DEF Shaped, LinkedSession
<1>4. s.stage \in {"none", "init", "resolve", "stream", "stop"}
  BY <1>1 DEF Session
<1> QED  BY <1>1, <1>3, <1>4 DEF s

LEMMA AnsweredGood ==
  ASSUME NEW t, Good(t), t.stage \in {"stream", "stop"}, t.to_remote,
         "server_send" \in t.io
  PROVE  Good(Answered(t))
<1> DEFINE e == [t.sbuf EXCEPT !.len = 0, !.idx = 0]
           w == (t.io \ {"server_send"}) \cup {"remote_recv"}
           v == [t EXCEPT !.sbuf = e, !.io = w]
<1>1. t \in Session /\ Shaped(t)  BY DEF Good
<1>2. e \in Buffer  BY <1>1 DEF Session, Buffer
<1>3. w \subseteq Watchers  BY <1>1 DEF Session, Watchers
<1>4. Answered(t) = v
  <2>1. [t EXCEPT !.sbuf.len = 0, !.sbuf.idx = 0] = [t EXCEPT !.sbuf = e]
    BY <1>1 DEF Session
  <2> QED  BY <2>1 DEF Answered
<1> HIDE DEF e
<1>5. /\ ("server_recv" \in w) = ("server_recv" \in t.io)
      /\ ("remote_send" \in w) = ("remote_send" \in t.io)
      /\ "remote_recv" \in w /\ "server_send" \notin w
  OBVIOUS
<1> HIDE DEF w
<1>6. /\ v \in Session
      /\ v.stage = t.stage /\ v.was = t.was /\ v.io = w
      /\ v.has_remote = t.has_remote /\ v.to_remote = t.to_remote
      /\ v.to_server = t.to_server /\ v.has_query = t.has_query
      /\ v.to_query = t.to_query /\ v.asked_by = t.asked_by
      /\ v.connected = t.connected
  BY <1>1, <1>2, <1>3 DEF Session
<1> HIDE DEF v
<1>7. LinkedSession(v)  BY <1>1, <1>6 DEF Shaped, LinkedSession
<1>8. v.has_remote /\ ~v.to_server => v.stage = "none" /\ v.was = "stop"
  BY <1>1, <1>6 DEF Shaped
<1>9. v.stage = "stream" =>
        /\ v.to_remote /\ v.connected
        /\ ("server_recv" \in v.io) = ("remote_send" \notin v.io)
        /\ ("remote_recv" \in v.io) = ("server_send" \notin v.io)
  BY <1>1, <1>5, <1>6 DEF Shaped
<1>10. v.stage = "stop" => "server_recv" \in v.io /\ "remote_send" \notin v.io
  BY <1>1, <1>5, <1>6 DEF Shaped
<1>11. Shaped(v)  BY <1>6, <1>7, <1>8, <1>9, <1>10 DEF Shaped
<1> QED  BY <1>4, <1>6, <1>11 DEF Good

LEMMA ServerSendCbStep ==
  ASSUME RelayInv, NEW c \in Conns, ServerSendCb(c)
  PROVE  RelayInv'
<1>1. CASE ServerSendFails(c)
  BY <1>1, WaitingFacts, CloseBothGood, BecomesGood DEF ServerSendFails
<1>2. CASE ServerSend(c)
  <2> DEFINE s == session[c]
             T(n) == [s EXCEPT !.toClient = @ \o SubSeq(Unsent(s.sbuf), 1, n),
                               !.sbuf = Sent(@, n)]
  <2>1. PICK n \in 0 .. s.sbuf.len :
          Becomes(c, IF ~s.to_remote THEN CloseServer(s)
                     ELSE IF s.sbuf.len = 0 THEN CloseBoth(s)
                     ELSE IF n < s.sbuf.len THEN T(n)
                     ELSE Answered(T(n)))
    BY <1>2 DEF ServerSend
  <2>2. Good(s) /\ s \in Session /\ s.stage \in {"stream", "stop"}
    BY <1>2, WaitingFacts DEF ServerSend
  <2>3. "server_send" \in s.io  BY <1>2 DEF ServerSend, Waiting
  <2> DEFINE q == s.toClient \o SubSeq(Unsent(s.sbuf), 1, n)
             b == Sent(s.sbuf, n)
             t == T(n)
  <2>4. s.sbuf \in Buffer /\ s.toClient \in Seq(Nat)  BY <2>2 DEF Session
  <2>5. q \in Seq(Nat)  BY <2>4, UnsentType, PrefixType
  <2>6. b \in Buffer  BY <2>4, SentType
  <2>7. t = [s EXCEPT !.toClient = q, !.sbuf = b]  OBVIOUS
  <2> HIDE DEF q, b, T
  <2>8. t \in Session /\ SameShape(s, t)
    BY ZenonT(40), <2>2, <2>5, <2>6, <2>7 DEF Session, SameShape
  <2> HIDE DEF s
  <2>9. Good(t)  BY <2>2, <2>8, SameShapeGood
  <2>10. CASE ~s.to_remote
    BY <2>1, <2>2, <2>10, CloseServerGood, BecomesGood DEF s
  <2>11. CASE s.to_remote /\ s.sbuf.len = 0
    BY <2>1, <2>2, <2>11, CloseBothGood, BecomesGood DEF s
  <2>12. CASE s.to_remote /\ s.sbuf.len # 0 /\ n < s.sbuf.len
    BY <2>1, <2>9, <2>12, BecomesGood DEF s
  <2>13. CASE s.to_remote /\ s.sbuf.len # 0 /\ ~(n < s.sbuf.len)
    <3>1. Good(Answered(t))
      BY <2>2, <2>3, <2>8, <2>9, <2>13, AnsweredGood DEF SameShape
    <3> QED  BY <2>1, <2>13, <3>1, BecomesGood DEF s
  <2> QED  BY <2>10, <2>11, <2>12, <2>13
<1> QED  BY <1>1, <1>2 DEF ServerSendCb

LEMMA TimesOutStep ==
  ASSUME RelayInv, NEW c \in Conns, TimesOut(c)
  PROVE  RelayInv'
BY CloseBothGood, BecomesGood DEF TimesOut, RelayInv

LEMMA TickStep ==
  ASSUME RelayInv, Tick
  PROVE  RelayInv'
<1>1. ASSUME NEW c \in Conns
      PROVE  Good(session'[c])
  <2>1. Good(session[c]) /\ session[c].idle < Timeout /\ session[c] \in Session
    BY DEF Tick, RelayInv, Good
  <2> DEFINE i == session[c].idle + 1
  <2>2. session[c].idle \in 0 .. Timeout  BY <2>1 DEF Session
  <2>3. i \in 0 .. Timeout  BY <2>1, <2>2, RelayAssumption
  <2>4. session'[c] = IF session[c].stage = "none" THEN session[c]
                      ELSE [session[c] EXCEPT !.idle = i]
    BY DEF Tick
  <2> HIDE DEF i
  <2> QED  BY <2>1, <2>3, <2>4, IdleGood
<1>2. session' = [c \in Conns |-> session'[c]]  BY DEF Tick
<1>3. session' \in [Conns -> Session]  BY <1>1, <1>2 DEF Good
<1>4. fast_open' \in BOOLEAN  BY DEF Tick, RelayInv, RelayTypeOK
<1> QED  BY <1>1, <1>3, <1>4 DEF RelayInv, RelayTypeOK

LEMMA ServerRecvCbStep ==
  ASSUME RelayInv, NEW c \in Conns, ServerRecvCb(c)
  PROVE  RelayInv'
BY ClientClosesStep, ClientSilentStep, ClientIgnoredStep, ClientGarbageStep,
   ClientFragmentStep, ClientDataStep, RequestRefusedStep, RequestDeniedStep,
   RequestDirectStep, RequestNamedStep DEF ServerRecvCb

LEMMA RelayStep ==
  ASSUME RelayInv, RelayNext
  PROVE  RelayInv'
<1>1. ASSUME NEW c \in Conns, Callback(c)
      PROVE  RelayInv'
  BY <1>1, AcceptStep, ServerRecvCbStep, ServerSendCbStep, RemoteSendCbStep,
     RemoteRecvCbStep, OrphanClosesStep, ResolvCbStep, TimesOutStep
  DEF Callback
<1> QED  BY <1>1, TickStep DEF RelayNext
-----------------------------------------------------------------------------
\* main

LEMMA FreeConnectionGood ==
  ASSUME NEW s, Good(s), s.stage # "none"
  PROVE  Good(FreeConnection(s)) /\ Remains(FreeConnection(s))
<1>1. CASE ~s.to_remote
  BY <1>1, CloseServerGood DEF FreeConnection
<1>2. CASE s.to_remote
  <2> DEFINE t == CloseServer(s)
             r == CloseRemote(t)
  <2>1. s \in Session /\ Shaped(s)  BY DEF Good
  <2>2. t \in Session  BY <2>1, CloseServerType
  <2>3. r \in Session  BY <2>2, CloseRemoteType
  <2>4. s.asked_by = s.to_query /\ s.asked_by \in BOOLEAN
    BY <2>1 DEF Session, Shaped, LinkedSession
  <2>5. /\ t.stage = "none" /\ t.to_remote = FALSE
        /\ t.io = s.io \ {"server_send", "server_recv"}
        /\ t.to_query = FALSE /\ t.asked_by = FALSE
    BY <2>1, <2>4, CloseServerFields
  <2> HIDE DEF t
  <2>6. /\ r.stage = "none" /\ r.has_remote = FALSE
        /\ r.io = t.io \ {"remote_send", "remote_recv"}
        /\ r.to_remote = FALSE /\ r.to_server = FALSE
        /\ r.to_query = FALSE /\ r.asked_by = FALSE
    BY <2>2, <2>5, CloseRemoteFields
  <2> HIDE DEF r
  <2>7. Remains(r)  BY <2>5, <2>6 DEF Remains
  <2> QED  BY <1>2, <2>3, <2>7, RemainsShaped DEF Good, FreeConnection, t, r
<1> QED  BY <1>1, <1>2

\* What main has set up by where it is, and what it has left at the exit.
MainInv ==
  /\ phase = "options" => next = 1 /\ fds = {}
  /\ phase \in {"options", "listen"} => fds \subseteq 1 .. (next - 1)
  /\ phase # "exit" => listening \subseteq fds
  /\ opts.mode = "udp_only" => phase # "listen" /\ fds = {}
  /\ opts.plugin /\ 1 \in listening => fds \subseteq {1}
  /\ phase \in {"udp", "loop", "cleanup"} /\ opts.mode # "udp_only" =>
       listening # {}
  /\ phase \in {"loop", "cleanup"} /\ opts.mode # "tcp_only" => udp > 0
  /\ phase = "exit" =>
       /\ wild = {} => fds = {}
       /\ \A c \in Conns : session[c].stage = "none"

\* The inductive invariant
IInv == TypeOK /\ RelayInv /\ MainInv

LEMMA InitIInv == Init => IInv
<1> SUFFICES ASSUME Init PROVE IInv
  OBVIOUS
<1>1. RelayInv
  <2>1. \A c \in Conns : Good(session[c])
    BY FreshGood DEF Init, RelayInit
  <2> QED  BY <2>1, FreshGood DEF Init, RelayInit, RelayInv, RelayTypeOK, Good
<1>2. TypeOK  BY <1>1 DEF RelayInv, TypeOK, Init, Modes
<1>3. MainInv  BY DEF Init, MainInv
<1> QED  BY <1>1, <1>2, <1>3 DEF IInv

LEMMA RelayUnchanged ==
  ASSUME RelayInv, session' = session, fast_open' \in BOOLEAN
  PROVE  RelayInv' /\ RelayTypeOK'
BY DEF RelayInv, RelayTypeOK

LEMMA ConfigureStep ==
  ASSUME IInv, Configure
  PROVE  IInv'
<1>1. PICK cli \in CommandLines, conf \in ConfFiles :
        LET o == IF cli.conf THEN Merged(cli, conf) ELSE cli
        IN  /\ opts' = [servers |-> IF o.servers = 0 THEN 1 ELSE o.servers,
                        mode |-> o.mode, plugin |-> o.plugin]
            /\ fast_open' = o.fast_open
            /\ phase' = IF cli.unknown \/ ~o.port \/ ~o.secret THEN "failed"
                        ELSE IF o.mode = "udp_only" THEN "udp" ELSE "listen"
  BY DEF Configure
<1> DEFINE o == IF cli.conf THEN Merged(cli, conf) ELSE cli
<1>2. cli \in CommandLine /\ conf \in Options  BY ServerAssumption
<1>3. /\ o.servers \in Nat /\ o.mode \in Modes
      /\ o.plugin \in BOOLEAN /\ o.fast_open \in BOOLEAN
  <2>1. CASE cli.conf  BY <1>2, <2>1 DEF Merged, CommandLine, Options, Modes
  <2>2. CASE ~cli.conf  BY <1>2, <2>2 DEF CommandLine
  <2> QED  BY <2>1, <2>2
<1>4. /\ opts' = [servers |-> IF o.servers = 0 THEN 1 ELSE o.servers,
                  mode |-> o.mode, plugin |-> o.plugin]
      /\ fast_open' = o.fast_open
      /\ phase' \in {"failed", "udp", "listen"}
      /\ phase' = "listen" => o.mode # "udp_only"
      /\ phase' = "udp" => o.mode = "udp_only"
  BY <1>1
<1> HIDE DEF o
<1>5. /\ phase = "options" /\ session' = session /\ next' = next
      /\ listening' = listening /\ fds' = fds /\ udp' = udp /\ wild' = wild
      /\ ret_val' = ret_val
  BY DEF Configure
<1>6. next = 1 /\ fds = {} /\ listening = {}
  BY <1>5 DEF IInv, MainInv
<1>7. RelayInv' /\ RelayTypeOK'  BY <1>3, <1>4, <1>5, RelayUnchanged DEF IInv
<1>8. TypeOK'  BY <1>3, <1>4, <1>5, <1>6, <1>7 DEF IInv, TypeOK
<1>9. MainInv'  BY <1>3, <1>4, <1>5, <1>6 DEF MainInv
<1> QED  BY <1>7, <1>8, <1>9 DEF IInv

LEMMA ListenSteps ==
  ASSUME IInv, Listen \/ ListenFails \/ ListenDone
  PROVE  IInv'
<1>1. RelayInv' /\ RelayTypeOK'
  <2>1. session' = session /\ fast_open' \in BOOLEAN
    BY DEF Listen, ListenFails, ListenDone, relayVars, IInv, TypeOK, RelayTypeOK
  <2> QED  BY <2>1, RelayUnchanged DEF IInv
<1>2. CASE Listen
  <2>1. TypeOK'
    BY <1>1, <1>2 DEF IInv, TypeOK, Listen, Listening
  <2>2. MainInv'
    BY <1>2 DEF IInv, TypeOK, MainInv, Listen, Listening
  <2> QED  BY <1>1, <2>1, <2>2 DEF IInv
<1>3. CASE ListenFails
  <2>1. TypeOK'
    BY <1>1, <1>3 DEF IInv, TypeOK, ListenFails, Listening
  <2>2. MainInv'
    BY <1>3 DEF IInv, TypeOK, MainInv, ListenFails, Listening, relayVars
  <2> QED  BY <1>1, <2>1, <2>2 DEF IInv
<1>4. CASE ListenDone
  <2>1. TypeOK'
    BY <1>1, <1>4 DEF IInv, TypeOK, ListenDone, AfterListen
  <2>2. MainInv'
    BY <1>4 DEF IInv, TypeOK, MainInv, ListenDone, AfterListen, relayVars, Modes
  <2> QED  BY <1>1, <2>1, <2>2 DEF IInv
<1> QED  BY <1>2, <1>3, <1>4

\* The steps that change neither the relay nor what main listens on
LEMMA PhaseSteps ==
  ASSUME IInv,
         \/ StartFails \/ BindFails \/ InitUdp \/ Signal \/ PluginDies \/ Stay
  PROVE  IInv'
<1>1. /\ session' = session /\ fast_open' = fast_open /\ opts' = opts
      /\ listening' = listening /\ fds' = fds /\ wild' = wild
  BY DEF StartFails, BindFails, InitUdp, Signal, PluginDies, Stay, vars,
         relayVars, mainVars
<1>2. RelayInv' /\ RelayTypeOK'
  BY <1>1, RelayUnchanged DEF IInv, TypeOK, RelayTypeOK
<1>3. next' \in Nat \ {0} /\ udp' \in Nat /\ ret_val' \in {0, -1}
  BY DEF IInv, TypeOK, StartFails, BindFails, InitUdp, Signal, PluginDies, Stay,
         vars, mainVars
<1> DEFINE Moves ==
             /\ phase' \in {"options", "listen", "udp", "loop", "cleanup",
                            "exit", "failed"}
             /\ phase' \in {"options", "listen", "exit"} =>
                  phase' = phase /\ next' = next
             /\ phase' \in {"udp", "loop", "cleanup"} =>
                  phase \in {"udp", "loop", "cleanup"}
             /\ phase = "exit" => phase' = "exit"
             /\ phase' \in {"loop", "cleanup"} =>
                  udp' > 0 \/ (phase \in {"loop", "cleanup"} /\ udp' = udp)
<1>4. Moves
  <2>1. CASE StartFails \/ BindFails
    BY <2>1 DEF StartFails, BindFails, Listening
  <2>2. CASE InitUdp
    <3>1. /\ phase = "udp" /\ udp' \in 0 .. opts.servers
          /\ phase' = "failed" \/ (phase' = "loop" /\ udp' # 0)
          /\ opts.servers \in Nat
      BY <2>2 DEF InitUdp, IInv, TypeOK
    <3> QED  BY <3>1
  <2>3. CASE Signal \/ PluginDies
    BY <2>3 DEF Signal, PluginDies
  <2>4. CASE Stay
    BY <2>4 DEF Stay, Ended, vars, mainVars
  <2> QED  BY <2>1, <2>2, <2>3, <2>4
<1>5. TypeOK'  BY <1>1, <1>2, <1>3, <1>4 DEF IInv, TypeOK
<1>6. MainInv'  BY <1>1, <1>4 DEF IInv, MainInv
<1> QED  BY <1>2, <1>5, <1>6 DEF IInv

LEMMA ServeStep ==
  ASSUME IInv, Serve
  PROVE  IInv'
<1>1. RelayInv'  BY RelayStep DEF IInv, Serve
<1>2. phase = "loop" /\ UNCHANGED mainVars  BY DEF Serve
<1>3. TypeOK'  BY <1>1, <1>2 DEF IInv, TypeOK, RelayInv, mainVars
<1>4. MainInv'  BY <1>2 DEF IInv, MainInv, mainVars
<1> QED  BY <1>1, <1>3, <1>4 DEF IInv

\* FATAL in connect_to_remote: nothing is left of any connection.
LEMMA ConnectFatalStep ==
  ASSUME IInv, ConnectFatal
  PROVE  IInv'
<1>1. \A c \in Conns : session'[c] = Fresh  BY DEF ConnectFatal
<1>2. session' = [c \in Conns |-> session'[c]]  BY DEF ConnectFatal
<1>3. RelayInv' /\ RelayTypeOK'
  BY <1>1, <1>2, FreshGood
  DEF RelayInv, RelayTypeOK, Good, IInv, TypeOK, ConnectFatal
<1>4. TypeOK'  BY <1>3 DEF IInv, TypeOK, ConnectFatal
<1>5. MainInv'  BY DEF IInv, MainInv, ConnectFatal
<1> QED  BY <1>3, <1>4, <1>5 DEF IInv

LEMMA CleanUpStep ==
  ASSUME IInv, CleanUp
  PROVE  IInv'
<1>1. ASSUME NEW c \in Conns
      PROVE  Good(session'[c]) /\ session'[c].stage = "none"
  <2>1. Good(session[c])  BY DEF IInv, RelayInv
  <2>2. session'[c] = IF session[c].stage = "none" THEN session[c]
                      ELSE Settled(FreeConnection(session[c]))
    BY DEF CleanUp
  <2>3. CASE session[c].stage = "none"  BY <2>1, <2>2, <2>3
  <2>4. CASE session[c].stage # "none"
    <3> DEFINE t == FreeConnection(session[c])
    <3>1. Good(t) /\ Remains(t)  BY <2>1, <2>4, FreeConnectionGood
    <3> HIDE DEF t
    <3>2. Good(Fresh) /\ Fresh.stage = "none"  BY FreshGood DEF Fresh
    <3> QED  BY <2>2, <2>4, <3>1, <3>2 DEF Settled, Remains, t
  <2> QED  BY <2>3, <2>4
<1>2. session' = [c \in Conns |-> session'[c]]  BY DEF CleanUp
<1>3. session' \in [Conns -> Session]  BY <1>1, <1>2 DEF Good
<1>4. RelayInv' /\ RelayTypeOK'
  BY <1>1, <1>3 DEF RelayInv, RelayTypeOK, IInv, CleanUp
<1>5. wild' = {} => fds' = {}
  BY DEF CleanUp, Released, IInv, TypeOK, MainInv
<1>6. TypeOK'
  <2>1. opts.servers \in Nat  BY DEF IInv, TypeOK
  <2>2. Released \subseteq Nat  BY <2>1 DEF Released
  <2>3. wild' \subseteq Nat  BY <2>2 DEF CleanUp
  <2>4. fds' \subseteq 1 .. opts.servers  BY DEF CleanUp, IInv, TypeOK
  <2> QED  BY <1>4, <2>3, <2>4 DEF CleanUp, IInv, TypeOK
<1>7. MainInv'
  BY <1>1, <1>5 DEF CleanUp, IInv, TypeOK, MainInv
<1> QED  BY <1>4, <1>6, <1>7 DEF IInv

LEMMA NextIInv == IInv /\ [Next]_vars => IInv'
<1> SUFFICES ASSUME IInv, [Next]_vars
             PROVE  IInv'
  OBVIOUS
<1>1. CASE UNCHANGED vars
  BY <1>1 DEF vars, relayVars, mainVars, IInv, TypeOK, RelayTypeOK, RelayInv,
              MainInv
<1>2. CASE Next
  BY <1>2, ConfigureStep, ListenSteps, PhaseSteps, ServeStep, CleanUpStep,
     ConnectFatalStep
  DEF Next
<1> QED  BY <1>1, <1>2

LEMMA SpecIInv == Spec => []IInv
BY InitIInv, NextIInv, PTL DEF Spec
-----------------------------------------------------------------------------
\* What a step may make of a server that was stopped
Ends(s, t) ==
  t.stage = "none" \/ (t.stage = "stop" /\ t.toRemote = s.toRemote)

LEMMA CloseBothEnds ==
  ASSUME NEW s \in Session
  PROVE  CloseBoth(s).stage = "none"
BY CloseRemoteType, CloseServerFields DEF CloseBoth

LEMMA BecomesEnds ==
  ASSUME RelayInv, NEW c \in Conns, NEW t, Becomes(c, t), Ends(session[c], t)
  PROVE  Ends(session[c], session'[c])
<1>1. session'[c] = Settled(t)  BY DEF Becomes, RelayInv, RelayTypeOK
<1>2. Fresh.stage = "none"  BY DEF Fresh
<1> QED  BY <1>1, <1>2 DEF Settled, Ends

LEMMA StoppedIdle ==
  ASSUME NEW s \in Session, NEW i, s.stage = "stop"
  PROVE  Ends(s, [s EXCEPT !.idle = i])
BY DEF Ends, Session

LEMMA StoppedServerRecv ==
  ASSUME RelayInv, NEW c \in Conns, session[c].stage = "stop", ServerRecvCb(c)
  PROVE  Ends(session[c], session'[c])
<1> DEFINE s == session[c]
<1>1. s \in Session /\ s.stage = "stop"  BY DEF RelayInv, RelayTypeOK
<1>2. CASE ClientCloses(c)
  <2>1. Becomes(c, CloseServer(s))  BY <1>1, <1>2 DEF ClientCloses, HungUp
  <2>2. Ends(s, CloseServer(s))  BY <1>1, CloseServerFields DEF Ends
  <2> QED  BY <2>1, <2>2, BecomesEnds
<1>3. CASE ClientSilent(c)
  <2>1. Becomes(c, s)  BY <1>1, <1>3 DEF ClientSilent, Renewed
  <2> QED  BY <1>1, <2>1, BecomesEnds DEF Ends
<1>4. CASE ClientIgnored(c)
  <2> DEFINE D(k) == [i \in DOMAIN s.sbuf.data |->
                        IF i <= k THEN 0 ELSE s.sbuf.data[i]]
             t(k) == [s EXCEPT !.sbuf.data = D(k)]
  <2>1. PICK k \in 1 .. BufSize : Becomes(c, t(k))  BY <1>4 DEF ClientIgnored
  <2> HIDE DEF D
  <2>2. Ends(s, t(k))  BY <1>1 DEF Ends, Session
  <2> QED  BY <2>1, <2>2, BecomesEnds
<1> QED
  BY <1>1, <1>2, <1>3, <1>4
  DEF ServerRecvCb, ClientGarbage, ClientFragment, ClientData, RequestRefused,
      RequestDenied, RequestDirect, RequestNamed, Requesting

LEMMA StoppedServerSend ==
  ASSUME RelayInv, NEW c \in Conns, session[c].stage = "stop", ServerSendCb(c)
  PROVE  Ends(session[c], session'[c])
<1> DEFINE s == session[c]
<1>1. s \in Session /\ s.stage = "stop"  BY DEF RelayInv, RelayTypeOK
<1>2. Ends(s, CloseBoth(s)) /\ Ends(s, CloseServer(s))
  BY <1>1, CloseBothEnds, CloseServerFields DEF Ends
<1>3. CASE ServerSendFails(c)  BY <1>2, <1>3, BecomesEnds DEF ServerSendFails
<1>4. CASE ServerSend(c)
  <2> DEFINE q(n) == s.toClient \o SubSeq(Unsent(s.sbuf), 1, n)
             t(n) == [s EXCEPT !.toClient = q(n), !.sbuf = Sent(s.sbuf, n)]
  <2>1. PICK n \in 0 .. s.sbuf.len :
          Becomes(c, IF ~s.to_remote THEN CloseServer(s)
                     ELSE IF s.sbuf.len = 0 THEN CloseBoth(s)
                     ELSE IF n < s.sbuf.len THEN t(n)
                     ELSE Answered(t(n)))
    BY <1>4 DEF ServerSend
  <2> HIDE DEF q
  <2>2. Ends(s, t(n))  BY <1>1 DEF Ends, Session
  <2>3. Ends(s, Answered(t(n)))  BY <1>1 DEF Ends, Answered, Session
  <2> HIDE DEF t, s
  <2> QED  BY <1>2, <2>1, <2>2, <2>3, BecomesEnds DEF s
<1> QED  BY <1>3, <1>4 DEF ServerSendCb

LEMMA StoppedCallback ==
  ASSUME RelayInv, NEW c \in Conns, session[c].stage = "stop", Callback(c)
  PROVE  Ends(session[c], session'[c])
<1> DEFINE s == session[c]
<1>1. Good(s) /\ s \in Session /\ s.stage = "stop"  BY DEF RelayInv, Good
<1>2. Ends(s, CloseBoth(s))  BY <1>1, CloseBothEnds DEF Ends
<1>3. ~Accept(c)  BY <1>1 DEF Accept, Fresh
<1>4. ~RemoteSendCb(c)
  BY <1>1, WritableFacts DEF RemoteSendCb, RemoteSendFails, ConnectedEmpty,
                             RemoteSend
<1>5. ~OrphanCloses(c)
  BY <1>1 DEF OrphanCloses, Good, Shaped, LinkedSession
<1>6. CASE RemoteRecvCb(c)
  <2>1. CASE RemoteCloses(c)  BY <1>2, <2>1, BecomesEnds DEF RemoteCloses
  <2>2. CASE RemoteSilent(c) \/ RemoteIgnored(c)
    BY <1>1, <2>2, StoppedIdle, BecomesEnds DEF RemoteSilent, RemoteIgnored
  <2>3. ~RemoteData(c)  BY <1>1 DEF RemoteData
  <2> QED  BY <1>6, <2>1, <2>2, <2>3 DEF RemoteRecvCb
<1>7. CASE ResolvCb(c)
  <2>1. ~ResolveFails(c) /\ ~Resolved(c)  BY <1>1 DEF ResolveFails, Resolved,
                                                       Resolving
  <2> DEFINE a == s.to_query /\ ~s.asked_by
             t == [s EXCEPT !.has_query = FALSE, !.asked_by = FALSE,
                            !.to_query = a]
  <2>2. Becomes(c, t)  BY <1>7, <2>1 DEF ResolvCb, QueryFreed
  <2> HIDE DEF a
  <2>3. Ends(s, t)  BY <1>1 DEF Ends, Session
  <2> QED  BY <2>2, <2>3, BecomesEnds
<1>8. CASE TimesOut(c)  BY <1>2, <1>8, BecomesEnds DEF TimesOut
<1> QED  BY <1>1, <1>3, <1>4, <1>5, <1>6, <1>7, <1>8, StoppedServerRecv,
            StoppedServerSend DEF Callback

\* A step of the relay leaves every connection but its own alone.
LEMMA OneConnection ==
  ASSUME RelayInv, NEW c \in Conns, Callback(c), NEW d \in Conns, d # c
  PROVE  session'[d] = session[d]
<1>1. (\E t : Becomes(c, t)) \/ (\E s : Connects(c, s) \/ ConnectFails(c, s))
  BY DEF Callback, Accept, ServerRecvCb, ServerSendCb, RemoteSendCb,
     RemoteRecvCb, OrphanCloses, ResolvCb, TimesOut, ClientCloses, ClientSilent,
     ClientIgnored, ClientGarbage, ClientFragment, ClientData, RequestRefused,
     RequestDenied, RequestDirect, RequestNamed, ResolveFails, Resolved,
     QueryFreed, RemoteSendFails, ConnectedEmpty, RemoteSend, RemoteCloses,
     RemoteSilent, RemoteIgnored, RemoteData, ServerSendFails, ServerSend
<1>2. session \in [Conns -> Session]  BY DEF RelayInv, RelayTypeOK
<1> QED  BY <1>1, <1>2 DEF Becomes, Connects, ConnectFails

LEMMA StoppedStep ==
  ASSUME IInv, [Next]_vars, NEW c \in Conns, session[c].stage = "stop"
  PROVE  Ends(session[c], session'[c])
<1>1. session[c] \in Session  BY DEF IInv, RelayInv, RelayTypeOK
<1>2. CASE session' = session  BY <1>2 DEF Ends
<1>3. CASE Serve
  <2>1. CASE Tick
    <3>1. session'[c] = [session[c] EXCEPT !.idle = @ + 1]  BY <2>1 DEF Tick
    <3> QED  BY <1>1, <3>1, StoppedIdle
  <2>2. CASE \E d \in Conns : Callback(d)
    BY <2>2, StoppedCallback, OneConnection DEF Ends, IInv
  <2> QED  BY <1>3, <2>1, <2>2 DEF Serve, RelayNext
<1>4. CASE CleanUp
  <2>1. session'[c] = Settled(FreeConnection(session[c]))  BY <1>4 DEF CleanUp
  <2>2. Remains(FreeConnection(session[c]))
    BY FreeConnectionGood DEF IInv, RelayInv
  <2>3. Fresh.stage = "none"  BY DEF Fresh
  <2> QED  BY <2>1, <2>2, <2>3 DEF Settled, Remains, Ends
<1>5. CASE ConnectFatal  BY <1>5 DEF ConnectFatal, Fresh, Ends
<1> QED
  BY <1>2, <1>3, <1>4, <1>5
  DEF Next, Configure, StartFails, Listen, ListenFails, BindFails, ListenDone,
      InitUdp, Signal, PluginDies, Stay, vars, relayVars
-----------------------------------------------------------------------------
\* Every variable keeps its type, and no timer runs past its time.
THEOREM TypeCorrect == Spec => []TypeOK
<1>1. IInv => TypeOK  BY DEF IInv
<1> QED  BY <1>1, SpecIInv, PTL

\* However a connection ends, at whichever end and in whichever callback: no
\* watcher and no pointer leads to what has been freed.
THEOREM NothingDanglesCorrect == Spec => []NothingDangles
<1>1. IInv => NothingDangles
  BY DEF IInv, RelayInv, Good, Shaped, NothingDangles
<1> QED  BY <1>1, SpecIInv, PTL

\* server_recv_cb never reaches its FATAL, and finds its remote in a stream.
THEOREM ContextSoundCorrect == Spec => []ContextSound
<1>1. IInv => ContextSound
  BY ReadableFacts DEF IInv, ContextSound
<1> QED  BY <1>1, SpecIInv, PTL

\* Each direction of a stream has one end to wait for, never both or none.
THEOREM TakeTurnsCorrect == Spec => []TakeTurns
<1>1. IInv => TakeTurns
  BY DEF IInv, RelayInv, Good, Shaped, TakeTurns
<1> QED  BY <1>1, SpecIInv, PTL

\* A remote is left without its server only when that had been stopped.
THEOREM OrphansCorrect == Spec => []OnlyStoppedOrphans
<1>1. IInv => OnlyStoppedOrphans
  BY DEF IInv, RelayInv, Good, Shaped, OnlyStoppedOrphans
<1> QED  BY <1>1, SpecIInv, PTL

\* No callback brings a stopped server back or sends more of the client's data.
THEOREM StopIsFinalCorrect == Spec => StopIsFinal
<1>1. IInv /\ [Next]_vars =>
        [\A c \in Conns : session[c].stage = "stop" =>
           \/ session'[c].stage = "none"
           \/ /\ session'[c].stage = "stop"
              /\ session'[c].toRemote = session[c].toRemote]_relayVars
  BY StoppedStep DEF Ends
<1> QED  BY <1>1, SpecIInv, PTL DEF Spec, StopIsFinal

\* The loop is entered only with what was asked for to listen on.
THEOREM ServesCorrect == Spec => []ServesWhatWasAsked
<1>1. IInv => ServesWhatWasAsked
  BY DEF IInv, MainInv, ServesWhatWasAsked
<1> QED  BY <1>1, SpecIInv, PTL

\* What main releases at its end, in the order of free_connections, leaves no
\* client, watcher, or pointer, nor a listener unless one failed to start.
THEOREM CleanExitCorrect == Spec => []CleanExit
<1>1. IInv => CleanExit
  BY DEF IInv, MainInv, RelayInv, Good, Shaped, LinkedSession, Session, CleanExit
<1> QED  BY <1>1, SpecIInv, PTL
=============================================================================
