---------------------------- MODULE ShadowRelay ----------------------------
(***************************************************************************)
(* The connections of shadowsocks_server.c: a client's TCP connection      *)
(* (server_t), the one made on its behalf (remote_t), and the name query   *)
(* in between (query_t), from accept_cb to the last free.                  *)
(*                                                                         *)
(* An action is one callback, which libev runs to its end when the watcher *)
(* it belongs to is active; what the kernel answers in it (end of file,    *)
(* EAGAIN, an error, a part of the data) is chosen freely, and so is what  *)
(* the bytes of the client decrypt to.  The payload of each direction is   *)
(* the sequence 1, 2, 3, ..., which shows what is lost, doubled, overtaken *)
(* or overwritten (0).  The ciphertext of a payload byte is one byte.      *)
(*                                                                         *)
(* Left out: logging and the counters that are only logged or reported,    *)
(* socket options, the marks of conntrack, and the code for Windows.       *)
(***************************************************************************)
EXTENDS Integers, Sequences, FiniteSets

CONSTANTS
  Conns,        \* the connections there may be at a time
  BufSize,      \* SOCKET_BUF_SIZE: what one recv returns at most
  MAX_FRAG,     \* tolerated fragments of a request, 1
  In4Len,       \* sizeof(struct in_addr), 4
  In6Len,       \* sizeof(struct in6_addr), 16
  Requests,     \* the requests clients make
  Timeout,      \* ticks of the timer of a server_t
  MaxBytes      \* bound: payload in each direction of each connection

\* A decrypted request: the type in its first byte, the length of what was
\* read, the length of the name, and what the name turns out to be.
Request ==
  [atyp : 0 .. 15, len : Nat, name_len : 0 .. 255,
   name : {"address", "hostname", "invalid"}, blocked : BOOLEAN]

ASSUME RelayAssumption ==
  /\ BufSize \in Nat \ {0} /\ MAX_FRAG \in Nat
  /\ In4Len \in Nat /\ In6Len \in Nat
  /\ Requests \subseteq Request
  /\ Timeout \in Nat \ {0} /\ MaxBytes \in [Conns -> Nat]

VARIABLES
  session,    \* for each connection, what is allocated for it
  fast_open

relayVars == <<session, fast_open>>

\* The four ev_io watchers of a connection
Watchers == {"server_recv", "server_send", "remote_recv", "remote_send"}

\* buffer_t: the bytes that are still to be sent are the len behind idx.
NoBuf == [data |-> <<>>, idx |-> 0, len |-> 0]
Unsent(buf) ==
  [i \in 1 .. buf.len |->
     IF buf.idx + i \in DOMAIN buf.data THEN buf.data[buf.idx + i] ELSE 0]
Filled(buf, bytes) == [buf EXCEPT !.data = bytes, !.len = Len(bytes)]
Sent(buf, n) == [buf EXCEPT !.idx = @ + n, !.len = @ - n]

Upto(n) == [i \in 1 .. n |-> i]
Chunk(n, k) == [i \in 1 .. k |-> n + i]

\* Nothing is allocated.  stage is "none" when there is no server_t.
Fresh ==
  [stage |-> "none",
   was |-> "none",         \* history: the stage in which server_t was freed
   frag |-> 0,
   idle |-> 0,             \* ticks since its timer was last started
   io |-> {},              \* the active watchers
   sbuf |-> NoBuf,         \* server->buf
   has_remote |-> FALSE,   \* there is a remote_t
   to_remote |-> FALSE,    \* server->remote # NULL
   to_server |-> FALSE,    \* remote->server # NULL
   connected |-> FALSE,    \* remote->send_ctx->connected
   rbuf |-> NoBuf,         \* remote->buf
   has_query |-> FALSE,    \* the resolver holds a query_t
   to_query |-> FALSE,     \* server->query # NULL
   asked_by |-> FALSE,     \* query->server # NULL
   up |-> 0,               \* history: payload received from the client,
   toRemote |-> <<>>,      \* and sent on to the remote;
   down |-> 0,             \* payload received from the remote,
   toClient |-> <<>>]      \* and sent on to the client

RelayInit ==
  /\ session = [c \in Conns |-> Fresh]
  /\ fast_open = FALSE

\* A session nothing is left of makes room for the next one.
Settled(s) ==
  IF s.stage = "none" /\ ~s.has_remote /\ ~s.has_query THEN Fresh ELSE s

Becomes(c, s) ==
  /\ session' = [session EXCEPT ![c] = Settled(s)]
  /\ UNCHANGED fast_open
-----------------------------------------------------------------------------
(* Making and freeing.  A pointer that is passed on is the argument's      *)
(* state at that moment, so the order of the calls is that of the code.    *)

NewServer == [Fresh EXCEPT !.stage = "init"]

\* new_remote, with its buffer
NewRemote(s) ==
  [s EXCEPT !.has_remote = TRUE, !.to_server = FALSE, !.connected = FALSE,
            !.rbuf = NoBuf]

\* free_remote
FreeRemote(s) ==
  [s EXCEPT !.has_remote = FALSE,
            !.to_server = FALSE,
            !.to_remote = @ /\ ~s.to_server,
            !.connected = FALSE,
            !.rbuf = NoBuf]

CloseRemote(s) ==
  FreeRemote([s EXCEPT !.io = @ \ {"remote_send", "remote_recv"}])

\* free_server: the remote loses its server, but lives on.
FreeServer(s) ==
  [s EXCEPT !.stage = "none",
            !.was = s.stage,
            !.frag = 0,
            !.to_remote = FALSE,
            !.to_server = @ /\ ~s.to_remote,
            !.sbuf = NoBuf]

\* Mutant: the query keeps its pointer to the server.
CloseServer_KeepsQuery(s) ==
  FreeServer([s EXCEPT !.to_query = FALSE,
                       !.io = @ \ {"server_send", "server_recv"},
                       !.idle = 0])

CloseServer(s) ==
  FreeServer([s EXCEPT !.to_query = FALSE,
                       !.asked_by = @ /\ ~s.to_query,
                       !.io = @ \ {"server_send", "server_recv"},
                       !.idle = 0])

\* Mutant: the server first, and the remote is looked up afterwards.
CloseBoth_ServerFirst(s) ==
  LET t == CloseServer(s) IN IF t.to_remote THEN CloseRemote(t) ELSE t

\* close_and_free_remote(remote); close_and_free_server(server)
CloseBoth(s) == CloseServer(IF s.to_remote THEN CloseRemote(s) ELSE s)

\* accept_cb, for a client the access list lets in
Accept(c) ==
  /\ session[c] = Fresh
  /\ Becomes(c, [NewServer EXCEPT !.io = {"server_recv"}])
-----------------------------------------------------------------------------
(* server_recv_cb *)

\* Mutant: any stage renews the timer.
Renewed_Always(s) == [s EXCEPT !.idle = 0]

\* Only a stream renews it.
Renewed(s) == IF s.stage = "stream" THEN [s EXCEPT !.idle = 0] ELSE s

Readable(c) == "server_recv" \in session[c].io

\* recv returned 0 or an error.  Only a stream has looked its remote up.
HungUp(s) == IF s.stage = "stream" THEN CloseBoth(s) ELSE CloseServer(s)

ClientCloses(c) == Readable(c) /\ Becomes(c, HungUp(session[c]))

ClientSilent(c) == Readable(c) /\ Becomes(c, Renewed(session[c]))

\* Data for a server that was stopped are received, where they do not belong:
\* over the data that wait in server->buf for the client.
ClientIgnored(c) ==
  /\ Readable(c)
  /\ session[c].stage = "stop"
  /\ \E k \in 1 .. BufSize :
       Becomes(c, [session[c] EXCEPT !.sbuf.data =
                     [i \in DOMAIN @ |-> IF i <= k THEN 0 ELSE @[i]]])

\* CRYPTO_ERROR
ClientGarbage(c) ==
  /\ Readable(c)
  /\ session[c].stage # "stop"
  /\ Becomes(c, [Renewed(session[c]) EXCEPT !.stage = "stop"])

\* Mutant: one fragment more is let through.
TooFragmented_OneMore(s) == s.frag > MAX_FRAG + 1

TooFragmented(s) == s.frag > MAX_FRAG

\* CRYPTO_NEED_MORE: too many of them before the request is complete stop it.
\* (In a stream this is a ClientSilent.)
ClientFragment(c) ==
  /\ Readable(c)
  /\ session[c].stage = "init"
  /\ Becomes(c, IF TooFragmented(session[c])
                THEN [session[c] EXCEPT !.stage = "stop"]
                ELSE [session[c] EXCEPT !.frag = @ + 1])
-----------------------------------------------------------------------------
(* server_recv_cb, STAGE_STREAM: the data are sent on at once, and what is *)
(* left makes the callbacks take turns.                                    *)

\* Mutant: what was sent stays in front of the rest.
Rest_NoIdx(buf, n) == [buf EXCEPT !.len = @ - n]

\* EAGAIN (n = 0) or a part: the rest waits in the buffer, from idx on.
Rest(buf, n) == [buf EXCEPT !.idx = n, !.len = @ - n]

\* Mutant: the reader is not stopped while data wait.
Wait_KeepsReading(io, reader, writer) == io \cup {writer}
Wait(io, reader, writer) == (io \ {reader}) \cup {writer}

ClientData(c) ==
  /\ Readable(c)
  /\ session[c].stage = "stream"
  /\ \E k \in 1 .. BufSize :
       LET s == session[c]
           bytes == Chunk(s.up, k)
           t == [s EXCEPT !.idle = 0, !.up = @ + k, !.rbuf = Filled(@, bytes)]
       IN  /\ s.up + k <= MaxBytes[c]
           /\ \/ Becomes(c, CloseBoth(t))
              \/ Becomes(c, [t EXCEPT !.toRemote = @ \o bytes])
              \/ \E n \in 0 .. k - 1 :
                   Becomes(c, [t EXCEPT
                     !.toRemote = @ \o SubSeq(bytes, 1, n),
                     !.rbuf = Rest(@, n),
                     !.io = Wait(@, "server_recv", "remote_send")])
-----------------------------------------------------------------------------
(* server_recv_cb, STAGE_INIT: the request is taken apart. *)

AddressLen(r) ==
  CASE r.atyp = 1 -> In4Len
    [] r.atyp = 4 -> In6Len
    [] OTHER      -> r.name_len + 1

\* The bytes of the request that are not payload
Offset(r) == 1 + AddressLen(r) + 2

LongEnough(r) ==
  \/ r.atyp = 1 /\ r.len >= In4Len + 3
  \/ r.atyp = 4 /\ r.len >= In6Len + 3
  \/ r.atyp = 3 /\ r.len >= r.name_len + 4

\* A name is held against the access list before it is looked at.
Denied(r) == LongEnough(r) /\ r.atyp = 3 /\ r.blocked

Accepted(r) ==
  /\ LongEnough(r) /\ ~Denied(r)
  /\ r.atyp = 3 => r.name # "invalid"
  /\ r.len >= Offset(r)

NeedsQuery(r) == r.atyp = 3 /\ r.name = "hostname"

\* server->buf with the payload that came with the request, behind idx
WithPayload(s, r) ==
  [s EXCEPT !.up = r.len - Offset(r),
            !.sbuf = [data |-> [i \in 1 .. r.len |->
                                  IF i <= Offset(r) THEN 0 ELSE i - Offset(r)],
                      idx |-> Offset(r), len |-> r.len - Offset(r)]]

Requesting(c) == Readable(c) /\ session[c].stage = "init"

\* The name is still being looked up.
Resolving(c) == session[c].stage = "resolve" /\ ~session[c].to_remote

RequestRefused(c) ==
  /\ Requesting(c)
  /\ \E r \in Requests : ~Denied(r) /\ ~Accepted(r)
  /\ Becomes(c, [session[c] EXCEPT !.stage = "stop"])

RequestDenied(c) ==
  /\ Requesting(c)
  /\ \E r \in Requests : Denied(r)
  /\ Becomes(c, CloseServer(session[c]))

\* server->remote and remote->server, and the payload moves on.
Linked(s) ==
  [s EXCEPT !.to_remote = TRUE,
            !.to_server = TRUE,
            !.rbuf = IF s.sbuf.len > 0 THEN Filled(@, Unsent(s.sbuf)) ELSE @,
            !.sbuf = IF s.sbuf.len > 0 THEN [@ EXCEPT !.len = 0, !.idx = 0]
                     ELSE @]

\* server_recv_cb or resolv_cb may call connect_to_remote next.
MayConnect(c) ==
  \/ Requesting(c) /\ \E r \in Requests : Accepted(r) /\ ~NeedsQuery(r)
  \/ session[c].asked_by /\ Resolving(c)

\* Mutant: the client is read while the connection is being made.
Attach_KeepsReading(s) == [Linked(s) EXCEPT !.io = @ \cup {"remote_send"}]

\* Mutant: the remote is read before the request has been sent on to it.
Attach_ReadsRemote(s) ==
  [Linked(s) EXCEPT !.io = (@ \ {"server_recv"})
                           \cup {"remote_send", "remote_recv"}]

\* (For a name server_recv was stopped before the query.)
Attach(s) ==
  [Linked(s) EXCEPT !.io = (@ \ {"server_recv"}) \cup {"remote_send"}]

\* connect_to_remote: it is blocked or fails, or there is a remote_t, and with
\* TCP fast open n bytes are under way already.  A kernel that cannot do it
\* switches it off, for all connections.  (What is FATAL in it ends main.)
ConnectFails(c, s) ==
  /\ session' = [session EXCEPT ![c] = Settled(CloseServer(s))]
  /\ fast_open' \in {FALSE, fast_open}

Opened(s, n) ==
  [s EXCEPT !.toRemote = @ \o SubSeq(Unsent(s.sbuf), 1, n),
            !.sbuf = Sent(@, n)]

Connects(c, s) ==
  /\ \E n \in 0 .. s.sbuf.len :
       /\ n > 0 => fast_open
       /\ session' = [session EXCEPT ![c] = Attach(Opened(NewRemote(s), n))]
       /\ fast_open' \in IF n > 0 THEN {TRUE} ELSE {FALSE, fast_open}

\* The request names an address.
RequestDirect(c) ==
  /\ Requesting(c)
  /\ \E r \in Requests :
       /\ Accepted(r) /\ ~NeedsQuery(r)
       /\ r.len <= Offset(r) + MaxBytes[c]
       /\ LET s == WithPayload(session[c], r)
          IN  Connects(c, s) \/ ConnectFails(c, s)

RequestNamed(c) ==
  /\ Requesting(c)
  /\ \E r \in Requests :
       /\ Accepted(r) /\ NeedsQuery(r)
       /\ r.len <= Offset(r) + MaxBytes[c]
       /\ Becomes(c, [WithPayload(session[c], r) EXCEPT
                        !.stage = "resolve",
                        !.io = @ \ {"server_recv"},
                        !.has_query = TRUE, !.to_query = TRUE,
                        !.asked_by = TRUE])
-----------------------------------------------------------------------------
(* The resolver, external: for every query it calls resolv_cb once and     *)
(* then resolv_free_cb.  If the server is gone by then, the first does     *)
(* nothing, and is not a step here.                                        *)

\* resolv_cb with no address
ResolveFails(c) ==
  /\ session[c].asked_by
  /\ Resolving(c)
  /\ Becomes(c, CloseServer(session[c]))

\* resolv_cb with an address
Resolved(c) ==
  /\ session[c].asked_by
  /\ Resolving(c)
  /\ Connects(c, session[c]) \/ ConnectFails(c, session[c])

\* resolv_free_cb
QueryFreed(c) ==
  /\ session[c].has_query
  /\ session[c].to_remote \/ ~session[c].asked_by
  /\ Becomes(c, [session[c] EXCEPT
                   !.has_query = FALSE,
                   !.asked_by = FALSE,
                   !.to_query = @ /\ ~session[c].asked_by])
-----------------------------------------------------------------------------
(* remote_send_cb *)

Writable(c) == "remote_send" \in session[c].io

\* A remote without its server is closed by either of its callbacks.
OrphanCloses(c) ==
  /\ session[c].io \cap {"remote_send", "remote_recv"} # {}
  /\ ~session[c].to_server
  /\ Becomes(c, CloseRemote(session[c]))

\* getpeername fails, or send does.
RemoteSendFails(c) ==
  /\ Writable(c) /\ session[c].to_server
  /\ Becomes(c, CloseBoth(session[c]))

\* The connection is there, and nothing waits to be sent over it.
ConnectedEmpty(c) ==
  /\ Writable(c) /\ session[c].to_server
  /\ ~session[c].connected /\ session[c].rbuf.len = 0
  /\ Becomes(c, [session[c] EXCEPT
                   !.connected = TRUE,
                   !.stage = "stream",
                   !.io = (@ \ {"remote_send"})
                          \cup {"server_recv", "remote_recv"}])

RemoteSends(s, n) ==
  [s EXCEPT !.connected = TRUE,
            !.toRemote = @ \o SubSeq(Unsent(s.rbuf), 1, n),
            !.rbuf = Sent(@, n)]

\* The whole buffer is sent: wait for reading.
Streaming(s) ==
  [s EXCEPT !.stage = "stream",
            !.io = (@ \ {"remote_send"}) \cup {"server_recv"}
                   \cup (IF s.stage = "stream" THEN {} ELSE {"remote_recv"})]

\* The rest, or a part of it, is sent; then it is the client's turn.  Nothing
\* to send on a connection that was there before is an error.
RemoteSend(c) ==
  LET s == session[c] IN
  /\ Writable(c) /\ s.to_server
  /\ s.connected \/ s.rbuf.len > 0
  /\ \E n \in 0 .. s.rbuf.len :
       Becomes(c, IF s.rbuf.len = 0 THEN CloseBoth(s)
                  ELSE IF n < s.rbuf.len THEN RemoteSends(s, n)
                  ELSE Streaming([RemoteSends(s, n) EXCEPT !.rbuf.len = 0,
                                                           !.rbuf.idx = 0]))
-----------------------------------------------------------------------------
(* remote_recv_cb *)

Answering(c) == "remote_recv" \in session[c].io /\ session[c].to_server

\* End of file or an error, or the data cannot be encrypted
RemoteCloses(c) == Answering(c) /\ Becomes(c, CloseBoth(session[c]))

RemoteSilent(c) ==
  Answering(c) /\ Becomes(c, [session[c] EXCEPT !.idle = 0])

\* The data of the remote are dropped, but the timer starts anew.
RemoteIgnored(c) ==
  /\ Answering(c)
  /\ session[c].stage = "stop"
  /\ Becomes(c, [session[c] EXCEPT !.idle = 0])

RemoteData(c) ==
  /\ Answering(c)
  /\ session[c].stage # "stop"
  /\ \E k \in 1 .. BufSize :
       LET s == session[c]
           bytes == Chunk(s.down, k)
           t == [s EXCEPT !.idle = 0, !.down = @ + k, !.sbuf = Filled(@, bytes)]
       IN  /\ s.down + k <= MaxBytes[c]
           /\ \/ Becomes(c, CloseBoth(t))
              \/ Becomes(c, [t EXCEPT !.toClient = @ \o bytes])
              \/ \E n \in 0 .. k - 1 :
                   Becomes(c, [t EXCEPT
                     !.toClient = @ \o SubSeq(bytes, 1, n),
                     !.sbuf = Rest(@, n),
                     !.io = Wait(@, "remote_recv", "server_send")])
-----------------------------------------------------------------------------
(* server_send_cb *)

Waiting(c) == "server_send" \in session[c].io

ServerSendFails(c) == Waiting(c) /\ Becomes(c, CloseBoth(session[c]))

\* Mutant: the remote is not read again.
Answered_Stuck(s) == [s EXCEPT !.sbuf.len = 0, !.sbuf.idx = 0,
                               !.io = @ \ {"server_send"}]

Answered(s) == [s EXCEPT !.sbuf.len = 0, !.sbuf.idx = 0,
                         !.io = (@ \ {"server_send"}) \cup {"remote_recv"}]

\* Without a remote, or without data, the callback is an error.
ServerSend(c) ==
  LET s == session[c] IN
  /\ Waiting(c)
  /\ \E n \in 0 .. s.sbuf.len :
       LET t == [s EXCEPT !.toClient = @ \o SubSeq(Unsent(s.sbuf), 1, n),
                          !.sbuf = Sent(@, n)]
       IN  Becomes(c, IF ~s.to_remote THEN CloseServer(s)
                      ELSE IF s.sbuf.len = 0 THEN CloseBoth(s)
                      ELSE IF n < s.sbuf.len THEN t
                      ELSE Answered(t))
-----------------------------------------------------------------------------
(* The timer *)

\* server_timeout_cb
TimesOut(c) ==
  /\ session[c].stage # "none"
  /\ session[c].idle = Timeout
  /\ Becomes(c, CloseBoth(session[c]))

\* Time passes for every timer that runs, up to the first that is due.
Tick ==
  /\ \A c \in Conns : session[c].idle < Timeout
  /\ session' = [c \in Conns |->
       IF session[c].stage = "none" THEN session[c]
       ELSE [session[c] EXCEPT !.idle = @ + 1]]
  /\ UNCHANGED fast_open

ServerRecvCb(c) ==
  \/ ClientCloses(c) \/ ClientSilent(c) \/ ClientIgnored(c) \/ ClientGarbage(c)
  \/ ClientFragment(c) \/ ClientData(c) \/ RequestRefused(c)
  \/ RequestDenied(c) \/ RequestDirect(c) \/ RequestNamed(c)
ServerSendCb(c) == ServerSendFails(c) \/ ServerSend(c)
RemoteSendCb(c) == RemoteSendFails(c) \/ ConnectedEmpty(c) \/ RemoteSend(c)
RemoteRecvCb(c) ==
  RemoteCloses(c) \/ RemoteSilent(c) \/ RemoteIgnored(c) \/ RemoteData(c)
ResolvCb(c) == ResolveFails(c) \/ Resolved(c) \/ QueryFreed(c)

Callback(c) ==
  \/ Accept(c) \/ ServerRecvCb(c) \/ ServerSendCb(c) \/ RemoteSendCb(c)
  \/ RemoteRecvCb(c) \/ OrphanCloses(c) \/ ResolvCb(c) \/ TimesOut(c)

RelayNext == Tick \/ \E c \in Conns : Callback(c)
-----------------------------------------------------------------------------
(* Properties *)

Buffer == [data : Seq(Nat), idx : Nat, len : Nat]

Session ==
  [stage : {"none", "init", "resolve", "stream", "stop"},
   was : {"none", "init", "resolve", "stream", "stop"},
   frag : 0 .. MAX_FRAG + 1, idle : 0 .. Timeout, io : SUBSET Watchers,
   sbuf : Buffer, has_remote : BOOLEAN, to_remote : BOOLEAN,
   to_server : BOOLEAN, connected : BOOLEAN, rbuf : Buffer,
   has_query : BOOLEAN, to_query : BOOLEAN, asked_by : BOOLEAN,
   up : Nat, toRemote : Seq(Nat), down : Nat, toClient : Seq(Nat)]

\* Every field keeps its type; no timer runs past its time.
RelayTypeOK == session \in [Conns -> Session] /\ fast_open \in BOOLEAN

\* No callback and no query can reach what has been freed: an active watcher
\* belongs to something that is there, the pointers between server_t, remote_t
\* and query_t are set and cleared in pairs, and lead to what is there.  (The
\* resolver keeps its pointer to the query however the server ends.)
LinkedSession(s) ==
  /\ s.io \cap {"server_recv", "server_send"} # {} => s.stage # "none"
  /\ s.io \cap {"remote_recv", "remote_send"} # {} => s.has_remote
  /\ s.to_remote = s.to_server
  /\ s.to_remote => s.has_remote /\ s.stage # "none"
  /\ s.to_query = s.asked_by
  /\ s.asked_by => s.has_query /\ s.stage # "none"

NothingDangles == \A c \in Conns : LinkedSession(session[c])

\* server_recv_cb ends in FATAL("server context error"), under the comment
\* "should not reach here": it is never called while a name is looked up or a
\* connection is being made, and in a stream it finds the remote whose buffer
\* it uses without a look.
ContextSound ==
  \A c \in Conns : Readable(c) =>
    /\ session[c].stage \in {"init", "stream", "stop"}
    /\ session[c].stage = "init" => ~session[c].has_remote
    /\ session[c].stage = "stream" => session[c].to_remote

\* In a stream exactly one end of each direction is waited for: the reader
\* while nothing is left to send, the writer while something is.  Both would
\* overwrite the buffer; none, and the stream stalls until its timer ends it.
TakeTurns ==
  \A c \in Conns : LET s == session[c] IN s.stage = "stream" =>
    /\ ("server_recv" \in s.io) = ("remote_send" \notin s.io)
    /\ ("remote_recv" \in s.io) = ("server_send" \notin s.io)

\* What has been sent on and what still waits in the buffer is together what
\* was received, in order, with nothing missing, doubled or overwritten: through
\* the request, a name query, fast open, EAGAIN and partial sends, until the
\* server is stopped.  So an end of file, which only a reader sees, finds
\* everything delivered.
StreamIntact ==
  \A c \in Conns : LET s == session[c] IN
    /\ s.stage \in {"init", "resolve", "stream"} =>
         s.toRemote \o (IF "remote_send" \in s.io THEN Unsent(s.rbuf)
                        ELSE IF s.stage = "resolve" THEN Unsent(s.sbuf)
                        ELSE <<>>) = Upto(s.up)
    /\ s.stage = "stream" =>
         s.toClient \o (IF "server_send" \in s.io THEN Unsent(s.sbuf)
                        ELSE <<>>) = Upto(s.down)

\* A connection to a remote outlives the client's in one case only: the server
\* had been stopped, and then the client closed.  Whatever else ends a server,
\* the end of the program included, ends its remote with it.
OnlyStoppedOrphans ==
  \A c \in Conns :
    (session[c].has_remote /\ ~session[c].to_server) =>
      session[c].was = "stop"

\* A server that was stopped is never used again: no late callback, of the
\* remote or of the resolver, brings it back or sends on another byte of the
\* client's.
StopIsFinal ==
  [][\A c \in Conns : session[c].stage = "stop" =>
       \/ session'[c].stage = "none"
       \/ /\ session'[c].stage = "stop"
          /\ session'[c].toRemote = session[c].toRemote]_relayVars

\* shadowsocks_server.c:737: "Ignore any new packet if the server is stopped".
\* What reaches the client is what the remote sent, in order.
IgnoresWhenStopped ==
  \A c \in Conns : session[c].toClient = Upto(Len(session[c].toClient))

\* A client that has not been connected through within the time of the timer is
\* dropped: nothing it or the resolver does before then starts the timer anew.
HandshakeEnds ==
  \A c \in Conns :
    session[c].stage \in {"init", "resolve"} ~>
      session[c].stage \notin {"init", "resolve"}
=============================================================================
