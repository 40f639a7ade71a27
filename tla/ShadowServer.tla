---------------------------- MODULE ShadowServer ----------------------------
(***************************************************************************)
(* The main of shadowsocks_server.c around the connections of ShadowRelay: *)
(* its options, the addresses it listens on, the event loop, the signals   *)
(* that end it, and what it then releases.  The UDP relay, the plugin and  *)
(* the resolver are other files of that program, external here.            *)
(***************************************************************************)
EXTENDS ShadowRelay

CONSTANTS
  CommandLines,  \* what the command line may say
  ConfFiles      \* what a configuration file may say

Modes == {"tcp_only", "tcp_and_udp", "udp_only"}

\* What either may set of the things the rest depends on
Options ==
  [servers : Nat, port : BOOLEAN, secret : BOOLEAN, mode : Modes,
   plugin : BOOLEAN, fast_open : BOOLEAN]

CommandLine ==
  [servers : Nat, port : BOOLEAN, secret : BOOLEAN, mode : Modes,
   plugin : BOOLEAN, fast_open : BOOLEAN, conf : BOOLEAN, unknown : BOOLEAN]

ASSUME ServerAssumption ==
  CommandLines \subseteq CommandLine /\ ConfFiles \subseteq Options

VARIABLES
  phase,      \* where main is
  opts,       \* server_num, mode and plugin, once they are known
  next,       \* i, the address to listen on next
  listening,  \* addresses whose listen_ctx is set up
  fds,        \* addresses a listening socket is open for
  udp,        \* num_listen_ctx of the UDP relay
  wild,       \* history: uninitialised listen_ctx that were stopped and closed
  ret_val

mainVars == <<phase, opts, next, listening, fds, udp, wild, ret_val>>
vars == <<relayVars, mainVars>>

Init ==
  /\ RelayInit
  /\ phase = "options"
  /\ opts = [servers |-> 0, mode |-> "tcp_only", plugin |-> FALSE]
  /\ next = 1
  /\ listening = {} /\ fds = {} /\ udp = 0 /\ wild = {}
  /\ ret_val = 0
-----------------------------------------------------------------------------
(* Options: what the command line does not give, the file may. *)

Merged(cli, conf) ==
  [servers |-> IF cli.servers = 0 THEN conf.servers ELSE cli.servers,
   port |-> cli.port \/ conf.port,
   secret |-> cli.secret \/ conf.secret,
   mode |-> IF cli.mode = "tcp_only" THEN conf.mode ELSE cli.mode,
   plugin |-> cli.plugin \/ conf.plugin,
   fast_open |-> cli.fast_open \/ conf.fast_open]

\* Without an address it is 0.0.0.0; a port and a key there must be.
Configure ==
  /\ phase = "options"
  /\ \E cli \in CommandLines, conf \in ConfFiles :
       LET o == IF cli.conf THEN Merged(cli, conf) ELSE cli
       IN  /\ opts' = [servers |-> IF o.servers = 0 THEN 1 ELSE o.servers,
                       mode |-> o.mode, plugin |-> o.plugin]
           /\ fast_open' = o.fast_open
           /\ phase' = IF cli.unknown \/ ~o.port \/ ~o.secret THEN "failed"
                       ELSE IF o.mode = "udp_only" THEN "udp" ELSE "listen"
  /\ UNCHANGED <<session, next, listening, fds, udp, wild, ret_val>>

\* crypto_init or start_plugin: FATAL
StartFails ==
  /\ phase \in {"listen", "udp"} /\ next = 1
  /\ phase' = "failed"
  /\ UNCHANGED <<relayVars, opts, next, listening, fds, udp, wild, ret_val>>
-----------------------------------------------------------------------------
(* The addresses to listen on.  With a plugin the first one will do. *)

Listening == phase = "listen" /\ next <= opts.servers
             /\ (opts.plugin => listening = {})

\* create_and_bind, listen and setfastopen, which may switch fast open off
Listen ==
  /\ Listening
  /\ listening' = listening \cup {next} /\ fds' = fds \cup {next}
  /\ fast_open' \in {FALSE, fast_open}
  /\ next' = next + 1
  /\ UNCHANGED <<session, phase, opts, udp, wild, ret_val>>

\* The address cannot be resolved, or (then the socket stays open) listened on.
ListenFails ==
  /\ Listening
  /\ fds' \in {fds, fds \cup {next}}
  /\ next' = next + 1
  /\ UNCHANGED <<relayVars, phase, opts, listening, udp, wild, ret_val>>

\* bind fails: FATAL
BindFails ==
  /\ Listening
  /\ phase' = "failed"
  /\ UNCHANGED <<relayVars, opts, next, listening, fds, udp, wild, ret_val>>

\* Mutant: no look at num_listen_ctx.
ListenDone_Blind == IF opts.mode = "tcp_only" THEN "loop" ELSE "udp"

AfterListen ==
  IF listening = {} THEN "failed"
  ELSE IF opts.mode = "tcp_only" THEN "loop" ELSE "udp"

\* Before the loop, run_as may be FATAL.
ListenDone ==
  /\ phase = "listen" /\ ~Listening
  /\ next' = 1
  /\ phase' \in {AfterListen, "failed"}
  /\ UNCHANGED <<relayVars, opts, listening, fds, udp, wild, ret_val>>

\* init_udprelay for each of them, and again run_as
InitUdp ==
  /\ phase = "udp"
  /\ udp' \in 0 .. opts.servers
  /\ next' = 1
  /\ phase' \in IF udp' = 0 THEN {"failed"} ELSE {"loop", "failed"}
  /\ UNCHANGED <<relayVars, opts, listening, fds, wild, ret_val>>
-----------------------------------------------------------------------------
(* The loop, and the signals that end it *)

Serve ==
  /\ phase = "loop" /\ listening # {}
  /\ RelayNext
  /\ UNCHANGED mainVars

\* connect_to_remote cannot bind its socket to the local address: FATAL, which
\* ends the program, and all it had open is closed with it.
ConnectFatal ==
  /\ phase = "loop" /\ listening # {}
  /\ \E c \in Conns : MayConnect(c)
  /\ session' = [c \in Conns |-> Fresh]
  /\ phase' = "failed"
  /\ UNCHANGED <<fast_open, opts, next, listening, fds, udp, wild, ret_val>>

\* SIGINT or SIGTERM
Signal ==
  /\ phase = "loop"
  /\ phase' = "cleanup"
  /\ UNCHANGED <<relayVars, opts, next, listening, fds, udp, wild, ret_val>>

\* SIGCHLD, when the plugin is gone
PluginDies ==
  /\ phase = "loop" /\ opts.plugin
  /\ ret_val' = -1
  /\ phase' = "cleanup"
  /\ UNCHANGED <<relayVars, opts, next, listening, fds, udp, wild>>

\* Mutant: the pointer is read when the server has been freed.
FreeConnection_Late(s) ==
  LET t == CloseServer(s) IN IF t.to_remote THEN CloseRemote(t) ELSE t

\* free_connections has kept server->remote from before.
FreeConnection(s) ==
  LET t == CloseServer(s) IN IF s.to_remote THEN CloseRemote(t) ELSE t

\* The entries of listen_ctx_list that are stopped and closed, set up or not
Released ==
  IF opts.mode = "udp_only" THEN {}
  ELSE IF opts.plugin THEN {1} ELSE 1 .. opts.servers

CleanUp ==
  /\ phase = "cleanup"
  /\ wild' = Released \ listening
  /\ fds' = fds \ (Released \cap listening)
  /\ session' =
       [c \in Conns |->
          IF session[c].stage = "none" THEN session[c]
          ELSE Settled(FreeConnection(session[c]))]
  /\ phase' = "exit"
  /\ UNCHANGED <<fast_open, opts, next, listening, udp, ret_val>>

Ended == phase \in {"exit", "failed"}
Stay == Ended /\ UNCHANGED vars

Next ==
  \/ Configure \/ StartFails \/ Listen \/ ListenFails \/ BindFails \/ ListenDone
  \/ InitUdp \/ Serve \/ ConnectFatal \/ Signal \/ PluginDies \/ CleanUp \/ Stay

Spec == Init /\ [][Next]_vars

\* libev runs the timers that are due, and main what follows its loop.
Timers == phase = "loop" /\ Tick /\ UNCHANGED mainVars
TimerCb(c) == phase = "loop" /\ TimesOut(c) /\ UNCHANGED mainVars

FairSpec ==
  Spec /\ WF_vars(CleanUp) /\ WF_vars(Timers)
       /\ \A c \in Conns : WF_vars(TimerCb(c))
-----------------------------------------------------------------------------
(* Properties *)

\* The variables of main keep their types.
TypeOK ==
  /\ RelayTypeOK
  /\ phase \in {"options", "listen", "udp", "loop", "cleanup", "exit", "failed"}
  /\ opts \in [servers : Nat, mode : Modes, plugin : BOOLEAN]
  /\ next \in Nat \ {0} /\ udp \in Nat
  /\ listening \subseteq 1 .. opts.servers /\ fds \subseteq 1 .. opts.servers
  /\ wild \subseteq Nat
  /\ ret_val \in {0, -1}

\* The loop is entered only with something to wait for: an address to accept
\* connections on, open since then, unless it is UDP only; a UDP relay unless it
\* is TCP only.
ServesWhatWasAsked ==
  phase \in {"loop", "cleanup"} =>
    /\ listening \subseteq fds
    /\ opts.mode # "udp_only" => listening # {}
    /\ opts.mode # "tcp_only" => udp > 0

\* At the exit nothing is left but the remotes of stopped servers: no client, no
\* watcher, no pointer a late answer of the resolver could follow, and, if every
\* address could be listened on, no listener.
CleanExit ==
  phase = "exit" =>
    /\ wild = {} => fds = {}
    /\ \A c \in Conns :
         /\ session[c].stage = "none" /\ ~session[c].asked_by
         /\ session[c].has_remote => session[c].was = "stop"
-----------------------------------------------------------------------------
(* The promise *)

\* What a session is for its client and the remote.  What the buffers still
\* hold has come in and is not delivered; what a stopped server goes on sending
\* its client is no part of the promise.
Connection(s) ==
  LET nothing == [received |-> 0, delivered |-> <<>>]
      up == [received |-> s.up, delivered |-> s.toRemote]
      down == [received |-> s.down, delivered |-> s.toClient]
      conn(state, u, d) == [phase |-> state, up |-> u, down |-> d]
  IN  CASE s.stage = "none" -> conn("closed", nothing, nothing)
        [] s.stage = "init" ->
             conn(IF s.has_remote THEN "connecting" ELSE "opening", up, down)
        [] s.stage = "resolve" -> conn("connecting", up, down)
        [] s.stage = "stream" -> conn("open", up, down)
        [] s.stage = "stop" -> conn("stopped", up, nothing)

Connections == [c \in Conns |-> Connection(session[c])]

Server ==
  CASE phase \in {"options", "listen", "udp"} -> "starting"
    [] phase \in {"loop", "cleanup"} -> "serving"
    [] phase \in {"exit", "failed"} -> "over"

\* What may come with a request behind its address
Payloads == {r.len - Offset(r) : r \in {q \in Requests : Accepted(q)}}

\* The server keeps the promise of Tunnel: whatever the order of its callbacks
\* and whatever the sockets take, each step of it is a step of a tunnel.  So no
\* byte is taken back or sent twice, neither end is read while a byte of its
\* last recv waits, the remote is read only when it has been sent all of the
\* request, and a server that was stopped stays so.
Promise == INSTANCE Tunnel WITH
  Asked <- Payloads,
  Piece <- BufSize,
  server <- Server,
  conn <- Connections

ImplementsTunnel == Promise!Spec
=============================================================================
