--------------------------- MODULE MCShadowServer ---------------------------
(***************************************************************************)
(* Values for ShadowServer.  Buffers of two bytes make every send whole,   *)
(* partial or refused; addresses of one and two bytes keep the requests    *)
(* short.                                                                  *)
(***************************************************************************)
EXTENDS ShadowServer, TLC

Req(atyp, len, name_len, name, blocked) ==
  [atyp |-> atyp, len |-> len, name_len |-> name_len, name |-> name,
   blocked |-> blocked]

\* Of every type: complete, with payload, and too short; a name of each kind,
\* one that is blocked, and a type there is not.
SomeRequests ==
  { Req(1, 4, 0, "address", FALSE), Req(1, 6, 0, "address", FALSE),
    Req(1, 3, 0, "address", FALSE), Req(4, 5, 0, "address", FALSE),
    Req(3, 6, 1, "hostname", FALSE), Req(3, 5, 1, "address", FALSE),
    Req(3, 5, 1, "invalid", FALSE), Req(3, 5, 1, "hostname", TRUE),
    Req(2, 6, 0, "address", FALSE) }

Two == 1 :> 2
Three == 1 :> 3

Cli(servers, mode, plugin, fast, conf, unknown) ==
  [servers |-> servers, port |-> TRUE, secret |-> TRUE, mode |-> mode,
   plugin |-> plugin, fast_open |-> fast, conf |-> conf, unknown |-> unknown]
Conf(servers, mode, plugin, fast) ==
  [servers |-> servers, port |-> TRUE, secret |-> TRUE, mode |-> mode,
   plugin |-> plugin, fast_open |-> fast]

\* Two addresses, from the command line or the file, with and without a plugin;
\* one in either place; both relays, and UDP alone; neither port nor key, and an
\* unknown option.
SomeCli ==
  { Cli(2, "tcp_only", FALSE, FALSE, FALSE, FALSE),
    Cli(0, "tcp_only", FALSE, FALSE, TRUE, FALSE),
    Cli(0, "tcp_only", TRUE, FALSE, TRUE, FALSE),
    Cli(1, "tcp_and_udp", FALSE, TRUE, TRUE, FALSE),
    Cli(2, "udp_only", FALSE, FALSE, FALSE, FALSE),
    Cli(1, "tcp_only", FALSE, FALSE, FALSE, TRUE),
    [Cli(1, "tcp_only", FALSE, FALSE, FALSE, FALSE) EXCEPT !.port = FALSE] }
SomeConf == { Conf(2, "tcp_only", FALSE, TRUE), Conf(2, "udp_only", FALSE, FALSE) }

\* One TCP listener
OneCli == {Cli(1, "tcp_only", FALSE, FALSE, FALSE, FALSE)}
=============================================================================
