--------------------------- MODULE MCCommandLine ---------------------------
(* Command lines for CommandLine: those of the README, and of usage().     *)
EXTENDS CommandLine

Opt(name) == [option |-> name, number |-> 0]
Arg(n) == [option |-> "none", number |-> n]
Localhost == Arg(0)

\* dnsblast 127.0.0.1 50000 100 5353, and shorter
Readme ==
  { <<Localhost>>, <<Localhost, Arg(50)>>, <<Localhost, Arg(50), Arg(10)>>,
    <<Localhost, Arg(50), Arg(10), Arg(54)>> }

\* dnsblast <host> [-p <port>] [-c <count>] [-s <pps>] [flags], what that may
\* be mistaken for, and nothing at all
Usage ==
  { <<Localhost, Opt("port"), Arg(54), Opt("count"), Arg(50), Opt("pps"), Arg(10)>>,
    <<Localhost, Opt("random"), Opt("fuzz"), Opt("count"), Arg(0)>>,
    <<Localhost, Opt("unknown"), Opt("timeout")>>,
    <<Opt("count"), Arg(50), Localhost>>, <<Localhost, Opt("help")>>, << >> }

SomeLines == Readme \cup Usage
=============================================================================
