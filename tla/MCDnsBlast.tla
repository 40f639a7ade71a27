----------------------------- MODULE MCDnsBlast -----------------------------
(***************************************************************************)
(* The values the configurations MCDnsBlast_*.cfg give to the constants of *)
(* DnsBlast.  The program's own are far out of reach (65507 slots, 65536   *)
(* ids, 1000 ms in a second), so every limit is made small enough to be    *)
(* met: a second has MsPerSec = 4 ticks, and rates below, near and above   *)
(* one query per tick make waits of several ticks, of one, and of none.    *)
(***************************************************************************)
EXTENDS DnsBlast

\* Below, at and above one query per tick of the clock.
EveryRate == {1, 3, 9}

\* -s 0: the loop never waits, which is also what the default comes to.
NoLimit == {0}

EveryCall == {"sendto", "poll", "recv"}
NoCall == {}
=============================================================================
