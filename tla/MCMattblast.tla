---------------------------- MODULE MCMattblast ----------------------------
(***************************************************************************)
(* Values for Mattblast.  A second has 4 ticks of 2 nanoseconds, in two    *)
(* milliseconds; an unsigned long 256 values and an int 16, so that        *)
(* products wrap and the waits of a loop that is late are long, or not, by *)
(* the rate.                                                               *)
(***************************************************************************)
EXTENDS Mattblast

\* No rate at all; one query a second; rates of more than one query a tick, with
\* which a loop that is late gets a negative wait (9) or a long one (10); and
\* ULONG_MAX, the default.
EveryRate == {0, 1, 9, 10, ULongSize - 1}

EveryCall == {"sendto", "poll", "recv"}
NoCall == {}
=============================================================================
