------------------------------ MODULE LoadTest ------------------------------
(***************************************************************************)
(* What a run of the load tester promises, without how it is done: the     *)
(* number of queries that was asked for goes out, never faster than the    *)
(* requested rate; answers are counted as they come in; and the verdict    *)
(* that is printed last is given only when every query has its answer or   *)
(* the server has had more than the timeout to send what is missing.       *)
(***************************************************************************)
EXTENDS Integers

CONSTANTS
  MsPerSec,   \* 1000: clock ticks in the second of a rate
  StartDate,  \* the clock when the test begins
  Counts,     \* how many queries a test may be asked for
  Rates,      \* queries per second it may be asked to keep to; 0 is no limit
  Timeouts    \* how long it may be asked to wait for the last answers

VARIABLES
  phase,      \* "sending", "draining", "over", or "failed"
  clock,
  args,       \* what was asked for
  sent, received,
  last_sent,  \* when the draining began
  verdict     \* the two numbers of the final status line

vars == <<phase, clock, args, sent, received, last_sent, verdict>>

NoVerdict == [sent |-> 0, received |-> 0]

Init ==
  /\ phase = "sending"
  /\ clock = StartDate
  /\ args \in [count : Counts, pps : Rates, timeout : Timeouts]
  /\ sent = 0 /\ received = 0
  /\ last_sent = 0
  /\ verdict = NoVerdict

\* The next query is due: at most one more than pps allows up to now.
Due ==
  args.pps > 0 => MsPerSec * sent <= args.pps * (clock - StartDate + 1)

Send ==
  /\ phase = "sending"
  /\ sent < args.count
  /\ Due
  /\ sent' = sent + 1
  /\ UNCHANGED <<phase, clock, args, received, last_sent, verdict>>

Answer ==
  /\ phase \in {"sending", "draining"}
  /\ received' = received + 1
  /\ UNCHANGED <<phase, clock, args, sent, last_sent, verdict>>

BeginDrain ==
  /\ phase = "sending"
  /\ sent = args.count
  /\ phase' = "draining"
  /\ last_sent' = clock
  /\ UNCHANGED <<clock, args, sent, received, verdict>>

Report ==
  /\ phase = "draining"
  /\ received = sent \/ clock - last_sent > args.timeout
  /\ phase' = "over"
  /\ verdict' = [sent |-> sent, received |-> received]
  /\ UNCHANGED <<clock, args, sent, received, last_sent>>

\* The operating system refuses to go on.
GiveUp ==
  /\ phase \in {"sending", "draining"}
  /\ phase' = "failed"
  /\ UNCHANGED <<clock, args, sent, received, last_sent, verdict>>

Tick ==
  /\ phase \in {"sending", "draining"}
  /\ clock' = clock + 1
  /\ UNCHANGED <<phase, args, sent, received, last_sent, verdict>>

Next == Send \/ Answer \/ BeginDrain \/ Report \/ GiveUp \/ Tick

Spec == Init /\ [][Next]_vars
=============================================================================
