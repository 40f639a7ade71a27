----------------------------- MODULE Mattblast -----------------------------
(***************************************************************************)
(* mattblast.c, the variant of the load tester the Makefile builds, from   *)
(* init_context to its exit, over the path of UdpPath.  Its loops are      *)
(* those of dnsblast.c, with three differences: it reckons in integers,    *)
(* with unsigned ones that wrap; a wait is a number of whole seconds; and  *)
(* the drain waits for every answer, without a timeout.                    *)
(*                                                                         *)
(* As in DnsBlast an action is what the thread does from one system call   *)
(* to the next.  The clock counts microseconds, as gettimeofday does.      *)
(***************************************************************************)
EXTENDS Integers, Sequences, FiniteSets, UdpPath

CONSTANTS
  NsPerUs,       \* 1000: get_nanoseconds counts NsPerUs for every tick
  UsPerMs,       \* 1000: ticks in a millisecond of poll
  MsPerSec,      \* 1000
  StatusPeriod,  \* UPDATE_STATUS_PERIOD, here in nanoseconds
  ULongSize,     \* 2^64: values of an unsigned long
  IntMax,        \* 2^31: an int holds -IntMax .. IntMax - 1
  StartDate,     \* the clock when init_context runs
  Counts,        \* values of <count>
  Rates,         \* values of <pps>
  KernelErrors,  \* calls that may fail for good: "sendto", "poll", "recv"
  MaxIntr,       \* bound: system calls answered EINTR (or a full buffer)
  MaxLag         \* bound: microseconds lost outside of poll's own wait

ASSUME MattAssumption ==
  /\ {NsPerUs, UsPerMs, MsPerSec, IntMax} \subseteq Nat \ {0}
  /\ MsPerSec < IntMax
  /\ StatusPeriod \in Nat \ {0}
  /\ ULongSize \in Nat /\ ULongSize % (2 * IntMax) = 0 /\ ULongSize > 0
  /\ StartDate \in Nat
  /\ Counts \subseteq 1 .. ULongSize - 1 /\ Rates \subseteq 0 .. ULongSize - 1
  /\ KernelErrors \subseteq {"sendto", "poll", "recv"}
  /\ MaxIntr \in Nat /\ MaxLag \in Nat

VARIABLES
  pc,                  \* the system call that is next
  clock,
  args,                \* main's send_count and pps, as they were given
  send_count,          \* queries still to be sent, this turn's included
  sent_packets, received_packets,
  sending,
  last_status_update,
  shown,               \* the status line that was printed last
  now, remaining_time, \* locals of throttled_receive
  deadline,            \* when the poll that is waiting times out
  answered,            \* history: the queries an answer was counted for
  intr, lag            \* how much of MaxIntr and of MaxLag is spent

counters == <<sent_packets, received_packets>>
status == <<last_status_update, shown>>
locals == <<now, remaining_time, deadline>>
budget == <<intr, lag>>
vars == <<pc, clock, args, send_count, counters, sending, status, locals,
          answered, budget, pathVars>>

\* The conversion of an unsigned long to an int.
ToInt(x) ==
  LET r == x % (2 * IntMax)
  IN  IF r < IntMax THEN r ELSE r - 2 * IntMax

NsPerSec == NsPerUs * UsPerMs * MsPerSec
Elapsed == (clock - StartDate) * NsPerUs

Init ==
  /\ PathInit
  /\ pc = "blast"
  /\ clock = StartDate
  /\ args \in [count : Counts, pps : Rates]
  /\ send_count = args.count
  /\ sent_packets = 0 /\ received_packets = 0
  /\ sending = TRUE
  /\ last_status_update = StartDate
  /\ shown = [sent |-> 0, received |-> 0, rate |-> 0]
  /\ now = 0 /\ remaining_time = 0 /\ deadline = 0
  /\ answered = {}
  /\ intr = 0 /\ lag = 0
-----------------------------------------------------------------------------
(* The status line: rate is an integer division, cut off at pps. *)

ReplyRate ==
  LET rate == ((received_packets * NsPerSec) % ULongSize) \div Elapsed
  IN  IF rate > args.pps THEN args.pps ELSE rate

UpdateStatus ==
  shown' = [sent |-> sent_packets, received |-> received_packets,
            rate |-> ReplyRate]

PeriodicallyUpdateStatus ==
  LET due == (clock - last_status_update) * NsPerUs >= StatusPeriod
  IN  \/ ~due /\ UNCHANGED status
      \/ due /\ UpdateStatus /\ last_status_update' = clock
-----------------------------------------------------------------------------
(* blast.  Nobody looks at the id of an answer. *)

SendTo ==
  /\ pc = "blast"
  /\ Transmit([n |-> sent_packets + 1, id |-> sent_packets % IdSpace])
  /\ sent_packets' = sent_packets + 1
  /\ pc' = "throttle"
  /\ UNCHANGED <<clock, args, send_count, received_packets, sending, status,
                 locals, answered, budget>>

\* EAGAIN or EINTR: the same packet again.
SendRetry ==
  /\ pc = "blast"
  /\ intr < MaxIntr
  /\ intr' = intr + 1
  /\ UNCHANGED <<pc, clock, args, send_count, counters, sending, status,
                 locals, answered, lag, pathVars>>

SendFails ==
  /\ pc = "blast"
  /\ "sendto" \in KernelErrors
  /\ pc' = "failed"
  /\ UNCHANGED <<clock, args, send_count, counters, sending, status, locals,
                 answered, budget, pathVars>>
-----------------------------------------------------------------------------
(* throttled_receive *)

\* pps * elapsed / 1000000000, in 64 bits
MaxPackets == ((args.pps * Elapsed) % ULongSize) \div NsPerSec

\* Mutant: the query just sent is left out of the excess.
Excess_Previous == (sent_packets - 1 - MaxPackets) % ULongSize

\* Unsigned: behind its rate, the loop is ahead by nearly ULongSize.
Excess == (sent_packets - MaxPackets) % ULongSize

\* (int)(time_to_wait * 1000), time_to_wait in whole seconds
TimeToWait == ToInt(((Excess \div args.pps) * MsPerSec) % ULongSize)

\* Mutant: a negative wait stays negative.
Remaining_Signed == IF sending THEN TimeToWait ELSE -1

\* remaining_time as poll gets it first
Remaining == IF ~sending THEN -1 ELSE IF TimeToWait < 0 THEN 0 ELSE TimeToWait

ThrottledReceive ==
  /\ pc = "throttle"
  /\ args.pps > 0
  /\ now' = clock
  /\ remaining_time' = Remaining
  /\ pc' = IF sending /\ sent_packets <= MaxPackets THEN "flush" ELSE "poll"
  /\ UNCHANGED <<clock, args, send_count, counters, sending, status, deadline,
                 answered, budget, pathVars>>

\* excess / context->pps with a pps of 0 kills the process.
DivideByPps ==
  /\ pc = "throttle"
  /\ args.pps = 0
  /\ pc' = "killed"
  /\ UNCHANGED <<clock, args, send_count, counters, sending, status, locals,
                 answered, budget, pathVars>>

Poll ==
  /\ pc = "poll"
  /\ deadline' = clock + remaining_time * UsPerMs
  /\ pc' = "polling"
  /\ UNCHANGED <<clock, args, send_count, counters, sending, status, now,
                 remaining_time, answered, budget, pathVars>>

PollReady ==
  /\ pc = "polling"
  /\ rcvbuf # <<>>
  /\ pc' = "empty"
  /\ UNCHANGED <<clock, args, send_count, counters, sending, status, locals,
                 answered, budget, pathVars>>

\* A negative timeout, that of the drain, makes poll wait for ever.
PollTimesOut ==
  /\ pc = "polling"
  /\ rcvbuf = <<>>
  /\ remaining_time >= 0 /\ clock >= deadline
  /\ PeriodicallyUpdateStatus
  /\ pc' = "return"
  /\ UNCHANGED <<clock, args, send_count, counters, sending, locals,
                 answered, budget, pathVars>>

\* continue jumps to the test of the do loop.
PollInterrupted ==
  /\ pc = "polling"
  /\ intr < MaxIntr
  /\ intr' = intr + 1
  /\ pc' = IF remaining_time > 0 THEN "poll" ELSE "return"
  /\ UNCHANGED <<clock, args, send_count, counters, sending, status, locals,
                 answered, lag, pathVars>>

PollFails ==
  /\ pc = "polling"
  /\ "poll" \in KernelErrors
  /\ pc' = "failed"
  /\ UNCHANGED <<clock, args, send_count, counters, sending, status, locals,
                 answered, budget, pathVars>>
-----------------------------------------------------------------------------
(* receive and empty_receive_queue: "flush" is the call before the wait,   *)
(* "empty" the one in it.                                                  *)

Receiving == pc \in {"flush", "empty"}

Receive ==
  /\ Receiving
  /\ TakeAnswer
  /\ received_packets' = received_packets + 1
  /\ answered' = answered \cup {Head(rcvbuf).n}
  /\ UNCHANGED <<pc, clock, args, send_count, sent_packets, sending, status,
                 locals, budget>>

ReceiveRetry ==
  /\ Receiving
  /\ intr < MaxIntr
  /\ intr' = intr + 1
  /\ UNCHANGED <<pc, clock, args, send_count, counters, sending, status,
                 locals, answered, lag, pathVars>>

\* Neither EAGAIN nor EINTR: assert(errno == EINTR) aborts.
ReceiveFails ==
  /\ Receiving
  /\ "recv" \in KernelErrors
  /\ pc' = "aborted"
  /\ UNCHANGED <<clock, args, send_count, counters, sending, status, locals,
                 answered, budget, pathVars>>

FlushDone ==
  /\ pc = "flush"
  /\ rcvbuf = <<>>
  /\ PeriodicallyUpdateStatus
  /\ pc' = "poll"
  /\ UNCHANGED <<clock, args, send_count, counters, sending, locals, answered,
                 budget, pathVars>>

\* remaining_time -= (now2 - now) / 1000: milliseconds less microseconds
EmptyDone ==
  /\ pc = "empty"
  /\ rcvbuf = <<>>
  /\ PeriodicallyUpdateStatus
  /\ remaining_time' = ToInt(remaining_time - (clock - now))
  /\ now' = clock
  /\ pc' = IF remaining_time' > 0 THEN "poll" ELSE "return"
  /\ UNCHANGED <<clock, args, send_count, counters, sending, deadline,
                 answered, budget, pathVars>>
-----------------------------------------------------------------------------
(* main *)

\* The locals of throttled_receive are gone once it returns.
DropLocals == now' = 0 /\ remaining_time' = 0 /\ deadline' = 0

\* Mutant: send_count-- > 0, one turn more.
NextTurn_OneMore ==
  /\ pc = "return"
  /\ send_count > 0
  /\ send_count' = send_count - 1
  /\ pc' = "blast"
  /\ DropLocals
  /\ UNCHANGED <<clock, args, counters, sending, status, answered, budget,
                 pathVars>>

NextTurn ==
  /\ pc = "return"
  /\ send_count > 1
  /\ send_count' = send_count - 1
  /\ pc' = "blast"
  /\ DropLocals
  /\ UNCHANGED <<clock, args, counters, sending, status, answered, budget,
                 pathVars>>

\* Mutant: do ... while, which waits once before it looks.
DrainFirst_Waits == "throttle"

\* while (sent_packets != received_packets), as it is entered.
DrainFirst == IF sent_packets = received_packets THEN "close" ELSE "throttle"

\* Mutant: one answer missing is no answer missing.
DrainNext_OneShort ==
  IF sent_packets - received_packets <= 1 THEN "close" ELSE "throttle"

\* The same test, each time throttled_receive is back.
DrainNext == IF sent_packets = received_packets THEN "close" ELSE "throttle"

\* The last query is out: a status line, then the drain.
StartDrain ==
  /\ pc = "return"
  /\ send_count = 1
  /\ Elapsed > 0
  /\ send_count' = 0
  /\ UpdateStatus
  /\ sending' = FALSE
  /\ pc' = DrainFirst
  /\ DropLocals
  /\ UNCHANGED <<clock, args, counters, last_status_update, answered, budget,
                 pathVars>>

\* update_status divides by a time of zero, which kills the process.
DivideByElapsed ==
  /\ pc = "return"
  /\ send_count = 1
  /\ Elapsed = 0
  /\ pc' = "killed"
  /\ UNCHANGED <<clock, args, send_count, counters, sending, status, locals,
                 answered, budget, pathVars>>

DrainTurn ==
  /\ pc = "return"
  /\ send_count = 0
  /\ pc' = DrainNext
  /\ DropLocals
  /\ UNCHANGED <<clock, args, send_count, counters, sending, status, answered,
                 budget, pathVars>>

Close ==
  /\ pc = "close"
  /\ UpdateStatus
  /\ pc' = "done"
  /\ UNCHANGED <<clock, args, send_count, counters, sending,
                 last_status_update, locals, answered, budget, pathVars>>
-----------------------------------------------------------------------------
(* The environment, as in DnsBlast *)

Ended == pc \in {"done", "failed", "aborted", "killed"}

Path ==
  /\ ~Ended
  /\ PathNext
  /\ UNCHANGED <<pc, clock, args, send_count, counters, sending, status,
                 locals, answered, budget>>

Sleep ==
  /\ pc = "polling"
  /\ rcvbuf = <<>>
  /\ remaining_time >= 0 /\ clock < deadline
  /\ clock' = clock + 1
  /\ UNCHANGED <<pc, args, send_count, counters, sending, status, locals,
                 answered, budget, pathVars>>

Delay ==
  /\ ~Ended
  /\ lag < MaxLag
  /\ lag' = lag + 1
  /\ clock' = clock + 1
  /\ UNCHANGED <<pc, args, send_count, counters, sending, status, locals,
                 answered, intr, pathVars>>

Finished == Ended /\ UNCHANGED vars

Program ==
  \/ SendTo \/ SendRetry \/ SendFails
  \/ ThrottledReceive \/ DivideByPps \/ Poll \/ PollReady \/ PollTimesOut
  \/ PollInterrupted \/ PollFails
  \/ Receive \/ ReceiveRetry \/ ReceiveFails \/ FlushDone \/ EmptyDone
  \/ NextTurn \/ StartDrain \/ DivideByElapsed \/ DrainTurn \/ Close

Next == Program \/ Path \/ Sleep \/ Delay \/ Finished

Spec == Init /\ [][Next]_vars

Answering == ~Ended /\ \E m \in wire : Deliver(m)
             /\ UNCHANGED <<pc, clock, args, send_count, counters, sending,
                            status, locals, answered, budget>>

\* No signal and no failure has to come.
Undisturbed ==
  Program /\ intr' = intr /\ pc' \notin {"failed", "aborted"}

\* The kernel runs the program and the clock, as for DnsBlast.  What is on
\* the way arrives in the end, unless the path loses it.
FairSpec ==
  Spec /\ WF_vars(Undisturbed) /\ WF_vars(Sleep) /\ WF_vars(Answering)
-----------------------------------------------------------------------------
(* Properties *)

\* Every variable keeps its type; no wait but that of the drain is negative.
TypeOK ==
  /\ pc \in {"blast", "throttle", "flush", "poll", "polling", "empty",
             "return", "close", "done", "failed", "aborted", "killed"}
  /\ clock \in Nat /\ StartDate <= clock
  /\ args \in [count : Counts, pps : Rates]
  /\ send_count \in 0 .. args.count
  /\ sent_packets \in 0 .. args.count /\ received_packets \in Nat
  /\ sending \in BOOLEAN
  /\ last_status_update \in StartDate .. clock
  /\ shown \in [sent : Nat, received : Nat, rate : 0 .. args.pps]
  /\ now \in 0 .. clock /\ deadline \in Int
  /\ remaining_time \in -IntMax .. IntMax - 1
  /\ (sending /\ pc \in {"poll", "polling"}) => remaining_time >= 0
  /\ answered \subseteq 1 .. sent_packets
  /\ intr \in 0 .. MaxIntr /\ lag \in 0 .. MaxLag
  /\ PathTypeOK

\* As long as no answer cuts a wait short, the loop is never more than a
\* second's worth of queries ahead: it sends pps of them at once and then
\* waits a whole second, and loses nothing to the integer divisions.
OneSecondAhead ==
  (/\ sending /\ args.pps > 0 /\ received_packets = 0
   /\ args.pps * Elapsed < ULongSize) =>
    sent_packets <= MaxPackets + args.pps

\* The run ends with a verdict only when every query has its answer, unless
\* the path makes duplicates, for which receive has no eye.
VerdictIsComplete ==
  (pc = "done" /\ dups = 0) =>
    answered = 1 .. args.count /\ shown.received = args.count

\* How the states of the program look in LoadTest.
Phase ==
  CASE pc = "done" -> "over"
    [] pc \in {"failed", "aborted", "killed"} -> "failed"
    [] ~Ended -> IF send_count > 0 THEN "sending" ELSE "draining"

Verdict ==
  IF pc = "done" THEN [sent |-> shown.sent, received |-> shown.received]
                 ELSE [sent |-> 0, received |-> 0]

\* mattblast keeps the promise of LoadTest but for its times: it is bound to
\* no rate, and there is no timeout, so that its clock may be thought to stand
\* still.  Every query that was asked for goes out before the drain begins, an
\* answer is counted once, and the last status line shows the counters when
\* they are equal.  A run that is killed or fails gives no verdict.
Promise == INSTANCE LoadTest WITH
  StartDate <- 0,
  Rates <- {0},
  Timeouts <- {0},
  phase <- Phase,
  clock <- 0,
  args <- [count |-> args.count, pps |-> 0, timeout |-> 0],
  sent <- sent_packets,
  received <- received_packets,
  last_sent <- 0,
  verdict <- Verdict

ImplementsLoadTest == Promise!Spec

\* A path that neither loses nor doubles an answer is enough for the run to
\* end, although its drain has no timeout and polls for ever: it never starts
\* that poll with every answer in, whenever the last of them came.
EndsWhenAnswered == [](lost = 0 /\ dups = 0) => <>Ended

\* README: dnsblast "will tell you how well the resolver is able to keep up".
\* A run comes to its end, and to that verdict, whatever is lost.
Termination == <>Ended

\* README: it is given "the rate (number of packets per second)".  When the
\* rate allows more queries than are out, at the time throttled_receive works
\* out its wait, the next one is sent without a wait.
LateMeansNoWait ==
  (pc = "poll" /\ sending /\ now = clock) =>
    (NsPerSec * sent_packets < args.pps * Elapsed => remaining_time = 0)
=============================================================================
