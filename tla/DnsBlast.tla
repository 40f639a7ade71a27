------------------------------ MODULE DnsBlast ------------------------------
(***************************************************************************)
(* The load tester of dnsblast.c, from the end of main's option parsing to *)
(* its exit: blast sends one query per turn of the sending loop,           *)
(* throttled_receive keeps the loop at the requested rate while answers    *)
(* are counted, and after the last query the drain loop waits for the      *)
(* answers that are still missing.                                         *)
(*                                                                         *)
(* The program is one thread.  An action is what it does from one system   *)
(* call to the next, so the path and the clock move between any two        *)
(* actions and never within one.  Fields of Context and locals of the      *)
(* functions keep their names in the source.                               *)
(***************************************************************************)
EXTENDS Integers, Sequences, FiniteSets, UdpPath

CONSTANTS
  MsPerSec,      \* 1000: the unit of get_milliseconds against a pps
  StatusPeriod,  \* UPDATE_STATUS_PERIOD
  Slots,         \* MAX_UDP_DATA_SIZE: entries of datagram_start
  IntMax,        \* 2^31: an int holds -IntMax .. IntMax - 1
  StartDate,     \* the wall clock when init_context runs
  Counts,        \* values of -c
  Rates,         \* values of -s
  Timeouts,      \* values of -t
  FuzzModes,     \* whether -f may be, or may not be, given
  KernelErrors,  \* calls that may fail for good: "sendto", "poll", "recv"
  MaxIntr,       \* bound: system calls answered EINTR (or a full buffer)
  MaxLag         \* bound: milliseconds lost outside of poll's own wait

ASSUME BlastAssumption ==
  /\ MsPerSec \in Nat \ {0} /\ StatusPeriod \in Nat
  /\ Slots \in Nat \ {0}
  /\ MsPerSec + 1 < IntMax /\ IntMax \in Nat /\ StartDate \in Nat
  /\ Counts \subseteq Nat \ {0} /\ Rates \subseteq Nat
  /\ Timeouts \subseteq Nat /\ FuzzModes \subseteq BOOLEAN
  /\ KernelErrors \subseteq {"sendto", "poll", "recv"}
  /\ MaxIntr \in Nat /\ MaxLag \in Nat

VARIABLES
  pc,                  \* the system call, or the test in main, that is next
  clock,               \* the wall clock, in milliseconds
  args,                \* main's locals count, pps and timeout, never changed
  send_count,          \* queries still to be sent, this turn's included
  drain_start,         \* main's local now: when the drain loop began
  sent_packets, received_packets, failed_packets,
  timeout,             \* context->timeout
  sending,
  id, fuzz,
  sock_ok,             \* context->sock is still the descriptor socket gave
  datagram_start,      \* when the query with this id was sent
  last_status_update, rate,
  shown,               \* the status line that was printed last
  now, remaining_time, \* locals of throttled_receive
  deadline,            \* when the poll that is waiting times out
  packet,              \* the datagram that sendto is given
  query_time,          \* what receive reported last
  sent_at,             \* history: when query n was handed to blast
  answered,            \* history: the queries an answer was counted for
  intr, lag            \* how much of MaxIntr and of MaxLag is spent

counters == <<sent_packets, received_packets, failed_packets>>
context  == <<timeout, sending, id, fuzz, sock_ok, datagram_start>>
status   == <<last_status_update, rate, shown>>
locals   == <<now, remaining_time, deadline>>
mainVars == <<args, send_count, drain_start>>
history  == <<query_time, sent_at, answered>>
budget   == <<intr, lag>>

vars == <<pc, clock, mainVars, counters, context, status, locals, packet,
          history, budget, pathVars>>

startup_date == StartDate

\* A number no clock reading and no rate is: what reading outside of
\* datagram_start, or dividing by a zero interval, shows on the screen.
Garbage == -1

\* The conversion of an unsigned long to the int that poll is given.
ToInt(x) ==
  LET r == x % (2 * IntMax)
  IN  IF r < IntMax THEN r ELSE r - 2 * IntMax

Init ==
  /\ PathInit
  /\ pc = "blast"
  /\ clock = StartDate
  /\ args \in [count : Counts, pps : Rates, timeout : Timeouts]
  /\ send_count = args.count
  /\ drain_start = 0
  /\ sent_packets = 0 /\ received_packets = 0 /\ failed_packets = 0
  /\ timeout = args.timeout
  /\ sending = TRUE
  /\ id = 0
  /\ fuzz \in FuzzModes
  /\ sock_ok = TRUE
  /\ datagram_start = [s \in 0 .. Slots - 1 |-> 0]
  /\ last_status_update = StartDate /\ rate = 0
  /\ shown = [sent |-> 0, received |-> 0, rate |-> 0]
  /\ now = 0 /\ remaining_time = 0 /\ deadline = 0
  /\ packet = [n |-> 0, id |-> 0]
  /\ query_time = [n |-> 0, at |-> 0, elapsed |-> 0]
  /\ sent_at = <<>>
  /\ answered = {}
  /\ intr = 0 /\ lag = 0
-----------------------------------------------------------------------------
(* The status line *)

\* received_packets * 1000 / elapsed in floating point, made unsigned long.
ReplyRate ==
  IF clock = startup_date THEN Garbage
  ELSE (received_packets * MsPerSec) \div (clock - startup_date)

UpdateStatus ==
  /\ rate' = IF sending THEN ReplyRate ELSE rate
  /\ shown' = [sent |-> sent_packets, received |-> received_packets,
               rate |-> rate']

PeriodicallyUpdateStatus ==
  \/ /\ clock - last_status_update < StatusPeriod
     /\ UNCHANGED status
  \/ /\ clock - last_status_update >= StatusPeriod
     /\ UpdateStatus
     /\ last_status_update' = clock
-----------------------------------------------------------------------------
(* blast *)

\* Mutant: the id is as wide as the count, and never wraps.
NextId_NoWrap == id + 1
NextId == (id + 1) % IdSpace

(***************************************************************************)
(* context->datagram_start[i] = get_milliseconds().  The id has IdSpace    *)
(* values and the array only Slots entries: the four words that follow it  *)
(* in Context are failed_packets, timeout, rate, and the word shared by    *)
(* sock, id, fuzz and sending, whose upper bytes a date in milliseconds    *)
(* leaves zero.  No index beyond these four is reached: without its socket *)
(* the program exits at once.                                              *)
(***************************************************************************)
StoreStart(i) ==
  /\ datagram_start' = IF i < Slots
                       THEN [datagram_start EXCEPT ![i] = clock]
                       ELSE datagram_start
  /\ failed_packets' = IF i = Slots THEN clock ELSE failed_packets
  /\ timeout' = IF i = Slots + 1 THEN clock ELSE timeout
  /\ rate' = IF i = Slots + 2 THEN clock ELSE rate
  /\ \/ /\ i # Slots + 3
        /\ id' = NextId
        /\ UNCHANGED <<sock_ok, fuzz, sending>>
     \/ /\ i = Slots + 3
        /\ id' \in Ids
        /\ sock_ok' = FALSE
        /\ fuzz' = FALSE
        /\ sending' = FALSE

\* The id the packet carries: fuzz may have rewritten its bytes.
WireIds(i) == IF fuzz' THEN Ids ELSE {i}

BlastQuery ==
  /\ pc = "blast"
  /\ StoreStart(id)
  /\ \E w \in WireIds(id) : packet' = [n |-> sent_packets + 1, id |-> w]
  /\ sent_at' = Append(sent_at, clock)
  /\ pc' = "sendto"
  /\ UNCHANGED <<clock, mainVars, sent_packets, received_packets,
                 last_status_update, shown, locals, query_time, answered,
                 budget, pathVars>>

SendTo ==
  /\ pc = "sendto"
  /\ sock_ok
  /\ Transmit(packet)
  /\ sent_packets' = sent_packets + 1
  /\ pc' = "throttle"
  /\ UNCHANGED <<clock, mainVars, received_packets, failed_packets, context,
                 status, locals, packet, history, budget>>

\* EAGAIN or EINTR: the loop around sendto tries the same packet again.
SendRetry ==
  /\ pc = "sendto"
  /\ sock_ok
  /\ intr < MaxIntr
  /\ intr' = intr + 1
  /\ UNCHANGED <<pc, clock, mainVars, counters, context, status, locals,
                 packet, history, lag, pathVars>>

\* Mutant: the error is reported and the query skipped.
SendFails_GoesOn ==
  /\ pc = "sendto"
  /\ ~sock_ok \/ "sendto" \in KernelErrors
  /\ pc' = "throttle"
  /\ UNCHANGED <<clock, mainVars, counters, context, status, locals, packet,
                 history, budget, pathVars>>

\* Any other error, EBADF included: perror and exit(EXIT_FAILURE).
SendFails ==
  /\ pc = "sendto"
  /\ ~sock_ok \/ "sendto" \in KernelErrors
  /\ pc' = "failed"
  /\ UNCHANGED <<clock, mainVars, counters, context, status, locals, packet,
                 history, budget, pathVars>>
-----------------------------------------------------------------------------
(* throttled_receive *)

\* max_packets * 1000
MaxPackets == args.pps * (clock - startup_date)

\* Mutant: the query just sent is left out of the excess.
Excess_Previous == MsPerSec * (sent_packets - 1) - MaxPackets

\* excess * 1000
Excess == MsPerSec * sent_packets - MaxPackets

(***************************************************************************)
(* The values the int remaining_time may get in the sending loop: the      *)
(* milliseconds that excess makes at pps, rounded down, a negative number  *)
(* made zero.  The source computes in floating point, so that a wait of a  *)
(* whole number of milliseconds may come out one too short.  With pps = 0  *)
(* it divides by zero; infinity converts to the least int, hence to zero.  *)
(***************************************************************************)
TimesToWait ==
  IF args.pps > 0 /\ Excess > 0
  THEN LET w == Excess \div args.pps
       IN  {w} \cup (IF args.pps * w = Excess THEN {w - 1} ELSE {})
  ELSE {0}

\* Mutant: the drain polls without a timeout.
DrainWait_Forever == -1

\* remaining_time = context->timeout, once the sending is over.
DrainWait == ToInt(timeout)

ThrottledReceive ==
  /\ pc = "throttle"
  /\ now' = clock
  /\ remaining_time' \in IF sending THEN TimesToWait ELSE {DrainWait}
  /\ pc' = IF sending /\ Excess <= 0 THEN "flush" ELSE "poll"
  /\ UNCHANGED <<clock, mainVars, counters, context, status, deadline, packet,
                 history, budget, pathVars>>

Poll ==
  /\ pc = "poll"
  /\ deadline' = clock + remaining_time
  /\ pc' = "polling"
  /\ UNCHANGED <<clock, mainVars, counters, context, status, now,
                 remaining_time, packet, history, budget, pathVars>>

PollReady ==
  /\ pc = "polling"
  /\ rcvbuf # <<>>
  /\ pc' = "empty"
  /\ UNCHANGED <<clock, mainVars, counters, context, status, locals, packet,
                 history, budget, pathVars>>

\* A negative timeout makes poll wait for ever.
PollTimesOut ==
  /\ pc = "polling"
  /\ rcvbuf = <<>>
  /\ remaining_time >= 0 /\ clock >= deadline
  /\ pc' = "return"
  /\ \/ /\ ~sending
        /\ failed_packets' = failed_packets + 1
        /\ UNCHANGED status
     \/ /\ sending
        /\ PeriodicallyUpdateStatus
        /\ UNCHANGED failed_packets
  /\ UNCHANGED <<clock, mainVars, sent_packets, received_packets, context,
                 locals, packet, history, budget, pathVars>>

\* Mutant: throttled_receive calls poll once, whatever wakes it up.
WaitIsOver_AtOnce == TRUE

\* while (remaining_time > 0)
WaitIsOver == remaining_time <= 0

\* EINTR: continue jumps to the test of the do loop, which waits anew.
PollInterrupted ==
  /\ pc = "polling"
  /\ intr < MaxIntr
  /\ intr' = intr + 1
  /\ pc' = IF WaitIsOver THEN "return" ELSE "poll"
  /\ UNCHANGED <<clock, mainVars, counters, context, status, locals, packet,
                 history, lag, pathVars>>

PollFails ==
  /\ pc = "polling"
  /\ "poll" \in KernelErrors
  /\ pc' = "failed"
  /\ UNCHANGED <<clock, mainVars, counters, context, status, locals, packet,
                 history, budget, pathVars>>
-----------------------------------------------------------------------------
(* receive and empty_receive_queue: "flush" is the call before the poll    *)
(* loop, "empty" the one in it.                                            *)

Receiving == pc \in {"flush", "empty"}

\* Mutant: the number that is printed, received_id + 1, is the index.
ReportedTime_Printed(i) ==
  IF i + 1 < Slots THEN clock - datagram_start[i + 1] ELSE Garbage

ReportedTime(i) ==
  IF i < Slots THEN clock - datagram_start[i] ELSE Garbage

\* Mutant: no more answers are counted than queries were sent.
CountAnswer_Capped ==
  received_packets' = received_packets
                      + IF received_packets < sent_packets THEN 1 ELSE 0

CountAnswer == received_packets' = received_packets + 1

Receive ==
  /\ Receiving
  /\ TakeAnswer
  /\ CountAnswer
  /\ query_time' = [n |-> Head(rcvbuf).n, at |-> clock,
                    elapsed |-> ReportedTime(Head(rcvbuf).id)]
  /\ answered' = answered \cup {Head(rcvbuf).n}
  /\ UNCHANGED <<pc, clock, mainVars, sent_packets, failed_packets, context,
                 status, locals, packet, sent_at, budget>>

\* Mutant: a call that was interrupted is taken for an answer.
ReceiveRetry_Counts ==
  /\ Receiving
  /\ intr < MaxIntr
  /\ intr' = intr + 1
  /\ received_packets' = received_packets + 1
  /\ UNCHANGED <<pc, clock, mainVars, sent_packets, failed_packets, context,
                 status, locals, packet, history, lag, pathVars>>

ReceiveRetry ==
  /\ Receiving
  /\ intr < MaxIntr
  /\ intr' = intr + 1
  /\ UNCHANGED <<pc, clock, mainVars, counters, context, status, locals,
                 packet, history, lag, pathVars>>

\* Neither EAGAIN nor EINTR: assert(errno == EINTR) aborts.
ReceiveFails ==
  /\ Receiving
  /\ "recv" \in KernelErrors
  /\ pc' = "aborted"
  /\ UNCHANGED <<clock, mainVars, counters, context, status, locals, packet,
                 history, budget, pathVars>>

FlushDone ==
  /\ pc = "flush"
  /\ rcvbuf = <<>>
  /\ PeriodicallyUpdateStatus
  /\ pc' = "poll"
  /\ UNCHANGED <<clock, mainVars, counters, context, locals, packet, history,
                 budget, pathVars>>

\* Mutant: answers that come in do not shorten the wait.
LeftToWait_Whole == remaining_time

\* remaining_time -= (now2 - now), computed as unsigned and kept as an int
LeftToWait == ToInt(remaining_time - (clock - now))

\* The wait goes on for what is left of it after the answers were counted.
EmptyDone ==
  /\ pc = "empty"
  /\ rcvbuf = <<>>
  /\ PeriodicallyUpdateStatus
  /\ remaining_time' = LeftToWait
  /\ now' = clock
  /\ pc' = IF WaitIsOver' THEN "return" ELSE "poll"
  /\ UNCHANGED <<clock, mainVars, counters, context, deadline, packet,
                 history, budget, pathVars>>
-----------------------------------------------------------------------------
(* main *)

\* The locals of throttled_receive are gone once it returns.
DropLocals == now' = 0 /\ remaining_time' = 0 /\ deadline' = 0

\* while (--send_count > 0UL)
NextTurn ==
  /\ pc = "return"
  /\ send_count > 1
  /\ send_count' = send_count - 1
  /\ pc' = "blast"
  /\ DropLocals
  /\ UNCHANGED <<clock, args, drain_start, counters, context, status, packet,
                 history, budget, pathVars>>

\* The last query is out: a status line, and from here on sending = 0.
StartDrain ==
  /\ pc = "return"
  /\ send_count = 1
  /\ send_count' = 0
  /\ UpdateStatus
  /\ sending' = FALSE
  /\ drain_start' = clock
  /\ pc' = "drain"
  /\ DropLocals
  /\ UNCHANGED <<clock, args, counters, timeout, id, fuzz, sock_ok,
                 datagram_start, last_status_update, packet, history, budget,
                 pathVars>>

\* Mutant: the drain is as long as the longest silence of the server.
DrainOver_Silence == clock - now > args.timeout

DrainOver == clock - drain_start > args.timeout

\* The break of the drain loop, and its next turn.
DrainTurn ==
  /\ pc = "return"
  /\ send_count = 0
  /\ pc' = IF DrainOver THEN "close" ELSE "drain"
  /\ DropLocals
  /\ UNCHANGED <<clock, mainVars, counters, context, status, packet, history,
                 budget, pathVars>>

\* while (sent_packets != received_packets)
DrainTest ==
  /\ pc = "drain"
  /\ pc' = IF sent_packets = received_packets THEN "close" ELSE "throttle"
  /\ UNCHANGED <<clock, mainVars, counters, context, status, locals, packet,
                 history, budget, pathVars>>

Close ==
  /\ pc = "close"
  /\ UpdateStatus
  /\ pc' = "done"
  /\ UNCHANGED <<clock, mainVars, counters, context, last_status_update,
                 locals, packet, history, budget, pathVars>>
-----------------------------------------------------------------------------
(* The environment *)

Ended == pc \in {"done", "failed", "aborted"}

Path ==
  /\ ~Ended
  /\ PathNext
  /\ UNCHANGED <<pc, clock, mainVars, counters, context, status, locals,
                 packet, history, budget>>

\* The program sleeps in poll: time passes up to the deadline.
Sleep ==
  /\ pc = "polling"
  /\ rcvbuf = <<>>
  /\ remaining_time >= 0 /\ clock < deadline
  /\ clock' = clock + 1
  /\ UNCHANGED <<pc, mainVars, counters, context, status, locals, packet,
                 history, budget, pathVars>>

\* The program computes, is preempted, or wakes up late.
Delay ==
  /\ ~Ended
  /\ lag < MaxLag
  /\ lag' = lag + 1
  /\ clock' = clock + 1
  /\ UNCHANGED <<pc, mainVars, counters, context, status, locals, packet,
                 history, intr, pathVars>>

Finished == Ended /\ UNCHANGED vars

Sending == BlastQuery \/ SendTo \/ SendRetry \/ SendFails
Throttling ==
  \/ ThrottledReceive \/ Poll \/ PollReady \/ PollTimesOut
  \/ PollInterrupted \/ PollFails
Counting == Receive \/ ReceiveRetry \/ ReceiveFails \/ FlushDone \/ EmptyDone
Main == NextTurn \/ StartDrain \/ DrainTurn \/ DrainTest \/ Close

Program == Sending \/ Throttling \/ Counting \/ Main

Next == Program \/ Path \/ Sleep \/ Delay \/ Finished

Spec == Init /\ [][Next]_vars

\* A step of the program that no signal has to bring about.
Undisturbed == Program /\ intr' = intr

\* The kernel runs the program whenever it is not asleep, and time passes
\* while it is; nothing is assumed of the path, and no signal has to come.
FairSpec == Spec /\ WF_vars(Undisturbed) /\ WF_vars(Sleep)
-----------------------------------------------------------------------------
(* Properties *)

ControlPoints ==
  {"blast", "sendto", "throttle", "flush", "poll", "polling", "empty",
   "return", "drain", "close", "done", "failed", "aborted"}

MainTypeOK ==
  /\ args \in [count : Counts, pps : Rates, timeout : Timeouts]
  /\ send_count \in 0 .. args.count
  /\ drain_start \in 0 .. clock

CountersTypeOK ==
  sent_packets \in Nat /\ received_packets \in Nat /\ failed_packets \in Nat

ContextTypeOK ==
  /\ timeout \in Nat
  /\ sending \in BOOLEAN /\ fuzz \in BOOLEAN /\ sock_ok \in BOOLEAN
  /\ id \in Ids
  /\ datagram_start \in [0 .. Slots - 1 -> 0 .. clock]

ReplyRates == Nat \cup {Garbage}

StatusTypeOK ==
  /\ last_status_update \in StartDate .. clock
  /\ rate \in ReplyRates
  /\ shown \in [sent : Nat, received : Nat, rate : ReplyRates]

LocalsTypeOK ==
  now \in 0 .. clock /\ remaining_time \in Int /\ deadline \in Int

HistoryTypeOK ==
  /\ query_time \in [n : Nat, at : Nat, elapsed : Nat \cup {Garbage}]
  /\ sent_at \in Seq(Nat)
  /\ answered \subseteq Nat

\* Every variable keeps its type; in particular an id always has 16 bits, and
\* no time that is kept is later than the clock.
TypeOK ==
  /\ pc \in ControlPoints
  /\ clock \in Nat /\ StartDate <= clock
  /\ MainTypeOK
  /\ CountersTypeOK
  /\ ContextTypeOK
  /\ StatusTypeOK
  /\ LocalsTypeOK
  /\ packet \in Datagrams
  /\ HistoryTypeOK
  /\ intr \in Nat /\ lag \in Nat
  /\ PathTypeOK

\* Every query sendto took is accounted for: counted by receive as an answer,
\* waiting in the socket, still under way, or lost; only the copies the path
\* makes are counted beyond that.  blast and receive each count a datagram
\* once, whatever is retried and wherever poll is interrupted.
Conservation ==
  received_packets + Len(rcvbuf) + Cardinality(wire) + lost
    = sent_packets + dups

\* With n queries out at time t the next one is due: n is no more than pps
\* allows up to the end of that millisecond.
OnTime(n, t) == MsPerSec * n <= args.pps * (t - startup_date + 1)

\* throttled_receive holds the sending loop back: after elapsed milliseconds
\* no more than pps * elapsed / 1000 queries, and the one that is due at
\* that moment, have been sent.  It holds however the wait is cut short by
\* answers, by signals and by the rounding of the wait to a millisecond.
Paced ==
  (sending /\ args.pps > 0) =>
    OnTime(sent_packets - 1, clock)

\* The wait, a double, is converted to an int that holds it: the program is
\* never more than one query ahead, so it never has to wait for much more
\* than a second, whatever the count and the rate.
WaitFitsInt ==
  (pc = "throttle" /\ sending) => \A w \in TimesToWait : w <= MsPerSec + 1

\* The loop does not fall behind the requested rate on its own: answers that
\* wake poll up do not make it wait longer.  Only time the program did not
\* run (lag) and waits that a signal made poll start anew delay a query.
KeepsUp ==
  (sending /\ args.pps > 0) =>
    args.pps * (clock - startup_date - lag)
      <= MsPerSec * sent_packets + intr * (MsPerSec + args.pps)

\* The drain loop of main ends in time: at most one wait of throttled_receive
\* starts before the timeout is over, and no answer, late or doubled,
\* prolongs it; a signal does, by the wait it makes start anew.
DrainBounded ==
  (send_count = 0 /\ timeout = args.timeout /\ timeout < IntMax) =>
    clock - drain_start <= (2 + intr) * args.timeout + lag

\* A ratio of 100% means what it says unless the path doubles an answer:
\* receive looks at no id, yet then every query has been answered.
FullRatioMeansAllAnswered ==
  (pc = "done" /\ shown.received = shown.sent /\ dups = 0) =>
    answered = 1 .. args.count

\* The query time receive reports never is longer than the true one, and is
\* the true one as long as no id has been used twice.
QueryTimeSound ==
  (~fuzz /\ query_time.n > 0 /\ query_time.elapsed # Garbage) =>
    LET true_time == query_time.at - sent_at[query_time.n]
    IN  /\ query_time.elapsed <= true_time
        /\ Len(sent_at) <= IdSpace => query_time.elapsed = true_time

\* How the states of the program look in LoadTest.
Phase ==
  CASE pc = "done" -> "over"
    [] pc \in {"failed", "aborted"} -> "failed"
    [] ~Ended -> IF send_count > 0 THEN "sending" ELSE "draining"

Verdict ==
  IF pc = "done" THEN [sent |-> shown.sent, received |-> shown.received]
                 ELSE [sent |-> 0, received |-> 0]

\* The load tester keeps the promise of LoadTest: sendto is called only when
\* a query is due, the drain begins only with the last query out, and the
\* final status line shows the counters as they are when every answer is in
\* or the timeout is over.  A test that fails gives no verdict.
Promise == INSTANCE LoadTest WITH
  phase <- Phase,
  sent <- sent_packets,
  received <- received_packets,
  last_sent <- drain_start,
  verdict <- Verdict

ImplementsLoadTest == Promise!Spec

\* A run whose timeout poll can wait for ends, with its verdict, whatever
\* becomes of the datagrams.
Termination == <>(pc = "done")

\* README: the tool sends "the total number of queries you want to send".
\* Unless the kernel fails a call, the run does not stop short of that.
DeliversVerdict == pc = "failed" => KernelErrors # {}

\* README: "Reply rate" is how fast the server replies, a number.
RateIsMeasured == shown.rate # Garbage
=============================================================================
