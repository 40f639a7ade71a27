------------------------- MODULE DnsBlastPaceProofs -------------------------
(***************************************************************************)
(* Why the load tester never sends faster than it was asked to, nor, left  *)
(* alone, slower.  The int remaining_time is a promise: at now +           *)
(* remaining_time, whenever that is, the next query is due.  Everything    *)
(* that happens in throttled_receive keeps the promise, and it returns     *)
(* only when that time has come (PaceInv), and not later (KeepInv).        *)
(***************************************************************************)
EXTENDS DnsBlastProofs

Waiting == pc \in {"flush", "poll", "polling", "empty"}

PaceInv ==
  (sending /\ args.pps > 0) =>
    /\ OnTime(sent_packets - 1, clock)
    /\ pc \in {"blast", "sendto", "return"} => OnTime(sent_packets, clock)
    /\ Waiting => OnTime(sent_packets, now + remaining_time)
    /\ pc = "polling" => deadline >= now + remaining_time

\* What keeps LeftToWait from wrapping around to a shorter wait.
WaitInv == remaining_time < IntMax
-----------------------------------------------------------------------------
LEMMA OnTimeLater ==
  ASSUME MainTypeOK, NEW n \in Int, NEW t \in Int, NEW u \in Int, t <= u,
         OnTime(n, t)
  PROVE  OnTime(n, u)
<1> DEFINE a == t - startup_date + 1
           b == u - startup_date + 1
<1>1. a \in Int /\ b \in Int /\ a <= b
  BY BlastAssumption DEF startup_date
<1>2. args.pps * a <= args.pps * b
  <2> HIDE DEF a, b
  <2> QED
    BY <1>1, ArgsTypes, Monotone
<1>3. args.pps * a \in Int /\ args.pps * b \in Int /\ MsPerSec * n \in Int
  BY <1>1, ArgsTypes, BlastAssumption
<1> QED
  BY <1>2, <1>3 DEF OnTime

LEMMA OnTimeFewer ==
  ASSUME MainTypeOK, NEW n \in Int, NEW t \in Int, OnTime(n, t)
  PROVE  OnTime(n - 1, t)
<1> DEFINE a == t - startup_date + 1
<1>1. a \in Int
  BY BlastAssumption DEF startup_date
<1>2. args.pps * a \in Int /\ MsPerSec * n \in Int
  BY <1>1, ArgsTypes, BlastAssumption
<1>3. MsPerSec * (n - 1) <= MsPerSec * n
  BY BlastAssumption, Monotone
<1>4. MsPerSec * (n - 1) \in Int
  BY BlastAssumption
<1> QED
  BY <1>2, <1>3, <1>4 DEF OnTime

\* A wait that throttled_receive computes is long enough.
LEMMA WaitSuffices ==
  ASSUME TypeOK, args.pps > 0, NEW w \in TimesToWait
  PROVE  OnTime(sent_packets, clock + w)
<1> DEFINE p == args.pps
           e == clock - startup_date
           s == MsPerSec * sent_packets
           x == Excess
<1>1. p \in Nat \ {0} /\ e \in Nat /\ s \in Nat /\ w \in Nat /\ x \in Int
  BY ThrottleTypes, TimesToWaitType, BlastAssumption DEF TypeOK, startup_date
<1>2. x = s - p * e /\ p * e \in Nat
  BY ThrottleTypes DEF Excess, MaxPackets
<1>3. x <= p * w + p
  <2>1. CASE w = x \div p /\ x > 0
    <3> HIDE DEF p, x
    <3> QED
      BY <1>1, <2>1, Quotient
  <2>2. CASE p * (w + 1) = x
    <3> HIDE DEF p, x
    <3> QED
      BY <1>1, <2>2
  <2>3. CASE x <= 0
    <3> HIDE DEF p, x
    <3>1. p * w \in Nat
      BY <1>1, Product
    <3> QED
      BY <1>1, <2>3, <3>1
  <2> QED
    BY <1>1, <2>1, <2>2, <2>3, TimesToWaitCases
<1>4. s <= p * (e + w + 1)
  <2> HIDE DEF p, e, s, x
  <2>1. p * (e + w + 1) = p * e + p * w + p /\ p * w \in Nat
    BY <1>1, Product
  <2> QED
    BY <1>1, <1>2, <1>3, <2>1
<1>5. e + w + 1 = (clock + w) - startup_date + 1
  BY <1>1, BlastAssumption DEF startup_date, TypeOK
<1>6. s <= p * ((clock + w) - startup_date + 1)
  <2> HIDE DEF p, e, s
  <2> QED
    BY <1>4, <1>5
<1> QED
  BY <1>6 DEF OnTime

\* A query that is one ahead is due soon: the wait for it fits an int.
LEMMA WaitIsShort ==
  ASSUME TypeOK, args.pps > 0 => OnTime(sent_packets - 1, clock),
         NEW w \in TimesToWait
  PROVE  w <= MsPerSec + 1
<1> DEFINE p == args.pps
           e == clock - startup_date
           s == MsPerSec * sent_packets
           x == Excess
<1>1. /\ p \in Nat /\ e \in Nat /\ s \in Nat /\ w \in Nat /\ x \in Int
      /\ MsPerSec \in Nat \ {0} /\ sent_packets \in Nat
  BY ThrottleTypes, TimesToWaitType, BlastAssumption
     DEF TypeOK, CountersTypeOK, startup_date
<1>2. CASE p > 0 /\ x > 0
  <2>1. w = x \div p \/ w = x \div p - 1
    BY <1>1, <1>2, TimesToWaitCases
  <2>2. x <= MsPerSec + p
    <3>1. MsPerSec * (sent_packets - 1) <= p * (e + 1)
      BY <1>2, BlastAssumption DEF OnTime
    <3>2. MsPerSec * (sent_packets - 1) = s - MsPerSec
      BY <1>1
    <3>3. x = s - p * e /\ p * e \in Nat
      BY ThrottleTypes DEF Excess, MaxPackets
    <3> HIDE DEF p, e, s, x
    <3>4. p * (e + 1) = p * e + p
      BY <1>1
    <3> QED
      BY <1>1, <3>1, <3>2, <3>3, <3>4
  <2> HIDE DEF p, x
  <2>3. w <= x \div p /\ x \div p \in Nat /\ p * (x \div p) <= x
    BY <1>1, <1>2, <2>1, Quotient
  <2>4. p * w <= p * (x \div p) /\ p * w \in Nat /\ p * (x \div p) \in Nat
    BY <1>1, <2>3, Monotone, Product
  <2>5. p * (w - 1) <= MsPerSec
    <3>1. p * (w - 1) = p * w - p
      BY <1>1
    <3> QED
      BY <1>1, <2>2, <2>3, <2>4, <3>1
  <2>6. CASE w > 0
    <3>1. (w - 1) * 1 <= (w - 1) * p
      BY <1>1, <1>2, <2>6, Monotone
    <3>2. (w - 1) * p = p * (w - 1) /\ p * (w - 1) \in Int
      BY <1>1
    <3> QED
      BY <1>1, <2>5, <3>1, <3>2
  <2> QED
    BY <1>1, <2>6
<1>3. CASE ~(p > 0 /\ x > 0)
  BY <1>1, <1>3, TimesToWaitCases
<1> QED
  BY <1>2, <1>3

\* A step that sends nothing and does not touch the wait: the clock may move.
LEMMA PaceIdle ==
  ASSUME TypeOK, PaceInv, UNCHANGED <<args, sent_packets, locals>>,
         sending' => sending,
         clock' = clock \/ clock' = clock + 1,
         \/ UNCHANGED pc
         \/ pc' = "sendto" /\ pc = "blast"
         \/ Waiting /\ Waiting' /\ pc' # "polling"
         \/ pc' \notin {"blast", "sendto", "return"} /\ ~Waiting'
  PROVE  PaceInv'
<1> SUFFICES ASSUME sending, args.pps > 0
             PROVE  PaceInv'
  BY DEF PaceInv
<1>1. /\ MainTypeOK /\ clock \in Int /\ clock' \in Int /\ clock <= clock'
      /\ sent_packets \in Int /\ sent_packets - 1 \in Int
  BY DEF TypeOK, CountersTypeOK
<1>2. /\ OnTime(sent_packets - 1, clock')
      /\ pc \in {"blast", "sendto", "return"} => OnTime(sent_packets, clock')
  BY <1>1, OnTimeLater DEF PaceInv
<1>3. /\ OnTime(sent_packets - 1, clock)'
      /\ pc \in {"blast", "sendto", "return"} => OnTime(sent_packets, clock)'
  BY <1>2 DEF OnTime, startup_date
<1>4. /\ Waiting => OnTime(sent_packets, now + remaining_time)'
      /\ pc = "polling" => deadline' >= now' + remaining_time'
  BY DEF PaceInv, OnTime, startup_date, locals
<1> QED
  BY <1>3, <1>4 DEF PaceInv, Waiting

\* A step after which throttled_receive is over, or not begun.
LEMMA PaceBetween ==
  ASSUME TypeOK, PaceInv, UNCHANGED <<args, clock, sent_packets>>,
         sending' => sending, ~Waiting',
         pc' \in {"blast", "sendto", "return"} /\ sending /\ args.pps > 0
           => OnTime(sent_packets, clock)
  PROVE  PaceInv'
<1> SUFFICES ASSUME sending, args.pps > 0
             PROVE  PaceInv'
  BY DEF PaceInv
<1>1. OnTime(sent_packets - 1, clock)'
  BY DEF PaceInv, OnTime, startup_date
<1>2. pc' \in {"blast", "sendto", "return"} => OnTime(sent_packets, clock)'
  BY DEF OnTime, startup_date
<1> QED
  BY <1>1, <1>2 DEF PaceInv, Waiting

LEMMA PaceInit == Init => PaceInv
<1> SUFFICES ASSUME Init, args.pps > 0
             PROVE  OnTime(0, StartDate) /\ OnTime(-1, StartDate)
  BY DEF Init, PaceInv, Waiting
<1>1. MainTypeOK
  BY TypeInit DEF TypeOK
<1>2. OnTime(0, StartDate)
  BY <1>1, ArgsTypes, BlastAssumption DEF OnTime, startup_date
<1>3. OnTime(0 - 1, StartDate)
  BY <1>1, <1>2, OnTimeFewer, BlastAssumption
<1> QED
  BY <1>2, <1>3

\* sendto is called only on time, so that one more query is at most one ahead.
LEMMA PaceSendTo ==
  ASSUME TypeOK, PaceInv, SendTo
  PROVE  PaceInv'
<1> SUFFICES ASSUME sending, args.pps > 0
             PROVE  PaceInv'
  BY DEF PaceInv, SendTo, context, mainVars
<1>1. OnTime(sent_packets, clock)
  BY DEF PaceInv, SendTo
<1>2. sent_packets' - 1 = sent_packets
  BY DEF SendTo, TypeOK, CountersTypeOK
<1>3. OnTime(sent_packets - 1, clock)'
  BY <1>1, <1>2 DEF OnTime, SendTo, startup_date, mainVars
<1> QED
  BY <1>3 DEF PaceInv, Waiting, SendTo

LEMMA PaceThrottledReceive ==
  ASSUME TypeOK, PaceInv, ThrottledReceive
  PROVE  PaceInv'
<1> SUFFICES ASSUME sending, args.pps > 0
             PROVE  PaceInv'
  BY DEF PaceInv, ThrottledReceive, context, mainVars
<1>1. OnTime(sent_packets - 1, clock)'
  BY DEF PaceInv, OnTime, ThrottledReceive, startup_date, mainVars, counters
<1>2. OnTime(sent_packets, now + remaining_time)'
  <2>1. remaining_time' \in TimesToWait
    BY DEF ThrottledReceive
  <2>2. OnTime(sent_packets, clock + remaining_time')
    BY <2>1, WaitSuffices
  <2> QED
    BY <2>2 DEF OnTime, ThrottledReceive, startup_date, mainVars, counters
<1> QED
  BY <1>1, <1>2 DEF PaceInv, ThrottledReceive

LEMMA PacePoll ==
  ASSUME TypeOK, PaceInv, Poll
  PROVE  PaceInv'
<1> SUFFICES ASSUME sending, args.pps > 0
             PROVE  PaceInv'
  BY DEF PaceInv, Poll, context, mainVars
<1>1. OnTime(sent_packets - 1, clock)'
  BY DEF PaceInv, OnTime, Poll, startup_date, mainVars, counters
<1>2. OnTime(sent_packets, now + remaining_time)'
  BY DEF PaceInv, Waiting, OnTime, Poll, startup_date, mainVars, counters
<1>3. deadline' >= now' + remaining_time'
  BY DEF Poll, TypeOK, LocalsTypeOK
<1> QED
  BY <1>1, <1>2, <1>3 DEF PaceInv, Poll

\* throttled_receive returns: what it promised for the end of the wait is
\* true by now, whether poll has timed out or the time has run out.
LEMMA PaceReturn ==
  ASSUME TypeOK, PaceInv, sending, args.pps > 0,
         PollTimesOut \/ (PollInterrupted /\ WaitIsOver)
  PROVE  OnTime(sent_packets, clock)
<1>1. /\ MainTypeOK /\ sent_packets \in Int /\ clock \in Int
      /\ now + remaining_time \in Int
  BY DEF TypeOK, CountersTypeOK, LocalsTypeOK
<1>2. OnTime(sent_packets, now + remaining_time)
  BY DEF PaceInv, Waiting, PollTimesOut, PollInterrupted
<1>3. now + remaining_time <= clock
  <2>1. CASE PollTimesOut
    BY <2>1 DEF PaceInv, PollTimesOut, TypeOK, LocalsTypeOK
  <2>2. CASE WaitIsOver
    BY <2>2 DEF WaitIsOver, TypeOK, LocalsTypeOK
  <2> QED
    BY <2>1, <2>2
<1> QED
  BY <1>1, <1>2, <1>3, OnTimeLater

\* The wait that goes on after answers were counted ends no earlier.
LEMMA PaceEmptyDone ==
  ASSUME TypeOK, PaceInv, WaitInv, EmptyDone
  PROVE  PaceInv'
<1> SUFFICES ASSUME sending, args.pps > 0
             PROVE  PaceInv'
  BY DEF PaceInv, EmptyDone, context, mainVars
<1>1. /\ MainTypeOK /\ sent_packets \in Int /\ clock \in Int /\ now \in Int
      /\ remaining_time \in Int /\ now <= clock /\ remaining_time < IntMax
  BY DEF WaitInv, TypeOK, CountersTypeOK, LocalsTypeOK
<1>2. remaining_time' = LeftToWait /\ LeftToWait \in Int
  BY <1>1, ToIntType DEF EmptyDone, LeftToWait
<1>3. now + remaining_time <= clock + LeftToWait
  <2> DEFINE left == remaining_time - (clock - now)
  <2>1. left \in Int /\ left < IntMax /\ now + remaining_time = clock + left
    BY <1>1, BlastAssumption
  <2>2. LeftToWait >= left
    BY <2>1, ToIntLarger DEF LeftToWait
  <2> HIDE DEF left
  <2> QED
    BY <1>1, <1>2, <2>1, <2>2
<1>4. OnTime(sent_packets, clock + LeftToWait)
  <2>1. OnTime(sent_packets, now + remaining_time)
    BY DEF PaceInv, Waiting, EmptyDone
  <2> QED
    BY <1>1, <1>2, <1>3, <2>1, OnTimeLater
<1>5. OnTime(sent_packets, now + remaining_time)'
  BY <1>2, <1>4 DEF OnTime, EmptyDone, startup_date, mainVars, counters
<1>6. OnTime(sent_packets - 1, clock)'
  BY DEF PaceInv, OnTime, EmptyDone, startup_date, mainVars, counters
<1>7. pc' = "return" => OnTime(sent_packets, clock)'
  <2> SUFFICES ASSUME pc' = "return" PROVE OnTime(sent_packets, clock)'
    OBVIOUS
  <2>1. LeftToWait <= 0
    BY <1>2 DEF EmptyDone, WaitIsOver
  <2>2. OnTime(sent_packets, clock)
    BY <1>1, <1>2, <1>4, <2>1, OnTimeLater
  <2> QED
    BY <2>2 DEF OnTime, EmptyDone, startup_date, mainVars, counters
<1> QED
  BY <1>5, <1>6, <1>7 DEF PaceInv, Waiting, EmptyDone, WaitIsOver
-----------------------------------------------------------------------------
LEMMA WaitStep ==
  ASSUME TypeOK, PaceInv, WaitInv, [Next]_vars
  PROVE  WaitInv'
<1>1. CASE ThrottledReceive
  <2>1. CASE sending
    <3>1. remaining_time' \in TimesToWait
      BY <1>1, <2>1 DEF ThrottledReceive
    <3>2. remaining_time' <= MsPerSec + 1 /\ remaining_time' \in Nat
      BY <2>1, <3>1, WaitIsShort, TimesToWaitType DEF PaceInv
    <3> QED
      BY <3>2, BlastAssumption DEF WaitInv
  <2>2. CASE ~sending
    <3>1. timeout \in Int
      BY DEF TypeOK, ContextTypeOK
    <3> QED
      BY <1>1, <2>2, <3>1, ToIntBounded
         DEF ThrottledReceive, DrainWait, WaitInv
  <2> QED
    BY <2>1, <2>2
<1>2. CASE EmptyDone
  <2>1. remaining_time - (clock - now) \in Int
    BY DEF TypeOK, LocalsTypeOK
  <2> QED
    BY <1>2, <2>1, ToIntBounded DEF EmptyDone, LeftToWait, WaitInv
<1>3. CASE NextTurn \/ StartDrain \/ DrainTurn
  BY <1>3, BlastAssumption
     DEF NextTurn, StartDrain, DrainTurn, DropLocals, WaitInv
<1>4. CASE Sending \/ Receive \/ ReceiveRetry \/ ReceiveFails \/ FlushDone
  BY <1>4
     DEF Sending, BlastQuery, SendTo, SendRetry, SendFails, Receive,
         ReceiveRetry, ReceiveFails, FlushDone, locals, WaitInv
<1>5. CASE Poll \/ PollReady \/ PollTimesOut \/ PollInterrupted \/ PollFails
  BY <1>5
     DEF Poll, PollReady, PollTimesOut, PollInterrupted, PollFails, locals,
         WaitInv
<1>6. CASE DrainTest \/ Close \/ Path \/ Sleep \/ Delay \/ UNCHANGED vars
  BY <1>6 DEF DrainTest, Close, Path, Sleep, Delay, vars, locals, WaitInv
<1> QED
  BY <1>1, <1>2, <1>3, <1>4, <1>5, <1>6
     DEF Next, Program, Throttling, Counting, Main, Finished

LEMMA PaceStep ==
  ASSUME TypeOK, PaceInv, WaitInv, [Next]_vars
  PROVE  PaceInv'
<1> USE DEF mainVars, counters, context
<1>1. CASE BlastQuery
  BY <1>1, PaceIdle DEF BlastQuery, StoreStart, Waiting
<1>2. CASE SendTo
  BY <1>2, PaceSendTo
<1>3. CASE SendRetry \/ SendFails
  BY <1>3, PaceIdle DEF SendRetry, SendFails, Waiting
<1>4. CASE ThrottledReceive
  BY <1>4, PaceThrottledReceive
<1>5. CASE Poll
  BY <1>5, PacePoll
<1>6. CASE PollReady \/ PollFails \/ (PollInterrupted /\ ~WaitIsOver)
  BY <1>6, PaceIdle DEF PollReady, PollFails, PollInterrupted, Waiting
<1>7. CASE PollTimesOut \/ (PollInterrupted /\ WaitIsOver)
  BY <1>7, PaceBetween, PaceReturn DEF PollTimesOut, PollInterrupted, Waiting
<1>8. CASE Receive \/ ReceiveRetry \/ ReceiveFails \/ FlushDone
  BY <1>8, PaceIdle
     DEF Receive, ReceiveRetry, ReceiveFails, FlushDone, Receiving, Waiting
<1>9. CASE EmptyDone
  BY <1>9, PaceEmptyDone
<1>10. CASE NextTurn
  BY <1>10, PaceBetween DEF PaceInv, NextTurn, Waiting
<1>11. CASE StartDrain \/ DrainTurn
  BY <1>11, PaceBetween DEF StartDrain, DrainTurn, Waiting
<1>12. CASE DrainTest \/ Close
  BY <1>12, PaceIdle DEF DrainTest, Close, Waiting
<1>13. CASE Path \/ Sleep \/ Delay \/ UNCHANGED vars
  BY <1>13, PaceIdle DEF Path, Sleep, Delay, vars, Waiting
<1> QED
  BY <1>1, <1>2, <1>3, <1>4, <1>5, <1>6, <1>7, <1>8, <1>9, <1>10, <1>11,
     <1>12, <1>13
     DEF Next, Program, Sending, Throttling, Counting, Main, Finished

THEOREM PaceInvariant == Spec => [](TypeOK /\ PaceInv /\ WaitInv)
<1>1. Init => WaitInv
  BY BlastAssumption DEF Init, WaitInv
<1>2. TypeOK /\ PaceInv /\ WaitInv /\ [Next]_vars => PaceInv' /\ WaitInv'
  BY PaceStep, WaitStep
<1> QED
  BY <1>1, <1>2, PaceInit, TypeCorrect, PTL DEF Spec

\* The sending loop keeps to the rate it was given, for every rate, number of
\* queries and length of a second, whatever answers, signals and delays meet
\* it on the way.
THEOREM PacedCorrect == Spec => []Paced
<1>1. PaceInv => Paced
  BY DEF PaceInv, Paced
<1> QED
  BY <1>1, PaceInvariant, PTL

\* The wait in front of a query never is longer than a second and a bit, so
\* that its conversion from double to int is defined.
THEOREM WaitFitsIntCorrect == Spec => []WaitFitsInt
<1>1. TypeOK /\ PaceInv => WaitFitsInt
  BY WaitIsShort DEF PaceInv, WaitFitsInt
<1> QED
  BY <1>1, PaceInvariant, PTL
-----------------------------------------------------------------------------
(* The other side: the loop does not fall behind the rate.  InTime says so *)
(* of n queries at the time t, with delays of l and i signals, in all.  As *)
(* in PaceInv, what is said of the clock is said of the end of the wait    *)
(* while there is one.                                                     *)

InTime(t, l, n, i) ==
  args.pps * (t - StartDate - l) <= MsPerSec * n + i * (MsPerSec + args.pps)

\* How far now can be behind the clock, with delays of l and i signals
Reach(l, i) == l + (1 + i) * (MsPerSec + 1)

\* An int holds that time, so that LeftToWait does not wrap.
Fits == Reach(lag, intr) < IntMax

Kept(t) == InTime(t, lag, sent_packets, intr)

KeepInv ==
  (sending /\ args.pps > 0 /\ Fits) =>
    /\ Kept(clock)
    /\ Waiting =>
         /\ remaining_time \in 0 .. MsPerSec + 1
         /\ args.pps * remaining_time <= MsPerSec + args.pps
         /\ Kept(now + remaining_time)
    /\ pc \in {"flush", "poll"} =>
         /\ Kept(clock + remaining_time)
         /\ clock - now + remaining_time <= Reach(lag, intr)
    /\ pc = "polling" =>
         /\ Kept(deadline)
         /\ deadline - now <= Reach(lag, intr)
    /\ pc \in {"polling", "empty"} => clock - now <= Reach(lag, intr)

LEMMA KeepTypes ==
  ASSUME TypeOK
  PROVE  /\ args.pps \in Nat /\ clock \in Nat /\ StartDate \in Nat /\ StartDate <= clock
         /\ lag \in Nat /\ intr \in Nat /\ sent_packets \in Nat
         /\ now \in Nat /\ now <= clock
         /\ remaining_time \in Int /\ deadline \in Int
         /\ MsPerSec \in Nat \ {0} /\ IntMax \in Nat /\ MsPerSec + 1 < IntMax
BY ArgsTypes, BlastAssumption DEF TypeOK, CountersTypeOK, LocalsTypeOK

LEMMA ReachTypes ==
  ASSUME NEW l \in Nat, NEW i \in Nat
  PROVE  /\ Reach(l, i) \in Nat /\ MsPerSec + 1 <= Reach(l, i)
         /\ Reach(l + 1, i) = Reach(l, i) + 1
         /\ Reach(l, i + 1) = Reach(l, i) + MsPerSec + 1
<1> DEFINE m == MsPerSec + 1
<1>1. m \in Nat
  BY BlastAssumption
<1>2. i * m \in Nat /\ (1 + i) * m = i * m + m /\ (1 + (i + 1)) * m = i * m + m + m
  <2> HIDE DEF m
  <2> QED
    BY <1>1, Product
<1>3. /\ Reach(l, i) = l + (1 + i) * m /\ Reach(l + 1, i) = l + 1 + (1 + i) * m
      /\ Reach(l, i + 1) = l + (1 + (i + 1)) * m
  BY DEF Reach
<1> DEFINE a == i * m
<1>4. /\ a \in Nat /\ Reach(l, i) = l + (a + m) /\ Reach(l + 1, i) = l + 1 + (a + m)
      /\ Reach(l, i + 1) = l + (a + m + m)
  <2> HIDE DEF m
  <2> QED
    BY <1>2, <1>3
<1>5. m = MsPerSec + 1 /\ MsPerSec \in Nat
  BY BlastAssumption
<1> HIDE DEF a, m
<1> QED
  BY <1>1, <1>4, <1>5

\* What is in time is so at an earlier moment, with more queries out, and
\* after more signals; a delay counts neither way.
LEMMA InTimeStays ==
  ASSUME args.pps \in Nat,
         NEW t \in Int, NEW u \in Int, NEW l \in Int, NEW k \in Int, u - k <= t - l,
         NEW n \in Int, NEW m \in Int, n <= m,
         NEW i \in Int, NEW j \in Int, i <= j,
         InTime(t, l, n, i)
  PROVE  InTime(u, k, m, j)
<1> DEFINE p == args.pps
           a == t - StartDate - l
           b == u - StartDate - k
           c == MsPerSec + p
<1>1. p \in Nat /\ a \in Int /\ b \in Int /\ b <= a /\ c \in Nat /\ MsPerSec \in Nat
  BY BlastAssumption
<1>2. p * a <= MsPerSec * n + i * c
  BY DEF InTime
<1>3. (p * b <= MsPerSec * m + j * c) => InTime(u, k, m, j)
  BY DEF InTime
<1> HIDE DEF p, a, b, c
<1>4. p * b <= p * a /\ MsPerSec * n <= MsPerSec * m /\ c * i <= c * j
  BY <1>1, Monotone
<1>5. c * i = i * c /\ c * j = j * c /\ i * c \in Int /\ j * c \in Int
      /\ p * b \in Int /\ p * a \in Int /\ MsPerSec * n \in Int /\ MsPerSec * m \in Int
  BY <1>1
<1> DEFINE x == p * a
           y == p * b
           u1 == MsPerSec * n
           u2 == MsPerSec * m
           v1 == i * c
           v2 == j * c
<1>6. /\ x \in Int /\ y \in Int /\ u1 \in Int /\ u2 \in Int /\ v1 \in Int /\ v2 \in Int
      /\ y <= x /\ u1 <= u2 /\ v1 <= v2 /\ x <= u1 + v1
  BY <1>2, <1>4, <1>5
<1>7. (y <= u2 + v2) => InTime(u, k, m, j)
  BY <1>3
<1> HIDE DEF x, y, u1, u2, v1, v2
<1> QED
  BY <1>6, <1>7

\* A signal may make the wait start anew.
LEMMA InTimeAnew ==
  ASSUME args.pps \in Nat, NEW t \in Int, NEW l \in Int, NEW n \in Int, NEW i \in Int,
         NEW r \in Int, args.pps * r <= MsPerSec + args.pps,
         InTime(t, l, n, i)
  PROVE  InTime(t + r, l, n, i + 1)
<1> DEFINE p == args.pps
           a == t - StartDate - l
           c == MsPerSec + p
<1>1. p \in Nat /\ a \in Int /\ c \in Nat /\ MsPerSec \in Nat
  BY BlastAssumption
<1>2. p * a <= MsPerSec * n + i * c /\ p * r <= c
  BY DEF InTime
<1>3. (t + r) - StartDate - l = a + r
  BY BlastAssumption
<1>4. (p * (a + r) <= MsPerSec * n + (i + 1) * c) => InTime(t + r, l, n, i + 1)
  BY <1>3 DEF InTime
<1> HIDE DEF p, a, c
<1>5. p * (a + r) = p * a + p * r /\ (i + 1) * c = i * c + c
      /\ i * c \in Int /\ p * a \in Int /\ p * r \in Int /\ MsPerSec * n \in Int
  BY <1>1
<1> DEFINE x == p * a
           y == p * r
           u == MsPerSec * n
           v == i * c
<1>6. x \in Int /\ y \in Int /\ u \in Int /\ v \in Int /\ x <= u + v /\ y <= c
  BY <1>2, <1>5
<1>7. (x + y <= u + (v + c)) => InTime(t + r, l, n, i + 1)
  BY <1>4, <1>5
<1> HIDE DEF x, y, u, v
<1> QED
  BY <1>1, <1>6, <1>7

\* A wait that is computed is not too long, however late the loop is.
LEMMA WaitKeeps ==
  ASSUME TypeOK, args.pps > 0, OnTime(sent_packets - 1, clock), Kept(clock),
         NEW w \in TimesToWait
  PROVE  /\ args.pps * w <= MsPerSec + args.pps
         /\ Kept(clock + w)
<1> DEFINE p == args.pps
           e == clock - StartDate
           s == MsPerSec * sent_packets
           x == Excess
<1>1. /\ p \in Nat \ {0} /\ e \in Nat /\ s \in Nat /\ w \in Nat /\ x \in Int
      /\ MsPerSec \in Nat \ {0} /\ sent_packets \in Nat
  BY ThrottleTypes, TimesToWaitType, KeepTypes
<1>2. x = s - p * e /\ p * e \in Nat
  BY ThrottleTypes DEF Excess, MaxPackets, startup_date
<1>3. CASE x > 0
  <2>1. x <= MsPerSec + p
    <3>1. MsPerSec * (sent_packets - 1) <= p * (e + 1)
      BY KeepTypes DEF OnTime, startup_date
    <3>2. MsPerSec * (sent_packets - 1) = s - MsPerSec
      BY <1>1
    <3> HIDE DEF p, e, s, x
    <3>3. p * (e + 1) = p * e + p
      BY <1>1
    <3> QED
      BY <1>1, <1>2, <3>1, <3>2, <3>3
  <2>2. p * w <= x
    <3>1. w = x \div p \/ p * (w + 1) = x
      BY <1>1, <1>3, TimesToWaitCases
    <3> HIDE DEF p, x
    <3>2. p * (w + 1) = p * w + p /\ p * w \in Nat
      BY <1>1
    <3> QED
      BY <1>1, <1>3, <3>1, <3>2, Quotient
  <2>3. Kept(clock + w)
    <3> DEFINE d == (MsPerSec + p) * intr
    <3>1. lag \in Nat /\ d \in Nat /\ intr * (MsPerSec + p) = d
      BY <1>1, KeepTypes, Product
    <3>2. (clock + w) - StartDate - lag = e + w - lag
      BY <1>1, KeepTypes
    <3>3. (p * (e + w - lag) <= s + d) => Kept(clock + w)
      BY <3>1, <3>2 DEF Kept, InTime
    <3> HIDE DEF p, e, s, x, d
    <3>4. p * (e + w - lag) = p * e + p * w - p * lag /\ p * lag \in Nat /\ p * w \in Nat
      BY <1>1, <3>1, Product
    <3> DEFINE f == p * e
               g == p * w
               h == p * lag
    <3>5. /\ f \in Nat /\ g \in Nat /\ h \in Nat /\ x = s - f /\ g <= x
          /\ p * (e + w - lag) = f + g - h
      BY <1>2, <2>2, <3>4
    <3>6. (f + g - h <= s + d) => Kept(clock + w)
      BY <3>3, <3>5
    <3> HIDE DEF f, g, h
    <3> QED
      BY <1>1, <3>1, <3>5, <3>6
  <2> HIDE DEF x
  <2>4. args.pps * w <= MsPerSec + args.pps
    <3>1. p * w \in Nat
      BY <1>1, Product
    <3> QED
      BY <1>1, <2>1, <2>2, <3>1
  <2> QED
    BY <2>3, <2>4
<1>4. CASE ~(x > 0)
  <2>1. w = 0
    BY <1>1, <1>4, TimesToWaitCases
  <2>2. clock + w = clock /\ p * 0 = 0
    BY <1>1, <2>1, KeepTypes
  <2> QED
    BY <1>1, <2>1, <2>2
<1> QED
  BY <1>3, <1>4

\* The same delays: an earlier moment, more queries, or another signal
LEMMA InTimeMore ==
  ASSUME TypeOK, NEW t \in Int, NEW u \in Int, u <= t,
         NEW n \in Int, NEW m \in Int, n <= m,
         NEW i \in Int, NEW j \in Int, i <= j, InTime(t, lag, n, i)
  PROVE  InTime(u, lag, m, j)
<1>1. args.pps \in Nat /\ lag \in Int /\ u - lag <= t - lag
  BY KeepTypes
<1> QED
  BY <1>1, InTimeStays

LEMMA ReachNow ==
  ASSUME TypeOK
  PROVE  Reach(lag, intr) \in Nat /\ MsPerSec + 1 <= Reach(lag, intr)
BY KeepTypes, ReachTypes

LEMMA KeepInit == Init => KeepInv
<1> SUFFICES ASSUME Init, args.pps > 0 PROVE Kept(clock)
  BY DEF KeepInv, Init, Waiting
<1>1. TypeOK
  BY TypeInit
<1>2. clock - StartDate - lag = 0 /\ sent_packets = 0 /\ intr = 0
  BY <1>1, KeepTypes DEF Init
<1>3. args.pps * 0 = 0 /\ MsPerSec * 0 = 0 /\ 0 * (MsPerSec + args.pps) = 0
  BY <1>1, KeepTypes
<1> QED
  BY <1>2, <1>3 DEF Kept, InTime

\* A step after which nothing is waited for, and the clock is where it was
LEMMA KeepBetween ==
  ASSUME TypeOK, KeepInv, UNCHANGED <<args, clock, budget>>, sending' => sending,
         sent_packets' \in {sent_packets, sent_packets + 1}, ~Waiting'
  PROVE  KeepInv'
<1> SUFFICES ASSUME sending, args.pps > 0, Fits, Kept(clock)
             PROVE  Kept(clock)'
  BY DEF KeepInv, Waiting, Fits, budget
<1>1. /\ sent_packets' \in Nat /\ sent_packets <= sent_packets'
      /\ InTime(clock, lag, sent_packets, intr)
  BY KeepTypes DEF Kept
<1>2. InTime(clock, lag, sent_packets', intr)
  <2>1. /\ clock \in Int /\ clock <= clock /\ intr \in Int /\ intr <= intr
        /\ sent_packets \in Int /\ sent_packets' \in Int
    BY <1>1, KeepTypes
  <2> QED
    BY <1>1, <2>1, InTimeMore
<1> QED
  BY <1>2 DEF Kept, InTime, budget

\* A step that changes neither the wait nor the time
LEMMA KeepIdle ==
  ASSUME TypeOK, KeepInv, sending' => sending,
         UNCHANGED <<args, clock, budget, now, remaining_time, deadline, sent_packets>>,
         pc' = pc \/ (pc = "polling" /\ pc' = "empty") \/ (pc = "flush" /\ pc' = "poll")
  PROVE  KeepInv'
<1> SUFFICES ASSUME sending, args.pps > 0, Fits, KeepInv PROVE KeepInv'
  BY DEF KeepInv, Fits, budget
<1>1. /\ UNCHANGED <<Kept(clock), Kept(now + remaining_time), Kept(clock + remaining_time),
                    Kept(deadline)>>
      /\ UNCHANGED <<Reach(lag, intr), Fits>>
  BY DEF Kept, InTime, Fits, Reach, budget
<1> QED
  BY <1>1 DEF KeepInv, Waiting

LEMMA KeepThrottledReceive ==
  ASSUME TypeOK, PaceInv, KeepInv, ThrottledReceive
  PROVE  KeepInv'
<1>1. UNCHANGED <<args, clock, lag, intr, sent_packets, sending>> /\ now' = clock
      /\ pc' \in {"flush", "poll"}
  BY DEF ThrottledReceive, mainVars, counters, context, budget
<1> SUFFICES ASSUME sending, args.pps > 0, Fits PROVE KeepInv'
  BY <1>1 DEF KeepInv, Fits
<1> DEFINE w == remaining_time'
<1>2. w \in TimesToWait /\ Kept(clock) /\ OnTime(sent_packets - 1, clock)
  BY DEF ThrottledReceive, KeepInv, PaceInv
<1>3. w \in 0 .. MsPerSec + 1
  BY <1>2, WaitIsShort, TimesToWaitType, KeepTypes
<1>4. args.pps * w <= MsPerSec + args.pps /\ Kept(clock + w)
  BY <1>2, WaitKeeps
<1>5. clock - clock + w <= Reach(lag, intr)
  <2> HIDE DEF w
  <2> QED
    BY <1>3, KeepTypes, ReachNow
<1>6. /\ Kept(clock)' <=> Kept(clock)
      /\ Kept(clock + w) => Kept(now + remaining_time)' /\ Kept(clock + remaining_time)'
      /\ Reach(lag, intr)' = Reach(lag, intr)
  BY <1>1 DEF Kept, InTime, Reach
<1> QED
  BY <1>1, <1>2, <1>3, <1>4, <1>5, <1>6 DEF KeepInv, Waiting

LEMMA KeepPoll ==
  ASSUME TypeOK, KeepInv, Poll
  PROVE  KeepInv'
<1>1. /\ UNCHANGED <<args, clock, lag, intr, sent_packets, sending, now, remaining_time>>
      /\ pc = "poll" /\ pc' = "polling" /\ deadline' = clock + remaining_time
  BY DEF Poll, mainVars, counters, context, budget
<1> SUFFICES ASSUME sending, args.pps > 0, Fits PROVE KeepInv'
  BY <1>1 DEF KeepInv, Fits
<1>2. /\ remaining_time \in 0 .. MsPerSec + 1
      /\ args.pps * remaining_time <= MsPerSec + args.pps
      /\ Kept(clock) /\ Kept(now + remaining_time) /\ Kept(clock + remaining_time)
      /\ clock - now + remaining_time <= Reach(lag, intr)
  BY <1>1 DEF KeepInv, Waiting
<1>3. /\ Kept(clock) => Kept(clock)'
      /\ Kept(now + remaining_time) => Kept(now + remaining_time)'
      /\ Kept(clock + remaining_time) => Kept(deadline)'
      /\ Reach(lag, intr)' = Reach(lag, intr)
  BY <1>1 DEF Kept, InTime, Reach
<1>4. deadline' - now' <= Reach(lag, intr) /\ clock' - now' <= Reach(lag, intr)
  BY <1>1, <1>2, KeepTypes, ReachNow
<1> QED
  BY <1>1, <1>2, <1>3, <1>4 DEF KeepInv, Waiting

\* A signal: what is waited for is as far away as it was when poll was called.
LEMMA KeepInterrupted ==
  ASSUME TypeOK, KeepInv, UNCHANGED <<args, clock, lag, sent_packets>>, sending' => sending,
         UNCHANGED <<now, remaining_time, deadline>>, intr' = intr + 1,
         \/ pc = "polling" /\ pc' \in {"poll", "return"}
         \/ UNCHANGED pc /\ pc \notin {"flush", "poll", "polling"}
         \/ pc = "flush" /\ pc' = "flush"
  PROVE  KeepInv'
<1>1. /\ lag \in Nat /\ intr \in Nat /\ MsPerSec \in Nat
      /\ Reach(lag, intr) \in Nat
      /\ Reach(lag, intr + 1) = Reach(lag, intr) + MsPerSec + 1
  BY KeepTypes, ReachTypes
<1>2. Reach(lag, intr)' = Reach(lag, intr) + MsPerSec + 1 /\ (Fits' => Fits)
  BY <1>1, KeepTypes DEF Reach, Fits
<1> SUFFICES ASSUME sending, args.pps > 0, Fits PROVE KeepInv'
  BY <1>2 DEF KeepInv
<1>3. ASSUME NEW t \in Int, Kept(t) PROVE InTime(t, lag, sent_packets, intr + 1)
  <2>1. /\ t <= t /\ intr \in Int /\ intr + 1 \in Int /\ intr <= intr + 1
        /\ sent_packets \in Int /\ sent_packets <= sent_packets
        /\ InTime(t, lag, sent_packets, intr)
    BY <1>3, KeepTypes DEF Kept
  <2> QED
    BY <2>1, InTimeMore
<1>4. Kept(clock)'
  <2>1. InTime(clock, lag, sent_packets, intr + 1)
    BY <1>3, KeepTypes DEF KeepInv
  <2> QED
    BY <2>1 DEF Kept, InTime
<1>5. Waiting' =>
        /\ remaining_time' \in 0 .. MsPerSec + 1
        /\ args'.pps * remaining_time' <= MsPerSec + args'.pps
        /\ Kept(now + remaining_time)'
  <2> SUFFICES ASSUME Waiting' PROVE /\ remaining_time' \in 0 .. MsPerSec + 1
                                     /\ args'.pps * remaining_time' <= MsPerSec + args'.pps
                                     /\ Kept(now + remaining_time)'
    OBVIOUS
  <2>1. /\ remaining_time \in 0 .. MsPerSec + 1
        /\ args.pps * remaining_time <= MsPerSec + args.pps
        /\ Kept(now + remaining_time)
    BY DEF KeepInv, Waiting
  <2>2. InTime(now + remaining_time, lag, sent_packets, intr + 1)
    <3>1. now + remaining_time \in Int
      BY KeepTypes
    <3> QED
      BY <1>3, <2>1, <3>1
  <2> QED
    BY <2>1, <2>2 DEF Kept, InTime
<1>6. ASSUME pc = "polling"
      PROVE  /\ Kept(clock + remaining_time)'
             /\ clock' - now' + remaining_time' <= Reach(lag, intr)'
  <2>1. /\ remaining_time \in 0 .. MsPerSec + 1
        /\ args.pps * remaining_time <= MsPerSec + args.pps
        /\ Kept(clock) /\ clock - now <= Reach(lag, intr)
    BY <1>6 DEF KeepInv, Waiting
  <2>2. InTime(clock + remaining_time, lag, sent_packets, intr + 1)
    BY <2>1, KeepTypes, InTimeAnew DEF Kept
  <2>3. Kept(clock + remaining_time)'
    BY <2>2 DEF Kept, InTime
  <2>4. clock - now + remaining_time <= Reach(lag, intr) + MsPerSec + 1
    BY <1>1, <2>1, KeepTypes
  <2> QED
    BY <1>2, <2>3, <2>4
<1>7. ASSUME pc = "flush"
      PROVE  /\ Kept(clock + remaining_time)'
             /\ clock' - now' + remaining_time' <= Reach(lag, intr)'
  <2>1. Kept(clock + remaining_time) /\ clock - now + remaining_time <= Reach(lag, intr)
    BY <1>7 DEF KeepInv
  <2>2. clock + remaining_time \in Int /\ clock - now + remaining_time \in Int
    BY KeepTypes
  <2>3. InTime(clock + remaining_time, lag, sent_packets, intr + 1)
    BY <1>3, <2>1, <2>2
  <2>4. Kept(clock + remaining_time)'
    BY <2>3 DEF Kept, InTime
  <2>5. clock - now + remaining_time <= Reach(lag, intr) + MsPerSec + 1
    BY <1>1, <2>1, <2>2
  <2> QED
    BY <1>2, <2>4, <2>5
<1>8. pc' = "empty" => clock' - now' <= Reach(lag, intr)'
  <2> SUFFICES ASSUME pc' = "empty" PROVE clock - now <= Reach(lag, intr)'
    OBVIOUS
  <2>1. clock - now <= Reach(lag, intr)
    BY DEF KeepInv
  <2> QED
    BY <1>1, <1>2, <2>1, KeepTypes
<1> QED
  BY <1>4, <1>5, <1>6, <1>7, <1>8 DEF KeepInv

\* What is left of the wait after answers were counted ends when it did.
LEMMA KeepEmptyDone ==
  ASSUME TypeOK, KeepInv, EmptyDone
  PROVE  KeepInv'
<1>1. /\ UNCHANGED <<args, clock, lag, intr, sent_packets, sending>> /\ now' = clock
      /\ pc = "empty" /\ pc' \in {"poll", "return"} /\ remaining_time' = LeftToWait
      /\ pc' = "poll" => ~(LeftToWait <= 0)
  BY DEF EmptyDone, WaitIsOver, mainVars, counters, context, budget
<1> SUFFICES ASSUME sending, args.pps > 0, Fits PROVE KeepInv'
  BY <1>1 DEF KeepInv, Fits
<1>2. /\ remaining_time \in 0 .. MsPerSec + 1
      /\ args.pps * remaining_time <= MsPerSec + args.pps
      /\ Kept(clock) /\ Kept(now + remaining_time)
      /\ clock - now <= Reach(lag, intr)
  BY <1>1 DEF KeepInv, Waiting
<1> DEFINE x == remaining_time - (clock - now)
           r == remaining_time'
<1>3. x \in Int /\ -IntMax <= x /\ x < IntMax /\ x <= remaining_time
      /\ clock + x = now + remaining_time
  <2>1. clock - now < IntMax /\ clock - now \in Nat
    BY <1>2, KeepTypes, ReachNow DEF Fits
  <2> DEFINE d == clock - now
  <2>2. d \in Nat /\ d < IntMax /\ IntMax \in Nat /\ MsPerSec \in Nat
        /\ MsPerSec + 1 < IntMax /\ remaining_time \in Nat
        /\ remaining_time <= MsPerSec + 1
    BY <1>2, <2>1, KeepTypes
  <2>3. clock + x = now + remaining_time
    BY KeepTypes
  <2>4. x = remaining_time - d
    OBVIOUS
  <2> HIDE DEF d, x
  <2> QED
    BY <2>2, <2>3, <2>4
<1>4. r = x
  BY <1>1, <1>3, ToIntSame DEF LeftToWait
<1>5. pc' = "poll" => r > 0
  BY <1>1, <1>3, <1>4
<1>6. Kept(clock)' /\ Kept(now + remaining_time)' /\ Kept(clock + remaining_time)'
  <2>1. Kept(clock + r)
    BY <1>2, <1>3, <1>4
  <2> HIDE DEF x, r
  <2> QED
    BY <1>1, <1>2, <2>1 DEF Kept, InTime, r
<1>7. pc' = "poll" =>
        /\ r \in 0 .. MsPerSec + 1
        /\ args.pps * r <= MsPerSec + args.pps
        /\ clock - clock + r <= Reach(lag, intr)'
  <2> SUFFICES ASSUME pc' = "poll" PROVE /\ r \in 0 .. MsPerSec + 1
                                         /\ args.pps * r <= MsPerSec + args.pps
                                         /\ clock - clock + r <= Reach(lag, intr)'
    OBVIOUS
  <2>1. r \in 0 .. MsPerSec + 1 /\ r <= remaining_time
    BY <1>2, <1>3, <1>4, <1>5, KeepTypes
  <2> HIDE DEF r, x
  <2>2. args.pps * r <= args.pps * remaining_time
    BY <1>2, <2>1, KeepTypes, Monotone
  <2>3. args.pps * r \in Nat /\ args.pps * remaining_time \in Nat
    BY <1>2, <2>1, KeepTypes, Product
  <2>4. Reach(lag, intr)' = Reach(lag, intr)
    BY <1>1 DEF Reach
  <2>5. clock - clock + r <= Reach(lag, intr)
    BY <2>1, KeepTypes, ReachNow
  <2> QED
    BY <1>2, <2>1, <2>2, <2>3, <2>4, <2>5, KeepTypes
<1> QED
  BY <1>1, <1>6, <1>7 DEF KeepInv, Waiting

LEMMA KeepSleep ==
  ASSUME TypeOK, KeepInv, Sleep
  PROVE  KeepInv'
<1>1. /\ UNCHANGED <<args, lag, intr, sent_packets, sending, now, remaining_time, deadline>>
      /\ pc = "polling" /\ pc' = "polling" /\ clock' = clock + 1 /\ clock < deadline
  BY DEF Sleep, mainVars, counters, context, locals, budget
<1> SUFFICES ASSUME sending, args.pps > 0, Fits PROVE KeepInv'
  BY <1>1 DEF KeepInv, Fits
<1>2. /\ remaining_time \in 0 .. MsPerSec + 1
      /\ args.pps * remaining_time <= MsPerSec + args.pps
      /\ Kept(now + remaining_time) /\ Kept(deadline)
      /\ deadline - now <= Reach(lag, intr)
  BY <1>1 DEF KeepInv, Waiting
<1>3. InTime(clock + 1, lag, sent_packets, intr)
  <2>1. /\ deadline \in Int /\ clock + 1 \in Int /\ clock + 1 <= deadline
        /\ sent_packets \in Int /\ sent_packets <= sent_packets
        /\ intr \in Int /\ intr <= intr
        /\ InTime(deadline, lag, sent_packets, intr)
    BY <1>1, <1>2, KeepTypes DEF Kept
  <2> QED
    BY <2>1, InTimeMore
<1>4. Kept(clock)' /\ Kept(now + remaining_time)' /\ Kept(deadline)'
  BY <1>1, <1>2, <1>3 DEF Kept, InTime
<1>5. Reach(lag, intr)' = Reach(lag, intr)
  BY <1>1 DEF Reach
<1>6. clock' - now' <= Reach(lag, intr)
  BY <1>1, <1>2, KeepTypes, ReachNow
<1> QED
  BY <1>1, <1>2, <1>4, <1>5, <1>6 DEF KeepInv, Waiting

\* A delay counts neither way.
LEMMA KeepDelay ==
  ASSUME TypeOK, KeepInv, Delay
  PROVE  KeepInv'
<1>1. /\ UNCHANGED <<pc, args, intr, sent_packets, sending, now, remaining_time, deadline>>
      /\ clock' = clock + 1 /\ lag' = lag + 1
  BY DEF Delay, mainVars, counters, context, locals, budget
<1>2. Reach(lag, intr)' = Reach(lag, intr) + 1 /\ (Fits' => Fits)
  <2>1. Reach(lag + 1, intr) = Reach(lag, intr) + 1
    BY KeepTypes, ReachTypes
  <2> QED
    BY <1>1, <2>1, ReachNow, KeepTypes DEF Reach, Fits
<1> SUFFICES ASSUME sending, args.pps > 0, Fits PROVE KeepInv'
  BY <1>1, <1>2 DEF KeepInv
<1>3. ASSUME NEW t \in Int, NEW u \in Int, u <= t + 1, Kept(t)
      PROVE  InTime(u, lag + 1, sent_packets, intr)
  <2>1. /\ args.pps \in Nat /\ lag \in Int /\ lag + 1 \in Int /\ u - (lag + 1) <= t - lag
        /\ sent_packets \in Int /\ sent_packets <= sent_packets
        /\ intr \in Int /\ intr <= intr /\ InTime(t, lag, sent_packets, intr)
    BY <1>3, KeepTypes DEF Kept
  <2> QED
    BY <2>1, InTimeStays
<1>4. /\ clock \in Int /\ clock + 1 \in Int /\ clock + 1 <= clock + 1
      /\ now + remaining_time \in Int /\ now + remaining_time <= now + remaining_time + 1
      /\ clock + remaining_time \in Int /\ clock + 1 + remaining_time \in Int
      /\ clock + 1 + remaining_time <= clock + remaining_time + 1
      /\ deadline \in Int /\ deadline <= deadline + 1
  BY KeepTypes
<1>5. /\ Kept(clock) => InTime(clock + 1, lag + 1, sent_packets, intr)
      /\ Kept(now + remaining_time) =>
           InTime(now + remaining_time, lag + 1, sent_packets, intr)
      /\ Kept(clock + remaining_time) =>
           InTime(clock + 1 + remaining_time, lag + 1, sent_packets, intr)
      /\ Kept(deadline) => InTime(deadline, lag + 1, sent_packets, intr)
  BY <1>3, <1>4
<1>6. /\ Kept(clock) => Kept(clock)'
      /\ Kept(now + remaining_time) => Kept(now + remaining_time)'
      /\ Kept(clock + remaining_time) => Kept(clock + remaining_time)'
      /\ Kept(deadline) => Kept(deadline)'
  BY <1>1, <1>5 DEF Kept, InTime
<1>7. /\ clock - now + remaining_time <= Reach(lag, intr) =>
           clock' - now' + remaining_time' <= Reach(lag, intr)'
      /\ deadline - now <= Reach(lag, intr) => deadline' - now' <= Reach(lag, intr)'
      /\ clock - now <= Reach(lag, intr) => clock' - now' <= Reach(lag, intr)'
  BY <1>1, <1>2, KeepTypes, ReachNow
<1> QED
  BY <1>1, <1>6, <1>7 DEF KeepInv, Waiting

LEMMA KeepStep ==
  ASSUME TypeOK, PaceInv, KeepInv, [Next]_vars
  PROVE  KeepInv'
<1> USE DEF mainVars, counters, context, locals
<1>1. CASE BlastQuery \/ SendTo \/ SendFails
  BY <1>1, KeepBetween, KeepTypes DEF BlastQuery, StoreStart, SendTo, SendFails, Waiting
<1>2. CASE SendRetry \/ ReceiveRetry \/ PollInterrupted
  BY <1>2, KeepInterrupted DEF SendRetry, ReceiveRetry, PollInterrupted, Receiving
<1>3. CASE ThrottledReceive
  BY <1>3, KeepThrottledReceive
<1>4. CASE Poll
  BY <1>4, KeepPoll
<1>5. CASE PollReady \/ Receive \/ FlushDone
  BY <1>5, KeepIdle DEF PollReady, Receive, FlushDone
<1>6. CASE PollTimesOut \/ PollFails \/ ReceiveFails
  BY <1>6, KeepBetween DEF PollTimesOut, PollFails, ReceiveFails, Waiting
<1>7. CASE EmptyDone
  BY <1>7, KeepEmptyDone
<1>8. CASE NextTurn \/ StartDrain \/ DrainTurn \/ DrainTest \/ Close
  BY <1>8, KeepBetween DEF NextTurn, StartDrain, DrainTurn, DrainTest, Close, Waiting
<1>9. CASE Path \/ UNCHANGED vars
  BY <1>9, KeepIdle DEF Path, vars
<1>10. CASE Sleep
  BY <1>10, KeepSleep
<1>11. CASE Delay
  BY <1>11, KeepDelay
<1> QED
  BY <1>1, <1>2, <1>3, <1>4, <1>5, <1>6, <1>7, <1>8, <1>9, <1>10, <1>11
     DEF Next, Program, Sending, Throttling, Counting, Main, Finished

\* The sending loop does not fall behind its rate on its own account: only
\* delays, and waits a signal made start anew, keep a query back, as long as an
\* int holds the time that is spent so.
THEOREM KeepsUpCorrect ==
  Spec => [](lag + (1 + intr) * (MsPerSec + 1) < IntMax => KeepsUp)
<1>1. TypeOK /\ KeepInv =>
        (lag + (1 + intr) * (MsPerSec + 1) < IntMax => KeepsUp)
  <2> SUFFICES ASSUME TypeOK, KeepInv, Fits, sending, args.pps > 0
               PROVE  args.pps * (clock - startup_date - lag)
                        <= MsPerSec * sent_packets + intr * (MsPerSec + args.pps)
    BY DEF KeepsUp, Fits, Reach
  <2> QED
    BY DEF KeepInv, Kept, InTime, startup_date
<1>2. TypeOK /\ PaceInv /\ KeepInv /\ [Next]_vars => KeepInv'
  BY KeepStep
<1> QED
  BY <1>1, <1>2, KeepInit, PaceInvariant, PTL DEF Spec
=============================================================================
