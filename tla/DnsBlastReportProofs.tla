----------------------- MODULE DnsBlastReportProofs ------------------------
(***************************************************************************)
(* What dnsblast promises, what it reports, and when.  First, it           *)
(* implements LoadTest: next to PaceInv, which makes every sendto a query  *)
(* that is due, this takes FlowInv, the book-keeping of main, which says   *)
(* how many queries are out at every point of its two loops.  If the path  *)
(* makes no copies, a ratio of 100% means that every query has its answer, *)
(* although receive looks at no id: FlowInv says how many queries are out  *)
(* at the end, CountInv that every answer counted is that of another       *)
(* query.  And the drain, at whose end the ratio is printed, is over after *)
(* twice the timeout: DrainInv says how much of that is left wherever the  *)
(* drain is.  The time shown with an answer is not longer than the true    *)
(* one: DatesInv says which date is found under which id.                  *)
(***************************************************************************)
EXTENDS DnsBlastPaceProofs, UdpPathProofs

\* The queries that are still to be sent: send_count is counted down only
\* after throttled_receive has returned.
Unsent ==
  IF pc \in {"blast", "sendto"} \/ send_count = 0
  THEN send_count ELSE send_count - 1

FlowInv ==
  /\ sock_ok => (sending <=> send_count > 0)
  /\ ~Ended => sent_packets = args.count - Unsent
  /\ pc \in {"blast", "sendto"} => send_count > 0
  /\ pc \in {"drain", "close"} => send_count = 0
  /\ pc = "close" => sent_packets = received_packets \/ DrainOver

LEMMA FlowInit == Init => FlowInv
<1> SUFFICES ASSUME Init PROVE FlowInv
  OBVIOUS
<1>1. args.count \in Nat \ {0}
  BY TypeInit, ArgsTypes DEF TypeOK
<1> QED
  BY <1>1 DEF Init, FlowInv, Unsent, Ended

FlowTypes ==
  /\ send_count \in Nat /\ args.count \in Nat /\ args.timeout \in Nat
  /\ sent_packets \in Nat /\ received_packets \in Nat
  /\ drain_start \in Nat /\ clock \in Nat

LEMMA FlowTypesHold == TypeOK => FlowTypes
BY ArgsTypes DEF TypeOK, MainTypeOK, CountersTypeOK, FlowTypes

\* A step that leaves main's loops where they are.
LEMMA FlowIdle ==
  ASSUME FlowTypes, FlowInv, UNCHANGED mainVars, UNCHANGED sent_packets,
         pc \in {"blast", "sendto"} <=> pc' \in {"blast", "sendto"},
         ~Ended, pc' \notin {"drain", "close"},
         sock_ok' => sock_ok /\ UNCHANGED sending
  PROVE  FlowInv'
BY DEF FlowInv, Unsent, Ended, mainVars

\* The run ends.
LEMMA FlowEnd ==
  ASSUME FlowInv, UNCHANGED mainVars, Ended',
         sock_ok' => sock_ok /\ UNCHANGED sending
  PROVE  FlowInv'
BY DEF FlowInv, Ended, mainVars

\* The clock or the path moves, or nothing at all.
LEMMA FlowEnvironment ==
  ASSUME FlowTypes, FlowInv, UNCHANGED <<pc, mainVars, counters, context>>,
         clock' = clock \/ clock' = clock + 1
  PROVE  FlowInv'
<1>1. DrainOver => DrainOver'
  BY DEF FlowTypes, DrainOver, mainVars
<1> QED
  BY <1>1 DEF FlowInv, Unsent, Ended, mainVars, counters, context

LEMMA FlowStep ==
  ASSUME TypeOK, FlowInv, [Next]_vars
  PROVE  FlowInv'
<1> USE FlowTypesHold DEF counters, context
<1>1. CASE BlastQuery
  <2>1. sock_ok' => sock_ok /\ UNCHANGED sending
    BY <1>1 DEF BlastQuery, StoreStart
  <2> QED
    BY <1>1, <2>1, FlowIdle DEF BlastQuery, Ended
<1>2. CASE SendTo
  BY <1>2 DEF SendTo, FlowInv, FlowTypes, Unsent, Ended, mainVars
<1>3. CASE SendRetry
  BY <1>3, FlowIdle DEF SendRetry, Ended
<1>4. CASE SendFails \/ PollFails \/ ReceiveFails \/ Close
  BY <1>4, FlowEnd DEF SendFails, PollFails, ReceiveFails, Close, Ended
<1>5. CASE ThrottledReceive \/ Poll \/ PollReady
  BY <1>5, FlowIdle DEF ThrottledReceive, Poll, PollReady, Ended
<1>6. CASE PollTimesOut \/ PollInterrupted
  BY <1>6, FlowIdle DEF PollTimesOut, PollInterrupted, Ended
<1>7. CASE Receive \/ ReceiveRetry \/ FlushDone \/ EmptyDone
  BY <1>7, FlowIdle
     DEF Receive, ReceiveRetry, FlushDone, EmptyDone, Receiving, Ended
<1>8. CASE NextTurn
  BY <1>8 DEF NextTurn, FlowInv, FlowTypes, Unsent, Ended
<1>9. CASE StartDrain
  BY <1>9 DEF StartDrain, FlowInv, FlowTypes, Unsent, Ended
<1>10. CASE DrainTurn
  BY <1>10 DEF DrainTurn, FlowInv, Unsent, Ended, mainVars, DrainOver
<1>11. CASE DrainTest
  BY <1>11 DEF DrainTest, FlowInv, Unsent, Ended, mainVars, DrainOver
<1>12. CASE Path \/ Sleep \/ Delay \/ UNCHANGED vars
  BY <1>12, FlowEnvironment DEF Path, Sleep, Delay, vars
<1> QED
  BY <1>1, <1>2, <1>3, <1>4, <1>5, <1>6, <1>7, <1>8, <1>9, <1>10, <1>11, <1>12
     DEF Next, Program, Sending, Throttling, Counting, Main, Finished
-----------------------------------------------------------------------------
\* A step LoadTest does not see.
LEMMA Stutter ==
  ASSUME UNCHANGED <<clock, args, sent_packets, received_packets, drain_start>>,
         ~Ended, ~Ended', send_count > 0 <=> send_count' > 0
  PROVE  UNCHANGED Promise!vars
BY DEF Promise!vars, Phase, Verdict, Ended

LEMMA PromiseGiveUp ==
  ASSUME ~Ended, pc' \in {"failed", "aborted"},
         UNCHANGED <<clock, args, sent_packets, received_packets, drain_start>>
  PROVE  Promise!GiveUp
BY DEF Promise!GiveUp, Phase, Verdict, Ended

LEMMA PromiseSend ==
  ASSUME TypeOK, PaceInv, FlowInv, SendTo
  PROVE  Promise!Send
<1>1. Phase = "sending" /\ Phase' = "sending" /\ UNCHANGED Verdict
  BY DEF SendTo, FlowInv, Phase, Verdict, Ended, mainVars
<1>2. sent_packets < args.count
  BY FlowTypesHold DEF SendTo, FlowInv, FlowTypes, Unsent, Ended
<1>3. Promise!Due
  BY DEF SendTo, FlowInv, PaceInv, OnTime, startup_date, Promise!Due
<1> QED
  BY <1>1, <1>2, <1>3 DEF SendTo, Promise!Send, mainVars

LEMMA PromiseAnswer ==
  ASSUME Receive
  PROVE  Promise!Answer
BY DEF Receive, Receiving, CountAnswer, Promise!Answer, Phase, Verdict, Ended,
       mainVars

LEMMA PromiseBeginDrain ==
  ASSUME TypeOK, FlowInv, StartDrain
  PROVE  Promise!BeginDrain
<1>1. sent_packets = args.count
  BY FlowTypesHold DEF StartDrain, FlowInv, FlowTypes, Unsent, Ended
<1> QED
  BY <1>1 DEF StartDrain, Promise!BeginDrain, Phase, Verdict, Ended, counters

LEMMA PromiseReport ==
  ASSUME FlowInv, Close
  PROVE  Promise!Report
<1>1. received_packets = sent_packets \/ clock - drain_start > args.timeout
  BY DEF Close, FlowInv, DrainOver
<1>2. Phase = "draining" /\ Phase' = "over"
  BY DEF Close, FlowInv, Phase, Ended
<1>3. Verdict' = [sent |-> sent_packets, received |-> received_packets]
  BY DEF Close, UpdateStatus, Verdict
<1> QED
  BY <1>1, <1>2, <1>3 DEF Close, Promise!Report, mainVars, counters

LEMMA PromiseTick ==
  ASSUME Sleep \/ Delay
  PROVE  Promise!Tick
BY DEF Sleep, Delay, Promise!Tick, Phase, Verdict, Ended, mainVars, counters,
       status

LEMMA PromiseStep ==
  ASSUME TypeOK, PaceInv, FlowInv, [Next]_vars
  PROVE  [Promise!Next]_(Promise!vars)
<1> USE DEF mainVars, counters
<1>1. CASE BlastQuery \/ SendRetry
  BY <1>1, Stutter DEF BlastQuery, SendRetry, Ended
<1>2. CASE SendTo
  BY <1>2, PromiseSend DEF Promise!Next
<1>3. CASE SendFails \/ PollFails \/ ReceiveFails
  BY <1>3, PromiseGiveUp
     DEF SendFails, PollFails, ReceiveFails, Receiving, Ended, Promise!Next
<1>4. CASE ThrottledReceive \/ Poll \/ PollReady
  BY <1>4, Stutter DEF ThrottledReceive, Poll, PollReady, Ended
<1>5. CASE PollTimesOut \/ PollInterrupted
  BY <1>5, Stutter DEF PollTimesOut, PollInterrupted, Ended
<1>6. CASE Receive
  BY <1>6, PromiseAnswer DEF Promise!Next
<1>7. CASE ReceiveRetry \/ FlushDone \/ EmptyDone
  BY <1>7, Stutter DEF ReceiveRetry, FlushDone, EmptyDone, Receiving, Ended
<1>8. CASE NextTurn
  BY <1>8, Stutter, FlowTypesHold DEF NextTurn, FlowTypes, Ended
<1>9. CASE StartDrain
  BY <1>9, PromiseBeginDrain DEF Promise!Next
<1>10. CASE DrainTurn \/ DrainTest
  BY <1>10, Stutter DEF DrainTurn, DrainTest, Ended
<1>11. CASE Close
  BY <1>11, PromiseReport DEF Promise!Next
<1>12. CASE Path
  BY <1>12, Stutter DEF Path, Ended
<1>13. CASE Sleep \/ Delay
  BY <1>13, PromiseTick DEF Promise!Next
<1>14. CASE UNCHANGED vars
  BY <1>14 DEF vars, Promise!vars, Phase, Verdict, Ended, status
<1> QED
  BY <1>1, <1>2, <1>3, <1>4, <1>5, <1>6, <1>7, <1>8, <1>9, <1>10, <1>11,
     <1>12, <1>13, <1>14
     DEF Next, Program, Sending, Throttling, Counting, Main, Finished

\* Every run of the load tester is a run of LoadTest: it sends the queries it
\* was asked for, none before it is due, and its verdict is what it counted,
\* given when all answers are in or the timeout is over.
THEOREM LoadTestImplemented == Spec => ImplementsLoadTest
<1>1. Init => Promise!Init
  <2> SUFFICES ASSUME Init PROVE Promise!Init
    OBVIOUS
  <2>1. args.count > 0
    BY TypeInit, ArgsTypes DEF TypeOK
  <2> QED
    BY <2>1 DEF Init, Promise!Init, Promise!NoVerdict, Phase, Verdict, Ended
<1>2. TypeOK /\ FlowInv /\ [Next]_vars => FlowInv'
  BY FlowStep
<1>3. TypeOK /\ PaceInv /\ FlowInv /\ [Next]_vars
        => [Promise!Next]_(Promise!vars)
  BY PromiseStep
<1> QED
  BY <1>1, <1>2, <1>3, FlowInit, PaceInvariant, PTL
     DEF Spec, ImplementsLoadTest, Promise!Spec
-----------------------------------------------------------------------------

CountInv ==
  /\ dups = 0 =>
       /\ Once(wire, rcvbuf, sent_packets, answered)
       /\ Cardinality(answered) = received_packets
  /\ pc = "sendto" => packet.n = sent_packets + 1
  /\ pc = "done" =>
       /\ shown.sent = args.count /\ sent_packets = args.count
       /\ shown.received = received_packets

LEMMA CountInit == Init => CountInv
<1> SUFFICES ASSUME Init PROVE CountInv
  OBVIOUS
<1>1. Cardinality({}) = 0
  BY FS_EmptySet
<1>2. Once({}, <<>>, 0, {})
  BY DEF Once
<1> QED
  BY <1>1, <1>2 DEF Init, PathInit, CountInv

\* A step that counts nothing, moves no datagram and does not end the run.
LEMMA CountIdle ==
  ASSUME CountInv, UNCHANGED pathVars,
         UNCHANGED <<sent_packets, received_packets, answered>>,
         pc' = "sendto" => pc = "sendto" /\ UNCHANGED packet,
         pc' # "done"
  PROVE  CountInv'
BY DEF CountInv, pathVars

LEMMA CountSendTo ==
  ASSUME TypeOK, CountInv, SendTo
  PROVE  CountInv'
<1>1. sent_packets \in Nat /\ rcvbuf \in Seq(Datagrams) /\ packet \in Datagrams
  BY DEF TypeOK, CountersTypeOK, PathTypeOK
<1>2. packet.n = sent_packets + 1
  BY DEF SendTo, CountInv
<1>3. dups = 0 => Once(wire \cup {packet}, rcvbuf, sent_packets + 1, answered)
  BY <1>1, <1>2, OnceSent DEF CountInv
<1> QED
  BY <1>3 DEF SendTo, Transmit, history, CountInv

LEMMA CountReceive ==
  ASSUME TypeOK, CountInv, Receive
  PROVE  CountInv'
<1> DEFINE h == Head(rcvbuf).n
<1>1. /\ sent_packets \in Nat /\ rcvbuf \in Seq(Datagrams) /\ rcvbuf # <<>>
      /\ received_packets \in Nat
  BY DEF Receive, TakeAnswer, TypeOK, CountersTypeOK, PathTypeOK
<1>2. /\ answered' = answered \cup {h} /\ rcvbuf' = Tail(rcvbuf)
      /\ received_packets' = received_packets + 1
      /\ UNCHANGED <<pc, wire, dups, sent_packets>> /\ pc \in {"flush", "empty"}
  BY DEF Receive, TakeAnswer, CountAnswer, Receiving
<1> HIDE DEF h
<1>3. ASSUME dups = 0
      PROVE  /\ Once(wire, Tail(rcvbuf), sent_packets, answered \cup {h})
             /\ Cardinality(answered \cup {h}) = received_packets + 1
  <2>1. Once(wire, rcvbuf, sent_packets, answered)
    BY <1>3 DEF CountInv
  <2>2. /\ Once(wire, Tail(rcvbuf), sent_packets, answered \cup {h})
        /\ h \notin answered
    BY <1>1, <2>1, OnceTaken DEF h
  <2>3. answered \in SUBSET (1 .. sent_packets)
    BY <2>1 DEF Once
  <2>4. Cardinality(answered \cup {h}) = Cardinality(answered) + 1
    BY <1>1, <2>2, <2>3, OnceCounted
  <2> QED
    BY <1>3, <2>2, <2>4 DEF CountInv
<1> QED
  BY <1>2, <1>3 DEF CountInv

LEMMA CountPath ==
  ASSUME TypeOK, CountInv, Path
  PROVE  CountInv'
<1>1. PathTypeOK /\ PathNext /\ ~Ended
  BY DEF TypeOK, Path
<1>2. UNCHANGED <<pc, packet, sent_packets, received_packets, answered>>
  BY DEF Path, counters, history
<1>3. dups' = 0 => dups = 0
  BY <1>1 DEF PathTypeOK, PathNext, Deliver, Lose, Duplicate
<1>4. dups' = 0 => Once(wire', rcvbuf', sent_packets, answered)
  BY <1>1, OncePath DEF CountInv
<1> QED
  BY <1>1, <1>2, <1>3, <1>4 DEF CountInv, Ended

LEMMA CountClose ==
  ASSUME TypeOK, FlowInv, CountInv, Close
  PROVE  CountInv'
<1>1. sent_packets = args.count
  <2>1. args.count \in Nat /\ send_count = 0
    BY FlowTypesHold DEF FlowTypes, FlowInv, Close
  <2> QED
    BY <2>1 DEF FlowInv, Unsent, Ended, Close
<1>2. shown'.sent = sent_packets /\ shown'.received = received_packets
  BY DEF Close, UpdateStatus
<1> QED
  BY <1>1, <1>2 DEF Close, CountInv, counters, history, mainVars, pathVars

LEMMA CountStep ==
  ASSUME TypeOK, FlowInv, CountInv, [Next]_vars
  PROVE  CountInv'
<1> USE DEF counters, history
<1>1. CASE BlastQuery
  BY <1>1 DEF BlastQuery, CountInv, pathVars
<1>2. CASE SendTo
  BY <1>2, CountSendTo
<1>3. CASE SendRetry \/ SendFails
  BY <1>3, CountIdle DEF SendRetry, SendFails
<1>4. CASE Throttling
  BY <1>4, CountIdle
     DEF Throttling, ThrottledReceive, Poll, PollReady, PollTimesOut,
         PollInterrupted, PollFails
<1>5. CASE Receive
  BY <1>5, CountReceive
<1>6. CASE ReceiveRetry \/ ReceiveFails \/ FlushDone \/ EmptyDone
  BY <1>6, CountIdle
     DEF ReceiveRetry, ReceiveFails, FlushDone, EmptyDone, Receiving
<1>7. CASE NextTurn \/ StartDrain \/ DrainTurn \/ DrainTest
  BY <1>7, CountIdle DEF NextTurn, StartDrain, DrainTurn, DrainTest
<1>8. CASE Close
  BY <1>8, CountClose
<1>9. CASE Path
  BY <1>9, CountPath
<1>10. CASE Sleep \/ Delay
  BY <1>10, CountIdle DEF Sleep, Delay, Ended
<1>11. CASE UNCHANGED vars
  BY <1>11 DEF vars, mainVars, pathVars, status, CountInv
<1> QED
  BY <1>1, <1>2, <1>3, <1>4, <1>5, <1>6, <1>7, <1>8, <1>9, <1>10, <1>11
     DEF Next, Program, Sending, Counting, Main, Finished

\* A ratio of 100% is never reached by counting one answer twice: unless the
\* path makes a copy, every query has been answered, whatever the count.
THEOREM FullRatioCorrect == Spec => []FullRatioMeansAllAnswered
<1>1. TypeOK /\ CountInv => FullRatioMeansAllAnswered
  <2> SUFFICES ASSUME TypeOK, CountInv, pc = "done",
                      shown.received = shown.sent, dups = 0
               PROVE  answered = 1 .. args.count
    BY DEF FullRatioMeansAllAnswered
  <2>1. answered \in SUBSET (1 .. args.count) /\ args.count \in Nat
    BY FlowTypesHold DEF CountInv, Once, FlowTypes
  <2>2. Cardinality(answered) = args.count
    BY DEF CountInv
  <2> QED
    BY <2>1, <2>2, OnceAll
<1>2. TypeOK /\ FlowInv /\ CountInv /\ [Next]_vars => CountInv'
  BY CountStep
<1> QED
  BY <1>1, <1>2, CountInit, FlowInit, FlowStep, TypeCorrect, PTL DEF Spec
-----------------------------------------------------------------------------
(* How long the drain may take *)

\* A wait that is begun within the timeout, that wait, and one more for every
\* signal
Allowance == (2 + intr) * args.timeout

\* The time of the drain so far that the program was not kept from running
Spent == clock - drain_start - lag

\* The allowance, and the delays, fit an int, and an array never overran
\* into timeout.
Bounded == timeout = args.timeout /\ lag + Allowance < IntMax

DrainLimits ==
  /\ Spent <= Allowance
  /\ pc \in {"drain", "throttle"} => Spent <= args.timeout
  /\ pc \in {"poll", "polling", "empty"} =>
       /\ remaining_time \in 0 .. args.timeout
       /\ drain_start <= now
       /\ now + remaining_time - drain_start - lag <= 2 * args.timeout
  /\ pc = "poll" => Spent + remaining_time <= Allowance
  /\ pc = "polling" => deadline - drain_start - lag <= Allowance

DrainInv ==
  send_count = 0 => ~sending /\ pc # "flush" /\ (Bounded => DrainLimits)

DrainTypes ==
  /\ args.timeout \in Nat /\ clock \in Nat /\ drain_start \in Nat
  /\ lag \in Nat /\ intr \in Nat /\ now \in 0 .. clock
  /\ remaining_time \in Int /\ deadline \in Int /\ drain_start <= clock
  /\ Allowance \in Nat /\ 2 * args.timeout <= Allowance

LEMMA DrainTypesHold == TypeOK => DrainTypes
<1> SUFFICES ASSUME TypeOK PROVE DrainTypes
  OBVIOUS
<1>1. args.timeout \in Nat /\ intr \in Nat
  BY ArgsTypes DEF TypeOK
<1>2. drain_start \in Nat /\ drain_start <= clock /\ clock \in Nat
  BY DEF TypeOK, MainTypeOK
<1>3. 2 * args.timeout <= (2 + intr) * args.timeout
  <2>1. args.timeout * 2 <= args.timeout * (2 + intr)
    BY <1>1, Monotone
  <2> QED
    BY <1>1, <2>1
<1>4. (2 + intr) * args.timeout \in Nat
  BY <1>1, Product
<1> QED
  BY <1>1, <1>2, <1>3, <1>4 DEF TypeOK, LocalsTypeOK, DrainTypes, Allowance

\* A signal makes one more wait start anew.
LEMMA AllowanceGrows ==
  ASSUME DrainTypes, intr' = intr + 1, UNCHANGED args
  PROVE  Allowance' = Allowance + args.timeout
<1>1. \A t, i \in Nat : (2 + (i + 1)) * t = (2 + i) * t + t
  OBVIOUS
<1> QED
  BY <1>1 DEF Allowance, DrainTypes

LEMMA DrainInit == Init => DrainInv
<1>1. Init => send_count # 0
  BY BlastAssumption DEF Init
<1> QED
  BY <1>1 DEF DrainInv

\* A step outside of the drain, or one at the end of it
LEMMA DrainIdle ==
  ASSUME DrainInv, DrainTypes, UNCHANGED <<mainVars, timeout, clock, budget>>,
         sending' => sending, pc' \notin {"flush", "drain", "throttle", "poll",
                                         "polling", "empty"}
  PROVE  DrainInv'
BY DEF DrainInv, DrainLimits, Bounded, Spent, Allowance, mainVars, budget

\* main's tests
LEMMA DrainMain ==
  ASSUME DrainInv, DrainTypes, TypeOK, NextTurn \/ StartDrain \/ DrainTurn \/ DrainTest
  PROVE  DrainInv'
<1>1. CASE NextTurn
  BY <1>1 DEF NextTurn, DrainInv, TypeOK, MainTypeOK
<1>2. CASE StartDrain
  <2>1. Spent' <= args.timeout /\ Allowance' = Allowance /\ UNCHANGED args
    BY <1>2 DEF StartDrain, Spent, Allowance, DrainTypes, budget
  <2>2. pc' = "drain" /\ sending' = FALSE
    BY <1>2 DEF StartDrain
  <2>3. Spent' <= Allowance
    BY <1>2, <2>1 DEF StartDrain, Spent, DrainTypes, budget
  <2> QED
    BY <2>1, <2>2, <2>3 DEF DrainInv, DrainLimits
<1>3. CASE DrainTurn
  <2>1. /\ send_count = 0 /\ UNCHANGED <<mainVars, clock, budget, timeout, sending>>
        /\ pc' \in {"close", "drain"} /\ (pc' = "drain" => ~DrainOver)
    BY <1>3 DEF DrainTurn, context
  <2>2. pc' = "drain" => Spent <= args.timeout
    BY <2>1 DEF DrainOver, Spent, DrainTypes
  <2>3. UNCHANGED <<Spent, Allowance, args, send_count, lag, timeout, sending>>
    BY <2>1 DEF Spent, Allowance, mainVars, budget
  <2>4. UNCHANGED <<Bounded, sending, send_count, args>>
    BY <2>3 DEF Bounded
  <2>5. ~sending' /\ pc' # "flush"
    BY <2>1 DEF DrainInv
  <2>6. Bounded => Spent <= Allowance
    BY <2>1 DEF DrainInv, DrainLimits
  <2>7. Bounded' => DrainLimits'
    BY <2>1, <2>2, <2>3, <2>4, <2>6 DEF DrainLimits
  <2> QED
    BY <2>5, <2>7 DEF DrainInv
<1>4. CASE DrainTest
  BY <1>4
  DEF DrainTest, DrainInv, DrainLimits, Bounded, Spent, Allowance, mainVars,
      budget, context
<1> QED
  BY <1>1, <1>2, <1>3, <1>4

\* The wait of throttled_receive, with the timeout
LEMMA DrainThrottledReceive ==
  ASSUME DrainInv, DrainTypes, ThrottledReceive
  PROVE  DrainInv'
<1> SUFFICES ASSUME send_count' = 0
             PROVE  ~sending' /\ pc' # "flush" /\ (Bounded' => DrainLimits')
  BY DEF DrainInv
<1>1. send_count = 0 /\ ~sending /\ (Bounded => DrainLimits)
  BY DEF ThrottledReceive, mainVars, DrainInv
<1>2. /\ pc = "throttle" /\ pc' = "poll" /\ now' = clock
      /\ remaining_time' = ToInt(timeout)
  BY <1>1 DEF ThrottledReceive, DrainWait
<1>3. UNCHANGED <<Spent, Allowance, Bounded, args, lag, drain_start, sending>>
  BY DEF ThrottledReceive, Spent, Allowance, Bounded, mainVars, budget, context
<1>4. ASSUME Bounded
      PROVE  DrainLimits'
  <2>1. timeout = args.timeout /\ timeout \in Int
        /\ -IntMax <= timeout /\ timeout < IntMax
    BY <1>4, BlastAssumption DEF Bounded, DrainTypes
  <2>2. remaining_time' = args.timeout
    BY <1>2, <2>1, ToIntSame
  <2>3. Spent <= args.timeout /\ Spent <= Allowance
    BY <1>1, <1>2, <1>4 DEF DrainLimits
  <2>4. now' + remaining_time' - drain_start - lag = Spent + args.timeout
    BY <1>2, <2>2 DEF DrainTypes, Spent
  <2>5. Spent \in Int /\ Spent + args.timeout <= 2 * args.timeout
    BY <2>3 DEF DrainTypes, Spent
  <2> QED
    BY <1>2, <1>3, <2>2, <2>3, <2>4, <2>5 DEF DrainLimits, DrainTypes
<1> QED
  BY <1>1, <1>2, <1>3, <1>4

LEMMA DrainPolling ==
  ASSUME DrainInv, DrainTypes,
         Poll \/ PollReady \/ PollTimesOut \/ PollInterrupted
  PROVE  DrainInv'
<1> SUFFICES ASSUME send_count' = 0, Bounded'
             PROVE  ~sending' /\ pc' # "flush" /\ DrainLimits'
  <2>1. UNCHANGED sending /\ pc' # "flush" /\ UNCHANGED send_count
    BY DEF Poll, PollReady, PollTimesOut, PollInterrupted, context, mainVars
  <2> QED
    BY <2>1 DEF DrainInv
<1>1. UNCHANGED <<args, send_count, drain_start, timeout, sending, clock, lag, now,
                  remaining_time>>
  BY DEF Poll, PollReady, PollTimesOut, PollInterrupted, context, mainVars,
         locals, budget
<1>2. UNCHANGED Spent
  BY <1>1 DEF Spent
<1>3. CASE Poll
  <2>1. UNCHANGED <<Allowance, Bounded>>
    BY <1>1, <1>3 DEF Poll, Allowance, Bounded, budget
  <2>2. pc = "poll" /\ pc' = "polling" /\ deadline' = clock + remaining_time
    BY <1>3 DEF Poll
  <2>3. ~sending /\ DrainLimits
    BY <1>1, <2>1 DEF DrainInv
  <2>4. deadline' - drain_start - lag = Spent + remaining_time
    BY <2>2 DEF Spent, DrainTypes
  <2> QED
    BY <1>1, <1>2, <2>1, <2>2, <2>3, <2>4 DEF DrainLimits
<1>4. CASE PollReady \/ PollTimesOut
  <2>1. UNCHANGED <<Allowance, Bounded>>
    BY <1>1, <1>4 DEF PollReady, PollTimesOut, Allowance, Bounded, budget
  <2>2. pc = "polling" /\ pc' \in {"empty", "return"}
    BY <1>4 DEF PollReady, PollTimesOut
  <2>3. ~sending /\ DrainLimits
    BY <1>1, <2>1 DEF DrainInv
  <2> QED
    BY <1>1, <1>2, <2>1, <2>2, <2>3 DEF DrainLimits
<1>5. CASE PollInterrupted
  <2>1. Allowance' = Allowance + args.timeout
    BY <1>1, <1>5, AllowanceGrows DEF PollInterrupted
  <2>2. pc = "polling" /\ pc' \in {"poll", "return"}
    BY <1>5 DEF PollInterrupted
  <2>3. Bounded
    BY <1>1, <2>1, BlastAssumption DEF Bounded, DrainTypes
  <2>4. ~sending /\ DrainLimits
    BY <1>1, <2>3 DEF DrainInv
  <2>5. /\ Spent \in Int /\ Spent <= Allowance
        /\ remaining_time \in 0 .. args.timeout
    BY <2>2, <2>4 DEF DrainLimits, Spent, DrainTypes
  <2>6. Spent <= Allowance' /\ Spent + remaining_time <= Allowance'
    BY <2>1, <2>5 DEF DrainTypes
  <2> QED
    BY <1>1, <1>2, <2>2, <2>4, <2>6 DEF DrainLimits
<1> QED
  BY <1>3, <1>4, <1>5

\* Answers shorten the wait by the time that has gone by.
LEMMA DrainCounting ==
  ASSUME DrainInv, DrainTypes, Receive \/ ReceiveRetry \/ EmptyDone
  PROVE  DrainInv'
<1> SUFFICES ASSUME send_count' = 0
             PROVE  ~sending' /\ pc' # "flush" /\ (Bounded' => DrainLimits')
  BY DEF DrainInv
<1>1. UNCHANGED <<args, send_count, drain_start, timeout, sending, clock, lag>>
  BY DEF Receive, ReceiveRetry, EmptyDone, context, mainVars, budget
<1>2. UNCHANGED Spent
  BY <1>1 DEF Spent
<1>3. ~sending /\ pc # "flush" /\ (Bounded => DrainLimits)
  BY <1>1 DEF DrainInv
<1>4. CASE Receive
  <2>1. UNCHANGED <<Allowance, pc, now, remaining_time, deadline>>
    BY <1>1, <1>4 DEF Receive, Allowance, locals, budget
  <2> QED
    BY <1>1, <1>2, <1>3, <2>1 DEF DrainLimits, Bounded
<1>5. CASE ReceiveRetry
  <2>1. UNCHANGED <<pc, now, remaining_time>> /\ pc \in {"flush", "empty"}
    BY <1>5 DEF ReceiveRetry, locals, Receiving
  <2>2. Allowance' = Allowance + args.timeout
    BY <1>1, <1>5, AllowanceGrows DEF ReceiveRetry
  <2>3. Bounded' => Bounded
    BY <1>1, <2>2, BlastAssumption DEF Bounded, DrainTypes
  <2>4. Spent <= Allowance => Spent <= Allowance'
    BY <2>2 DEF DrainTypes, Spent
  <2> QED
    BY <1>1, <1>2, <1>3, <2>1, <2>3, <2>4 DEF DrainLimits
<1>6. CASE EmptyDone
  <2>1. UNCHANGED <<Allowance, Bounded>>
    BY <1>1, <1>6 DEF EmptyDone, Allowance, Bounded, budget
  <2>2. /\ pc = "empty" /\ pc' \in {"poll", "return"} /\ now' = clock
        /\ remaining_time' = ToInt(remaining_time - (clock - now))
        /\ pc' = "poll" => remaining_time' > 0
    <3>1. pc = "empty"
      BY <1>3, <1>6 DEF EmptyDone
    <3> QED
      BY <1>6, <3>1, ToIntType DEF EmptyDone, WaitIsOver, LeftToWait, DrainTypes
  <2> SUFFICES ASSUME Bounded PROVE DrainLimits'
    BY <1>1, <1>3, <2>1, <2>2
  <2>3. /\ remaining_time \in 0 .. args.timeout /\ drain_start <= now
        /\ now + remaining_time - drain_start - lag <= 2 * args.timeout
        /\ Spent <= Allowance
    BY <1>3, <2>2 DEF DrainLimits
  <2> DEFINE d == clock - now
             x == remaining_time - d
  <2>4. d \in Nat /\ d < IntMax /\ x \in Int
    BY <2>3, BlastAssumption DEF DrainTypes, Spent, Bounded
  <2>5. -IntMax <= x /\ x < IntMax
    BY <2>3, <2>4, BlastAssumption DEF Bounded, DrainTypes
  <2>6. remaining_time' = x
    BY <2>2, <2>4, <2>5, ToIntSame
  <2>7. /\ now' + remaining_time' - drain_start - lag <= 2 * args.timeout
        /\ Spent + remaining_time' <= Allowance
        /\ remaining_time' <= args.timeout
    BY <2>2, <2>3, <2>4, <2>6 DEF DrainTypes, Spent
  <2>8. pc' = "poll" => remaining_time' \in 0 .. args.timeout /\ drain_start <= now'
    BY <2>2, <2>4, <2>6, <2>7 DEF DrainTypes
  <2> QED
    BY <1>1, <1>2, <2>1, <2>2, <2>3, <2>7, <2>8 DEF DrainLimits
<1> QED
  BY <1>4, <1>5, <1>6

\* What holds of the delays so far held before them, and the reverse.
LEMMA LaterSum ==
  \A a, b, c, m \in Nat : a <= b /\ b + c < m => a + c < m
OBVIOUS

LEMMA LaterDifference ==
  \A x, y \in Int, a, b, c \in Nat :
    a <= b /\ x - y - a <= c => x - y - b <= c
OBVIOUS

\* Time passes, or nothing happens here.
LEMMA DrainEnvironment ==
  ASSUME DrainInv, DrainTypes, Path \/ Sleep \/ Delay \/ UNCHANGED vars
  PROVE  DrainInv'
<1>1. /\ UNCHANGED <<args, send_count, drain_start, timeout, sending, intr, pc, now,
                     remaining_time, deadline>>
      /\ \/ UNCHANGED <<clock, lag>>
         \/ clock' = clock + 1 /\ lag' = lag + 1
         \/ clock' = clock + 1 /\ lag' = lag /\ pc = "polling" /\ clock < deadline
  BY DEF Path, Sleep, Delay, vars, context, mainVars, locals, budget
<1> SUFFICES ASSUME send_count = 0, Bounded'
             PROVE  DrainLimits'
  BY <1>1 DEF DrainInv
<1>2. UNCHANGED Allowance
  BY <1>1 DEF Allowance
<1>3. lag \in Nat /\ lag' \in Nat /\ lag <= lag'
  BY <1>1 DEF DrainTypes
<1>4. Bounded
  <2>1. timeout = args.timeout /\ lag' + Allowance' < IntMax
    BY <1>1 DEF Bounded
  <2>2. lag' + Allowance < IntMax
    BY <1>2, <2>1
  <2>3. Allowance \in Nat /\ IntMax \in Nat
    BY BlastAssumption DEF DrainTypes
  <2>4. lag + Allowance < IntMax
    BY <1>3, <2>2, <2>3, LaterSum
  <2> QED
    BY <2>1, <2>4 DEF Bounded
<1>5. DrainLimits
  BY <1>4 DEF DrainInv
<1>6. CASE UNCHANGED <<clock, lag>> \/ (clock' = clock + 1 /\ lag' = lag + 1)
  <2>1. Spent' = Spent
    BY <1>1, <1>6 DEF Spent, DrainTypes
  <2>3. pc \in {"poll", "polling", "empty"} =>
          now + remaining_time - drain_start - lag' <= 2 * args.timeout
    BY <1>3, <1>5 DEF DrainLimits, DrainTypes
  <2>4. pc = "polling" => deadline - drain_start - lag' <= Allowance
    <3>1. pc = "polling" => deadline - drain_start - lag <= Allowance
      BY <1>5 DEF DrainLimits
    <3>2. deadline \in Int /\ drain_start \in Int /\ Allowance \in Nat
      BY DEF DrainTypes
    <3> QED
      BY <1>3, <3>1, <3>2, LaterDifference
  <2> QED
    BY <1>1, <1>2, <1>5, <2>1, <2>3, <2>4 DEF DrainLimits
<1>7. CASE clock' = clock + 1 /\ lag' = lag /\ pc = "polling" /\ clock < deadline
  <2>1. deadline - drain_start - lag <= Allowance
    BY <1>5, <1>7 DEF DrainLimits
  <2>2. Spent' <= Allowance
    BY <1>1, <1>7, <2>1 DEF Spent, DrainTypes
  <2> QED
    BY <1>1, <1>2, <1>5, <1>7, <2>2 DEF DrainLimits
<1> QED
  BY <1>1, <1>6, <1>7

LEMMA DrainStep ==
  ASSUME TypeOK, FlowInv, DrainInv, [Next]_vars
  PROVE  DrainInv'
<1> USE DrainTypesHold
<1>1. CASE Sending
  <2>1. send_count > 0 /\ UNCHANGED send_count
    BY <1>1
    DEF Sending, BlastQuery, SendTo, SendRetry, SendFails, FlowInv, mainVars
  <2>2. send_count \in Nat
    BY FlowTypesHold DEF FlowTypes
  <2> QED
    BY <2>1, <2>2 DEF DrainInv
<1>2. CASE ThrottledReceive
  BY <1>2, DrainThrottledReceive
<1>3. CASE Poll \/ PollReady \/ PollTimesOut \/ PollInterrupted
  BY <1>3, DrainPolling
<1>4. CASE PollFails \/ ReceiveFails \/ Close
  BY <1>4, DrainIdle DEF PollFails, ReceiveFails, Close, context
<1>5. CASE Receive \/ ReceiveRetry \/ EmptyDone
  BY <1>5, DrainCounting
<1>6. CASE FlushDone
  BY <1>6 DEF FlushDone, DrainInv, mainVars
<1>7. CASE NextTurn \/ StartDrain \/ DrainTurn \/ DrainTest
  BY <1>7, DrainMain
<1>8. CASE Path \/ Sleep \/ Delay \/ UNCHANGED vars
  BY <1>8, DrainEnvironment
<1> QED
  BY <1>1, <1>2, <1>3, <1>4, <1>5, <1>6, <1>7, <1>8
     DEF Next, Program, Throttling, Counting, Main, Finished

\* The drain is over in time, whatever comes in and whenever, as long as an int
\* holds what it may take at most: a wait that is computed anew after a delay
\* of half the values of an int would come out as a long one.
THEOREM DrainBoundedCorrect ==
  Spec => [](lag + (2 + intr) * args.timeout < IntMax => DrainBounded)
<1>1. TypeOK /\ DrainInv =>
        (lag + (2 + intr) * args.timeout < IntMax => DrainBounded)
  <2> SUFFICES ASSUME TypeOK, DrainInv, lag + Allowance < IntMax,
                      send_count = 0, timeout = args.timeout
               PROVE  clock - drain_start <= Allowance + lag
    BY DEF DrainBounded, Allowance
  <2>1. Spent <= Allowance
    BY DEF DrainInv, DrainLimits, Bounded
  <2> QED
    BY <2>1, DrainTypesHold DEF Spent, DrainTypes
<1>2. TypeOK /\ FlowInv /\ DrainInv /\ [Next]_vars => DrainInv'
  BY DrainStep
<1> QED
  BY <1>1, <1>2, DrainInit, FlowInit, FlowStep, TypeCorrect, PTL DEF Spec
-----------------------------------------------------------------------------
(* The query times *)

\* The datagrams whose id is that of their query
Stamped(n) == {m \in Datagrams : m.n \in 1 .. n /\ m.id = (m.n - 1) % IdSpace}

\* datagram_start has, for every query, its date or that of a later one with
\* the same id.
DatesKept ==
  \A k \in 1 .. Len(sent_at) :
    (k - 1) % IdSpace < Slots =>
      /\ sent_at[k] <= datagram_start[(k - 1) % IdSpace]
      /\ Len(sent_at) <= IdSpace => sent_at[k] = datagram_start[(k - 1) % IdSpace]

TimeKept ==
  query_time.n > 0 /\ query_time.elapsed # Garbage =>
    /\ query_time.n \in 1 .. Len(sent_at)
    /\ query_time.elapsed <= query_time.at - sent_at[query_time.n]
    /\ Len(sent_at) <= IdSpace =>
         query_time.elapsed = query_time.at - sent_at[query_time.n]

DatesInv ==
  /\ id = Len(sent_at) % IdSpace
  /\ pc \notin {"sendto", "failed"} => Len(sent_at) = sent_packets
  /\ pc = "sendto" => packet \in Stamped(Len(sent_at))
  /\ pc = "sendto" => Len(sent_at) = sent_packets + 1
  /\ wire \subseteq Stamped(Len(sent_at))
  /\ rcvbuf \in Seq(Stamped(Len(sent_at)))
  /\ \A k \in 1 .. Len(sent_at) : sent_at[k] <= clock
  /\ DatesKept
  /\ TimeKept

\* While the ids are dnsblast's own
Honest == sock_ok = TRUE /\ fuzz = FALSE

TimeInv == Honest => DatesInv

LEMMA RemainderIs ==
  ASSUME NEW x \in Int, NEW d \in Nat \ {0}, NEW q \in Int,
         NEW r \in 0 .. d - 1, x = d * q + r
  PROVE  x % d = r
<1> DEFINE p == x \div d
           t == x % d
<1>1. p \in Int /\ t \in 0 .. d - 1 /\ x = d * p + t
  BY Division
<1> HIDE DEF p, t
<1>2. d * p \in Int /\ d * q \in Int /\ d * (p + 1) = d * p + d
      /\ d * (q + 1) = d * q + d
  BY <1>1
<1>3. p < q + 1
  <2> SUFFICES ASSUME q + 1 <= p PROVE FALSE
    BY <1>1
  <2>1. d * (q + 1) <= d * p
    BY <1>1, Monotone
  <2> QED
    BY <1>1, <1>2, <2>1
<1>4. q < p + 1
  <2> SUFFICES ASSUME p + 1 <= q PROVE FALSE
    BY <1>1
  <2>1. d * (p + 1) <= d * q
    BY <1>1, Monotone
  <2> QED
    BY <1>1, <1>2, <2>1
<1>5. p = q
  BY <1>1, <1>3, <1>4
<1> QED
  BY <1>1, <1>2, <1>5 DEF t

LEMMA SmallRemainder ==
  ASSUME NEW x \in Nat, NEW d \in Nat \ {0}, x < d
  PROVE  x % d = x
OBVIOUS

LEMMA Successor ==
  ASSUME NEW a \in Nat, NEW d \in Nat \ {0}
  PROVE  ((a % d) + 1) % d = (a + 1) % d
<1> DEFINE q == a \div d
           r == a % d
<1>1. q \in Int /\ r \in 0 .. d - 1 /\ a = d * q + r
  BY Division
<1>2. r = a % d
  OBVIOUS
<1> HIDE DEF q, r
<1>3. CASE r + 1 < d
  <2>1. r + 1 \in 0 .. d - 1 /\ d * q \in Int
    BY <1>1, <1>3
  <2>2. a + 1 = d * q + (r + 1) /\ a + 1 \in Int
    BY <1>1, <2>1
  <2>3. (a + 1) % d = r + 1
    BY <1>1, <2>1, <2>2, RemainderIs
  <2>4. r + 1 = d * 0 + (r + 1) /\ r + 1 \in Int /\ 0 \in Int
    BY <1>1
  <2>5. (r + 1) % d = r + 1
    BY <2>1, <2>4, RemainderIs
  <2> QED
    BY <1>2, <2>3, <2>5
<1>4. CASE r + 1 = d
  <2>1. d * (q + 1) = d * q + d /\ d * q \in Int /\ d * 1 = d
    BY <1>1
  <2>2. a + 1 = d * (q + 1) + 0 /\ a + 1 \in Int /\ q + 1 \in Int
    BY <1>1, <1>4, <2>1
  <2>3. 0 \in 0 .. d - 1
    OBVIOUS
  <2>4. (a + 1) % d = 0
    BY <2>2, <2>3, RemainderIs
  <2>5. d = d * 1 + 0 /\ d \in Int /\ 1 \in Int
    BY <2>1
  <2>6. d % d = 0
    BY <2>3, <2>5, RemainderIs
  <2> QED
    BY <1>2, <1>4, <2>4, <2>6
<1> QED
  BY <1>1, <1>3, <1>4

LEMMA TimeInit == Init => TimeInv
<1> SUFFICES ASSUME Init PROVE DatesInv
  BY DEF TimeInv
<1>1. Len(sent_at) = 0 /\ 0 % IdSpace = 0 /\ <<>> \in Seq(Stamped(0))
  BY PathAssumption DEF Init
<1> QED
  BY <1>1 DEF Init, PathInit, DatesInv, DatesKept, TimeKept

\* A step that sends nothing and counts nothing
LEMMA TimeIdle ==
  ASSUME TypeOK, TimeInv, clock' \in {clock, clock + 1},
         UNCHANGED <<id, fuzz, sock_ok, datagram_start, history>>,
         pc' = "sendto" => pc = "sendto" /\ UNCHANGED packet,
         \/ pc = "sendto" /\ pc' \in {"sendto", "failed"}
         \/ pc \notin {"sendto", "failed"}
         \/ UNCHANGED pc,
         UNCHANGED sent_packets,
         \/ UNCHANGED <<wire, rcvbuf>>
         \/ PathNext
  PROVE  TimeInv'
<1> SUFFICES ASSUME Honest' PROVE DatesInv'
  BY DEF TimeInv
<1>1. DatesInv /\ UNCHANGED <<sent_at, query_time>>
  BY DEF TimeInv, Honest, history
<1> DEFINE S == Stamped(Len(sent_at))
<1>2. wire' \subseteq S /\ rcvbuf' \in Seq(S)
  <2>1. wire \subseteq S /\ rcvbuf \in Seq(S)
    BY <1>1 DEF DatesInv
  <2> HIDE DEF S
  <2> QED
    BY <2>1, PathWithin
<1>3. Stamped(Len(sent_at))' = S
  BY <1>1 DEF Stamped
<1>4. \A k \in 1 .. Len(sent_at) : sent_at[k] <= clock'
  <2> SUFFICES ASSUME NEW k \in 1 .. Len(sent_at) PROVE sent_at[k] <= clock'
    OBVIOUS
  <2>1. sent_at[k] \in Nat /\ clock \in Nat /\ sent_at[k] <= clock
    BY <1>1 DEF DatesInv, TypeOK, HistoryTypeOK
  <2> QED
    BY <2>1
<1>5. DatesKept' /\ TimeKept'
  BY <1>1 DEF DatesInv, DatesKept, TimeKept
<1> HIDE DEF S
<1>6. /\ id' = Len(sent_at') % IdSpace
      /\ pc' \notin {"sendto", "failed"} => Len(sent_at') = sent_packets'
      /\ pc' = "sendto" => packet' \in S /\ Len(sent_at') = sent_packets' + 1
  BY <1>1 DEF DatesInv, S
<1> QED
  BY <1>1, <1>2, <1>3, <1>4, <1>5, <1>6 DEF DatesInv

\* A new query overwrites the date of an earlier one only if that had its id.
LEMMA TimeBlastQuery ==
  ASSUME TypeOK, TimeInv, BlastQuery
  PROVE  TimeInv'
<1> SUFFICES ASSUME Honest' PROVE DatesInv'
  BY DEF TimeInv
<1> DEFINE N == Len(sent_at)
<1>1. id # Slots + 3 /\ id' = NextId /\ UNCHANGED <<sock_ok, fuzz>> /\ pc = "blast"
  BY DEF BlastQuery, StoreStart, Honest
<1>2. DatesInv
  BY <1>1 DEF TimeInv, Honest
<1>3. /\ N \in Nat /\ IdSpace \in Nat \ {0} /\ Slots \in Nat \ {0} /\ clock \in Nat
      /\ id = N % IdSpace /\ N = sent_packets /\ id \in Ids
      /\ sent_at \in Seq(Nat) /\ datagram_start \in [0 .. Slots - 1 -> 0 .. clock]
  BY <1>1, <1>2, PathAssumption, BlastAssumption
  DEF DatesInv, TypeOK, HistoryTypeOK, ContextTypeOK
<1>4. /\ pc' = "sendto" /\ packet' = [n |-> sent_packets + 1, id |-> id]
      /\ sent_at' = Append(sent_at, clock)
      /\ datagram_start' = IF id < Slots
                           THEN [datagram_start EXCEPT ![id] = clock]
                           ELSE datagram_start
      /\ UNCHANGED <<clock, sent_packets, query_time, wire, rcvbuf>>
  BY <1>1 DEF BlastQuery, StoreStart, WireIds, Honest, pathVars
<1>5. /\ Len(sent_at') = N + 1 /\ sent_at'[N + 1] = clock
      /\ \A k \in 1 .. N : sent_at'[k] = sent_at[k]
  BY SMTT(30), <1>3, <1>4
<1>6. \A k \in 1 .. N + 1 : k \in 1 .. N \/ k = N + 1
  BY <1>3
<1>7. \A k \in 1 .. N : sent_at[k] \in Nat /\ sent_at[k] <= clock
  BY <1>2, <1>3 DEF DatesInv
<1> HIDE DEF N
<1>8. id' = Len(sent_at') % IdSpace
  BY ZenonT(40), <1>1, <1>3, <1>5, Successor DEF NextId
<1>9. packet' \in Stamped(Len(sent_at'))
  <2>1. N + 1 \in 1 .. N + 1 /\ (N + 1) - 1 = N /\ N + 1 \in Nat
    BY <1>3
  <2>2. packet' \in Datagrams /\ packet'.n = N + 1 /\ packet'.id = N % IdSpace
    BY <1>3, <1>4, <2>1 DEF Datagrams
  <2> QED
    BY <1>5, <2>1, <2>2 DEF Stamped
<1>10. Stamped(N) \subseteq Stamped(Len(sent_at'))
  BY SMTT(30), <1>3, <1>5 DEF Stamped
<1>11. wire' \subseteq Stamped(Len(sent_at')) /\ rcvbuf' \in Seq(Stamped(Len(sent_at')))
  <2>1. wire \subseteq Stamped(N) /\ rcvbuf \in Seq(Stamped(N))
    BY <1>2 DEF DatesInv, N
  <2> DEFINE S == Stamped(N)
             T == Stamped(Len(sent_at'))
  <2>2. S \subseteq T /\ wire \subseteq S /\ rcvbuf \in Seq(S)
    BY <1>10, <2>1
  <2> HIDE DEF S, T
  <2>3. wire' \subseteq T /\ rcvbuf' \in Seq(T)
    BY <1>4, <2>2
  <2> QED
    BY <2>3 DEF T
<1>12. \A k \in 1 .. Len(sent_at') : sent_at'[k] <= clock'
  <2>1. clock' = clock /\ clock <= clock
    BY <1>3, <1>4
  <2> SUFFICES ASSUME NEW k \in 1 .. N + 1 PROVE sent_at'[k] <= clock
    BY <1>5, <2>1
  <2>2. CASE k \in 1 .. N
    <3>1. sent_at'[k] = sent_at[k] /\ sent_at[k] <= clock
      BY <1>5, <1>7, <2>2
    <3> QED
      BY <3>1
  <2>3. CASE k = N + 1
    BY <1>5, <2>1, <2>3
  <2> QED
    BY <1>6, <2>2, <2>3
<1>13. ASSUME NEW k \in 1 .. N + 1, (k - 1) % IdSpace < Slots
       PROVE  /\ sent_at'[k] <= datagram_start'[(k - 1) % IdSpace]
              /\ N + 1 <= IdSpace =>
                   sent_at'[k] = datagram_start'[(k - 1) % IdSpace]
  <2> DEFINE i == (k - 1) % IdSpace
  <2>1. i \in 0 .. IdSpace - 1 /\ i \in 0 .. Slots - 1
    <3>1. k - 1 \in Int
      OBVIOUS
    <3>2. i \in 0 .. IdSpace - 1
      BY <1>3, <3>1, Division
    <3> QED
      BY <1>3, <1>13, <3>2
  <2>2. CASE k = N + 1
    <3>1. k - 1 = N
      BY <1>3, <2>2
    <3>2. i = id
      BY <1>3, <3>1
    <3>3. id < Slots
      BY <1>13, <3>2
    <3> HIDE DEF i
    <3>4. datagram_start'[i] = clock
      BY <1>3, <1>4, <2>1, <3>2, <3>3
    <3> QED
      BY <1>3, <1>5, <2>2, <3>4 DEF i
  <2>3. CASE k \in 1 .. N
    <3>1. /\ sent_at[k] <= datagram_start[i]
          /\ N <= IdSpace => sent_at[k] = datagram_start[i]
      BY <1>2, <1>13, <2>3 DEF DatesInv, DatesKept, N
    <3>2. sent_at'[k] = sent_at[k] /\ sent_at[k] <= clock
      BY <1>5, <1>7, <2>3
    <3>3. N + 1 <= IdSpace => i # id
      <4> SUFFICES ASSUME N + 1 <= IdSpace PROVE i # id
        OBVIOUS
      <4>1. k - 1 \in Nat /\ k - 1 < IdSpace /\ N < IdSpace /\ k - 1 # N
        BY <1>3, <2>3
      <4>2. i = k - 1
        BY <1>3, <4>1, SmallRemainder
      <4>3. id = N
        BY <1>3, <4>1, SmallRemainder
      <4> QED
        BY <4>1, <4>2, <4>3
    <3> HIDE DEF i
    <3>4. datagram_start'[i] = datagram_start[i] \/ (i = id /\ datagram_start'[i] = clock)
      BY <1>3, <1>4, <2>1
    <3>5. N + 1 <= IdSpace => N <= IdSpace
      BY <1>3
    <3>6. /\ sent_at'[k] <= datagram_start'[i]
          /\ N + 1 <= IdSpace => sent_at'[k] = datagram_start'[i]
      BY <3>1, <3>2, <3>3, <3>4, <3>5
    <3> QED
      BY <3>6 DEF i
  <2> QED
    BY <1>6, <2>2, <2>3
<1>14. DatesKept'
  BY <1>5, <1>13 DEF DatesKept
<1>15. TimeKept'
  <2>1. N + 1 <= IdSpace => N <= IdSpace
    BY <1>3
  <2>2. \A k \in 1 .. N : k \in 1 .. N + 1
    BY <1>3
  <2>3. TimeKept
    BY <1>2 DEF DatesInv
  <2> QED
    BY <1>4, <1>5, <2>1, <2>2, <2>3 DEF TimeKept, N
<1>16. Len(sent_at') = sent_packets' + 1
  BY <1>3, <1>4, <1>5
<1> QED
  BY <1>4, <1>8, <1>9, <1>11, <1>12, <1>14, <1>15, <1>16 DEF DatesInv

LEMMA TimeSendTo ==
  ASSUME TypeOK, TimeInv, SendTo
  PROVE  TimeInv'
<1> SUFFICES ASSUME Honest' PROVE DatesInv'
  BY DEF TimeInv
<1>1. /\ pc = "sendto" /\ pc' = "throttle" /\ wire' = wire \cup {packet}
      /\ sent_packets' = sent_packets + 1
      /\ UNCHANGED <<clock, id, fuzz, sock_ok, datagram_start, sent_at, query_time,
                    rcvbuf>>
  BY DEF SendTo, Transmit, context, history
<1>2. DatesInv
  BY <1>1 DEF TimeInv, Honest
<1> DEFINE S == Stamped(Len(sent_at))
<1>3. packet \in S /\ wire \subseteq S /\ rcvbuf \in Seq(S)
  BY <1>1, <1>2 DEF DatesInv
<1>4. Stamped(Len(sent_at))' = S
  BY <1>1 DEF Stamped
<1> HIDE DEF S
<1>5. wire' \subseteq S /\ rcvbuf' \in Seq(S)
  BY <1>1, <1>3
<1>6. DatesKept' /\ TimeKept'
  BY <1>1, <1>2 DEF DatesInv, DatesKept, TimeKept
<1> QED
  BY <1>1, <1>2, <1>4, <1>5, <1>6 DEF DatesInv

LEMMA TimeReceive ==
  ASSUME TypeOK, TimeInv, Receive
  PROVE  TimeInv'
<1> SUFFICES ASSUME Honest' PROVE DatesInv'
  BY DEF TimeInv
<1> DEFINE h == Head(rcvbuf)
           S == Stamped(Len(sent_at))
<1>1. /\ rcvbuf # <<>> /\ rcvbuf' = Tail(rcvbuf) /\ Receiving
      /\ query_time' = [n |-> h.n, at |-> clock, elapsed |-> ReportedTime(h.id)]
      /\ UNCHANGED <<pc, clock, id, fuzz, sock_ok, datagram_start, sent_at,
                    sent_packets, wire>>
  BY DEF Receive, TakeAnswer, context
<1>2. DatesInv
  BY <1>1 DEF TimeInv, Honest
<1>3. h \in S /\ rcvbuf' \in Seq(S)
  <2>1. rcvbuf \in Seq(S)
    BY <1>2 DEF DatesInv
  <2> HIDE DEF S
  <2> QED
    BY <1>1, <2>1
<1>4. Stamped(Len(sent_at))' = S
  BY <1>1 DEF Stamped
<1>5. h.n \in 1 .. Len(sent_at) /\ h.id = (h.n - 1) % IdSpace /\ h.id \in Ids
  BY <1>3 DEF Stamped, Datagrams
<1>6. /\ sent_at[h.n] \in Nat /\ clock \in Nat
      /\ datagram_start \in [0 .. Slots - 1 -> 0 .. clock]
  BY SMTT(30), <1>5 DEF TypeOK, HistoryTypeOK, ContextTypeOK
<1> HIDE DEF h, S
<1>7. ASSUME ReportedTime(h.id) # Garbage
      PROVE  /\ ReportedTime(h.id) <= clock - sent_at[h.n]
             /\ Len(sent_at) <= IdSpace =>
                  ReportedTime(h.id) = clock - sent_at[h.n]
  <2>1. h.id < Slots /\ ReportedTime(h.id) = clock - datagram_start[h.id]
    BY <1>7 DEF ReportedTime
  <2>2. /\ sent_at[h.n] <= datagram_start[h.id]
        /\ Len(sent_at) <= IdSpace => sent_at[h.n] = datagram_start[h.id]
    BY <1>2, <1>5, <2>1 DEF DatesInv, DatesKept
  <2>3. datagram_start[h.id] \in Nat
    <3>1. h.id \in 0 .. Slots - 1
      BY <1>5, <2>1, PathAssumption, BlastAssumption DEF Ids
    <3> QED
      BY <1>6, <3>1
  <2> QED
    BY <1>6, <2>1, <2>2, <2>3
<1>8. TimeKept'
  BY <1>1, <1>5, <1>7 DEF TimeKept
<1>9. DatesKept'
  BY <1>1, <1>2 DEF DatesInv, DatesKept
<1>10. /\ id' = Len(sent_at') % IdSpace
       /\ pc' \notin {"sendto", "failed"} => Len(sent_at') = sent_packets'
       /\ pc' # "sendto" /\ wire' \subseteq S
       /\ \A k \in 1 .. Len(sent_at') : sent_at'[k] <= clock'
  BY <1>1, <1>2 DEF DatesInv, Receiving, S
<1> QED
  BY <1>3, <1>4, <1>8, <1>9, <1>10 DEF DatesInv

LEMMA TimeStep ==
  ASSUME TypeOK, TimeInv, [Next]_vars
  PROVE  TimeInv'
<1>1. CASE BlastQuery
  BY <1>1, TimeBlastQuery
<1>2. CASE SendTo
  BY <1>2, TimeSendTo
<1>3. CASE Receive
  BY <1>3, TimeReceive
<1>4. CASE StartDrain
  BY <1>4, TimeIdle DEF StartDrain, counters, pathVars
<1>5. CASE SendRetry \/ SendFails \/ Throttling
  BY <1>5, TimeIdle
  DEF SendRetry, SendFails, Throttling, ThrottledReceive, Poll, PollReady,
      PollTimesOut, PollInterrupted, PollFails, counters, context, pathVars
<1>6. CASE ReceiveRetry \/ ReceiveFails \/ FlushDone \/ EmptyDone
  BY <1>6, TimeIdle
  DEF ReceiveRetry, ReceiveFails, FlushDone, EmptyDone, Receiving, counters,
      context, pathVars
<1>7. CASE NextTurn \/ DrainTurn \/ DrainTest \/ Close
  BY <1>7, TimeIdle
  DEF NextTurn, DrainTurn, DrainTest, Close, counters, context, pathVars
<1>8. CASE Path \/ Sleep \/ Delay \/ UNCHANGED vars
  BY <1>8, TimeIdle
  DEF Path, Sleep, Delay, vars, counters, context, pathVars
<1> QED
  BY <1>1, <1>2, <1>3, <1>4, <1>5, <1>6, <1>7, <1>8
  DEF Next, Program, Sending, Counting, Main, Finished

\* A query time that is shown is never longer than the true one, and is the
\* true one as long as no id was used twice: for any number of ids and of
\* entries of datagram_start, as long as no store beyond its end has
\* overwritten the socket and, with it, the flag that tells fuzz from no fuzz.
THEOREM QueryTimeCorrect == Spec => [](sock_ok => QueryTimeSound)
<1>1. TypeOK /\ TimeInv => (sock_ok => QueryTimeSound)
  <2> SUFFICES ASSUME TypeOK, TimeInv, sock_ok, ~fuzz PROVE QueryTimeSound
    BY DEF QueryTimeSound
  <2>1. TimeKept
    <3>1. Honest
      BY DEF Honest, TypeOK, ContextTypeOK
    <3> QED
      BY <3>1 DEF TimeInv, DatesInv
  <2> QED
    BY <2>1 DEF TimeKept, QueryTimeSound
<1>2. TypeOK /\ TimeInv /\ [Next]_vars => TimeInv'
  BY TimeStep
<1> QED
  BY <1>1, <1>2, TimeInit, TypeCorrect, PTL DEF Spec
=============================================================================
