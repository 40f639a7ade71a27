--------------------------- MODULE DnsBlastProofs ---------------------------
EXTENDS DnsBlast, FiniteSetTheorems, TLAPS

\* A quotient of naturals is a natural, and is the greatest one that fits.
LEMMA Quotient ==
  ASSUME NEW a \in Nat, NEW d \in Nat \ {0}
  PROVE  /\ a \div d \in Nat
         /\ d * (a \div d) <= a
         /\ a < d * (a \div d) + d
OBVIOUS

\* What is multiplied by a natural keeps its order.
LEMMA Monotone ==
  ASSUME NEW p \in Nat, NEW a \in Int, NEW b \in Int, a <= b
  PROVE  p * a <= p * b
OBVIOUS

\* Products of naturals are naturals.
LEMMA Product ==
  ASSUME NEW a \in Nat, NEW b \in Nat
  PROVE  a * b \in Nat
OBVIOUS

\* Division with a remainder, of an integer of either sign.
LEMMA Division ==
  ASSUME NEW x \in Int, NEW d \in Nat \ {0}
  PROVE  x \div d \in Int /\ x % d \in 0 .. d - 1 /\ x = d * (x \div d) + (x % d)
OBVIOUS

\* The conversion to int keeps integers, and below IntMax.
LEMMA ToIntType ==
  ASSUME NEW x \in Int
  PROVE  ToInt(x) \in Int
BY BlastAssumption DEF ToInt

LEMMA ToIntBounded ==
  ASSUME NEW x \in Int
  PROVE  ToInt(x) < IntMax
<1>1. 2 * IntMax \in Nat \ {0}
  BY BlastAssumption
<1>2. x % (2 * IntMax) \in 0 .. 2 * IntMax - 1
  BY <1>1, Division
<1> QED
  BY <1>2, BlastAssumption DEF ToInt

\* The conversion to int only ever makes a number smaller than IntMax larger.
LEMMA ToIntLarger ==
  ASSUME NEW x \in Int, x < IntMax
  PROVE  ToInt(x) >= x
<1> DEFINE d == 2 * IntMax
           q == x \div d
           r == x % d
<1>1. d \in Nat \ {0} /\ d = IntMax + IntMax /\ IntMax \in Nat
  BY BlastAssumption
<1>2. q \in Int /\ r \in 0 .. d - 1 /\ x = d * q + r
  BY <1>1, Division
<1>3. ToInt(x) = IF r < IntMax THEN r ELSE r - d
  BY DEF ToInt
<1> HIDE DEF d, q, r
<1>4. CASE q <= -1
  <2>1. d * q <= d * (-1)
    BY <1>1, <1>2, <1>4, Monotone
  <2>2. d * q <= -d
    BY <2>1, <1>1
  <2>3. d * q \in Int
    BY <1>1, <1>2
  <2> QED
    BY <2>2, <2>3, <1>1, <1>2, <1>3
<1>5. CASE q >= 0
  <2>1. d * 0 <= d * q
    BY <1>1, <1>2, <1>5, Monotone
  <2>2. d * q \in Nat
    BY <2>1, <1>1, <1>2
  <2>3. r <= x
    BY <2>2, <1>1, <1>2
  <2> QED
    BY <2>3, <1>1, <1>2, <1>3
<1> QED
  BY <1>2, <1>4, <1>5

\* Numbers an int can hold are not changed by the conversion.
LEMMA ToIntSame ==
  ASSUME NEW x \in Int, -IntMax <= x, x < IntMax
  PROVE  ToInt(x) = x
<1> DEFINE d == 2 * IntMax
           q == x \div d
           r == x % d
<1>1. d \in Nat \ {0} /\ d = IntMax + IntMax /\ IntMax \in Nat
  BY BlastAssumption
<1>2. q \in Int /\ r \in 0 .. d - 1 /\ x = d * q + r
  BY <1>1, Division
<1>3. ToInt(x) = IF r < IntMax THEN r ELSE r - d
  BY DEF ToInt
<1> HIDE DEF d, q, r
<1>4. d * q \in Int
  BY <1>1, <1>2
<1>5. q < 1
  <2> SUFFICES ASSUME q >= 1 PROVE FALSE
    BY <1>2
  <2>1. d * 1 <= d * q
    BY <1>1, <1>2, Monotone
  <2>2. d <= d * q
    BY <1>1, <2>1
  <2> QED
    BY <1>1, <1>2, <1>4, <2>2
<1>6. q > -2
  <2> SUFFICES ASSUME q <= -2 PROVE FALSE
    BY <1>2
  <2>1. d * q <= d * (-2)
    BY <1>1, <1>2, Monotone
  <2>2. d * q <= -d - d
    BY <1>1, <2>1
  <2> QED
    BY <1>1, <1>2, <1>4, <2>2
<1>7. q = 0 \/ q = -1
  BY <1>2, <1>5, <1>6
<1>8. x = r \/ x = r - d
  <2>1. CASE q = 0
    <3>1. d * 0 = 0
      BY <1>1
    <3> QED
      BY <1>1, <1>2, <2>1, <3>1
  <2>2. CASE q = -1
    <3>1. d * (-1) = -d
      BY <1>1
    <3> QED
      BY <1>1, <1>2, <2>2, <3>1
  <2> QED
    BY <1>7, <2>1, <2>2
<1> QED
  BY <1>1, <1>2, <1>3, <1>8
-----------------------------------------------------------------------------
(* Types *)

LEMMA ReplyRateType ==
  ASSUME TypeOK
  PROVE  ReplyRate \in ReplyRates
<1>1. CASE clock = StartDate
  BY <1>1 DEF ReplyRate, startup_date, ReplyRates
<1>2. CASE clock # StartDate
  <2>1. /\ received_packets * MsPerSec \in Nat
        /\ clock - StartDate \in Nat \ {0}
    BY <1>2, BlastAssumption, Product DEF TypeOK, CountersTypeOK
  <2> QED
    BY <1>2, <2>1, Quotient DEF ReplyRate, startup_date, ReplyRates
<1> QED
  BY <1>1, <1>2

LEMMA ArgsTypes ==
  ASSUME MainTypeOK
  PROVE  /\ args.count \in Nat \ {0} /\ args.pps \in Nat
         /\ args.timeout \in Nat
<1>1. args \in [count : Counts, pps : Rates, timeout : Timeouts]
  BY DEF MainTypeOK
<1>2. args.count \in Counts /\ args.pps \in Rates /\ args.timeout \in Timeouts
  BY <1>1
<1> QED
  BY <1>2, BlastAssumption

LEMMA ThrottleTypes ==
  ASSUME TypeOK
  PROVE  /\ args.pps \in Nat
         /\ MaxPackets \in Nat
         /\ MsPerSec * sent_packets \in Nat
         /\ Excess \in Int
<1>1. /\ args.pps \in Nat /\ clock - StartDate \in Nat
      /\ MsPerSec \in Nat /\ sent_packets \in Nat
  BY BlastAssumption, ArgsTypes DEF TypeOK, CountersTypeOK
<1>2. MaxPackets \in Nat /\ MsPerSec * sent_packets \in Nat
  BY <1>1, Product DEF MaxPackets, startup_date
<1> QED
  BY <1>1, <1>2 DEF Excess

\* A wait is the excess divided by the rate, or one less if that is exact.
LEMMA TimesToWaitCases ==
  ASSUME TypeOK, NEW w \in TimesToWait
  PROVE  \/ /\ args.pps > 0 /\ Excess > 0
            /\ \/ w = Excess \div args.pps
               \/ w = Excess \div args.pps - 1 /\ args.pps * (w + 1) = Excess
         \/ /\ args.pps = 0 \/ Excess <= 0
            /\ w = 0
<1>1. CASE args.pps > 0 /\ Excess > 0
  <2> DEFINE q == Excess \div args.pps
  <2>1. q \in Nat
    BY <1>1, ThrottleTypes, Quotient
  <2>2. w = q \/ (w = q - 1 /\ args.pps * q = Excess)
    BY <1>1 DEF TimesToWait
  <2>3. w = q - 1 => w + 1 = q
    <3> HIDE DEF q
    <3> QED
      BY <2>1
  <2> QED
    BY <1>1, <2>2, <2>3
<1>2. CASE ~(args.pps > 0 /\ Excess > 0)
  BY <1>2, ThrottleTypes DEF TimesToWait
<1> QED
  BY <1>1, <1>2

LEMMA TimesToWaitType ==
  ASSUME TypeOK, NEW w \in TimesToWait
  PROVE  w \in Nat
<1>1. CASE args.pps > 0 /\ Excess > 0
  <2> DEFINE q == Excess \div args.pps
  <2>1. q \in Nat
    BY <1>1, ThrottleTypes, Quotient
  <2>2. CASE w = q - 1 /\ args.pps * q = Excess
    <3>1. q # 0
      <4> HIDE DEF q
      <4> QED
        BY <1>1, <2>2, ThrottleTypes
    <3> QED
      BY <2>1, <2>2, <3>1
  <2> QED
    BY <1>1, <2>1, <2>2 DEF TimesToWait
<1>2. CASE ~(args.pps > 0 /\ Excess > 0)
  BY <1>2 DEF TimesToWait
<1> QED
  BY <1>1, <1>2

\* A group of variables that a step leaves alone keeps its type, and the
\* groups that hold dates keep it when the clock has moved on, too.
LEMMA UnchangedTypes ==
  ASSUME TypeOK
  PROVE  /\ UNCHANGED counters => CountersTypeOK'
         /\ UNCHANGED history => HistoryTypeOK'
         /\ UNCHANGED pathVars => PathTypeOK'
         /\ UNCHANGED budget => intr' \in Nat /\ lag' \in Nat
         /\ UNCHANGED packet => packet' \in Datagrams
         /\ clock' = clock \/ clock' = clock + 1 =>
              /\ clock' \in Nat /\ StartDate <= clock'
              /\ UNCHANGED mainVars => MainTypeOK'
              /\ UNCHANGED context => ContextTypeOK'
              /\ UNCHANGED status => StatusTypeOK'
              /\ UNCHANGED locals => LocalsTypeOK'
<1>1. UNCHANGED counters => CountersTypeOK'
  BY DEF TypeOK, CountersTypeOK, counters
<1>2. UNCHANGED history => HistoryTypeOK'
  BY DEF TypeOK, HistoryTypeOK, history
<1>3. UNCHANGED pathVars => PathTypeOK'
  BY DEF TypeOK, PathTypeOK, pathVars
<1>4. UNCHANGED budget => intr' \in Nat /\ lag' \in Nat
  BY DEF TypeOK, budget
<1>5. UNCHANGED packet => packet' \in Datagrams
  BY DEF TypeOK
<1>6. ASSUME clock' = clock \/ clock' = clock + 1
      PROVE  /\ clock' \in Nat /\ StartDate <= clock'
             /\ UNCHANGED mainVars => MainTypeOK'
             /\ UNCHANGED context => ContextTypeOK'
             /\ UNCHANGED status => StatusTypeOK'
             /\ UNCHANGED locals => LocalsTypeOK'
  <2>1. clock' \in Nat /\ StartDate <= clock' /\ clock <= clock'
    BY <1>6, BlastAssumption DEF TypeOK
  <2>2. UNCHANGED mainVars => MainTypeOK'
    BY <2>1 DEF TypeOK, MainTypeOK, mainVars
  <2>3. UNCHANGED context => ContextTypeOK'
    BY <2>1 DEF TypeOK, ContextTypeOK, context
  <2>4. UNCHANGED status => StatusTypeOK'
    BY <2>1, BlastAssumption DEF TypeOK, StatusTypeOK, status
  <2>5. UNCHANGED locals => LocalsTypeOK'
    BY <2>1 DEF TypeOK, LocalsTypeOK, locals
  <2> QED
    BY <2>1, <2>2, <2>3, <2>4, <2>5
<1> QED
  BY <1>1, <1>2, <1>3, <1>4, <1>5, <1>6

LEMMA UpdateStatusType ==
  ASSUME TypeOK, UpdateStatus, UNCHANGED clock,
         last_status_update' \in {last_status_update, clock}
  PROVE  StatusTypeOK'
BY ReplyRateType, BlastAssumption
   DEF UpdateStatus, TypeOK, StatusTypeOK, CountersTypeOK

LEMMA PeriodicStatusType ==
  ASSUME TypeOK, PeriodicallyUpdateStatus, UNCHANGED clock
  PROVE  StatusTypeOK'
BY UnchangedTypes, UpdateStatusType DEF PeriodicallyUpdateStatus

LEMMA DropLocalsType ==
  ASSUME TypeOK, DropLocals, UNCHANGED clock
  PROVE  LocalsTypeOK'
BY DEF TypeOK, DropLocals, LocalsTypeOK

LEMMA TypeInit == Init => TypeOK
<1> SUFFICES ASSUME Init PROVE TypeOK
  OBVIOUS
<1>1. MainTypeOK /\ CountersTypeOK /\ LocalsTypeOK
  BY BlastAssumption
     DEF Init, MainTypeOK, CountersTypeOK, LocalsTypeOK
<1>2. ContextTypeOK /\ StatusTypeOK
  BY BlastAssumption, PathAssumption
     DEF Init, ContextTypeOK, StatusTypeOK, ReplyRates, Ids
<1>3. HistoryTypeOK /\ PathTypeOK /\ packet \in Datagrams
  BY PathAssumption
     DEF Init, PathInit, HistoryTypeOK, PathTypeOK, Datagrams, Ids
<1> QED
  BY <1>1, <1>2, <1>3, BlastAssumption DEF Init, TypeOK, ControlPoints

LEMMA TypeSending ==
  ASSUME TypeOK, Sending
  PROVE  TypeOK'
<1>1. CASE BlastQuery
  <2> USE <1>1 DEF BlastQuery
  <2>1. CountersTypeOK'
    BY DEF TypeOK, CountersTypeOK, StoreStart
  <2>2. ContextTypeOK'
    <3>1. NextId \in Ids
      <4>1. id + 1 \in Int /\ IdSpace \in Nat \ {0}
        BY PathAssumption DEF TypeOK, ContextTypeOK, Ids
      <4> QED
        BY <4>1, Division DEF NextId, Ids
    <3>2. id' \in Ids /\ timeout' \in Nat
      BY <3>1 DEF TypeOK, ContextTypeOK, StoreStart
    <3>3. /\ sending' \in BOOLEAN /\ fuzz' \in BOOLEAN
          /\ sock_ok' \in BOOLEAN
      BY DEF TypeOK, ContextTypeOK, StoreStart
    <3>4. datagram_start' \in [0 .. Slots - 1 -> 0 .. clock']
      <4>1. /\ datagram_start \in [0 .. Slots - 1 -> 0 .. clock]
            /\ clock \in 0 .. clock /\ clock' = clock
        BY DEF TypeOK, ContextTypeOK
      <4>2. \/ datagram_start' = datagram_start
            \/ datagram_start' = [datagram_start EXCEPT ![id] = clock]
        BY DEF StoreStart
      <4> QED
        BY <4>1, <4>2
    <3> QED
      BY <3>2, <3>3, <3>4 DEF ContextTypeOK
  <2>3. StatusTypeOK'
    BY DEF TypeOK, StatusTypeOK, StoreStart, ReplyRates
  <2>4. packet' \in Datagrams
    BY DEF TypeOK, CountersTypeOK, ContextTypeOK, WireIds, Datagrams
  <2>5. HistoryTypeOK'
    BY DEF TypeOK, HistoryTypeOK
  <2> QED
    BY <2>1, <2>2, <2>3, <2>4, <2>5, UnchangedTypes DEF TypeOK, ControlPoints
<1>2. CASE SendTo
  <2>1. CountersTypeOK'
    BY <1>2 DEF TypeOK, CountersTypeOK, SendTo
  <2>2. PathTypeOK'
    BY <1>2 DEF TypeOK, PathTypeOK, SendTo, Transmit
  <2> QED
    BY <1>2, <2>1, <2>2, UnchangedTypes DEF TypeOK, SendTo, ControlPoints
<1>3. CASE SendRetry
  BY <1>3, UnchangedTypes DEF TypeOK, SendRetry
<1>4. CASE SendFails
  BY <1>4, UnchangedTypes DEF TypeOK, SendFails, ControlPoints
<1> QED
  BY <1>1, <1>2, <1>3, <1>4 DEF Sending

LEMMA TypeThrottling ==
  ASSUME TypeOK, Throttling
  PROVE  TypeOK'
<1>1. CASE ThrottledReceive
  <2>1. LocalsTypeOK'
    <3>1. remaining_time' \in TimesToWait \/ remaining_time' = ToInt(timeout)
      BY <1>1 DEF ThrottledReceive, DrainWait
    <3>2. remaining_time' \in Int
      BY SMTT(30), <3>1, TimesToWaitType, ToIntType DEF TypeOK, ContextTypeOK
    <3> QED
      BY <1>1, <3>2 DEF TypeOK, LocalsTypeOK, ThrottledReceive
  <2> QED
    BY <1>1, <2>1, UnchangedTypes DEF TypeOK, ThrottledReceive, ControlPoints
<1>2. CASE Poll
  <2>1. LocalsTypeOK'
    BY <1>2 DEF TypeOK, LocalsTypeOK, Poll
  <2> QED
    BY <1>2, <2>1, UnchangedTypes DEF TypeOK, Poll, ControlPoints
<1>3. CASE PollReady
  BY <1>3, UnchangedTypes DEF TypeOK, PollReady, ControlPoints
<1>4. CASE PollTimesOut
  <2>1. CountersTypeOK' /\ StatusTypeOK'
    <3>1. CASE failed_packets' = failed_packets + 1 /\ UNCHANGED status
      BY <1>4, <3>1, UnchangedTypes DEF TypeOK, CountersTypeOK, PollTimesOut
    <3>2. CASE PeriodicallyUpdateStatus /\ UNCHANGED failed_packets
      BY <1>4, <3>2, PeriodicStatusType
         DEF TypeOK, CountersTypeOK, PollTimesOut
    <3> QED
      BY <1>4, <3>1, <3>2 DEF PollTimesOut
  <2> QED
    BY <1>4, <2>1, UnchangedTypes DEF TypeOK, PollTimesOut, ControlPoints
<1>5. CASE PollInterrupted
  BY <1>5, UnchangedTypes DEF TypeOK, PollInterrupted, ControlPoints
<1>6. CASE PollFails
  BY <1>6, UnchangedTypes DEF TypeOK, PollFails, ControlPoints
<1> QED
  BY <1>1, <1>2, <1>3, <1>4, <1>5, <1>6 DEF Throttling

LEMMA TypeCounting ==
  ASSUME TypeOK, Counting
  PROVE  TypeOK'
<1>1. CASE Receive
  <2> USE <1>1 DEF Receive
  <2>1. Head(rcvbuf) \in Datagrams /\ PathTypeOK'
    BY DEF TypeOK, TakeAnswer, PathTypeOK
  <2>2. ReportedTime(Head(rcvbuf).id) \in Nat \cup {Garbage}
    <3>1. Head(rcvbuf).id \in Nat
      BY <2>1 DEF Datagrams, Ids
    <3> QED
      BY <3>1, BlastAssumption DEF TypeOK, ContextTypeOK, ReportedTime
  <2>3. HistoryTypeOK'
    BY <2>1, <2>2 DEF TypeOK, HistoryTypeOK, Datagrams
  <2>4. CountersTypeOK'
    BY DEF TypeOK, CountersTypeOK, CountAnswer
  <2> QED
    BY <2>1, <2>3, <2>4, UnchangedTypes DEF TypeOK
<1>2. CASE ReceiveRetry
  BY <1>2, UnchangedTypes DEF TypeOK, ReceiveRetry
<1>3. CASE ReceiveFails
  BY <1>3, UnchangedTypes DEF TypeOK, ReceiveFails, ControlPoints
<1>4. CASE FlushDone
  BY <1>4, UnchangedTypes, PeriodicStatusType
     DEF TypeOK, FlushDone, ControlPoints
<1>5. CASE EmptyDone
  <2>1. LeftToWait \in Int
    BY ToIntType DEF LeftToWait, TypeOK, LocalsTypeOK
  <2>2. LocalsTypeOK'
    BY <1>5, <2>1 DEF TypeOK, LocalsTypeOK, EmptyDone
  <2> QED
    BY <1>5, <2>2, UnchangedTypes, PeriodicStatusType
       DEF TypeOK, EmptyDone, ControlPoints
<1> QED
  BY <1>1, <1>2, <1>3, <1>4, <1>5 DEF Counting

LEMMA TypeMain ==
  ASSUME TypeOK, Main
  PROVE  TypeOK'
<1>1. CASE NextTurn
  <2>1. MainTypeOK'
    BY <1>1, ArgsTypes DEF TypeOK, MainTypeOK, NextTurn
  <2> QED
    BY <1>1, <2>1, UnchangedTypes, DropLocalsType
       DEF TypeOK, NextTurn, ControlPoints
<1>2. CASE StartDrain
  <2>1. MainTypeOK'
    BY <1>2, ArgsTypes DEF TypeOK, MainTypeOK, StartDrain
  <2>2. ContextTypeOK'
    BY <1>2 DEF TypeOK, ContextTypeOK, StartDrain
  <2>3. StatusTypeOK'
    BY <1>2, UpdateStatusType DEF StartDrain
  <2> QED
    BY <1>2, <2>1, <2>2, <2>3, UnchangedTypes, DropLocalsType
       DEF TypeOK, StartDrain, ControlPoints
<1>3. CASE DrainTurn
  BY <1>3, UnchangedTypes, DropLocalsType DEF TypeOK, DrainTurn, ControlPoints
<1>4. CASE DrainTest
  BY <1>4, UnchangedTypes DEF TypeOK, DrainTest, ControlPoints
<1>5. CASE Close
  <2>1. StatusTypeOK'
    BY <1>5, UpdateStatusType DEF Close
  <2> QED
    BY <1>5, <2>1, UnchangedTypes DEF TypeOK, Close, ControlPoints
<1> QED
  BY <1>1, <1>2, <1>3, <1>4, <1>5 DEF Main

LEMMA TypePath ==
  ASSUME PathTypeOK, PathNext
  PROVE  PathTypeOK'
<1>1. PICK m \in wire : Deliver(m) \/ Lose(m) \/ Duplicate(m)
  BY DEF PathNext
<1>2. m \in Datagrams
  BY DEF PathTypeOK
<1>3. CASE Deliver(m)
  BY <1>2, <1>3 DEF PathTypeOK, Deliver
<1>4. CASE Lose(m)
  BY <1>2, <1>4 DEF PathTypeOK, Lose
<1>5. CASE Duplicate(m)
  BY <1>2, <1>5 DEF PathTypeOK, Duplicate
<1> QED
  BY <1>1, <1>3, <1>4, <1>5

LEMMA TypeEnvironment ==
  ASSUME TypeOK, Path \/ Sleep \/ Delay \/ UNCHANGED vars
  PROVE  TypeOK'
<1>1. CASE Path
  BY <1>1, TypePath, UnchangedTypes DEF TypeOK, Path
<1>2. CASE Sleep
  BY <1>2, UnchangedTypes DEF TypeOK, Sleep
<1>3. CASE Delay
  BY <1>3, UnchangedTypes DEF TypeOK, Delay
<1>4. CASE UNCHANGED vars
  BY <1>4, UnchangedTypes DEF TypeOK, vars
<1> QED
  BY <1>1, <1>2, <1>3, <1>4

\* Every reachable state of the load tester is well typed; in particular the
\* id always has the width of the DNS header's, and no time that is kept is
\* ever later than the clock.
THEOREM TypeCorrect == Spec => []TypeOK
<1>1. TypeOK /\ [Next]_vars => TypeOK'
  BY TypeSending, TypeThrottling, TypeCounting, TypeMain, TypeEnvironment
     DEF Next, Program, Finished
<1> QED
  BY <1>1, TypeInit, PTL DEF Spec
-----------------------------------------------------------------------------
(* Conservation *)

\* What makes Conservation inductive: the packet that sendto is given is not
\* on the wire yet, for it carries a number no datagram there has.
ConservationInv ==
  /\ Conservation
  /\ IsFiniteSet(wire)
  /\ \A m \in wire : m.n <= sent_packets
  /\ pc = "sendto" => packet.n = sent_packets + 1

LEMMA ConservationInit == Init => ConservationInv
BY FS_EmptySet
   DEF Init, PathInit, ConservationInv, Conservation

\* A step that neither sends nor receives, and leaves the path alone.
LEMMA ConservationIdle ==
  ASSUME ConservationInv, UNCHANGED <<sent_packets, received_packets>>,
         UNCHANGED pathVars,
         pc' = "sendto" => pc = "sendto" /\ UNCHANGED packet
  PROVE  ConservationInv'
BY DEF ConservationInv, Conservation, pathVars

LEMMA ConservationSendTo ==
  ASSUME TypeOK, ConservationInv, SendTo
  PROVE  ConservationInv'
<1>1. packet \notin wire
  BY DEF SendTo, ConservationInv, TypeOK, CountersTypeOK
<1>2. /\ IsFiniteSet(wire')
      /\ Cardinality(wire') = Cardinality(wire) + 1
  BY <1>1, FS_AddElement DEF SendTo, Transmit, ConservationInv
<1>3. Cardinality(wire) \in Nat /\ Len(rcvbuf) \in Nat
  BY FS_CardinalityType DEF ConservationInv, TypeOK, PathTypeOK
<1>4. Conservation'
  <2>1. /\ sent_packets \in Nat /\ received_packets \in Nat
        /\ lost \in Nat /\ dups \in Nat
    BY DEF TypeOK, CountersTypeOK, PathTypeOK
  <2>2. /\ sent_packets' = sent_packets + 1
        /\ UNCHANGED <<received_packets, rcvbuf, lost, dups>>
    BY DEF SendTo, Transmit
  <2> QED
    BY <1>2, <1>3, <2>1, <2>2 DEF ConservationInv, Conservation
<1>5. \A m \in wire' : m.n <= sent_packets'
  BY DEF SendTo, Transmit, ConservationInv, TypeOK, PathTypeOK, CountersTypeOK,
         Datagrams
<1> QED
  BY <1>2, <1>4, <1>5 DEF SendTo, ConservationInv

LEMMA ConservationReceive ==
  ASSUME TypeOK, ConservationInv, Receive
  PROVE  ConservationInv'
<1>1. Len(rcvbuf) \in Nat \ {0} /\ Len(rcvbuf') = Len(rcvbuf) - 1
  BY DEF Receive, TakeAnswer, TypeOK, PathTypeOK
<1>2. Cardinality(wire) \in Nat
  BY FS_CardinalityType DEF ConservationInv
<1>3. Conservation'
  BY <1>1, <1>2
     DEF Receive, TakeAnswer, CountAnswer, ConservationInv, Conservation,
         TypeOK, CountersTypeOK, PathTypeOK
<1> QED
  BY <1>3 DEF Receive, TakeAnswer, Receiving, ConservationInv

LEMMA ConservationPath ==
  ASSUME TypeOK, ConservationInv, Path
  PROVE  ConservationInv'
<1>1. PICK m \in wire : Deliver(m) \/ Lose(m) \/ Duplicate(m)
  BY DEF Path, PathNext
<1>2. /\ IsFiniteSet(wire \ {m})
      /\ Cardinality(wire \ {m}) = Cardinality(wire) - 1
      /\ Cardinality(wire) \in Nat
  BY FS_RemoveElement, FS_CardinalityType DEF ConservationInv
<1>3. /\ sent_packets \in Nat /\ received_packets \in Nat
      /\ lost \in Nat /\ dups \in Nat /\ Len(rcvbuf) \in Nat
      /\ m \in Datagrams /\ rcvbuf \in Seq(Datagrams)
  BY DEF TypeOK, CountersTypeOK, PathTypeOK
<1>4. Len(Append(rcvbuf, m)) = Len(rcvbuf) + 1
  BY <1>3
<1>5. /\ UNCHANGED <<pc, packet, sent_packets, received_packets>>
  BY DEF Path, counters
<1>6. CASE Deliver(m)
  <2>1. wire' = wire \ {m} /\ UNCHANGED dups
    BY <1>6 DEF Deliver
  <2>2. \/ Len(rcvbuf') = Len(rcvbuf) + 1 /\ UNCHANGED lost
        \/ UNCHANGED rcvbuf /\ lost' = lost + 1
    BY <1>4, <1>6 DEF Deliver
  <2>3. Conservation'
    BY <1>2, <1>3, <1>5, <2>1, <2>2 DEF ConservationInv, Conservation
  <2> QED
    BY <1>2, <1>5, <2>1, <2>3 DEF ConservationInv
<1>7. CASE Lose(m)
  BY <1>2, <1>3, <1>5, <1>7 DEF Lose, ConservationInv, Conservation
<1>8. CASE Duplicate(m)
  BY <1>2, <1>3, <1>4, <1>5, <1>8 DEF Duplicate, ConservationInv, Conservation
<1> QED
  BY <1>1, <1>6, <1>7, <1>8

\* The three counters that matter are the program's sent and received, and
\* what the path did to the datagrams in between: no query is ever counted
\* twice or forgotten, for any number of queries and any size of buffer.
THEOREM ConservationCorrect == Spec => []Conservation
<1>1. TypeOK /\ ConservationInv /\ [Next]_vars => ConservationInv'
  <2> SUFFICES ASSUME TypeOK, ConservationInv, [Next]_vars
               PROVE  ConservationInv'
    OBVIOUS
  <2> USE DEF counters
  <2>1. CASE BlastQuery
    BY <2>1 DEF BlastQuery, ConservationInv, Conservation, pathVars
  <2>2. CASE SendTo
    BY <2>2, ConservationSendTo
  <2>3. CASE SendRetry \/ SendFails
    BY <2>3, ConservationIdle DEF SendRetry, SendFails
  <2>4. CASE Throttling
    BY <2>4, ConservationIdle
       DEF Throttling, ThrottledReceive, Poll, PollReady, PollTimesOut,
           PollInterrupted, PollFails
  <2>5. CASE Receive
    BY <2>5, ConservationReceive
  <2>6. CASE ReceiveRetry \/ ReceiveFails \/ FlushDone \/ EmptyDone
    BY <2>6, ConservationIdle
       DEF ReceiveRetry, ReceiveFails, FlushDone, EmptyDone
  <2>7. CASE Main
    BY <2>7, ConservationIdle
       DEF Main, NextTurn, StartDrain, DrainTurn, DrainTest, Close
  <2>8. CASE Path
    BY <2>8, ConservationPath
  <2>9. CASE Sleep \/ Delay
    BY <2>9, ConservationIdle DEF Sleep, Delay
  <2>10. CASE UNCHANGED vars
    BY <2>10, ConservationIdle DEF vars
  <2> QED
    BY <2>1, <2>2, <2>3, <2>4, <2>5, <2>6, <2>7, <2>8, <2>9, <2>10
       DEF Next, Program, Sending, Counting, Finished
<1>2. ConservationInv => Conservation
  BY DEF ConservationInv
<1> QED
  BY <1>1, <1>2, ConservationInit, TypeCorrect, PTL DEF Spec
=============================================================================
