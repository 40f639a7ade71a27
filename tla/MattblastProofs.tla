-------------------------- MODULE MattblastProofs --------------------------
(***************************************************************************)
(* What holds of mattblast for every rate, count, unit of time and width   *)
(* of its integers.  FlowInv is the book-keeping of main, without which    *)
(* TypeOK is not inductive: sendto is reached with a query left to send,   *)
(* and the last status line, which divides by the time gone by, after      *)
(* StartDrain has divided by it.  Known says the same of the path: there   *)
(* are no answers on it but those to queries that were sent.               *)
(* With them mattblast is seen to implement LoadTest, times left out.      *)
(***************************************************************************)
EXTENDS Mattblast, UdpPathProofs

InTurn == pc \in {"throttle", "flush", "poll", "polling", "empty", "return"}

\* Every datagram is that of a query, so that only queries are answered.
Known ==
  /\ \A m \in wire : m.n \in 1 .. sent_packets
  /\ \A i \in 1 .. Len(rcvbuf) : rcvbuf[i].n \in 1 .. sent_packets

FlowInv ==
  /\ pc = "blast" => send_count > 0 /\ sent_packets + send_count = args.count
  /\ (InTurn /\ send_count > 0) => sent_packets + send_count = args.count + 1
  /\ send_count > 0 => sending = TRUE /\ pc \notin {"close", "done"}
  /\ send_count = 0 =>
       sending = FALSE /\ sent_packets = args.count /\ clock > StartDate
  /\ pc = "flush" => remaining_time >= 0
  /\ pc \in {"close", "done"} => received_packets = args.count
  /\ pc = "done" => shown.received = args.count

\* Products of naturals are naturals.
LEMMA Product ==
  ASSUME NEW a \in Nat, NEW b \in Nat
  PROVE  a * b \in Nat
OBVIOUS

LEMMA ProductPositive ==
  ASSUME NEW a \in Nat \ {0}, NEW b \in Nat \ {0}
  PROVE  a * b \in Nat \ {0}
OBVIOUS

\* What is multiplied by a natural keeps its order.
LEMMA Monotone ==
  ASSUME NEW p \in Nat, NEW a \in Int, NEW b \in Int, a <= b
  PROVE  p * a <= p * b
OBVIOUS

LEMMA Quotient ==
  ASSUME NEW a \in Nat, NEW d \in Nat \ {0}
  PROVE  /\ a \div d \in Nat
         /\ d * (a \div d) <= a
         /\ a < d * (a \div d) + d
OBVIOUS

LEMMA Remainder ==
  ASSUME NEW x \in Int, NEW d \in Nat \ {0}
  PROVE  x % d \in 0 .. d - 1
OBVIOUS

LEMMA Constants ==
  /\ NsPerUs \in Nat \ {0} /\ UsPerMs \in Nat \ {0} /\ MsPerSec \in Nat \ {0}
  /\ IntMax \in Nat \ {0} /\ StatusPeriod \in Nat \ {0}
  /\ ULongSize \in Nat \ {0} /\ StartDate \in Nat
  /\ Counts \subseteq 1 .. ULongSize - 1 /\ Rates \subseteq 0 .. ULongSize - 1
  /\ MaxIntr \in Nat /\ MaxLag \in Nat /\ MsPerSec < IntMax
BY MattAssumption

\* The conversion to int gives an int.
LEMMA ToIntType ==
  ASSUME NEW x \in Int
  PROVE  ToInt(x) \in -IntMax .. IntMax - 1
<1>1. IntMax \in Nat /\ 2 * IntMax \in Nat \ {0}
  BY Constants
<1>2. x % (2 * IntMax) \in 0 .. 2 * IntMax - 1
  BY <1>1, Remainder
<1> QED
  BY <1>1, <1>2 DEF ToInt

LEMMA ArgsTypes ==
  ASSUME args \in [count : Counts, pps : Rates]
  PROVE  /\ args.count \in Nat \ {0} /\ args.pps \in Nat
         /\ args.count < ULongSize /\ args.pps < ULongSize
         /\ args.count \in Counts /\ args.pps \in Rates
         /\ ULongSize \in Nat \ {0}
<1>1. args.count \in Counts /\ args.pps \in Rates
  OBVIOUS
<1>2. args.count \in 1 .. ULongSize - 1 /\ args.pps \in 0 .. ULongSize - 1
  BY <1>1, Constants
<1> QED
  BY <1>1, <1>2, Constants

\* Nanoseconds since the start
LEMMA ElapsedType ==
  ASSUME clock \in Nat, StartDate <= clock
  PROVE  Elapsed \in Nat /\ (clock > StartDate => Elapsed > 0)
<1> DEFINE e == clock - StartDate
<1>1. e \in Nat /\ (clock > StartDate => e # 0) /\ NsPerUs \in Nat \ {0}
  BY Constants
<1>2. Elapsed = e * NsPerUs
  BY DEF Elapsed
<1> HIDE DEF e
<1> QED
  BY <1>1, <1>2, Product, ProductPositive

LEMMA NsPerSecType == NsPerSec \in Nat \ {0}
<1>1. NsPerUs * UsPerMs \in Nat \ {0}
  BY Constants, ProductPositive
<1> QED
  BY <1>1, Constants, ProductPositive DEF NsPerSec

LEMMA UpdateStatusType ==
  ASSUME clock \in Nat, StartDate < clock, UpdateStatus, UNCHANGED args,
         args \in [count : Counts, pps : Rates],
         sent_packets \in Nat, received_packets \in Nat
  PROVE  shown' \in [sent : Nat, received : Nat, rate : 0 .. args'.pps]
<1> DEFINE a == (received_packets * NsPerSec) % ULongSize
           r == a \div Elapsed
<1>1. Elapsed \in Nat \ {0} /\ args.pps \in Nat
  <2>1. StartDate <= clock
    BY Constants
  <2> QED
    BY <2>1, ElapsedType, ArgsTypes
<1>2. a \in Nat
  BY NsPerSecType, Product, Remainder, ArgsTypes
<1>3. r \in Nat
  <2> HIDE DEF a
  <2> QED
    BY <1>1, <1>2, Quotient
<1>4. ReplyRate = IF r > args.pps THEN args.pps ELSE r
  BY DEF ReplyRate
<1> HIDE DEF r
<1>5. ReplyRate \in 0 .. args.pps
  BY <1>1, <1>3, <1>4
<1> QED
  BY <1>5 DEF UpdateStatus

LEMMA PeriodicStatusType ==
  ASSUME clock \in Nat, StartDate <= clock, UNCHANGED <<args, clock>>,
         PeriodicallyUpdateStatus, args \in [count : Counts, pps : Rates],
         sent_packets \in Nat, received_packets \in Nat,
         last_status_update \in StartDate .. clock,
         shown \in [sent : Nat, received : Nat, rate : 0 .. args.pps]
  PROVE  /\ shown' \in [sent : Nat, received : Nat, rate : 0 .. args'.pps]
         /\ last_status_update' \in StartDate .. clock'
<1>1. CASE UNCHANGED status
  BY <1>1 DEF status
<1>2. CASE /\ UpdateStatus /\ last_status_update' = clock
           /\ (clock - last_status_update) * NsPerUs >= StatusPeriod
  <2>1. clock # last_status_update
    <3> SUFFICES ASSUME clock - last_status_update = 0 PROVE FALSE
      BY Constants
    <3> QED
      BY <1>2, Constants
  <2>2. StartDate < clock
    BY <2>1, Constants
  <2> QED
    BY <1>2, <2>2, UpdateStatusType, Constants
<1> QED
  BY <1>1, <1>2 DEF PeriodicallyUpdateStatus
-----------------------------------------------------------------------------
LEMMA InitGood == Init => TypeOK /\ FlowInv
<1> SUFFICES ASSUME Init PROVE TypeOK /\ FlowInv
  OBVIOUS
<1>1. args \in [count : Counts, pps : Rates]
  BY DEF Init
<1>2. PathTypeOK
  BY DEF Init, PathInit, PathTypeOK
<1> QED
  BY <1>1, <1>2, ArgsTypes, Constants DEF Init, TypeOK, FlowInv, InTurn

LEMMA SendingGood ==
  ASSUME TypeOK, FlowInv, SendTo \/ SendRetry \/ SendFails
  PROVE  TypeOK' /\ FlowInv'
<1> USE ArgsTypes, Constants
<1>1. CASE SendTo
  <2> DEFINE m == [n |-> sent_packets + 1, id |-> sent_packets % IdSpace]
  <2>1. m \in Datagrams
    <3>1. sent_packets \in Nat
      BY DEF TypeOK
    <3>2. sent_packets % IdSpace \in Ids
      <4>1. sent_packets \in Int /\ IdSpace \in Nat \ {0}
        BY <3>1, PathAssumption
      <4> QED
        BY <4>1, Remainder DEF Ids
    <3> QED
      BY <3>1, <3>2 DEF Datagrams
  <2>2. PathTypeOK'
    <3>1. wire' = wire \cup {m} /\ UNCHANGED <<rcvbuf, lost, dups>>
      BY <1>1 DEF SendTo, Transmit
    <3> HIDE DEF m
    <3> QED
      BY <2>1, <3>1 DEF PathTypeOK, TypeOK
  <2>3. send_count > 0 /\ sent_packets + send_count = args.count
    BY <1>1 DEF SendTo, FlowInv
  <2>4. sent_packets' \in 0 .. args'.count
    BY <1>1, <2>3 DEF SendTo, TypeOK
  <2>5. answered' \subseteq 1 .. sent_packets'
    BY <1>1 DEF SendTo, TypeOK
  <2>6. TypeOK'
    BY <1>1, <2>2, <2>4, <2>5 DEF SendTo, TypeOK, status, locals, budget
  <2>7. FlowInv'
    BY <1>1, <2>3 DEF SendTo, TypeOK, FlowInv, InTurn, status, locals
  <2> QED
    BY <2>6, <2>7
<1>2. CASE SendRetry
  <2>1. TypeOK'
    BY <1>2 DEF SendRetry, TypeOK, PathTypeOK, counters, status, locals, budget, pathVars
  <2>2. FlowInv'
    BY <1>2 DEF SendRetry, TypeOK, FlowInv, InTurn, counters, status, locals
  <2> QED
    BY <2>1, <2>2
<1>3. CASE SendFails
  <2>1. TypeOK'
    BY <1>3 DEF SendFails, TypeOK, PathTypeOK, counters, status, locals, budget, pathVars
  <2>2. FlowInv'
    BY <1>3 DEF SendFails, TypeOK, FlowInv, InTurn, counters, status, locals
  <2> QED
    BY <2>1, <2>2
<1> QED
  BY <1>1, <1>2, <1>3

LEMMA ThrottleTypes ==
  ASSUME TypeOK, args.pps > 0
  PROVE  /\ MaxPackets \in Nat /\ TimeToWait \in -IntMax .. IntMax - 1
         /\ Remaining \in -IntMax .. IntMax - 1
         /\ sending => Remaining >= 0
<1> DEFINE a == args.pps * Elapsed
<1>1. a \in Nat /\ args.pps \in Nat \ {0} /\ ULongSize \in Nat \ {0}
  BY ArgsTypes, ElapsedType, Product DEF TypeOK
<1>2. MaxPackets \in Nat
  <2>1. a % ULongSize \in Nat
    <3> HIDE DEF a
    <3> QED
      BY <1>1, Remainder
  <2> QED
    BY <2>1, NsPerSecType, Quotient DEF MaxPackets
<1>3. Excess \in Nat
  <2>1. sent_packets - MaxPackets \in Int
    BY <1>2 DEF TypeOK
  <2> QED
    BY <1>1, <2>1, Remainder DEF Excess
<1>4. Excess \div args.pps \in Nat
  BY <1>1, <1>3, Quotient
<1>5. (Excess \div args.pps) * MsPerSec \in Nat
  BY <1>4, Constants, Product
<1>6. ((Excess \div args.pps) * MsPerSec) % ULongSize \in Nat
  BY <1>1, <1>5, Remainder
<1>7. TimeToWait \in -IntMax .. IntMax - 1
  BY <1>6, ToIntType DEF TimeToWait
<1> QED
  BY <1>2, <1>7, Constants DEF Remaining, TypeOK

LEMMA ThrottlingGood ==
  ASSUME TypeOK, FlowInv,
         \/ ThrottledReceive \/ DivideByPps \/ Poll \/ PollReady
         \/ PollTimesOut \/ PollInterrupted \/ PollFails
  PROVE  TypeOK' /\ FlowInv'
<1> USE Constants
<1>1. CASE ThrottledReceive
  <2>1. args.pps > 0
    BY <1>1 DEF ThrottledReceive
  <2>2. remaining_time' \in -IntMax .. IntMax - 1 /\ (sending => remaining_time' >= 0)
    BY <1>1, <2>1, ThrottleTypes DEF ThrottledReceive
  <2>3. pc = "throttle" /\ pc' \in {"flush", "poll"} /\ (pc' = "flush" => sending)
    BY <1>1 DEF ThrottledReceive
  <2>6. now' = clock /\ UNCHANGED <<clock, args, send_count, counters, sending, status,
                                   deadline, answered, budget, pathVars>>
    BY <1>1 DEF ThrottledReceive
  <2>7. PathTypeOK'
    BY <2>6 DEF TypeOK, PathTypeOK, pathVars
  <2>4. TypeOK'
    BY <2>2, <2>3, <2>6, <2>7 DEF TypeOK, counters, status, budget
  <2>5. FlowInv'
    BY <1>1, <2>2, <2>3
    DEF ThrottledReceive, FlowInv, InTurn, counters, status
  <2> QED
    BY <2>4, <2>5
<1>2. CASE Poll
  <2>1. deadline' \in Int
    BY <1>2 DEF Poll, TypeOK
  <2> QED
    BY <1>2, <2>1
    DEF Poll, TypeOK, FlowInv, InTurn, PathTypeOK, counters, status, budget,
        pathVars
<1>3. CASE PollTimesOut
  <2>1. /\ shown' \in [sent : Nat, received : Nat, rate : 0 .. args'.pps]
        /\ last_status_update' \in StartDate .. clock'
    BY <1>3, PeriodicStatusType DEF PollTimesOut, TypeOK, counters
  <2> QED
    BY <1>3, <2>1
    DEF PollTimesOut, TypeOK, FlowInv, InTurn, PathTypeOK, counters, locals,
        budget, pathVars
<1>4. CASE DivideByPps \/ PollReady \/ PollFails
  <2>1. TypeOK'
    BY <1>4
    DEF DivideByPps, PollReady, PollFails, TypeOK, PathTypeOK, counters, status,
        locals, budget, pathVars
  <2>2. FlowInv'
    BY <1>4
    DEF DivideByPps, PollReady, PollFails, FlowInv, InTurn, counters, status,
        locals
  <2> QED
    BY <2>1, <2>2
<1>5. CASE PollInterrupted
  <2>1. /\ pc = "polling" /\ pc' \in {"poll", "return"}
        /\ pc' = "poll" => remaining_time >= 0
    BY <1>5 DEF PollInterrupted, TypeOK
  <2>2. TypeOK'
    BY <1>5, <2>1
    DEF PollInterrupted, TypeOK, PathTypeOK, counters, status, locals, pathVars
  <2>3. FlowInv'
    BY <1>5, <2>1 DEF PollInterrupted, FlowInv, InTurn, counters, status, locals
  <2> QED
    BY <2>2, <2>3
<1> QED
  BY <1>1, <1>2, <1>3, <1>4, <1>5

LEMMA CountingGood ==
  ASSUME TypeOK, FlowInv, Known,
         Receive \/ ReceiveRetry \/ ReceiveFails \/ FlushDone \/ EmptyDone
  PROVE  TypeOK' /\ FlowInv'
<1> USE Constants
<1>1. CASE Receive
  <2>1. rcvbuf # <<>> /\ rcvbuf \in Seq(Datagrams)
    BY <1>1 DEF Receive, TakeAnswer, TypeOK, PathTypeOK
  <2>2. Head(rcvbuf).n \in 1 .. sent_packets
    <3>1. 1 \in 1 .. Len(rcvbuf) /\ Head(rcvbuf) = rcvbuf[1]
      BY <2>1
    <3> QED
      BY <3>1 DEF Known
  <2>3. answered' \subseteq 1 .. sent_packets'
    BY <1>1, <2>2 DEF Receive, TypeOK
  <2>4. PathTypeOK'
    <3>1. rcvbuf' \in Seq(Datagrams)
      <4> HIDE DEF Datagrams
      <4> QED
        BY <1>1, <2>1 DEF Receive, TakeAnswer
    <3> QED
      BY <1>1, <3>1 DEF Receive, TakeAnswer, TypeOK, PathTypeOK
  <2>5. /\ received_packets' = received_packets + 1 /\ Receiving
        /\ UNCHANGED <<pc, clock, args, send_count, sent_packets, sending, status,
                      locals, budget>>
    BY <1>1 DEF Receive
  <2>6. TypeOK'
    BY <2>3, <2>4, <2>5 DEF TypeOK, status, locals, budget
  <2>7. FlowInv'
    BY <2>5 DEF FlowInv, InTurn, Receiving, status, locals
  <2> QED
    BY <2>6, <2>7
<1>2. CASE ReceiveRetry \/ ReceiveFails
  <2>1. TypeOK'
    <3>1. /\ pc' \in {pc, "aborted"} /\ intr' \in 0 .. MaxIntr
          /\ UNCHANGED <<clock, args, send_count, counters, sending, status, locals,
                        answered, lag, pathVars>>
      BY <1>2 DEF ReceiveRetry, ReceiveFails, TypeOK, budget
    <3>2. PathTypeOK' /\ (pc' \in {"poll", "polling"} => pc' = pc)
      BY <3>1 DEF TypeOK, PathTypeOK, pathVars
    <3> QED
      BY <3>1, <3>2 DEF TypeOK, counters, status, locals
  <2>2. FlowInv'
    BY <1>2
    DEF ReceiveRetry, ReceiveFails, FlowInv, InTurn, counters, status, locals
  <2> QED
    BY <2>1, <2>2
<1>3. CASE FlushDone \/ EmptyDone
  <2>1. /\ shown' \in [sent : Nat, received : Nat, rate : 0 .. args'.pps]
        /\ last_status_update' \in StartDate .. clock'
    BY <1>3, PeriodicStatusType DEF FlushDone, EmptyDone, TypeOK
  <2>2. CASE FlushDone
    <3>1. /\ pc = "flush" /\ pc' = "poll"
          /\ UNCHANGED <<clock, args, send_count, counters, sending, locals, answered,
                        budget, pathVars>>
      BY <2>2 DEF FlushDone
    <3>2. TypeOK'
      BY <2>1, <3>1 DEF TypeOK, FlowInv, PathTypeOK, counters, locals, budget, pathVars
    <3>3. FlowInv'
      BY <3>1 DEF FlowInv, InTurn, counters, locals
    <3> QED
      BY <3>2, <3>3
  <2>3. CASE EmptyDone
    <3>1. /\ pc = "empty" /\ pc' \in {"poll", "return"}
          /\ pc' = "poll" => remaining_time' > 0
          /\ now' = clock
          /\ remaining_time' = ToInt(remaining_time - (clock - now))
          /\ UNCHANGED <<clock, args, send_count, counters, sending, deadline,
                        answered, budget, pathVars>>
      BY <2>3 DEF EmptyDone
    <3>2. remaining_time' \in -IntMax .. IntMax - 1
      BY <3>1, ToIntType DEF TypeOK
    <3>3. TypeOK'
      BY SMTT(30), <2>1, <3>1, <3>2 DEF TypeOK, PathTypeOK, counters, budget, pathVars
    <3>4. FlowInv'
      BY <3>1 DEF FlowInv, InTurn, counters
    <3> QED
      BY <3>3, <3>4
  <2> QED
    BY <1>3, <2>2, <2>3
<1> QED
  BY <1>1, <1>2, <1>3

LEMMA MainGood ==
  ASSUME TypeOK, FlowInv,
         NextTurn \/ StartDrain \/ DivideByElapsed \/ DrainTurn \/ Close
  PROVE  TypeOK' /\ FlowInv'
<1> USE Constants, ArgsTypes
<1>1. CASE NextTurn
  <2>1. TypeOK'
    BY <1>1
    DEF NextTurn, DropLocals, TypeOK, PathTypeOK, counters, status, budget, pathVars
  <2>2. FlowInv'
    BY <1>1 DEF NextTurn, TypeOK, FlowInv, InTurn, counters, status
  <2> QED
    BY <2>1, <2>2
<1>2. CASE StartDrain
  <2>1. clock > StartDate
    BY <1>2 DEF StartDrain, Elapsed, TypeOK
  <2>2. shown' \in [sent : Nat, received : Nat, rate : 0 .. args'.pps]
    BY <1>2, <2>1, UpdateStatusType DEF StartDrain, TypeOK
  <2>3. /\ pc = "return" /\ send_count = 1 /\ send_count' = 0 /\ sending' = FALSE
        /\ pc' \in {"close", "throttle"}
        /\ pc' = "close" => sent_packets = received_packets
        /\ now' = 0 /\ remaining_time' = 0 /\ deadline' = 0
        /\ UNCHANGED <<clock, args, counters, last_status_update, answered, budget,
                      pathVars>>
    BY <1>2 DEF StartDrain, DrainFirst, DropLocals
  <2>4. sent_packets = args.count
    BY <2>3 DEF FlowInv, InTurn, TypeOK
  <2>5. TypeOK'
    <3>1. /\ 0 \in -IntMax .. IntMax - 1 /\ 0 \in Int /\ 0 \in 0 .. clock
          /\ 0 \in 0 .. args.count
      BY DEF TypeOK
    <3>2. PathTypeOK'
      BY <2>3 DEF TypeOK, PathTypeOK, pathVars
    <3> QED
      BY <2>2, <2>3, <3>1, <3>2 DEF TypeOK, counters, budget
  <2>6. FlowInv'
    BY <2>1, <2>3, <2>4 DEF FlowInv, InTurn, counters
  <2> QED
    BY <2>5, <2>6
<1>3. CASE DivideByElapsed
  <2>1. TypeOK'
    BY <1>3
    DEF DivideByElapsed, TypeOK, PathTypeOK, counters, status, locals, budget,
        pathVars
  <2>2. FlowInv'
    BY <1>3 DEF DivideByElapsed, TypeOK, FlowInv, InTurn, counters, status, locals
  <2> QED
    BY <2>1, <2>2
<1>4. CASE DrainTurn
  <2>1. /\ pc = "return" /\ send_count = 0 /\ pc' \in {"close", "throttle"}
        /\ pc' = "close" => sent_packets = received_packets
        /\ now' = 0 /\ remaining_time' = 0 /\ deadline' = 0
        /\ UNCHANGED <<clock, args, send_count, counters, sending, status, answered,
                      budget, pathVars>>
    BY <1>4 DEF DrainTurn, DrainNext, DropLocals
  <2>2. TypeOK'
    BY <2>1 DEF TypeOK, PathTypeOK, counters, status, budget, pathVars
  <2>3. FlowInv'
    BY <2>1 DEF FlowInv, InTurn, counters, status
  <2> QED
    BY <2>2, <2>3
<1>5. CASE Close
  <2>1. send_count = 0 /\ clock > StartDate /\ received_packets = args.count
    BY <1>5 DEF Close, FlowInv, TypeOK
  <2>2. shown' \in [sent : Nat, received : Nat, rate : 0 .. args'.pps]
    BY <1>5, <2>1, UpdateStatusType DEF Close, TypeOK
  <2>3. shown'.received = received_packets
    BY <1>5 DEF Close, UpdateStatus
  <2>4. /\ pc = "close" /\ pc' = "done"
        /\ UNCHANGED <<clock, args, send_count, counters, sending,
                      last_status_update, locals, answered, budget, pathVars>>
    BY <1>5 DEF Close
  <2>5. TypeOK'
    BY <2>2, <2>4 DEF TypeOK, PathTypeOK, counters, locals, budget, pathVars
  <2>6. FlowInv'
    BY <2>1, <2>3, <2>4 DEF FlowInv, InTurn, counters, locals
  <2> QED
    BY <2>5, <2>6
<1> QED
  BY <1>1, <1>2, <1>3, <1>4, <1>5

LEMMA PathTypes ==
  ASSUME PathTypeOK, PathNext
  PROVE  PathTypeOK'
<1>1. PICK m \in wire : Deliver(m) \/ Lose(m) \/ Duplicate(m)
  BY DEF PathNext
<1>2. m \in Datagrams
  BY DEF PathTypeOK
<1>3. wire' \in SUBSET Datagrams /\ lost' \in Nat /\ dups' \in Nat
  BY <1>1 DEF PathTypeOK, Deliver, Lose, Duplicate
<1>4. rcvbuf' = rcvbuf \/ rcvbuf' = Append(rcvbuf, m)
  BY <1>1 DEF Deliver, Lose, Duplicate
<1> HIDE DEF Datagrams
<1>5. rcvbuf' \in Seq(Datagrams)
  BY <1>2, <1>4 DEF PathTypeOK
<1> QED
  BY <1>3, <1>5 DEF PathTypeOK

\* Time passes, a datagram moves, or nothing happens.
LEMMA EnvironmentGood ==
  ASSUME TypeOK, FlowInv, Path \/ Sleep \/ Delay \/ UNCHANGED vars
  PROVE  TypeOK' /\ FlowInv'
<1> USE Constants
<1>1. PathTypeOK'
  <2>1. CASE Path
    BY <2>1, PathTypes DEF Path, TypeOK
  <2>2. CASE UNCHANGED pathVars
    BY <2>2 DEF TypeOK, PathTypeOK, pathVars
  <2> QED
    BY <2>1, <2>2 DEF Sleep, Delay, vars
<1>2. /\ UNCHANGED <<pc, args, send_count, sent_packets, received_packets, sending,
                     last_status_update, shown, now, remaining_time, deadline,
                     answered, intr>>
      /\ clock' \in {clock, clock + 1} /\ lag' \in 0 .. MaxLag
  BY SMTT(30) DEF Path, Sleep, Delay, vars, counters, status, locals, budget, TypeOK
<1>3. TypeOK'
  BY <1>1, <1>2 DEF TypeOK
<1>4. FlowInv'
  BY <1>2 DEF TypeOK, FlowInv, InTurn
<1> QED
  BY <1>3, <1>4

LEMMA KnownInit == Init => Known
BY DEF Init, PathInit, Known

LEMMA KnownPath ==
  ASSUME PathTypeOK, Known, PathNext, UNCHANGED sent_packets
  PROVE  Known'
<1>1. PICK m \in wire : Deliver(m) \/ Lose(m) \/ Duplicate(m)
  BY DEF PathNext
<1>2. m \in Datagrams /\ rcvbuf \in Seq(Datagrams)
  BY DEF PathTypeOK
<1>3. \A d \in wire' : d.n \in 1 .. sent_packets'
  BY <1>1 DEF Deliver, Lose, Duplicate, Known
<1>4. CASE UNCHANGED rcvbuf
  BY <1>3, <1>4 DEF Known
<1>5. CASE rcvbuf' = Append(rcvbuf, m)
  <2> DEFINE q == Append(rcvbuf, m)
             l == Len(rcvbuf)
  <2>1. l \in Nat /\ Len(q) = l + 1 /\ q[l + 1] = m
    BY <1>2
  <2>2. \A i \in 1 .. l : q[i] = rcvbuf[i]
    BY <1>2
  <2>3. \A i \in 1 .. l : rcvbuf[i].n \in 1 .. sent_packets
    BY DEF Known
  <2>4. m.n \in 1 .. sent_packets
    BY DEF Known
  <2> HIDE DEF q, l
  <2>5. \A i \in 1 .. Len(q) : q[i].n \in 1 .. sent_packets
    <3>1. \A i \in 1 .. l + 1 : i \in 1 .. l \/ i = l + 1
      BY <2>1
    <3> QED
      BY <2>1, <2>2, <2>3, <2>4, <3>1
  <2> QED
    BY <1>3, <1>5, <2>5 DEF Known, q
<1> QED
  BY <1>1, <1>4, <1>5 DEF Deliver, Lose, Duplicate

LEMMA KnownStep ==
  ASSUME TypeOK, Known, [Next]_vars
  PROVE  Known'
<1>1. CASE SendTo
  <2> DEFINE m == [n |-> sent_packets + 1, id |-> sent_packets % IdSpace]
  <2>1. /\ wire' = wire \cup {m} /\ m.n = sent_packets + 1
        /\ rcvbuf' = rcvbuf /\ sent_packets' = sent_packets + 1
    BY <1>1 DEF SendTo, Transmit
  <2>2. \A k \in 1 .. sent_packets : k \in 1 .. sent_packets + 1
    BY DEF TypeOK
  <2>3. sent_packets + 1 \in 1 .. sent_packets + 1
    BY DEF TypeOK
  <2> HIDE DEF m
  <2> QED
    BY <2>1, <2>2, <2>3 DEF Known
<1>2. CASE Receive
  <2> DEFINE t == Tail(rcvbuf)
             l == Len(t)
  <2>1. rcvbuf' = t /\ rcvbuf # <<>> /\ UNCHANGED <<wire, sent_packets>>
    BY <1>2 DEF Receive, TakeAnswer
  <2>2. l \in Nat /\ Len(rcvbuf) = l + 1 /\ \A i \in 1 .. l : t[i] = rcvbuf[i + 1]
    BY <2>1 DEF TypeOK, PathTypeOK
  <2> HIDE DEF t
  <2>3. \A i \in 1 .. l : i + 1 \in 1 .. l + 1
    BY <2>2
  <2> QED
    BY <2>1, <2>2, <2>3 DEF Known
<1>3. CASE Path
  BY <1>3, KnownPath DEF Path, TypeOK, counters
<1>4. CASE UNCHANGED <<wire, rcvbuf, sent_packets>>
  BY <1>4 DEF Known
<1> QED
  BY <1>1, <1>2, <1>3, <1>4
  DEF Next, Program, Finished, vars, SendRetry, SendFails, ThrottledReceive,
      DivideByPps, Poll, PollReady, PollTimesOut, PollInterrupted, PollFails,
      ReceiveRetry, ReceiveFails, FlushDone, EmptyDone, NextTurn, StartDrain,
      DivideByElapsed, DrainTurn, Close, Sleep, Delay, counters, pathVars

IInv == TypeOK /\ FlowInv /\ Known

LEMMA IInvStep == IInv /\ [Next]_vars => IInv'
<1> SUFFICES ASSUME IInv, [Next]_vars PROVE TypeOK' /\ FlowInv'
  BY KnownStep DEF IInv
<1> USE DEF IInv
<1>1. CASE SendTo \/ SendRetry \/ SendFails
  BY <1>1, SendingGood
<1>2. CASE \/ ThrottledReceive \/ DivideByPps \/ Poll \/ PollReady
           \/ PollTimesOut \/ PollInterrupted \/ PollFails
  BY <1>2, ThrottlingGood
<1>3. CASE Receive \/ ReceiveRetry \/ ReceiveFails \/ FlushDone \/ EmptyDone
  BY <1>3, CountingGood
<1>4. CASE NextTurn \/ StartDrain \/ DivideByElapsed \/ DrainTurn \/ Close
  BY <1>4, MainGood
<1>5. CASE Path \/ Sleep \/ Delay \/ UNCHANGED vars
  BY <1>5, EnvironmentGood
<1> QED
  BY <1>1, <1>2, <1>3, <1>4, <1>5 DEF Next, Program, Finished

THEOREM Invariant == Spec => []IInv
<1>1. Init => IInv
  BY InitGood, KnownInit DEF IInv
<1> QED
  BY <1>1, IInvStep, PTL DEF Spec

\* Every reachable state of mattblast is well typed: no wait but that of the
\* drain is negative, and no line shows more than the rate it was given.
THEOREM TypeCorrect == Spec => []TypeOK
<1>1. IInv => TypeOK
  BY DEF IInv
<1> QED
  BY <1>1, Invariant, PTL
-----------------------------------------------------------------------------
(* The verdict *)

CountInv ==
  dups = 0 =>
    /\ Once(wire, rcvbuf, sent_packets, answered)
    /\ Cardinality(answered) = received_packets

LEMMA CountInit == Init => CountInv
<1> SUFFICES ASSUME Init PROVE CountInv
  OBVIOUS
<1>1. Cardinality({}) = 0
  BY FS_EmptySet
<1>2. Once({}, <<>>, 0, {})
  BY DEF Once
<1> QED
  BY <1>1, <1>2 DEF Init, PathInit, CountInv

LEMMA CountStep ==
  ASSUME TypeOK, CountInv, [Next]_vars
  PROVE  CountInv'
<1>0. sent_packets \in Nat /\ rcvbuf \in Seq(Datagrams) /\ PathTypeOK
  BY ArgsTypes DEF TypeOK, PathTypeOK
<1>1. CASE SendTo
  <2> DEFINE m == [n |-> sent_packets + 1, id |-> sent_packets % IdSpace]
  <2>1. /\ wire' = wire \cup {m} /\ m.n = sent_packets + 1
        /\ UNCHANGED <<rcvbuf, dups, answered, received_packets>>
        /\ sent_packets' = sent_packets + 1
    BY <1>1 DEF SendTo, Transmit
  <2>2. m \in Datagrams
    <3>1. sent_packets \in Int /\ IdSpace \in Nat \ {0}
      BY <1>0, PathAssumption
    <3> QED
      BY <1>0, <3>1, Remainder DEF Ids, Datagrams
  <2> HIDE DEF m
  <2>3. Once(wire, rcvbuf, sent_packets, answered) =>
          Once(wire \cup {m}, rcvbuf, sent_packets + 1, answered)
    BY <1>0, <2>1, <2>2, OnceSent
  <2> QED
    BY <2>1, <2>3 DEF CountInv
<1>2. CASE Receive
  <2> SUFFICES ASSUME dups' = 0
               PROVE  /\ Once(wire', rcvbuf', sent_packets', answered')
                      /\ Cardinality(answered') = received_packets'
    BY DEF CountInv
  <2>1. /\ rcvbuf # <<>> /\ rcvbuf' = Tail(rcvbuf) /\ dups' = dups
        /\ answered' = answered \cup {Head(rcvbuf).n}
        /\ received_packets' = received_packets + 1
        /\ UNCHANGED <<wire, sent_packets>>
    BY <1>2 DEF Receive, TakeAnswer
  <2>2. Once(wire, rcvbuf, sent_packets, answered)
        /\ Cardinality(answered) = received_packets
    BY <2>1 DEF CountInv
  <2>3. /\ Once(wire, Tail(rcvbuf), sent_packets, answered \cup {Head(rcvbuf).n})
        /\ Head(rcvbuf).n \notin answered
    BY <1>0, <2>1, <2>2, OnceTaken
  <2>4. answered \in SUBSET (1 .. sent_packets)
    BY <2>2 DEF Once
  <2>5. Cardinality(answered \cup {Head(rcvbuf).n}) = Cardinality(answered) + 1
    BY <1>0, <2>3, <2>4, OnceCounted
  <2> QED
    BY <2>1, <2>2, <2>3, <2>5
<1>3. CASE Path
  <2>1. PathNext /\ UNCHANGED <<sent_packets, received_packets, answered>>
    BY <1>3 DEF Path, counters
  <2>2. dups' = 0 => dups = 0
    BY <1>0, <2>1, PathAssumption
    DEF PathNext, Deliver, Lose, Duplicate, PathTypeOK
  <2>3. dups' = 0 => Once(wire', rcvbuf', sent_packets, answered)
    BY <1>0, <2>1, OncePath DEF CountInv
  <2> QED
    BY <2>1, <2>2, <2>3 DEF CountInv
<1>4. CASE UNCHANGED <<wire, rcvbuf, dups, sent_packets, received_packets, answered>>
  BY <1>4 DEF CountInv
<1> QED
  BY <1>1, <1>2, <1>3, <1>4
  DEF Next, Program, Finished, vars, SendRetry, SendFails, ThrottledReceive,
      DivideByPps, Poll, PollReady, PollTimesOut, PollInterrupted, PollFails,
      ReceiveRetry, ReceiveFails, FlushDone, EmptyDone, NextTurn, StartDrain,
      DivideByElapsed, DrainTurn, Close, Sleep, Delay, counters, pathVars

\* When mattblast comes to its verdict, every query has been answered, and the
\* verdict is their number, unless the path makes copies.
THEOREM VerdictCorrect == Spec => []VerdictIsComplete
<1>1. IInv /\ CountInv => VerdictIsComplete
  <2> SUFFICES ASSUME IInv, CountInv, pc = "done", dups = 0
               PROVE  answered = 1 .. args.count /\ shown.received = args.count
    BY DEF VerdictIsComplete
  <2>1. /\ send_count = 0 /\ shown.received = args.count
        /\ sent_packets = args.count /\ received_packets = args.count
    BY DEF IInv, FlowInv, TypeOK
  <2>2. answered \in SUBSET (1 .. args.count) /\ args.count \in Nat
    BY <2>1, ArgsTypes DEF CountInv, Once, IInv, TypeOK
  <2>3. Cardinality(answered) = args.count
    BY <2>1 DEF CountInv
  <2> QED
    BY <2>1, <2>2, <2>3, OnceAll
<1>2. IInv /\ CountInv /\ [Next]_vars => CountInv'
  BY CountStep DEF IInv
<1> QED
  BY <1>1, <1>2, CountInit, Invariant, PTL DEF Spec
-----------------------------------------------------------------------------
(* How far ahead of its rate the loop gets *)

LEMMA QuotientMonotone ==
  ASSUME NEW a \in Nat, NEW b \in Nat, NEW d \in Nat \ {0}, a <= b
  PROVE  a \div d <= b \div d
<1> DEFINE x == a \div d
           y == b \div d
<1>1. x \in Nat /\ y \in Nat /\ d * x <= a /\ b < d * y + d
  BY Quotient
<1> HIDE DEF x, y
<1> SUFFICES ASSUME y + 1 <= x PROVE FALSE
  BY <1>1 DEF x, y
<1>2. d * (y + 1) <= d * x
  BY <1>1, Monotone
<1>3. d * (y + 1) = d * y + d /\ d * x \in Nat /\ d * y \in Nat
  BY <1>1
<1> QED
  BY <1>1, <1>2, <1>3

LEMMA QuotientPlus ==
  ASSUME NEW a \in Nat, NEW p \in Nat, NEW d \in Nat \ {0}
  PROVE  (a + p * d) \div d = a \div d + p
<1> DEFINE x == a \div d
           b == a + p * d
           y == b \div d
<1>1. b \in Nat /\ p * d \in Nat
  BY Product
<1>2. x \in Nat /\ d * x <= a /\ a < d * x + d
  BY Quotient
<1>3. y \in Nat /\ d * y <= b /\ b < d * y + d
  <2> HIDE DEF b
  <2> QED
    BY <1>1, Quotient
<1>4. b = a + p * d
  OBVIOUS
<1> HIDE DEF x, y, b
<1>5. d * (x + p) = d * x + p * d /\ d * x \in Nat /\ d * y \in Nat
  BY <1>2, <1>3
<1>6. y < x + p + 1
  <2> SUFFICES ASSUME x + p + 1 <= y PROVE FALSE
    BY <1>2, <1>3
  <2>1. d * (x + p + 1) <= d * y
    BY <1>2, <1>3, Monotone
  <2>2. d * (x + p + 1) = d * (x + p) + d
    BY <1>2
  <2> QED
    BY <1>1, <1>2, <1>3, <1>4, <1>5, <2>1, <2>2
<1>7. x + p < y + 1
  <2> SUFFICES ASSUME y + 1 <= x + p PROVE FALSE
    BY <1>2, <1>3
  <2>1. d * (y + 1) <= d * (x + p)
    BY <1>2, <1>3, Monotone
  <2>2. d * (y + 1) = d * y + d
    BY <1>3
  <2> QED
    BY <1>1, <1>2, <1>3, <1>4, <1>5, <2>1, <2>2
<1> QED
  BY <1>2, <1>3, <1>6, <1>7 DEF x, y, b

LEMMA SmallRemainder ==
  ASSUME NEW x \in Nat, NEW d \in Nat \ {0}, x < d
  PROVE  x % d = x
OBVIOUS

LEMMA IntFitsULong == 2 * IntMax <= ULongSize
<1> DEFINE d == 2 * IntMax
           q == ULongSize \div d
<1>1. d \in Nat \ {0} /\ ULongSize \in Nat \ {0} /\ ULongSize % d = 0
  BY MattAssumption
<1>2. q \in Nat /\ ULongSize < d * q + d /\ ULongSize = d * q + (ULongSize % d)
  <2> HIDE DEF d
  <2> QED
    BY <1>1 DEF q
<1> HIDE DEF q
<1>3. q # 0
  <2> HIDE DEF d
  <2> SUFFICES ASSUME q = 0 PROVE FALSE
    OBVIOUS
  <2>1. d * 0 = 0
    BY <1>1
  <2> QED
    BY <1>1, <1>2, <2>1
<1>4. d * 1 <= d * q
  <2> HIDE DEF d
  <2> QED
    BY <1>1, <1>2, <1>3, Monotone
<1>5. d * 1 = d /\ d * q = ULongSize
  <2> HIDE DEF d
  <2>1. d * q \in Nat
    BY <1>1, <1>2, Product
  <2> QED
    BY <1>1, <1>2, <2>1
<1> QED
  BY <1>4, <1>5

\* The queries the rate allows until t
Due(t) == (args.pps * ((t - StartDate) * NsPerUs)) \div NsPerSec

Second == MsPerSec * UsPerMs

LEMMA DueMonotone ==
  ASSUME args \in [count : Counts, pps : Rates],
         NEW t \in Nat, NEW u \in Nat, StartDate <= t, t <= u
  PROVE  Due(t) \in Nat /\ Due(u) \in Nat /\ Due(t) <= Due(u)
<1> DEFINE e == t - StartDate
           f == u - StartDate
           x == args.pps * (e * NsPerUs)
           y == args.pps * (f * NsPerUs)
<1>1. e \in Nat /\ f \in Nat /\ e <= f /\ NsPerUs \in Nat \ {0} /\ args.pps \in Nat
  BY ArgsTypes, Constants
<1>2. e * NsPerUs \in Nat /\ f * NsPerUs \in Nat /\ e * NsPerUs <= f * NsPerUs
  <2> HIDE DEF e, f
  <2>1. NsPerUs * e <= NsPerUs * f
    BY <1>1, Monotone
  <2>2. NsPerUs * e = e * NsPerUs /\ NsPerUs * f = f * NsPerUs
    BY <1>1
  <2> QED
    BY <1>1, <2>1, <2>2, Product
<1>3. x \in Nat /\ y \in Nat /\ x <= y
  <2> HIDE DEF e, f
  <2> QED
    BY <1>1, <1>2, Monotone, Product
<1>4. Due(t) = x \div NsPerSec /\ Due(u) = y \div NsPerSec
  BY DEF Due
<1> HIDE DEF x, y
<1> QED
  BY <1>3, <1>4, QuotientMonotone, Quotient, NsPerSecType

\* A second allows for pps more of them, whatever has been cut off before.
LEMMA DueSecond ==
  ASSUME args \in [count : Counts, pps : Rates], NEW t \in Nat, StartDate <= t
  PROVE  Due(t + Second) = Due(t) + args.pps
<1> DEFINE e == t - StartDate
           a == args.pps * (e * NsPerUs)
<1>1. /\ e \in Nat /\ args.pps \in Nat /\ Second \in Nat
      /\ (t + Second) - StartDate = e + Second
      /\ NsPerUs \in Nat /\ UsPerMs \in Nat /\ MsPerSec \in Nat
  BY ArgsTypes, Constants, Product DEF Second
<1>2. Second * NsPerUs = NsPerSec
  BY <1>1 DEF Second, NsPerSec
<1>3. e * NsPerUs \in Nat /\ a \in Nat /\ NsPerSec \in Nat \ {0}
  <2> HIDE DEF e
  <2> QED
    BY <1>1, NsPerSecType, Product
<1>4. args.pps * ((e + Second) * NsPerUs) = a + args.pps * NsPerSec
  <2> HIDE DEF e
  <2>1. (e + Second) * NsPerUs = e * NsPerUs + NsPerSec
    BY <1>1, <1>2
  <2>2. args.pps * (e * NsPerUs + NsPerSec) = a + args.pps * NsPerSec
    <3> DEFINE b == e * NsPerUs
    <3>1. b \in Nat /\ a = args.pps * b
      BY <1>3
    <3> HIDE DEF a, b
    <3>2. args.pps * (b + NsPerSec) = a + args.pps * NsPerSec
      BY <1>1, <1>3, <3>1
    <3> QED
      BY <3>2 DEF b
  <2> QED
    BY <2>1, <2>2
<1>5. Due(t) = a \div NsPerSec
  BY DEF Due
<1>6. Due(t + Second) = (a + args.pps * NsPerSec) \div NsPerSec
  BY <1>1, <1>4 DEF Due
<1> HIDE DEF a
<1>7. (a + args.pps * NsPerSec) \div NsPerSec = a \div NsPerSec + args.pps
  BY <1>1, <1>3, QuotientPlus
<1> QED
  BY <1>5, <1>6, <1>7

\* The case OneSecondAhead is about
Ahead ==
  /\ sending /\ args.pps > 0 /\ received_packets = 0
  /\ args.pps * Elapsed < ULongSize

\* When poll times out, were it called now
PollUntil == clock + remaining_time * UsPerMs

\* When throttled_receive has returned there is room for one more query, and
\* a wait is not over before there is.
AheadInv ==
  Ahead =>
    /\ sent_packets <= Due(clock) + args.pps
    /\ pc \in {"blast", "return"} => sent_packets + 1 <= Due(clock) + args.pps
    /\ pc \in {"flush", "poll"} => sent_packets + 1 <= Due(PollUntil) + args.pps
    /\ pc = "polling" =>
         /\ sent_packets + 1 <= Due(deadline) + args.pps
         /\ StartDate <= deadline /\ deadline <= PollUntil
    /\ pc = "empty" => rcvbuf # <<>>

LEMMA AheadTypes ==
  ASSUME IInv
  PROVE  /\ args \in [count : Counts, pps : Rates] /\ args.pps \in Nat
         /\ sent_packets \in Nat /\ received_packets \in Nat
         /\ clock \in Nat /\ StartDate \in Nat /\ StartDate <= clock
         /\ remaining_time \in Int /\ deadline \in Int
         /\ (sending /\ pc \in {"flush", "poll", "polling"}) =>
              /\ remaining_time \in Nat /\ PollUntil \in Nat /\ clock <= PollUntil
<1>1. args \in [count : Counts, pps : Rates] /\ args.pps \in Nat
  BY ArgsTypes DEF IInv, TypeOK
<1>2. /\ sent_packets \in Nat /\ received_packets \in Nat
      /\ clock \in Nat /\ StartDate \in Nat /\ StartDate <= clock
      /\ remaining_time \in Int /\ deadline \in Int
  BY <1>1, ArgsTypes, Constants DEF IInv, TypeOK
<1>3. ASSUME sending, pc \in {"flush", "poll", "polling"}
      PROVE  remaining_time \in Nat
  BY <1>2, <1>3 DEF IInv, TypeOK, FlowInv
<1>4. ASSUME remaining_time \in Nat
      PROVE  PollUntil \in Nat /\ clock <= PollUntil
  <2>1. remaining_time * UsPerMs \in Nat
    BY <1>4, Constants, Product
  <2> QED
    BY <1>2, <2>1 DEF PollUntil
<1> QED
  BY <1>1, <1>2, <1>3, <1>4

\* While products fit, MaxPackets is what the rate allows.
LEMMA MaxPacketsIsDue ==
  ASSUME IInv, args.pps * Elapsed < ULongSize
  PROVE  MaxPackets = Due(clock)
<1> DEFINE a == args.pps * Elapsed
<1>1. a \in Nat /\ a < ULongSize /\ ULongSize \in Nat \ {0}
  BY AheadTypes, ElapsedType, Product, Constants
<1>2. MaxPackets = (a % ULongSize) \div NsPerSec
  BY DEF MaxPackets
<1>3. Due(clock) = a \div NsPerSec
  BY DEF Due, Elapsed
<1> HIDE DEF a
<1> QED
  BY <1>1, <1>2, <1>3, SmallRemainder

\* What is within the rate's reach stays so as time goes by.
LEMMA AheadLater ==
  ASSUME IInv, NEW t \in Nat, NEW u \in Nat, StartDate <= t, t <= u,
         NEW n \in Int, n <= Due(t) + args.pps
  PROVE  n <= Due(u) + args.pps
<1>1. Due(t) \in Nat /\ Due(u) \in Nat /\ Due(t) <= Due(u)
  BY AheadTypes, DueMonotone
<1> QED
  BY <1>1, AheadTypes

\* The clock goes on and nothing wraps later that did not wrap before.
LEMMA AheadBefore ==
  ASSUME IInv, UNCHANGED args, clock' \in {clock, clock + 1},
         sending' => sending, received_packets' = 0 => received_packets = 0,
         Ahead'
  PROVE  Ahead
<1> DEFINE e == Elapsed
           f == (clock' - StartDate) * NsPerUs
<1>1. f = Elapsed'
  BY Constants DEF Elapsed
<1>2. e \in Nat /\ f \in Nat /\ e <= f
  <2> DEFINE x == clock - StartDate
             y == clock' - StartDate
  <2>1. x \in Nat /\ y \in Nat /\ x <= y /\ NsPerUs \in Nat
    BY AheadTypes, Constants
  <2>2. e = x * NsPerUs /\ f = y * NsPerUs
    BY DEF Elapsed
  <2> HIDE DEF x, y, e, f
  <2>3. NsPerUs * x <= NsPerUs * y
    BY <2>1, Monotone
  <2> QED
    BY <2>1, <2>2, <2>3, Product
<1>3. args.pps * f < ULongSize
  BY <1>1 DEF Ahead
<1> HIDE DEF e, f
<1>4. args.pps * e <= args.pps * f /\ args.pps * e \in Nat /\ args.pps * f \in Nat
  BY <1>2, AheadTypes, Monotone, Product
<1>5. args.pps * e < ULongSize
  BY <1>3, <1>4, Constants
<1> QED
  BY <1>5 DEF Ahead, e

LEMMA AheadInit == Init => AheadInv
<1> SUFFICES ASSUME Init, Ahead PROVE AheadInv
  BY DEF AheadInv
<1>1. IInv
  BY InitGood, KnownInit DEF IInv
<1>2. Due(clock) \in Nat
  BY <1>1, AheadTypes, DueMonotone
<1> QED
  BY <1>1, <1>2, AheadTypes DEF Init, AheadInv, Ahead

\* The loop is a whole second ahead: it waits a whole second.
LEMMA WaitsASecond ==
  ASSUME IInv, sending, args.pps > 0, sent_packets = MaxPackets + args.pps
  PROVE  Remaining = MsPerSec
<1>1. /\ args.pps \in Nat \ {0} /\ args.pps < ULongSize /\ MaxPackets \in Nat
      /\ ULongSize \in Nat \ {0} /\ MsPerSec \in Nat /\ IntMax \in Nat
      /\ MsPerSec < IntMax
  BY ArgsTypes, ThrottleTypes, Constants DEF IInv, TypeOK
<1>2. Excess = args.pps
  <2>1. sent_packets - MaxPackets = args.pps
    BY <1>1
  <2> QED
    BY <1>1, <2>1, SmallRemainder DEF Excess
<1>3. Excess \div args.pps = 1
  BY <1>1, <1>2
<1>4. MsPerSec < 2 * IntMax /\ 2 * IntMax \in Nat \ {0} /\ MsPerSec < ULongSize
  BY <1>1, IntFitsULong
<1>5. (1 * MsPerSec) % ULongSize = MsPerSec
  <2>1. 1 * MsPerSec = MsPerSec
    BY <1>1
  <2> QED
    BY <1>1, <1>4, <2>1, SmallRemainder
<1>6. MsPerSec % (2 * IntMax) = MsPerSec
  BY <1>1, <1>4, SmallRemainder
<1>7. ToInt(MsPerSec) = MsPerSec
  BY <1>1, <1>6 DEF ToInt
<1>8. TimeToWait = MsPerSec
  BY <1>3, <1>5, <1>7 DEF TimeToWait
<1> QED
  BY <1>1, <1>8 DEF Remaining

LEMMA AheadThrottledReceive ==
  ASSUME IInv, AheadInv, ThrottledReceive
  PROVE  AheadInv'
<1> SUFFICES ASSUME Ahead' PROVE AheadInv'
  BY DEF AheadInv
<1>1. /\ pc = "throttle" /\ pc' \in {"flush", "poll"} /\ remaining_time' = Remaining
      /\ args.pps > 0
      /\ UNCHANGED <<clock, args, sent_packets, received_packets, sending, rcvbuf>>
  BY DEF ThrottledReceive, counters, pathVars
<1>2. Ahead
  BY <1>1, AheadBefore
<1>3. sending /\ sent_packets <= Due(clock) + args.pps /\ MaxPackets = Due(clock)
  BY <1>2, MaxPacketsIsDue DEF AheadInv, Ahead
<1>4. Due(clock) \in Nat
  BY AheadTypes, DueMonotone
<1> DEFINE u == clock + Remaining * UsPerMs
<1>5. Remaining \in Nat /\ u \in Nat /\ clock <= u
  <2>1. Remaining \in Int /\ Remaining >= 0
    BY <1>1, <1>3, ThrottleTypes, Constants DEF IInv
  <2>2. Remaining * UsPerMs \in Nat
    BY <2>1, Constants, Product
  <2> QED
    BY <2>1, <2>2, AheadTypes
<1>6. sent_packets + 1 <= Due(u) + args.pps
  <2>1. CASE sent_packets + 1 <= Due(clock) + args.pps
    <3>1. sent_packets + 1 \in Int
      BY AheadTypes
    <3> HIDE DEF u
    <3> QED
      BY <1>5, <2>1, <3>1, AheadTypes, AheadLater
  <2>2. CASE sent_packets = Due(clock) + args.pps
    <3>1. Remaining = MsPerSec
      BY <1>1, <1>3, <2>2, WaitsASecond
    <3>2. Due(u) = Due(clock) + args.pps
      BY <3>1, AheadTypes, DueSecond DEF Second
    <3> HIDE DEF u
    <3> QED
      BY <1>1, <1>4, <2>2, <3>2, AheadTypes
  <2> QED
    BY <1>3, <1>4, <2>1, <2>2, AheadTypes
<1>7. PollUntil' = u /\ Due(clock)' = Due(clock) /\ Due(PollUntil)' = Due(u)
  BY <1>1 DEF PollUntil, Due
<1> HIDE DEF u
<1> QED
  BY <1>1, <1>3, <1>6, <1>7 DEF AheadInv

\* The steps of a wait
LEMMA AheadWaiting ==
  ASSUME IInv, AheadInv, \/ Poll \/ PollReady \/ PollTimesOut \/ PollInterrupted
                         \/ FlushDone \/ EmptyDone
  PROVE  AheadInv'
<1> SUFFICES ASSUME Ahead' PROVE AheadInv'
  BY DEF AheadInv
<1>1. UNCHANGED <<clock, args, sent_packets, received_packets, sending, rcvbuf>>
  BY DEF Poll, PollReady, PollTimesOut, PollInterrupted, FlushDone, EmptyDone,
         counters, pathVars
<1>2. Ahead
  BY <1>1, AheadBefore
<1>3. UNCHANGED Due(clock)
  BY <1>1 DEF Due
<1>4. sending /\ sent_packets <= Due(clock) + args.pps
  BY <1>2 DEF AheadInv, Ahead
<1>5. sent_packets + 1 \in Int /\ clock \in Nat /\ StartDate <= clock
  BY AheadTypes
<1>6. CASE Poll
  <2>1. /\ pc = "poll" /\ pc' = "polling" /\ deadline' = PollUntil
        /\ UNCHANGED remaining_time
    BY <1>6 DEF Poll, PollUntil
  <2>2. PollUntil' = PollUntil /\ Due(deadline)' = Due(PollUntil)
    BY <1>1, <2>1 DEF PollUntil, Due
  <2>3. StartDate <= PollUntil /\ PollUntil <= PollUntil
    BY <1>4, <1>5, <2>1, AheadTypes
  <2> QED
    BY <1>1, <1>2, <1>3, <1>4, <2>1, <2>2, <2>3 DEF AheadInv
<1>7. CASE PollReady
  <2>1. pc' = "empty" /\ rcvbuf # <<>>
    BY <1>7 DEF PollReady
  <2> QED
    BY <1>1, <1>3, <1>4, <2>1 DEF AheadInv
<1>8. CASE PollTimesOut \/ PollInterrupted
  <2>1. /\ pc = "polling" /\ pc' \in {"poll", "return"} /\ UNCHANGED remaining_time
        /\ pc' = "return" => clock >= deadline \/ remaining_time <= 0
    BY <1>8, AheadTypes DEF PollTimesOut, PollInterrupted, locals
  <2>2. /\ sent_packets + 1 <= Due(deadline) + args.pps /\ deadline \in Nat
        /\ StartDate <= deadline /\ deadline <= PollUntil /\ PollUntil \in Nat
        /\ remaining_time \in Nat
    BY <1>2, <1>4, <2>1, AheadTypes DEF AheadInv
  <2>3. PollUntil' = PollUntil /\ Due(PollUntil)' = Due(PollUntil)
    BY <1>1, <2>1 DEF PollUntil, Due
  <2>4. sent_packets + 1 <= Due(PollUntil) + args.pps
    BY <1>5, <2>2, AheadLater
  <2>5. ASSUME pc' = "return" PROVE sent_packets + 1 <= Due(clock) + args.pps
    <3>1. deadline <= clock
      <4>1. CASE remaining_time <= 0
        <5>1. remaining_time = 0
          BY <2>2, <4>1
        <5>2. PollUntil = clock
          BY <1>5, <5>1, Constants DEF PollUntil
        <5> QED
          BY <2>2, <5>2
      <4> QED
        BY <2>1, <2>2, <1>5, <2>5, <4>1
    <3> QED
      BY <1>5, <2>2, <3>1, AheadLater
  <2> QED
    BY <1>1, <1>3, <1>4, <2>1, <2>3, <2>4, <2>5 DEF AheadInv
<1>9. CASE FlushDone
  <2>1. pc = "flush" /\ pc' = "poll" /\ UNCHANGED remaining_time
    BY <1>9 DEF FlushDone, locals
  <2>2. PollUntil' = PollUntil /\ Due(PollUntil)' = Due(PollUntil)
    BY <1>1, <2>1 DEF PollUntil, Due
  <2> QED
    BY <1>1, <1>2, <1>3, <1>4, <2>1, <2>2 DEF AheadInv
<1>10. CASE EmptyDone
  BY <1>2, <1>10 DEF EmptyDone, AheadInv
<1> QED
  BY <1>6, <1>7, <1>8, <1>9, <1>10

\* The clock and the path
LEMMA AheadEnvironment ==
  ASSUME IInv, AheadInv, Path \/ Sleep \/ Delay \/ UNCHANGED vars
  PROVE  AheadInv'
<1> SUFFICES ASSUME Ahead' PROVE AheadInv'
  BY DEF AheadInv
<1>1. /\ UNCHANGED <<pc, args, sent_packets, received_packets, sending, remaining_time,
                     deadline>>
      /\ clock' \in {clock, clock + 1}
  BY DEF Path, Sleep, Delay, vars, counters, locals
<1>2. Ahead
  BY <1>1, AheadBefore
<1>3. rcvbuf # <<>> => rcvbuf' # <<>>
  <2>1. CASE Path
    <3>1. PICK m \in wire : Deliver(m) \/ Lose(m) \/ Duplicate(m)
      BY <2>1 DEF Path, PathNext
    <3>2. rcvbuf' = rcvbuf \/ rcvbuf' = Append(rcvbuf, m)
      BY <3>1 DEF Deliver, Lose, Duplicate
    <3>3. rcvbuf \in Seq(Datagrams) /\ m \in Datagrams
      BY DEF IInv, TypeOK, PathTypeOK
    <3> HIDE DEF Datagrams
    <3>4. Append(rcvbuf, m) # <<>>
      <4> DEFINE l == Len(rcvbuf)
                 k == Len(Append(rcvbuf, m))
      <4>1. l \in Nat /\ k = l + 1
        BY <3>3
      <4> HIDE DEF l, k
      <4>2. k # 0
        BY <4>1
      <4>3. k # Len(<<>>)
        BY <4>2
      <4> QED
        BY <4>3 DEF k
    <3> QED
      BY <3>2, <3>4
  <2> QED
    BY <2>1 DEF Sleep, Delay, vars, pathVars
<1>4. /\ clock \in Nat /\ clock' \in Nat /\ clock <= clock' /\ StartDate <= clock
      /\ sent_packets \in Int /\ sent_packets + 1 \in Int
  BY <1>1, AheadTypes
<1>5. Due(clock)' = Due(clock') /\ UNCHANGED Due(deadline)
  BY <1>1 DEF Due
<1>6. sent_packets' <= Due(clock)' + args'.pps
  <2>1. sent_packets <= Due(clock) + args.pps
    BY <1>2 DEF AheadInv
  <2> QED
    BY <1>1, <1>4, <1>5, <2>1, AheadLater
<1>7. ASSUME pc \in {"blast", "return"}
      PROVE  sent_packets' + 1 <= Due(clock)' + args'.pps
  <2>1. sent_packets + 1 <= Due(clock) + args.pps
    BY <1>2, <1>7 DEF AheadInv
  <2> QED
    BY <1>1, <1>4, <1>5, <2>1, AheadLater
<1>8. ASSUME pc \in {"flush", "poll", "polling"}
      PROVE  /\ PollUntil \in Nat /\ PollUntil' \in Nat /\ PollUntil <= PollUntil'
             /\ StartDate <= PollUntil
  <2>1. remaining_time \in Nat /\ PollUntil \in Nat /\ clock <= PollUntil
    BY <1>2, <1>8, AheadTypes DEF Ahead
  <2>2. remaining_time * UsPerMs \in Nat
    BY <2>1, Constants, Product
  <2>3. PollUntil' = clock' + remaining_time * UsPerMs
    BY <1>1 DEF PollUntil
  <2> QED
    BY <1>4, <2>1, <2>2, <2>3, Constants DEF PollUntil
<1>9. ASSUME pc \in {"flush", "poll"}
      PROVE  sent_packets' + 1 <= Due(PollUntil)' + args'.pps
  <2>1. sent_packets + 1 <= Due(PollUntil) + args.pps
    BY <1>2, <1>9 DEF AheadInv
  <2>2. Due(PollUntil)' = Due(PollUntil')
    BY <1>1 DEF Due
  <2> QED
    BY <1>1, <1>4, <1>8, <1>9, <2>1, <2>2, AheadLater
<1>10. pc = "polling" =>
         /\ sent_packets' + 1 <= Due(deadline)' + args'.pps
         /\ StartDate <= deadline' /\ deadline' <= PollUntil'
  <2> SUFFICES ASSUME pc = "polling"
               PROVE  /\ sent_packets' + 1 <= Due(deadline)' + args'.pps
                      /\ StartDate <= deadline' /\ deadline' <= PollUntil'
    OBVIOUS
  <2>1. /\ sent_packets + 1 <= Due(deadline) + args.pps
        /\ StartDate <= deadline /\ deadline <= PollUntil
    BY <1>2 DEF AheadInv
  <2> QED
    BY <1>1, <1>5, <1>8, <2>1, AheadTypes
<1> QED
  BY <1>1, <1>2, <1>3, <1>6, <1>7, <1>9, <1>10 DEF AheadInv

LEMMA AheadStep ==
  ASSUME IInv, AheadInv, [Next]_vars
  PROVE  AheadInv'
<1>1. CASE SendTo
  <2> SUFFICES ASSUME Ahead' PROVE AheadInv'
    BY DEF AheadInv
  <2>1. /\ pc = "blast" /\ pc' = "throttle" /\ sent_packets' = sent_packets + 1
        /\ UNCHANGED <<clock, args, received_packets, sending>>
    BY <1>1 DEF SendTo
  <2>2. Ahead
    BY <2>1, AheadBefore
  <2>3. UNCHANGED Due(clock)
    BY <2>1 DEF Due
  <2> QED
    BY <2>1, <2>2, <2>3 DEF AheadInv
<1>2. CASE ThrottledReceive
  BY <1>2, AheadThrottledReceive
<1>3. CASE \/ Poll \/ PollReady \/ PollTimesOut \/ PollInterrupted
           \/ FlushDone \/ EmptyDone
  BY <1>3, AheadWaiting
<1>4. CASE Path \/ Sleep \/ Delay \/ UNCHANGED vars
  BY <1>4, AheadEnvironment
<1>5. CASE Receive
  <2>1. received_packets' # 0
    BY <1>5, AheadTypes DEF Receive
  <2> QED
    BY <2>1 DEF AheadInv, Ahead
<1>6. CASE StartDrain
  BY <1>6 DEF StartDrain, AheadInv, Ahead
<1>7. CASE SendRetry \/ ReceiveRetry
  BY <1>7
  DEF SendRetry, ReceiveRetry, AheadInv, Ahead, Elapsed, Due, PollUntil,
      counters, locals, pathVars
<1>8. CASE \/ SendFails \/ DivideByPps \/ PollFails \/ ReceiveFails \/ NextTurn
           \/ DivideByElapsed \/ DrainTurn \/ Close
  <2> SUFFICES ASSUME Ahead' PROVE AheadInv'
    BY DEF AheadInv
  <2>1. /\ UNCHANGED <<clock, args, sent_packets, received_packets, sending>>
        /\ pc' \notin {"return", "flush", "poll", "polling", "empty"}
        /\ pc' = "blast" => pc = "return"
    BY <1>8
    DEF SendFails, DivideByPps, PollFails, ReceiveFails, NextTurn,
        DivideByElapsed, DrainTurn, DrainNext, Close, counters
  <2>2. Ahead
    BY <2>1, AheadBefore
  <2>3. UNCHANGED Due(clock)
    BY <2>1 DEF Due
  <2> QED
    BY <2>1, <2>2, <2>3 DEF AheadInv
<1> QED
  BY <1>1, <1>2, <1>3, <1>4, <1>5, <1>6, <1>7, <1>8
  DEF Next, Program, Finished

\* Undisturbed by answers, mattblast is never more than a second's worth of
\* queries ahead of its rate, for every rate, unit of time and width of its
\* integers: the cut-off divisions of the code lose nothing.
THEOREM OneSecondAheadCorrect == Spec => []OneSecondAhead
<1>1. IInv /\ AheadInv => OneSecondAhead
  <2> SUFFICES ASSUME IInv, AheadInv, Ahead
               PROVE  sent_packets <= MaxPackets + args.pps
    BY DEF OneSecondAhead, Ahead
  <2>1. MaxPackets = Due(clock)
    BY MaxPacketsIsDue DEF Ahead
  <2> QED
    BY <2>1 DEF AheadInv
<1>2. IInv /\ AheadInv /\ [Next]_vars => AheadInv'
  BY AheadStep
<1> QED
  BY <1>1, <1>2, AheadInit, Invariant, PTL DEF Spec
-----------------------------------------------------------------------------
(***************************************************************************)
(* The promise of LoadTest, times left out: with FlowInv every step of     *)
(* mattblast is one of LoadTest or one it does not see.                    *)
(***************************************************************************)

\* A step LoadTest does not see.
LEMMA Stutter ==
  ASSUME UNCHANGED <<args, counters>>, ~Ended, ~Ended',
         send_count > 0 <=> send_count' > 0
  PROVE  UNCHANGED Promise!vars
BY DEF Promise!vars, Phase, Verdict, Ended, counters

LEMMA PromiseGiveUp ==
  ASSUME ~Ended, pc' \in {"failed", "aborted", "killed"},
         UNCHANGED <<args, counters>>
  PROVE  Promise!GiveUp
BY DEF Promise!GiveUp, Phase, Verdict, Ended, counters

LEMMA PromiseSend ==
  ASSUME TypeOK, FlowInv, SendTo
  PROVE  Promise!Send
<1>1. /\ send_count \in Nat /\ send_count > 0
      /\ sent_packets + send_count = args.count
      /\ args.count \in Nat /\ sent_packets \in Nat
  BY ArgsTypes DEF SendTo, TypeOK, FlowInv
<1>2. sent_packets < args.count  BY <1>1
<1>3. Phase = "sending" /\ Phase' = "sending" /\ UNCHANGED Verdict
  BY <1>1 DEF SendTo, Phase, Verdict, Ended
<1> QED
  BY <1>2, <1>3 DEF SendTo, Promise!Send, Promise!Due

LEMMA PromiseAnswer ==
  ASSUME Receive
  PROVE  Promise!Answer
BY DEF Receive, Receiving, Promise!Answer, Phase, Verdict, Ended, status

LEMMA PromiseBeginDrain ==
  ASSUME TypeOK, FlowInv, StartDrain
  PROVE  Promise!BeginDrain
<1>1. sent_packets = args.count
  <2>1. args.count \in Nat /\ sent_packets \in Nat
    BY ArgsTypes DEF TypeOK
  <2>2. sent_packets + 1 = args.count + 1
    BY DEF StartDrain, FlowInv, InTurn
  <2> QED  BY <2>1, <2>2
<1>2. Phase = "sending" /\ Phase' = "draining" /\ UNCHANGED Verdict
  BY DEF StartDrain, DrainFirst, Phase, Verdict, Ended
<1> QED
  BY <1>1, <1>2 DEF StartDrain, Promise!BeginDrain, counters

LEMMA PromiseReport ==
  ASSUME TypeOK, FlowInv, Close
  PROVE  Promise!Report
<1>1. send_count = 0
  BY DEF Close, FlowInv, TypeOK
<1>2. received_packets = sent_packets
  BY <1>1 DEF Close, FlowInv
<1>3. Phase = "draining" /\ Phase' = "over"
  BY <1>1 DEF Close, Phase, Ended
<1>4. Verdict' = [sent |-> sent_packets, received |-> received_packets]
  BY DEF Close, UpdateStatus, Verdict
<1> QED
  BY <1>2, <1>3, <1>4 DEF Close, Promise!Report, counters

LEMMA PromiseStep ==
  ASSUME TypeOK, FlowInv, [Next]_vars
  PROVE  [Promise!Next]_(Promise!vars)
<1> USE DEF counters
<1>1. CASE SendTo
  BY <1>1, PromiseSend DEF Promise!Next
<1>2. CASE \/ SendFails \/ PollFails \/ ReceiveFails \/ DivideByPps
           \/ DivideByElapsed
  BY <1>2, PromiseGiveUp
     DEF SendFails, PollFails, ReceiveFails, DivideByPps, DivideByElapsed,
         Receiving, Ended, Promise!Next
<1>3. CASE Receive
  BY <1>3, PromiseAnswer DEF Promise!Next
<1>4. CASE SendRetry \/ ThrottledReceive \/ Poll \/ PollReady
  BY <1>4, Stutter DEF SendRetry, ThrottledReceive, Poll, PollReady, Ended
<1>5. CASE PollTimesOut \/ PollInterrupted
  BY <1>5, Stutter DEF PollTimesOut, PollInterrupted, Ended
<1>6. CASE ReceiveRetry \/ FlushDone \/ EmptyDone
  BY <1>6, Stutter DEF ReceiveRetry, FlushDone, EmptyDone, Receiving, Ended
<1>7. CASE NextTurn
  <2>1. send_count \in Nat  BY ArgsTypes DEF TypeOK
  <2>2. send_count > 0 /\ send_count' > 0  BY <1>7, <2>1 DEF NextTurn
  <2> QED  BY <1>7, <2>2, Stutter DEF NextTurn, Ended
<1>8. CASE StartDrain
  BY <1>8, PromiseBeginDrain DEF Promise!Next
<1>9. CASE DrainTurn
  BY <1>9, Stutter DEF DrainTurn, DrainNext, Ended
<1>10. CASE Close
  BY <1>10, PromiseReport DEF Promise!Next
<1>11. CASE Path \/ Sleep \/ Delay
  BY <1>11, Stutter DEF Path, Sleep, Delay, Ended
<1>12. CASE UNCHANGED vars
  BY <1>12 DEF vars, Promise!vars, Phase, Verdict, Ended, status
<1> QED
  BY <1>1, <1>2, <1>3, <1>4, <1>5, <1>6, <1>7, <1>8, <1>9, <1>10, <1>11,
     <1>12
     DEF Next, Program, Finished

\* Every run of mattblast is a run of LoadTest without a rate and without a
\* timeout: it sends the queries it was asked for, drains when all are out,
\* and its verdict is what it counted, given when the counters are equal.
THEOREM LoadTestImplemented == Spec => ImplementsLoadTest
<1>1. Init => Promise!Init
  <2> SUFFICES ASSUME Init PROVE Promise!Init
    OBVIOUS
  <2>1. args \in [count : Counts, pps : Rates] /\ args.count > 0
    BY ArgsTypes DEF Init
  <2>2. Phase = "sending" /\ Verdict = Promise!NoVerdict
    BY <2>1 DEF Init, Phase, Verdict, Ended, Promise!NoVerdict
  <2>3. [count |-> args.count, pps |-> 0, timeout |-> 0]
          \in [count : Counts, pps : {0}, timeout : {0}]
    BY <2>1
  <2> QED
    BY <2>2, <2>3 DEF Init, Promise!Init
<1>2. IInv /\ [Next]_vars => [Promise!Next]_(Promise!vars)
  BY PromiseStep DEF IInv
<1> QED
  BY <1>1, <1>2, Invariant, PTL
     DEF Spec, ImplementsLoadTest, Promise!Spec
=============================================================================
