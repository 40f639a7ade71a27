------------------------------ MODULE UdpPath ------------------------------
(***************************************************************************)
(* Everything between sendto(2) and recv(2) of the load tester: the        *)
(* network, the resolver under test and the receive buffer of the one UDP  *)
(* socket.  None of it is in the repository; it is modelled from what      *)
(* dnsblast.c relies on.  A datagram is a record [n, id]: n says which     *)
(* query it belongs to (the first one sent is 1) and id is the DNS id the  *)
(* bytes of the packet carry.  A query and its answer are one datagram,    *)
(* which stays on the wire until it is answered, lost or dropped.          *)
(***************************************************************************)
EXTENDS Integers, Sequences

CONSTANTS
  RcvCap,   \* answers the socket buffer holds (SO_RCVBUF, in datagrams)
  IdSpace,  \* 2^16: values of the uint16_t id of the DNS header
  MaxDup    \* bound: answers delivered once more than they should be

ASSUME PathAssumption ==
  RcvCap \in Nat \ {0} /\ IdSpace \in Nat \ {0} /\ MaxDup \in Nat

VARIABLES
  wire,     \* the datagrams in transit, in no order
  rcvbuf,   \* the answers waiting in the socket, oldest first
  lost,     \* how many datagrams the path has lost
  dups      \* how many extra copies the path has delivered

pathVars == <<wire, rcvbuf, lost, dups>>

Ids == 0 .. IdSpace - 1
Datagrams == [n : Nat, id : Ids]

PathTypeOK ==
  /\ wire \in SUBSET Datagrams
  /\ rcvbuf \in Seq(Datagrams)
  /\ lost \in Nat
  /\ dups \in Nat

PathInit ==
  /\ wire = {}
  /\ rcvbuf = <<>>
  /\ lost = 0
  /\ dups = 0

\* sendto(2) has taken the whole datagram.
Transmit(m) ==
  /\ wire' = wire \cup {m}
  /\ UNCHANGED <<rcvbuf, lost, dups>>

\* An answer reaches the socket; a full buffer drops it silently.
Deliver(m) ==
  /\ m \in wire
  /\ wire' = wire \ {m}
  /\ \/ /\ Len(rcvbuf) < RcvCap
        /\ rcvbuf' = Append(rcvbuf, m)
        /\ lost' = lost
     \/ /\ Len(rcvbuf) >= RcvCap
        /\ rcvbuf' = rcvbuf
        /\ lost' = lost + 1
  /\ dups' = dups

\* The query or its answer is lost, or the resolver never replies.
Lose(m) ==
  /\ m \in wire
  /\ wire' = wire \ {m}
  /\ lost' = lost + 1
  /\ UNCHANGED <<rcvbuf, dups>>

\* The answer is delivered while another copy of it is still under way.
Duplicate(m) ==
  /\ m \in wire
  /\ dups < MaxDup
  /\ Len(rcvbuf) < RcvCap
  /\ rcvbuf' = Append(rcvbuf, m)
  /\ dups' = dups + 1
  /\ UNCHANGED <<wire, lost>>

\* recv(2) hands the oldest waiting answer to the program.
TakeAnswer ==
  /\ rcvbuf # <<>>
  /\ rcvbuf' = Tail(rcvbuf)
  /\ UNCHANGED <<wire, lost, dups>>

PathNext == \E m \in wire : Deliver(m) \/ Lose(m) \/ Duplicate(m)
=============================================================================
