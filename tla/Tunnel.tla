------------------------------- MODULE Tunnel -------------------------------
(***************************************************************************)
(* What a server that relays streams promises, without buffers, watchers   *)
(* and pointers: a connection is opened, says where to, is connected       *)
(* through and then passes on both ways, until it is stopped or closed.    *)
(* Each way delivers what came in, from the first byte on and in order; it *)
(* takes in more only when all it has is delivered, so that what it owes   *)
(* is never more than one piece, or what came with the request.  Nothing   *)
(* comes back before all of that is out.  When the server ends, so has     *)
(* every connection.                                                       *)
(***************************************************************************)
EXTENDS Integers, Sequences

CONSTANTS
  Conns,   \* the connections there may be at a time
  Asked,   \* how many bytes may come with a request
  Piece    \* the most bytes that come in at once after it

VARIABLES
  server,  \* "starting", "serving" or "over"
  conn     \* for each connection, how far it is and what it has passed on

vars == <<server, conn>>

Upto(n) == [i \in 1 .. n |-> i]

Nothing == [received |-> 0, delivered |-> <<>>]
Conn(phase, up, down) == [phase |-> phase, up |-> up, down |-> down]
Closed == Conn("closed", Nothing, Nothing)

\* What one way may be like next: more comes in, most bytes of it, only when all
\* that came before is delivered; and any part of what is there goes out.
After(pipe, most) ==
  UNION {{[received |-> m, delivered |-> Upto(n)] :
            n \in Len(pipe.delivered) .. m} :
           m \in IF Len(pipe.delivered) = pipe.received
                 THEN pipe.received .. pipe.received + most
                 ELSE {pipe.received}}

Init ==
  /\ server = "starting"
  /\ conn = [c \in Conns |-> Closed]

Start ==
  /\ server = "starting"
  /\ server' \in {"serving", "over"}
  /\ UNCHANGED conn

Becomes(c, new) ==
  /\ conn' = [conn EXCEPT ![c] = new]
  /\ UNCHANGED server

Open(c) ==
  /\ conn[c] = Closed
  /\ Becomes(c, Conn("opening", Nothing, Nothing))

\* What came with the request may be on its way at once.
Ask(c) ==
  /\ conn[c].phase = "opening"
  /\ \E m \in Asked : \E up \in After([Nothing EXCEPT !.received = m], 0) :
       Becomes(c, Conn("connecting", up, Nothing))

\* The connection is being made, and is there when the request is delivered.
Connect(c) ==
  /\ conn[c].phase = "connecting"
  /\ \E up \in After(conn[c].up, 0) :
       \/ Becomes(c, Conn("connecting", up, Nothing))
       \/ /\ Len(up.delivered) = up.received
          /\ Becomes(c, Conn("open", up, Nothing))

Relay(c) ==
  /\ conn[c].phase = "open"
  /\ \/ \E up \in After(conn[c].up, Piece) :
          Becomes(c, Conn("open", up, conn[c].down))
     \/ \E down \in After(conn[c].down, Piece) :
          Becomes(c, Conn("open", conn[c].up, down))

\* What a client says makes no sense: nothing of it is delivered any more, and
\* of what its remote sent nothing is promised.
Stop(c) ==
  /\ conn[c].phase \in {"opening", "open"}
  /\ Becomes(c, Conn("stopped", conn[c].up, Nothing))

Close(c) == Becomes(c, Closed)

Shutdown ==
  /\ server = "serving"
  /\ server' = "over"
  /\ conn' = [c \in Conns |-> Closed]

Serves(c) ==
  Open(c) \/ Ask(c) \/ Connect(c) \/ Relay(c) \/ Stop(c) \/ Close(c)

Next ==
  Start \/ Shutdown \/ (server = "serving" /\ \E c \in Conns : Serves(c))

Spec == Init /\ [][Next]_vars
=============================================================================
