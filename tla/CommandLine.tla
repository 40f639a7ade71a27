---------------------------- MODULE CommandLine ----------------------------
(***************************************************************************)
(* dnsblast.c from the start of main to its init_context: the argument     *)
(* vector, getopt_long over what is left of it once the host is taken off, *)
(* and the socket.  What it ends in is the args of DnsBlast.               *)
(*                                                                         *)
(* A word of the command line is an option, which getopt_long knows by its *)
(* letter or its long name, or an operand.  The value of an option is the  *)
(* word after it, whatever that word is.                                   *)
(***************************************************************************)
EXTENDS Integers, Sequences, SequencesExt

CONSTANTS
  CommandLines,  \* argument vectors, without the name of the program
  ULongMax,      \* ULONG_MAX
  MaxArgs        \* argc - 1 at most, 10

Valued == {"port", "count", "pps", "timeout"}
Flags == {"fuzz", "deterministic", "random", "verbose", "version", "help"}

\* number is what strtoul makes of a word, 0 when it is none.
Word == [option : Valued \cup Flags \cup {"unknown", "none"}, number : Nat]
NoWord == [option |-> "none", number |-> 0]

VARIABLES
  pc,
  argv,   \* as main was called
  words,  \* what getopt_long has not looked at yet
  extra,  \* the operands it has passed over
  host,   \* the word taken for the host
  args    \* the locals of main, and the flags getopt_long sets

vars == <<pc, argv, words, extra, host, args>>

\* "domain" is port 53.
Defaults ==
  [port |-> 53, count |-> ULongMax, pps |-> ULongMax, timeout |-> 600,
   fuzz |-> FALSE, deterministic |-> TRUE, verbose |-> FALSE]

Init ==
  /\ pc = "arguments"
  /\ argv \in CommandLines
  /\ words = argv
  /\ extra = <<>>
  /\ host = NoWord
  /\ args = Defaults

Exit(status) ==
  /\ pc' = status
  /\ UNCHANGED <<argv, words, extra, host, args>>

\* usage() also is what --help leads to, and exits with EXIT_SUCCESS.
WrongNumber ==
  /\ pc = "arguments"
  /\ Len(argv) < 1 \/ Len(argv) > MaxArgs
  /\ Exit("usage")

\* The first word is the host, be it an option or not.
TakeHost ==
  /\ pc = "arguments"
  /\ Len(argv) \in 1 .. MaxArgs
  /\ host' = Head(words)
  /\ words' = Tail(words)
  /\ pc' = "options"
  /\ UNCHANGED <<argv, extra, args>>

\* getopt_long passes over operands, which it moves to the end.
Operand ==
  /\ pc = "options" /\ words # <<>>
  /\ Head(words).option = "none"
  /\ extra' = Append(extra, Head(words))
  /\ words' = Tail(words)
  /\ UNCHANGED <<pc, argv, host, args>>

Value == words[2].number

\* case 'p', 'c', 's' and 't'
ValuedOption ==
  /\ pc = "options" /\ Len(words) > 1
  /\ Head(words).option \in Valued
  /\ args' = [args EXCEPT ![Head(words).option] = Value]
  /\ words' = SubSeq(words, 3, Len(words))
  /\ UNCHANGED <<pc, argv, extra, host>>

\* case 'f', and the flags that getopt_long sets by itself
Flag ==
  /\ pc = "options" /\ words # <<>>
  /\ Head(words).option \in Flags \ {"help"}
  /\ LET flag == Head(words).option IN
       args' = [args EXCEPT
         !.fuzz = @ \/ flag = "fuzz",
         !.verbose = @ \/ flag = "verbose",
         !.deterministic = (@ /\ flag # "random") \/ flag = "deterministic"]
  /\ words' = Tail(words)
  /\ UNCHANGED <<pc, argv, extra, host>>

\* case '?': an option there is not, or one whose value is missing.  It is
\* reported, and the run goes on without it.
Unknown ==
  /\ pc = "options" /\ words # <<>>
  /\ \/ Head(words).option = "unknown"
     \/ Head(words).option \in Valued /\ Len(words) = 1
  /\ words' = Tail(words)
  /\ UNCHANGED <<pc, argv, extra, host, args>>

Help ==
  /\ pc = "options" /\ words # <<>>
  /\ Head(words).option = "help"
  /\ Exit("usage")

\* Extra arguments are reported, and the host and port looked up.
GetSock ==
  /\ pc = "options" /\ words = <<>>
  /\ Exit("assert")

\* getaddrinfo, socket
GetSockFails ==
  /\ pc = "options" /\ words = <<>>
  /\ Exit("failed")

\* assert(send_count > 0UL)
Run ==
  /\ pc = "assert"
  /\ Exit(IF args.count > 0 THEN "run" ELSE "aborted")

Ended == pc \in {"usage", "failed", "aborted", "run"}
Stay == Ended /\ UNCHANGED vars

Next ==
  \/ WrongNumber \/ TakeHost \/ Operand \/ ValuedOption \/ Flag \/ Unknown
  \/ Help \/ GetSock \/ GetSockFails \/ Run \/ Stay

Spec == Init /\ [][Next]_vars
-----------------------------------------------------------------------------
(* Properties *)

\* README: "To send 50,000 queries at a rate of 100 queries per second:
\* dnsblast 127.0.0.1 50000 100".  Operands behind the host are the number of
\* queries, their rate, and the port.
Documented(i, field) ==
  (Len(argv) >= i /\ \A w \in ToSet(argv) : w.option = "none") =>
    args[field] = argv[i].number

AsDocumented ==
  pc = "run" =>
    Documented(2, "count") /\ Documented(3, "pps") /\ Documented(4, "port")
=============================================================================
