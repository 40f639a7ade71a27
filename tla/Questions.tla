----------------------------- MODULE Questions -----------------------------
(***************************************************************************)
(* The stream of packets of dnsblast.c: what question each turn of main's  *)
(* sending loop asks, how blast lays it out in the buffer all packets      *)
(* share, and what fuzz does to it.  DnsBlast has the rest of a turn; it   *)
(* changes nothing that is here.                                           *)
(*                                                                         *)
(* A name is the sequence of its labels, a label a sequence of character   *)
(* codes.  The buffer is a sequence of cells: the six words of the header, *)
(* then bytes.                                                             *)
(***************************************************************************)
EXTENDS Integers, Sequences, FiniteSets, SequencesExt

CONSTANTS
  RandMax,      \* RAND_MAX: rand returns 0 .. RandMax
  Weights,      \* weighted_types: a sequence of [type, weight]
  RepeatMax,    \* REPEATED_NAME_PROBABILITY
  RefuzzMax,    \* REFUZZ_PROBABILITY
  Chars,        \* charset_alnum, as codes
  OctetValues,  \* what rand() % 256 may give
  DataSize,     \* cells of question behind the header
  PointerSize,  \* sizeof of a pointer
  SizeSpace,    \* 2^64: values of a size_t
  IdSpace,      \* 2^16: values of the query id
  FuzzValues,   \* what a cell may hold after fuzz has written to it
  SeedModes,    \* values of deterministic_flag
  FuzzModes     \* whether -f may be, or may not be, given

TypeA == 1
TypePTR == 12
ClassIn == 1
Table == DOMAIN Weights

ASSUME QuestionsAssumption ==
  /\ RandMax \in Nat /\ RepeatMax \in 0 .. RandMax - 1
  /\ RefuzzMax \in 0 .. RandMax
  /\ Weights \in Seq([type : 1 .. 255, weight : Nat \ {0}]) /\ Weights # <<>>
  /\ Chars \subseteq 1 .. 255 /\ OctetValues \subseteq 0 .. 255
  /\ DataSize \in Nat /\ DataSize >= 21   \* "255.255.255.255", type, class
  /\ PointerSize \in {4, 8}
  /\ SizeSpace \in Nat /\ SizeSpace >= 65536
  /\ IdSpace \in Nat \ {0}
  /\ FuzzValues \subseteq Nat
  /\ SeedModes \subseteq BOOLEAN /\ FuzzModes \subseteq BOOLEAN

VARIABLES
  pc,             \* "turn", "packet", "fuzz", "send"
  deterministic,  \* deterministic_flag
  fuzz,           \* context->fuzz
  first,          \* rand has not been called yet
  name, type,     \* main's locals
  id,             \* context->id
  question,       \* context->question
  packet_size,    \* local of blast
  p,              \* local of fuzz
  fuzzed          \* history: the writes of fuzz to this packet, in order

flags == <<deterministic, fuzz>>
asked == <<name, type>>
vars == <<pc, flags, first, asked, id, question, packet_size, p, fuzzed>>
-----------------------------------------------------------------------------
(* rand *)

(***************************************************************************)
(* main calls srand(0) or srand(clock()).  The stream that follows is      *)
(* taken to be any one; of the seed 0 only one thing matters, that its     *)
(* first number, 1804289383, is above REPEATED_NAME_PROBABILITY.           *)
(***************************************************************************)
Rand == IF first /\ deterministic THEN RepeatMax + 1 .. RandMax
                                  ELSE 0 .. RandMax
-----------------------------------------------------------------------------
(* get_random_type *)

\* pos, once the weights up to the k-th have been taken off it
Pos[k \in 0 .. Len(Weights)] ==
  IF k = 0 THEN RandMax ELSE Pos[k - 1] - Weights[k].weight

\* Mutant: the comparison is >=.
Hit_AtLeast(rnd, k) == rnd >= Pos[k]
Hit(rnd, k) == rnd > Pos[k]

\* The loop: the entry it stops at, 0 if it runs to the end.
Drawn(rnd) ==
  IF \E k \in Table : Hit(rnd, k)
  THEN CHOOSE k \in Table : Hit(rnd, k) /\ \A j \in 1 .. k - 1 : ~Hit(rnd, j)
  ELSE 0

\* weighted_types[rand() % weighted_types_len] when the loop stopped nowhere
TypesFor(rnd) ==
  IF Drawn(rnd) > 0 THEN {Weights[Drawn(rnd)].type}
                    ELSE {Weights[k].type : k \in Table}
-----------------------------------------------------------------------------
(* get_random_name and the names for PTR *)

Com == <<99, 111, 109>>
Hosts == {<< <<a, b, c, d>>, Com >> : a, b, c, d \in Chars}

\* "%d"
Decimal(n) ==
  LET digit(d) == 48 + (d % 10)
  IN  IF n < 10 THEN <<digit(n)>>
      ELSE IF n < 100 THEN <<digit(n \div 10), digit(n)>>
      ELSE <<digit(n \div 100), digit(n \div 10), digit(n)>>

Addresses ==
  {<<Decimal(a), Decimal(b), Decimal(c), Decimal(d)>> :
     a, b, c, d \in OctetValues}

\* "." as find_name_component_len cuts it up: an empty label on either side.
Root == << <<>>, <<>> >>

Init ==
  /\ pc = "turn"
  /\ deterministic \in SeedModes /\ fuzz \in FuzzModes
  /\ first = TRUE
  /\ name = Root /\ type = 0
  /\ id = 0
  /\ question = <<0, 256, 1, 0, 0, 0>> \o [i \in 1 .. DataSize |-> 0]
  /\ packet_size = 0
  /\ p = 0
  /\ fuzzed = <<>>

\* rand() > REPEATED_NAME_PROBABILITY: get_random_question
NewQuestion ==
  /\ pc = "turn"
  /\ Rand \cap (RepeatMax + 1 .. RandMax) # {}
  /\ type' \in UNION {TypesFor(rnd) : rnd \in 0 .. RandMax}
  /\ name' \in IF type' = TypePTR THEN Addresses ELSE Hosts
  /\ first' = FALSE
  /\ pc' = "packet"
  /\ UNCHANGED <<flags, id, question, packet_size, p, fuzzed>>

Repeat ==
  /\ pc = "turn"
  /\ Rand \cap (0 .. RepeatMax) # {}
  /\ first' = FALSE
  /\ pc' = "packet"
  /\ UNCHANGED <<flags, asked, id, question, packet_size, p, fuzzed>>
-----------------------------------------------------------------------------
(* encode_name and blast *)

\* sizeof *question_header
HeaderSize == 12

\* sizeof question - sizeof *question_header.  question is a pointer, so this
\* is not the room there is: it is below zero and wraps.
SizeofQuestionData == (PointerSize - HeaderSize) % SizeSpace

\* encoded_size in front of the k-th label, k = Len(labels) + 1 after the last
Room(labels) ==
  LET room[k \in 1 .. Len(labels) + 1] ==
        (IF k = 1 THEN SizeofQuestionData - 2 - 1
                  ELSE room[k - 1] - (Len(labels[k - 1]) - 1)) % SizeSpace
  IN  room

\* A label is refused when it is longer than that: no label is.
Encodable(labels) ==
  \A k \in DOMAIN labels :
    Len(labels[k]) <= 255 /\ Len(labels[k]) < Room(labels)[k]

\* Mutant: the length is that of the label and the length byte.
Component_Counted(label) == <<Len(label) + 1>> \o label
Component(label) == <<Len(label)>> \o label

\* Mutant: one zero more ends the name.
EncodedName_TwoEnds(labels) ==
  IF Encodable(labels)
  THEN FlattenSeq([k \in DOMAIN labels |-> Component(labels[k])]) \o <<0, 0>>
  ELSE <<>>

\* On failure msg stays where it was; blast does not look at the result.
EncodedName(labels) ==
  IF Encodable(labels)
  THEN FlattenSeq([k \in DOMAIN labels |-> Component(labels[k])]) \o <<0>>
  ELSE <<>>

\* PUT_HTONS
Htons(val) == <<val \div 256, val % 256>>

Data == EncodedName(name) \o Htons(type) \o Htons(ClassIn)

HeaderWords == 6

\* Mutant: the id is counted on but not written to the packet.
Written_SameId == SubSeq(question, 1, HeaderWords) \o Data

\* The packet: flags and counts are those init_context or fuzz put there.
Written == <<id>> \o SubSeq(question, 2, HeaderWords) \o Data

NextId == (id + 1) % IdSpace

\* Nothing keeps msg within the buffer: a longer packet would be written over
\* what is behind it.
Build ==
  /\ pc = "packet"
  /\ id' = NextId
  /\ packet_size' = Len(Written)
  /\ question' = Written \o SubSeq(question, Len(Written) + 1, Len(question))
  /\ p' = IF fuzz THEN RefuzzMax ELSE 0
  /\ pc' = IF fuzz THEN "fuzz" ELSE "send"
  /\ UNCHANGED <<flags, first, asked, fuzzed>>
-----------------------------------------------------------------------------
(* fuzz *)

\* Mutant: the probability stays the same.
Halved_Not == p
Halved == p \div 2

\* One turn of the loop: rand() < p && (p = p / 2) > 0 asks for another.  If
\* half of p is above zero, some numbers are below p and some are not.
Fuzz ==
  /\ pc = "fuzz"
  /\ \E i \in 1 .. packet_size, v \in FuzzValues :
       /\ question' = [question EXCEPT ![i] = v]
       /\ fuzzed' = Append(fuzzed, i)
  /\ \/ Halved > 0 /\ p' = Halved /\ pc' = "fuzz"
     \/ p' = 0 /\ pc' = "send"
  /\ UNCHANGED <<flags, first, asked, id, packet_size>>

\* sendto takes the packet, and the turn is over.
Send ==
  /\ pc = "send"
  /\ pc' = "turn"
  /\ packet_size' = 0
  /\ fuzzed' = <<>>
  /\ UNCHANGED <<flags, first, asked, id, question, p>>

Next == NewQuestion \/ Repeat \/ Build \/ Fuzz \/ Send

Spec == Init /\ [][Next]_vars
-----------------------------------------------------------------------------
(* Properties *)

Packet == SubSeq(question, 1, packet_size)

\* Every variable keeps its type: the id has 16 bits, what is in the buffer are
\* numbers, and nothing is written behind its end.  encode_name does not see to
\* that, as the room it is told is not that of the buffer; it holds because the
\* names main makes up are short enough.
TypeOK ==
  /\ pc \in {"turn", "packet", "fuzz", "send"}
  /\ deterministic \in BOOLEAN /\ fuzz \in BOOLEAN /\ first \in BOOLEAN
  /\ name \in Hosts \cup Addresses \cup {Root}
  /\ type \in {Weights[k].type : k \in Table} \cup {0}
  /\ id \in 0 .. IdSpace - 1
  /\ question \in Seq(Nat) /\ Len(question) = HeaderWords + DataSize
  /\ packet_size \in 0 .. Len(question)
  /\ p \in 0 .. RefuzzMax
  /\ fuzzed \in Seq(1 .. Len(question))

\* What a resolver reads in msg, label by label, from the i-th cell on: the
\* labels of the name, and where it ends (0: it runs out of the packet).
NameIn(msg) ==
  LET read[i \in 1 .. Len(msg)] ==
        LET next == i + msg[i] + 1
        IN  IF msg[i] = 0 THEN [labels |-> <<>>, end |-> i]
            ELSE IF next > Len(msg) THEN [labels |-> <<>>, end |-> 0]
            ELSE [labels |-> <<SubSeq(msg, i + 1, next - 1)>>
                             \o read[next].labels,
                  end |-> read[next].end]
  IN  read

\* Without -f a resolver reads from the packet just what was drawn: one
\* question, its name, its type and its class, and nothing behind it.  The
\* buffer still holds earlier, longer packets; and "." is not such a name: it
\* is laid out with two zeros too many.
ReadAsDrawn ==
  (pc = "send" /\ ~fuzz /\ name # Root) =>
    LET read == NameIn(Packet)[HeaderWords + 1]
    IN  /\ Packet[1] = (id - 1) % IdSpace
        /\ SubSeq(Packet, 2, HeaderWords) = <<256, 1, 0, 0, 0>>
        /\ read.labels = name
        /\ SubSeq(Packet, read.end + 1, packet_size)
             = <<0, type, 0, ClassIn>>

\* What fuzz did to one packet reaches later ones in the flags and counts of
\* the header only: any other cell of a packet that is not as it was built
\* has been changed by fuzz in the same turn, and -f was given.
FuzzStaysInHeader ==
  pc \in {"fuzz", "send"} =>
    \A i \in 1 .. packet_size :
      \/ i \in 2 .. HeaderWords /\ fuzz
      \/ \E k \in DOMAIN fuzzed : fuzzed[k] = i
      \/ Packet[i] = CASE i = 1 -> (id - 1) % IdSpace
                       [] i \in 2 .. HeaderWords -> <<256, 1, 0, 0, 0>>[i - 1]
                       [] OTHER -> Data[i - HeaderWords]

\* 2 to the n-th
Doubled[n \in Nat] == IF n = 0 THEN 1 ELSE 2 * Doubled[n - 1]

\* fuzz ends: the probability of one more write is halved until it is zero,
\* so that a packet gets 1 + log2 REFUZZ_PROBABILITY writes at most, whatever
\* rand returns.
FuzzBounded ==
  Len(fuzzed) > 1 => Doubled[Len(fuzzed) - 1] <= RefuzzMax

\* The loop of get_random_type picks every type for as many numbers of rand
\* as its weight says: none is lost, none counted twice where two entries
\* meet, and what is left is for the second choice.
SharesAreWeights ==
  pc = "turn" =>
    LET share(k) == Cardinality({r \in 0 .. RandMax : Drawn(r) = k})
    IN  \A k \in Table : Pos[k] >= 0 => share(k) = Weights[k].weight
=============================================================================
