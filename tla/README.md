# A verification of dnsblast

`dnsblast` is a load tester for DNS resolvers: it sends a number of queries at
a given rate over one UDP socket, counts what comes back, and prints a ratio.
The repository holds the program (`dnsblast.c`, `dnsblast.h`, `dns.h`), an
older variant of it (`mattblast.c`) with its ancestors, the server of
shadowsocks (`shadowsocks_server.c`, its longest file), a few small socket
servers and clients, and scratch files. This directory models the load testers
and the shadowsocks server in TLA+, checks them with TLC, and proves the main
results with TLAPS.

## Inventory

### The program: dnsblast.c

One process, one thread, one non-blocking UDP socket. Its state is `Context`
(`dnsblast.h:46`) and the locals of `main` and `throttled_receive`.

| Part | State | Operations |
| --- | --- | --- |
| Command line, `main` 392-464 | host, port, count, pps, timeout, flags | getopt loop |
| Socket, `get_sock`, `resolve` | `sock`, `ai` | resolve, create, size the buffers |
| Question generator 164-220 | `name`, `type`, the state of `rand` | `get_random_question` and its helpers |
| Packet 39-100, 102-123 | `question`, `id` | `encode_name`, `fuzz`, the header of `blast` |
| Sending 118-138 | `sent_packets`, `datagram_start` | `blast`, with its loop around `sendto` |
| Pacing 332-388 | `now`, `remaining_time`, `startup_date`, `pps` | `throttled_receive` |
| Receiving 254-330 | `received_packets` | `receive`, `empty_receive_queue` |
| Status line 286-320 | `rate`, `last_status_update` | `update_status`, `periodically_update_status` |
| Main loops 485-513 | `send_count`, `sending`, `now`, `timeout` | send loop, drain loop, final line |

They interact by calls and by the fields of `Context`; the partner of all of
them is the outside: the resolver, the network, the socket's receive buffer,
the scheduler, signals and the clock. What is hard about the program is there:
answers come at any moment, in any order, twice or never; `poll` is woken up
by answers and by signals in the middle of a wait; a wait is cut into pieces
whose rest is worked out from the clock; the run must end although datagrams
are lost; and the counters, the 16-bit id, the array of dates and the `int` of
`poll` have limits a long or quick run meets. What makes it correct:

* pacing: never faster than the rate, nor slower than it has to be;
* accounting: every datagram counted once, query times that are not too long,
  and a ratio of 100% that means what it says;
* the drain: it ends, in bounded time, and not before it should;
* the verdict: printed for a complete test only, from the final counters.

### The server: shadowsocks_server.c

One process, one thread, one event loop (libev) that calls a callback to its
end whenever the watcher it belongs to is active and due. It relays TCP streams:
a client connects, its first message, decrypted, says where to, and what follows
is passed on in both directions.

| Part | State | Operations |
| --- | --- | --- |
| Client side, `server_t` | `stage`, `frag`, `buf`, watchers `recv_ctx->io`, `send_ctx->io`, the timer, `remote`, `query` | `accept_cb`, `server_recv_cb`, `server_send_cb`, `server_timeout_cb`, `new_server`, `free_server`, `close_and_free_server` |
| Remote side, `remote_t` | `buf`, `send_ctx->connected`, two watchers, `server` | `connect_to_remote`, `remote_send_cb`, `remote_recv_cb`, `new_remote`, `free_remote`, `close_and_free_remote` |
| Name query, `query_t` | `server` | `resolv_cb`, `resolv_free_cb` |
| Program, `main` | options, `listen_ctx_list`, `connections`, `fast_open`, `ret_val` | options, listening, `signal_cb`, `free_connections` |

The three structures of a connection point at each other and are freed by
whichever callback notices that something has ended. What is hard: the
callbacks come in any order; a `send` may take nothing, a part, or fail, and
the rest has to wait with the right watchers stopped and started; the resolver
answers after its client has gone; `close` and `free` have an order; the buffer
in which one direction waits is the one the other reads into. What makes it
correct: nothing freed is used; each direction delivers what it received, once
and in order; each direction always waits for exactly one thing; every
connection ends, with all that belongs to it; a stopped connection is not used
again.

### The rest of the repository

* `mattblast.c` (built by the Makefile): the same loop in nanoseconds with
  integer arithmetic and without a timeout for the drain. `temp.c`,
  `Untitled-1.c` and `mattblast_funcs.c` are its ancestors and are not built.
* `UDP-server.c`, `UDP-client.c`, `sock-server.c`, `sock-client.c`: one-message
  demos, the server a loop, the client one exchange. `getaddrserver.c` and
  `gettaddrclient.c`: an echo server and a client that talks to it. Hard here:
  loops that end by the length of a datagram, and errors used as values.
* `getaddrinfo.c`, `gethostbyname.c`: look a name up and print the result.
* `process_arguments.c`, `startup.c`, `static_void.c`, `getopt_gnu.c`,
  `testopt.c`, `ipcmk.c`, `1darray.c`, `filename.c`, `sphere.c`: experiments.

`PROJECT.json` lists all of these with their status, and under "hazards" what
can go wrong in them at which line.

## Modules

| Module | What it is |
| --- | --- |
| `UdpPath` | everything between `sendto` and `recv`: network, resolver, receive buffer (external) |
| `DnsBlast` | the program from `init_context` to its exit, composed with `UdpPath` |
| `LoadTest` | what a run promises, without how it is done |
| `Questions` | what question each turn asks, and the bytes of the packet it is sent in |
| `Mattblast` | the nanosecond variant, composed with `UdpPath` |
| `CommandLine` | the start of `dnsblast`'s `main`: from an argument vector to the values `DnsBlast` starts with |
| `ShadowRelay` | the connections of the shadowsocks server: one action per callback and outcome |
| `ShadowServer` | its `main` around them: options, listening, signals, clean-up; extends `ShadowRelay` |
| `Tunnel` | what the server promises, without buffers, watchers and pointers |
| `MCDnsBlast`, `MCQuestions`, `MCMattblast`, `MCCommandLine`, `MCShadowServer` | the values the configurations use |
| `DnsBlastProofs` | lemmas, type correctness, conservation |
| `DnsBlastPaceProofs` | the pacing, from both sides |
| `UdpPathProofs` | lemmas about the path alone: without copies, no query is counted twice |
| `DnsBlastReportProofs` | `DnsBlast` implements `LoadTest`; what a ratio of 100% means, how long the drain takes, that query times are true |
| `QuestionsProofs` | the packets: what a resolver reads from them, what `fuzz` can reach, the shares of the types |
| `MattblastProofs` | type correctness, the verdict and the pacing of `mattblast`; `Mattblast` implements `LoadTest` |
| `ShadowProofs` | the inductive invariant of the shadowsocks server and what follows from it |
| `ShadowStreamProofs` | what the server relays is complete and in order; `ShadowServer` implements `Tunnel` |

### DnsBlast

Variables have the names of the fields and locals they stand for. `pc` is the
system call, or the test in `main`, the thread has reached:

    blast -> sendto -> throttle -> [flush ->] poll -> polling -> empty -> ... return
      ^                                        |___________________|            |
      |______________ NextTurn, while send_count > 1 ___________________________|
    StartDrain -> drain -> throttle -> ... -> return -> DrainTurn -> close -> done

`failed` is `exit(EXIT_FAILURE)`, `aborted` a failed `assert`. An action is the
code from one system call to the next; the path (`Path`) and the clock
(`Sleep`, `Delay`) move between any two actions. `Sleep` is time passing in
`poll`, up to its deadline. `Delay` is all other time: computing, being
preempted, waking up late.

| Code | Actions and operators |
| --- | --- |
| `blast` | `BlastQuery` (id, date, fuzz), `SendTo`, `SendRetry`, `SendFails` |
| `throttled_receive` | `ThrottledReceive` (with `TimesToWait`), `Poll`, `PollReady`, `PollTimesOut`, `PollInterrupted`, `PollFails`, `EmptyDone` (with `LeftToWait`) |
| `receive`, `empty_receive_queue` | `Receive`, `ReceiveRetry`, `ReceiveFails`; `FlushDone` before the wait, `EmptyDone` in it |
| `update_status`, `periodically_update_status` | operators of the same names, parts of the actions that call them |
| `main` | `NextTurn`, `StartDrain`, `DrainTest`, `DrainTurn`, `Close` |

Decisions worth knowing:

* *The array of dates.* `datagram_start` has `Slots` (65507) entries, the id
  `IdSpace` (65536) values. The build lays `Context` out so that the four words
  behind the array are `failed_packets`, `timeout`, `rate`, and
  `sock`/`id`/`fuzz`/`sending`. `StoreStart` models what the store does to
  each of them (a date in milliseconds has 41 bits, so the upper bytes of the
  fourth word, `fuzz` and `sending`, become zero). This is undefined in C; it
  is what the compiled program does, which was confirmed by running it.
* *Waits.* `remaining_time` is computed in `double`. The result is the exact
  quotient rounded down, except that an exact whole number of milliseconds may
  come out one smaller; `TimesToWait` holds both values. (Example: 1 packet per
  second, 2 packets sent, 999 ms elapsed: the exact wait is 1001 ms, the code
  computes 1000.) `pps = 0` divides by zero; on x86 the conversion gives the
  least `int`, which the code turns into 0, and that is what is modelled.
* *Conversions to int* (`ToInt`) wrap: `timeout` for `poll`, and the update of
  `remaining_time`, which the source computes unsigned.
* *A rate of nothing.* `Garbage` is what a division by zero elapsed
  milliseconds or a read outside of the array shows.
* *History variables* `sent_at`, `answered` and `query_time` only serve
  properties. `query_time` is what `receive` works out, with or without
  `--verbose`.

A packet is a record `[n, id]`: the query it is, and the id its bytes carry. A
fuzzed packet may carry any id. Names, types and bytes are in `Questions`.

### UdpPath

`wire` is the set of datagrams in transit, so they overtake one another
freely; a query and its answer are one datagram. `Deliver` puts it into the
receive buffer or, when the buffer is full, drops it without a trace; `Lose`
stands for every other loss, and for a resolver that does not answer;
`Duplicate` delivers an answer and keeps a copy under way.

### Questions

One turn of the sending loop, without the sending: `NewQuestion` or `Repeat`
(`main` 487, `get_random_question` and its helpers), `Build` (`encode_name` and
the first half of `blast`), `Fuzz` (one turn of the loop in `fuzz`), `Send`.
Nothing of `DnsBlast` has an effect on it but the order of the turns, which is
why the two are not composed.

`rand` gives any number of `0 .. RandMax`; of `srand(0)` only its first number
matters, which makes the first question a new one. A name is the sequence of
its labels, as `find_name_component_len` finds them; characters are codes. The
buffer is a sequence of cells, six words of header and then bytes, so that what
earlier packets leave behind is there: the tail of a longer packet, and what
`fuzz` wrote. Written to a byte of a header word, it changes the word.

`blast` works out the room it tells `encode_name` of from `sizeof question`, and
`question` is a pointer there (line 108): 8 bytes, or 4, less the 12 of the
header, as a `size_t`, is nearly 2^64. `SizeofQuestionData` and `Room` do this
arithmetic, with `PointerSize` and `SizeSpace` (its `pos - 1` for a label that
takes `pos + 1` bytes included), so that `Encodable` refuses a label as the code
does: never. `Build` writes what `EncodedName` gives, and a name too long for
`DataSize` would make the buffer longer, which `TypeOK` would see. It is empty
when `encode_name` fails, since `blast` ignores its result.

### Mattblast

The actions are those of `DnsBlast` where the code is the same (`SendTo`,
`ThrottledReceive`, `Poll` ... `EmptyDone`, `NextTurn`, `StartDrain`,
`DrainTurn`, `Close`), the arithmetic is not. The clock counts microseconds,
`Elapsed` nanoseconds, `remaining_time` milliseconds, and `EmptyDone` takes
microseconds off it, as line 312 does. `MaxPackets` and `Excess` wrap at
`ULongSize`, `TimeToWait` at an `int`. `DivideByPps` and `DivideByElapsed` are
the integer divisions by zero that kill the process (`killed`). The drain's
`poll` has the timeout -1. There are no dates, no failed count and no timeout.

### CommandLine

`TakeHost` takes `argv[1]` off, as lines 409 to 411 do, and an action per case
of the `getopt_long` loop takes the next word: `ValuedOption`, `Flag`,
`Operand`, `Unknown`, `Help`. Then the socket (`GetSock`, `GetSockFails`) and
the assertion (`Run`). A word is the option it is, if any, and the number
`strtoul` makes of it; the value of an option is the next word whatever it is.
State "run" is where `DnsBlast` begins.

### ShadowRelay

`session[c]` is all that is allocated for one connection: the fields of
`server_t`, `remote_t` and `query_t` that decide anything, the three pairs of
pointers, and `io`, the set of active watchers. An action is one callback with
one outcome. The names of the operators that make, free and link are those of
the code (`NewServer`, `CloseRemote`, `FreeServer`, ...); they are applied in
the order of the calls, so that a pointer read after the structure was freed
would be gone.

| Code | Actions |
| --- | --- |
| `accept_cb` | `Accept` |
| `server_recv_cb` | `ClientCloses`, `ClientSilent`, `ClientIgnored`, `ClientGarbage`, `ClientFragment`; `ClientData` in a stream; `RequestRefused`, `RequestDenied`, `RequestDirect`, `RequestNamed` before it |
| `connect_to_remote` | `Connects`, `ConnectFails`, parts of the requests and of `Resolved`; its `FATAL` is `ConnectFatal` of `ShadowServer`, possible when `MayConnect` |
| `resolv_cb`, `resolv_free_cb` | `Resolved`, `ResolveFails`; `QueryFreed` |
| `remote_send_cb` | `ConnectedEmpty`, `RemoteSend`, `RemoteSendFails`, `OrphanCloses` |
| `remote_recv_cb` | `RemoteData`, `RemoteCloses`, `RemoteSilent`, `RemoteIgnored`, `OrphanCloses` |
| `server_send_cb` | `ServerSend`, `ServerSendFails` |
| `server_timeout_cb` | `TimesOut`; `Tick` is the time that passes |

* *Data.* A payload is the sequence 1, 2, 3, ... in each direction; a byte that
  was overwritten is 0. So loss, doubling and reordering are visible, and
  nothing else about bytes is. `up`, `down`, `toRemote`, `toClient` record what
  came in and what went out.
* *The kernel* answers freely: end of file, an error, `EAGAIN`, or any number
  of bytes up to what was asked for. So does the cipher: a message is garbage,
  incomplete, or decrypts to a request of `Requests`. One byte of ciphertext
  stands for one of payload.
* *A buffer* has its `idx` and `len` as in the code, and keeps its data when
  its length is set to zero.
* *The resolver* calls `resolv_cb` once and then `resolv_free_cb`. If the server
  is gone by then, the first finds no server, does nothing and is no step of the
  model; so `QueryFreed` needs it to have been called only while the server
  lives.
* *Slots.* A session of which nothing is left becomes `Fresh` and is used again
  (`Settled`); `was` remembers how the server ended while its remote or query
  lives on.

### ShadowServer

`Configure` is the command line merged with the configuration file, `Listen`,
`ListenFails` and `BindFails` the turns of the loop over the addresses,
`ListenDone` and `InitUdp` the tests behind the loops and `run_as`, `Serve` a
step of the event loop, `ConnectFatal` the one that ends the program from
within (line 487 or 558), `Signal` and `PluginDies` what ends the loop,
`CleanUp` the rest of `main`. `FATAL` and a wrong usage are "failed". `listen_ctx_list` is an array
on the stack: the entry of an address that could not be listened on is never
written, and `CleanUp` still stops and closes it. What that does depends on
the stack; the model notes the entry in `wild` and leaves the descriptors
alone.

### LoadTest

The promise, in six actions: `Send` while a query is `Due`, `Answer`,
`BeginDrain` once all queries are out, `Report` (the verdict) once all answers
are in or more than the timeout has passed, `GiveUp`, `Tick`. `DnsBlast`
implements it under the mapping `Phase`, `Verdict` of `DnsBlast`: `phase` is
"draining" when `send_count` is 0, `sent` and `received` are the counters, and
the verdict is the line shown last. `Mattblast` implements it with no rate, no
timeout and a clock that stands still: the order of things and the numbers are
promised, not the times. What it does keep of its rate is `OneSecondAhead`.

### Tunnel

The promise of the shadowsocks server. A connection is "closed", "opening",
"connecting", "open" or "stopped"; of each of its two ways Tunnel keeps how much
came `received` and what was `delivered`. `Ask` brings the request and what
came with it, `Connect` delivers that and opens the connection once all of it is
out, `Relay` passes on in either direction, `Stop` and `Close` end it, `Shutdown`
ends all. `After` is the heart: a way takes in more, one `Piece` at most, only
when all it had is delivered, and delivers the bytes from the first one on. So
what a way owes is at most `Piece` bytes, or those that came with the request,
one of the numbers in `Asked`.
`ShadowServer` implements it with one buffer for `Piece`, what its requests can
bring for `Asked` (`Payloads`), and under the mapping `Server`, `Connections`:
`Connection` makes of a session its phase and its ways. That a request was read
in fragments, that a name is looked up, which watchers wait and what the buffers
hold cannot be seen. Nothing is promised of what a stopped server still sends
its client, since that may be overwritten (finding 5).

## Runs

The limits of the program are out of reach of a model checker, so they are
made small enough to be met: `MsPerSec` = 4 clock ticks in a second, 2 to 8
ids, 1 to 4 slots, a receive buffer of 1 or 2 answers. The rates 1, 3 and 9
are below, near and above one query per tick. The bounds `MaxIntr` (signals,
retries), `MaxLag` (delayed ticks) and `MaxDup` (duplicates) are budgets in the
guards of the actions that spend them; the properties that depend on them name
`intr` and `lag` and so do not hide them. Three queries are enough for one to
be held up by what happened to the one before and for an id to be used twice;
five reach the last word behind the array.

| Run | Question | Properties |
| --- | --- | --- |
| `pacing` | is the rate an upper bound, and nearly a lower one, whatever cuts the waits short? | `Paced`, `WaitFitsInt`, `KeepsUp` |
| `accounting` | answers are lost, doubled, reordered, and ids are reused: do counters and query times tell the truth, and does the drain end, and when at most? | `TypeOK`, `Conservation`, `FullRatioMeansAllAnswered`, `QueryTimeSound`, `DrainBounded`, `Termination` |
| `overrun` | any call may fail for good, and up to 5 queries on one slot overwrite the run's own timeout and socket: is there ever a wrong verdict? | `ImplementsLoadTest` |
| `overrun_verdict` | violated: such a run fails by itself | `DeliversVerdict` |
| `first_rate` | violated: a reply rate that is no number | `RateIsMeasured` |
| `packets` | is every packet the question that was drawn, whatever is in the buffer and although nothing keeps it within; how far does `fuzz` reach; do the types come in their shares? | `TypeOK`, `ReadAsDrawn`, `FuzzStaysInHeader`, `FuzzBounded`, `SharesAreWeights` (of `Questions`) |
| `mattblast` | how far ahead its bursts get, whether its verdict is complete, whether it keeps the promise of `LoadTest`, times apart, when it ends | `TypeOK`, `OneSecondAhead`, `VerdictIsComplete`, `ImplementsLoadTest`, `EndsWhenAnswered` (of `Mattblast`) |
| `mattblast_late` | violated: a loop that is behind its rate waits | `LateMeansNoWait` |
| `mattblast_lost` | violated: a lost answer, and no end | `Termination` |
| `shadow` | in any order of callbacks and answers of the kernel: is nothing freed used, the stream intact, every step one of the abstract relay, every session ended with all that belongs to it? | `TypeOK`, `NothingDangles`, `ContextSound`, `TakeTurns`, `StreamIntact`, `OnlyStoppedOrphans`, `StopIsFinal`, `ImplementsTunnel`, `HandshakeEnds`, `ServesWhatWasAsked`, `CleanExit` (of `ShadowServer`) |
| `shadow_stopped` | violated: data for a stopped server overwrite what waits for its client | `IgnoresWhenStopped` |
| `readme_usage` | violated: the command lines of the README do not set what they should | `AsDocumented` |

The runs of `Mattblast` have a second of 4 ticks, an unsigned long of 256
values and an `int` of 16. Three queries at 1, 9, 10 and 255 per second: one
that waits, two whose wrap-around gives a negative and a positive wait, and
`ULONG_MAX`, with which `pps * elapsed` wraps; a rate of 0 is the division by
zero. `EndsWhenAnswered` has its condition on the path as a hypothesis, and
weak fairness of the delivery (`Answering`).

`packets` has 13 numbers for `rand`, the six types of the table with weights 1 to
3 and some numbers left over, one host name, the longest address there is, a
pointer of 8 bytes with a `size_t` of 65536 values, and a buffer that holds just
that address (`DataSize` = 21): one cell more in any layout and `TypeOK` fails. The
fuzzer writes a zero to up to two cells of a packet; other values only multiply
the states. That is enough for a packet to be built over a longer one, over a
fuzzed one, and to be repeated after either; `ReadAsDrawn` takes the packet apart
label by label, as a resolver does, and not with the operators that built it.

`shadow` has one connection slot, used again and again: connections share
nothing but `fast_open`, which any of them may switch off at any time, and that
any number of them can be side by side is what the proofs add. Buffers of two
bytes and three bytes of payload in each direction make every send whole,
partial or refused, and let a second read follow a partial one; nine requests
have every type, length and kind of name the code tells apart; seven command
lines and two files have none to two addresses, both relays and a plugin. The
timer lasts one tick, which is enough for it to race every other callback.

`DnsBlast` runs with `fuzz` off: a fuzzed packet differs only in the id it may
carry, which multiplies the states of a run and touches query times only. That
`Conservation`, `Paced` and the rest hold with it is part of the theorems;
`Questions` checks what fuzz does to the packets.

Deadlock is checked in all of them but `mattblast` and `mattblast_lost`, where
a drain that misses an answer polls for ever, and `overrun`, where `dnsblast`
may stop for good: its timeout has been overwritten by a date, which as an `int` may be
negative, and `poll` waits for ever.

*Fairness.* `Termination` is checked under `FairSpec`: weak fairness of the
program's own steps (the kernel runs a thread that is ready), signals and failures
excepted, and of `Sleep`
(time passes while it waits). Nothing is assumed of the path, which may lose
everything, nor of `Delay`. It is stated for timeouts `poll` can wait for,
from 1 on. With `-t 0` the drain never sleeps: it spins until the clock has
moved by itself, which `Sleep` does not say. From 2147483648 on, `poll` waits
for ever and the drain needs an answer to go on.

`HandshakeEnds` is checked under `FairSpec` of `ShadowServer`: weak fairness of
time, of the timers that are due, and of the end of `main` once its loop has
been left. Nothing is assumed of clients, remotes, the resolver or signals.

What the runs show about the code beyond "it holds":

* the bound of `Paced` is not pps * elapsed: the query due at this moment and
  the rounding of a wait to a millisecond come on top, and no more than that;
* `KeepsUp` and `DrainBounded` need the term in `intr`: the `continue` after
  EINTR skips the update of `remaining_time`, so a signal makes `poll` wait for
  the whole of it again;
* a ratio of 100% means that every query was answered only if the path makes
  no duplicates, which is why the property says so;
* `FuzzStaysInHeader` holds and its exception is needed: flags and counts are
  written once, in `init_context`, so what `fuzz` does to them stays;
* `StreamIntact` holds for a stream until the server is stopped, and not after
  (`shadow_stopped`);
* `OnlyStoppedOrphans` needs its exception: `server_recv_cb` looks its remote up
  in a stream only, so the client of a stopped server that closes leaves the
  remote behind. It is closed by its next callback, unless it was paused while
  an answer waited for the client: then no watcher is active any more, and it
  stays open for ever;
* query times are right as long as no id was used twice, and then too short,
  never too long.

## Findings

1. `dnsblast.c:118` indexes `datagram_start` with a 16-bit id. The 65511th query
   overwrites the socket; the run ends with "sendto: Bad file descriptor" and
   no result (`overrun_verdict`). Queries 65508 to 65510 overwrite
   `failed_packets`, `timeout` and `rate`; after the 65509th the drain waits
   for a time that was a date. The default count is `ULONG_MAX`.
2. `dnsblast.c:291` divides by the elapsed milliseconds, which may be zero
   (`first_rate`): `-c 1` shows a reply rate of 9223372036854775808 pps.
3. `mattblast.c:278` subtracts unsigned numbers: behind its rate, the loop waits
   for what remains of 2^64 (`mattblast_late`). At 200000 packets per second the
   built program sends one query and no second one: the wait works out as
   2061583544 ms.
4. `mattblast.c:383` drains without a timeout (`mattblast_lost`): one lost answer,
   and there is no verdict. The comment at line 293 noticed it.

5. `shadowsocks_server.c:717` receives into `server->buf` before it looks at the
   stage (`shadow_stopped`). The comment at line 737 says a stopped server ignores
   new packets; answers that wait for the client in that buffer are overwritten
   and then sent.
6. `dnsblast.c:409` and 462 (`readme_usage`): the README gives count, rate and port
   as operands (lines 95 to 105); the program reads them from options only,
   reports the operands and sends `ULONG_MAX` queries as fast as it can.

Seen, and not the subject of a run:

* with `--random` the first turn may repeat a name before any was drawn (one
  seed in seven). It then asks for ".", which `encode_name` lays out as three
  zero bytes, with type 0;
* `dnsblast.h:90` gives PTR the largest weight of all; the README (line 50) lists
  "SOA, A, AAAA, MX and TXT";
* `usage` names a flag `--deterministric`, which `longopts` does not know;
* the bound `blast` gives `encode_name` is no bound: `dnsblast.c:109` takes the size
  of a pointer, and the subtraction wraps (see `Questions`). The names the program
  makes up have 17 bytes at most, so that nothing is overrun; `encode_name` would
  count `pos - 1` bytes for a label that takes `pos + 1` (line 75) besides;
* a remote that goes on sending starts the timer of a stopped server anew
  (`shadowsocks_server.c:1120`), although its data are dropped;
* with a plugin and several addresses, only the first entry of
  `listen_ctx_list` is closed at the end, whichever one is in use.

## Theorems

All constants are arbitrary within `PathAssumption`, `BlastAssumption` and
`MattAssumption`: any number of ids and slots (in either order), any rates,
counts and timeouts, any `IntMax` above `MsPerSec` + 1 (above `MsPerSec` for
mattblast); and within `RelayAssumption` and `ServerAssumption`: any set of
connections, any requests, buffer, timer, command lines and files; and within
`QuestionsAssumption`: any table of types, characters, `RandMax` and
probabilities, any buffer with room for a question of 21 bytes, the longest
there is ("255.255.255.255" laid out, a type and a class), and, whatever
`encode_name` is told of it, pointers of 4 or 8 bytes and any `size_t` from 16
bits on.

| Theorem | Statement |
| --- | --- |
| `TypeCorrect` | `Spec => []TypeOK` |
| `ConservationCorrect` | `Spec => []Conservation` |
| `PacedCorrect` | `Spec => []Paced` |
| `WaitFitsIntCorrect` | `Spec => []WaitFitsInt` |
| `KeepsUpCorrect` | `Spec => [](lag + (1 + intr) * (MsPerSec + 1) < IntMax => KeepsUp)` |
| `LoadTestImplemented` | `Spec => ImplementsLoadTest` |
| `FullRatioCorrect` | `Spec => []FullRatioMeansAllAnswered` |
| `DrainBoundedCorrect` | `Spec => [](lag + (2 + intr) * args.timeout < IntMax => DrainBounded)` |
| `QueryTimeCorrect` | `Spec => [](sock_ok => QueryTimeSound)` |
| `TypeCorrect` (of `QuestionsProofs`) | `Spec => []TypeOK` |
| `ReadAsDrawnCorrect` | `Spec => []ReadAsDrawn` |
| `FuzzStaysInHeaderCorrect` | `Spec => []FuzzStaysInHeader` |
| `FuzzBoundedCorrect` | `Spec => []FuzzBounded` |
| `SharesCorrect` | `Spec => []SharesAreWeights` |
| `TypeCorrect` (of `MattblastProofs`) | `Spec => []TypeOK` |
| `VerdictCorrect` | `Spec => []VerdictIsComplete` |
| `OneSecondAheadCorrect` | `Spec => []OneSecondAhead` |
| `LoadTestImplemented` (of `MattblastProofs`) | `Spec => ImplementsLoadTest` |
| `TypeCorrect` (of `ShadowProofs`) | `Spec => []TypeOK` |
| `NothingDanglesCorrect` | `Spec => []NothingDangles` |
| `ContextSoundCorrect` | `Spec => []ContextSound` |
| `TakeTurnsCorrect` | `Spec => []TakeTurns` |
| `OrphansCorrect` | `Spec => []OnlyStoppedOrphans` |
| `StopIsFinalCorrect` | `Spec => StopIsFinal` |
| `ServesCorrect` | `Spec => []ServesWhatWasAsked` |
| `CleanExitCorrect` | `Spec => []CleanExit` |
| `StreamIntactCorrect` | `Spec => []StreamIntact` |
| `TunnelImplemented` | `Spec => ImplementsTunnel` |

*Types.* `TypeOK` is a conjunction of one part per group of variables; it is
inductive as it stands, with lemma `UnchangedTypes` for the groups a step
leaves alone.

*Conservation.* `Cardinality(wire)` grows by one in `SendTo` only if the packet
is not on the wire yet; `ConservationInv` adds that `sendto` is given the
packet with the next number and that no datagram under way has a higher one.

*Pacing.* `Paced` is about the moment after a `sendto`; that it holds there is
decided in the wait before. `PaceInv` says what a wait is worth: as long as
`throttled_receive` waits, the next query is due at `now + remaining_time`;
`poll` does not time out before; when the function returns, and until the next
`sendto`, the query is due now. The arithmetic is in `WaitSuffices` (the
quotient, even one too small, is enough), `ToIntLarger` (a wrap of
`remaining_time` only makes it larger) and `WaitIsShort`, from which
`WaitInv`, `remaining_time < IntMax`, follows: without it the wrap could make
a wait shorter.

*Keeping up.* `KeepInv` is the other side of `PaceInv`: wherever the wait is, the
query it is for is not overdue at its end. A signal makes a wait of up to
`MsPerSec` + `pps` units of work start anew, a delay counts neither way
(`InTimeStays`, `InTimeAnew`). `Reach` bounds how far `now` can be behind the
clock; its hypothesis, that an int holds this, keeps `LeftToWait` from wrapping
to a long wait.

*Refinement.* `FlowInv` is the book-keeping of `main`: how many queries are out
at each point of the two loops, that `sending` agrees with `send_count` as
long as the socket is intact, and what was tested before `close`. With
`PaceInv` it makes every step a step of `LoadTest` or a stutter.

*The ratio.* `CountInv` says that, while the path has made no copy, every query
is `Once`: counted, or once on the way, or once in the socket, or nowhere, so
that there are as many counted queries as `received_packets`. `FlowInv` says
that all were sent; then 100% of them is all of them.

*The drain.* `Allowance` is twice the timeout and one more for every signal,
`Spent` the time of the drain so far without the delays. `DrainInv` says how much
of the allowance is left wherever the drain is: a wait is begun only while
`Spent` is within the timeout, and is not longer than it; while a wait is cut
into pieces, what remains of it and what was spent still fit. The hypothesis of
the theorem is needed: `remaining_time -= ...` is converted to an int, and after
a delay of more than half of what an int can tell apart the remains of a wait
come out as a long one. With an int of 32 bits that is a program stopped for 24
days.

*Query times.* `DatesInv` says that an id is the number of its query modulo
`IdSpace`, on the wire, in the socket and in `id`, and that under this id
`datagram_start` has the date of that query or of a later one. The hypothesis
`sock_ok` is needed: the store that overwrites the socket clears `fuzz`, too,
and a query time got from fuzzed ids would be judged as one of honest ids.

*The packets.* The functions of `Questions` over names and tables (`Pos`,
`NameIn`, `FlattenSeq`, ...) are recursive, and a recursive definition says nothing
until a function that satisfies it is shown to exist. `Recursion` does that once
for all; it needs induction, but over a set of numbers only (`SetInduction`, from
the least number outside it), which is within the prover's reach. On this rest

* `Shares`: an entry of the table is drawn for just as many numbers of `rand` as
  it has weight, as long as the weights up to it fit into `RandMax`;
* `ReadBack`: a name of any number of labels, laid out anywhere in a message, is
  the name that is read from there, by induction from its last label;
* `ShortEncodable`: the room `encode_name` is told starts a few below `SizeSpace`
  and stays there for the four labels of a name at most (`Unsigned`), so that it
  refuses none of them; it would refuse no longer one either;
* `EncodedIs` and `DataFits`: that the packet stays within the buffer does
  therefore not come from any test. It comes from the names: none is longer than 17
  bytes when laid out, which leaves room in 21 for type and class.

`PacketInv` then says cell by cell what is in the buffer: the header as
`init_context` and `blast` left it, then the question of this turn, each but for
what `fuzz` wrote. `BoundInv` says that the probability of
another write, doubled for every write there was, stays within
`REFUZZ_PROBABILITY`, from which `FuzzBounded` follows, and that nothing is
remembered of the writes when the next packet is built, which `PacketInv` needs.

*mattblast.* `FlowInv` is the book-keeping of its `main`; with it `TypeOK` is
inductive. `Known` says that there are only answers to queries on the path. The
verdict follows from `CountInv`, as for `dnsblast`. `AheadInv` says that a query
is sent only when it is within a second's worth of those that are due: no
division cuts off anything that matters, since a whole second allows for exactly
`pps` more (`DueSecond`), and a wait is whole seconds. For `LoadTest` `FlowInv` is
enough.

*The server.* `IInv` is `TypeOK`, `RelayInv` and `MainInv`. `RelayInv` says that
every session is `Shaped`: which watchers are active follows from the stage and
from whether there is a remote. While a name is looked up there are none, while
a connection is made there is its writer only, a stream has one end of each
direction, a stopped server keeps its reader and its remote sends nothing. None
of the properties is inductive without it: `ContextSound`, say, needs to know
that a callback which starts a watcher does so in a stage where that watcher's
callback finds what it uses. There is a lemma for each action; those that free
something rest on `CloseBothGood` and `CloseServerGood`, which say what is left
(`Remains`). `MainInv` is the book-keeping of `main`: what `listening`, `fds`
and `udp` are in each phase. `StopIsFinal` is an action property, and follows
from `IInv` callback by callback.

*The stream.* `Whole` says of a session what `StreamIntact` says, and that
nothing comes back before the stream begins. That a buffer is filled only when
nothing waits in it is not in `Whole`: it follows from `IInv`, by which exactly
one end of each direction is waited for. The rest is about sequences: what was
cut off the front of a buffer and what stayed are together what was in it.

*The tunnel.* `Follows` says in numbers how far one callback may bring its
session: how much was received and delivered on each way, before and after. There
is a lemma for each callback again. That the bytes are those promised follows
from `Whole`, which makes what is delivered a beginning of 1, 2, 3, ...
(`WholePipes`); and that nothing is received while something waits, from `IInv`.
`FollowsServes` takes each way of following to an action of `Tunnel`, and
`PromiseStep` adds the other actions of `main`: none is seen but the start,
`Serve`, and `CleanUp` and `ConnectFatal`, both of which close every connection
there is.

*Only model-checked:* `Termination`, `EndsWhenAnswered` and `HandshakeEnds`.
They are liveness under fairness, beyond the proof system. Every other property of
a passing run, invariant, action property or refinement, is a theorem.

## Limits

* The clock never goes back. `gettimeofday` may; every interval of the program
  would then be a huge unsigned number.
* An answer carries the id of its query. `receive` reads two bytes of whatever
  came; an answer shorter than that would be timed with an arbitrary id.
* `received_packets`, `sent_packets` and the dates never overflow their 64 bits.
* Fairness of the path, rates of loss and any real resolver are not modelled.
* In the shadowsocks server the ciphertext is as long as the payload, and a
  message is decrypted as a whole. Sockets that cannot be opened, access lists
  and their outcome are free choices.

## Not modelled

* *The demo servers and clients* (`UDP-server.c`, `UDP-client.c`,
  `sock-server.c`, `sock-client.c`, `getaddrserver.c`, `gettaddrclient.c`). One
  message, one answer, the end; what keeps no state from one step to the next
  has nothing for a model to relate. `UDP-server.c:57` closes the descriptor whose
  number is the length of a datagram; what that does depends on the descriptors
  the process was started with. The echo server as a resolver of the load tester
  is one of the behaviours of `UdpPath`.
* *The lookup demos and the experiments*: straight-line code, not built.
* *The ancestors of mattblast* (`temp.c`, `Untitled-1.c`, `mattblast_funcs.c`): not
  built, and the same loop as `mattblast.c`.
* *The positional arguments of mattblast.* `mattblast fuzz` alone goes on with a
  null host: there is no state behind it.
* *Of the shadowsocks server:* the resolver, the cipher, the plugin and the UDP
  relay, whose files are not in the repository (external, modelled by what this
  file expects of them); the statistics sent to a manager, the marks of
  conntrack, the code for Windows, logging.

## Plan

In the order of how much of the program's behaviour they hold:

1. *Done:* `UdpPath`, `DnsBlast`, `LoadTest`, their runs and first theorems.
2. *Done:* `Questions` and its run.
3. *Done:* `Mattblast`, what holds of it and two findings.
4. *Done:* `ShadowRelay` and `ShadowServer`, their runs, and the proofs of all
   their invariants.
5. *Done:* `CommandLine`, against the usage the README gives.
6. *Done:* theorems for every invariant and action property that a run checks.
7. *Done:* `Tunnel`, and that the shadowsocks server implements it.
8. *Done:* `Mattblast` implements `LoadTest` as well, times left out.
9. The clock set back: `DnsBlast` with a step of the clock by `settimeofday`.
