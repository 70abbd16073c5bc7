# Verification of the netfilter demo

The repository is a Linux kernel module that looks at packets crossing a bridge
(`src/src/`), user programs that talk to it over netlink (`src/client/`) and
sample programs that produce traffic (`src/udpTest_dhy/`, `src/udpTest/`,
`src/tcpTest/`). The demo works like this: a UDP packet between two configured
addresses whose `<message>` is `B` is reported to the connected client; the
Python client answers with the command `drop`; from then on such packets are
dropped.

This directory holds TLA+ modules translated from that code, TLC runs that check
them on small instances, and proofs for every size of instance. File names
without a directory are under `src/src/`, those of clients under `src/client/`.

## The system

| Component | State it keeps | Operations | Runs in |
|---|---|---|---|
| netlink channel (`netLink.c`) | `nl_sk`, `user_proc.pid` under `user_proc.lock`, `operatorflag` | `recvMsgNetlink` (CONNECT, DISCONNECT, COMMAND), `sendMsgNetlink`, `createNetlink`, `deleteNetlink` | the sending client's process; the softirq of each CPU |
| packet hook (`netFilter.c`) | `mymessagebuf`, `tcp_udp_body`, `xmldest`, all static | `hook_func`, `initNetFilter`, `releaseNetFilter` | the softirq of each CPU |
| parsing (`dealConf.c`) | `newcontent`, `data`, the configuration strings | `readConf`, `parseConf`, `extract`, `isLegal`, `in_ntoa`, `char2string` | insmod; `extract` and `in_ntoa` also in softirqs |
| entry and exit (`main.c`) | none | `init`, `fini` | insmod, rmmod |
| C client (`netlink_client.c`) | socket, SIGINT handler | connect, receive, `quit` | a process, interrupted by its signal handler |
| Python client (`pyclient/pyclient.py`) | socket | connect, receive, answer `B` with `drop` | a process |
| demo traffic (`../udpTest_dhy/`) | `ievent`, `sockfd`, `buf` | send the eleven events in turn; print what arrives | processes |
| sample pairs (`../tcpTest/`, `../udpTest/`) | `count` on either side | send pieces of the alphabet; count what arrives | processes |

Interaction: packets call `hook_func`, which calls `extract` and
`sendMsgNetlink`; clients call `recvMsgNetlink` by sending, and find what
`sendMsgNetlink` sent in their socket's queue; a command sets `operatorflag`,
which `hook_func` reads without a lock.

What is hard: several contexts enter the same code at once, and one of them (the
softirq) preempts the others; the client's pid is checked and used in separate
critical sections; the buffers of `hook_func` are shared by all CPUs; the module
may be loaded and unloaded under traffic; a report may be lost; the verdict does
not wait for the answer to the report; clients come and go without telling;
datagrams are lost, a stream is cut anywhere, a full buffer makes its sender
wait, and any program may be killed.

What makes each part correct: the channel delivers every message to one client,
the current one, never deadlocks and loses a bounded number of buffers; the hook
decides each packet by itself and drops on command only; the module is freed
when nothing runs in it; parsing returns the first element's content; a client
that leaves is forgotten; an answer follows a report, and a drop an answer; what
the demo's server misses was lost or dropped on command; a report names the addresses as the
configuration does; the sample pairs end, and what their counters say is true.

## Modules

```
Session  <-implements-  NetLink  <- MCNetLink   <- NetLinkProofs
   |                    (locks, contexts, load and unload)
   |
   +------ System  <- MCSystem                  <- SystemProofs
   |       (clients + channel + hook)
Payload ---+
   |
PacketFilter <-implements- HookFunc <- MCHookFunc  <- HookFuncProofs
   |                          |
   |                       CString --- DealConf <- MCDealConf, DealConfProofs
   |
   +------ Demo  <- MCDemo                      <- DemoProofs
   |       (uclient + filter + udpserver)
Address ---+                                    <- AddressProofs

Samples (tcpTest, udpTest)                      <- SamplesProofs

TextTheorems  (induction and sequences, for AddressProofs and DealConfProofs)
```

**Session** is what the channel promises without locks or buffers: one current
client at most, every delivered message goes to the client current at that
moment, only commands change `operatorflag`.

**NetLink** is `netLink.c` at the grain of its critical sections, with `init` and
`fini`. A context is a client process inside `sendto` (netlink calls
`recvMsgNetlink` synchronously in the sender), the softirq of a CPU inside
`hook_func`, or the process of insmod and rmmod. `pc` says where a context is:

| `pc` | code |
|---|---|
| `w_lock`, `w_spin`, `w_held` | before, waiting in and after `write_lock_bh` (netLink.c:47, 56) |
| `send` | entry of `sendMsgNetlink` (98) |
| `r1_spin`, `r1_held` | first pid check (104-109) |
| `alloc` | `alloc_skb` and the copy of the text, no lock held (111-140) |
| `r2_spin`, `r2_held`, `r2_send` | second check and `netlink_unicast` under the same read lock (142-149) |
| `load`, `assign`, `idle`, `hooked`, `released`, `unhooked`, `gone` | of the loader: the stages of `init` and `fini`; `assign` is inside the assignment of netLink.c:177, when clients can use the socket and `nl_sk` is not set yet |

`Runnable` is the scheduler's part: a softirq preempts the process of its CPU
unless that process is between a `_bh` lock call and its unlock. `leaked` and
`cleared` are history variables. `RegisterHook` is a registration that succeeds;
one that fails is in DealConf.

**Payload** and **PacketFilter** say what is promised for each packet on its own:
which packets are reported, what the report says, which may be dropped.

**HookFunc** is `hook_func` with `extract` inlined, at the grain of one access to
one of the four unprotected static buffers. A write has a beginning and an end;
in between, and after overlapping writes, the buffer has no particular content
and a read returns any text of `Texts`. Texts are sequences of tags and
characters, so `strstr` and the pointer arithmetic are real. `sendMsgNetlink`
reads the report twice, for its length (`SizeReport`) and to copy it
(`SendReport`): on two CPUs the copy may be longer than the message was sized
for, and the model only keeps what fits.

**System** puts both clients on top of `Session` and `Payload`: the C client with
its signal handler, the Python script with the length it takes from the header's
first byte, its search for the tags and the exception that an overrun of its
socket raises. It uses the abstract modules because `NetLink` implements the one
(proved) and, on one CPU, `HookFunc` the other (proved). What a second CPU does to
the hook's buffers is in `HookFunc` only.

**DealConf** reads and parses the configuration file character by character into
the eight result buffers, which lie side by side in memory, and registers and
releases the hook by what the `direction` buffer then says (`OneWay`). Its
registration may fail, and nobody looks at that; what `fini` then does depends on
the kernel, which may fault (`pc` is `fault`). A file that fills
`data` (`DataMax`) leaves no terminator, and the search goes on into whatever
lies behind (`Behind`).

**CString** has `strstr`.

**Address** is `char2string` and `in_ntoa` (dealConf.c:194-238), which write
addresses into reports, and the kernel's `in_aton`, which reads the configured
ones. `Dotted` is what stands between the quotes that `in_ntoa` writes.

**Demo** follows the stream of datagrams from `udpTest_dhy/uclient.c` through the
filter to `udpTest_dhy/udpserver.c`. `wire` holds the datagrams before the hook,
`at` the one in it; the hook is `PacketFilter` on the CPU that gets the stream.
Of the Python script it keeps what `System` shows: a report that reaches it is
answered with `drop`, or it ends. A datagram is its position in `eventbuffer`,
so that the properties can say which ones are missing; `last` is a history
variable. `behind` is the compiler's choice of what follows the server's `buf`:
`buf[z]=0` (udpserver.c:40) is stored there, because the client always sends as
much as `buf` holds; where that is `sockfd`, the next `recvfrom` fails. The
configured texts are dotted texts of `Addresses`, as people write them
(`ConfsAssumption`): with leading zeros or blanks a report would not repeat them.

**Samples** has the pairs of `tcpTest/` and `udpTest/`, one action per system
call. A behaviour has one of the pairs. The stream is a number of letters: a
`send` is copied piece by piece as there is room, a `recv` takes any part of
what is there. The UDP client uses descriptor 0 (`UdpSendto`).

## Runs

| Run | Checks | Result |
|---|---|---|
| `netlink_two` | `TypeOK`, `UnicastHasTarget`, `NoSelfDeadlock`, `UnloadSafe`, `PidStableForReaders`, `ImplementsSession`, `LeakBound` | hold with two clients, two softirqs and the loader. The `return` of netLink.c:145 does lose its buffer, but at most one per context each time pid is cleared |
| `netlink_live` | `CallsReturn`, `RmmodReturns` | under any traffic hook calls return and rmmod ends; a handler returns unless a writer of its CPU, which may be itself, waits for ever for readers that keep coming (`Starves`) |
| `netlink_init` | `KeepsSession` | violated: `createNetlink` forgets a client whose CONNECT is handled before its last store |
| `netlink_fini` | `SendsOnLiveSocket` | violated: `fini` releases the socket before the hook |
| `hook_one` | `TypeOK`, `ImplementsFilter`, `BNotAcceptedUnderDrop` | hold on one CPU, for ten kinds of payload |
| `hook_two` | `DropsOnCommandOnly` | holds for two racing CPUs |
| `hook_race` | `BNotAcceptedUnderDrop` | violated on two CPUs |
| `system_loop` | `TypeOK`, `DropFollowsReport`, `QuitterForgotten`, `ReportAnswered` | hold, with clients that come, quit, die and overrun |
| `conf_short` | `TypeOK`, `ParsedAsConfigured`, `NoHookLeftBehind` | hold for values that fit, also when the file does not fit in `data` |
| `conf_long` | `ParsedAsConfigured` | violated: a value that was cut is terminated in another buffer |
| `demo` | `TypeOK`, `ReportNamesConfigured`, `OnlyBsMissing`, `BsStop` | hold, between the configured addresses and past the filter |
| `samples` | `TypeOK`, `EveryLetterArrives`, `CountersBounded`, `TcpPairEnds` | hold for both transports |

The violations are described in `PROJECT.json` under `findings`, with the comment
or text of the repository each contradicts. More things the models show by their
shape, without a run:

- A packet with a message B passes until the operator has said drop
  (netFilter.c:180), although the comment of netFilter.c:173 says it does not;
  `BNotAcceptedUnderDrop` is what holds, on one CPU.
- The script takes one byte for the length (pyclient.py:48), so it sees a report
  of more than 255 bytes cut (`Kdata`). `ReportAnswered` is therefore about
  shorter reports; `DropFollowsReport` is about all.
- For the body `</message><message>B</message>` kernel and script disagree:
  `extract` looks for the closing tag behind the opening one (dealConf.c:93-102),
  finds B and reports it; `handledata` takes the first closing tag anywhere
  (pyclient.py:69-75), finds nothing before it and does not answer.
  `ReportAnswered` is therefore about reports that open a message before they
  close one (`OpensFirst`); the run has a packet of either kind, and without
  `OpensFirst` TLC finds the unanswered report.
- The kernel's rwlock lets readers with bottom halves off pass a waiting writer
  (and in the kernels of netLink.c's `#if` branches every reader). Under steady
  reports `write_lock_bh` (netLink.c:47, 56) need not return, which is why
  `CallsReturn` excuses the writer's CPU; without the excuse TLC finds it waiting
  for ever.
- `initNetFilter` ignores that `nf_register_hook` failed (netFilter.c:44), and
  `releaseNetFilter` unregisters the hook all the same (`ReleaseNetFilter` of
  DealConf).
- Between `strlen` and `strcpy` of the report (netLink.c:111, 130) another CPU can
  replace it by a longer one, which then does not fit in the skb (`SendReport` of
  HookFunc).
- The direction `<=>`, which `src/conf/data.txt` chooses, registers no hook
  (netFilter.c:45-47, `InitNetFilter`).
- A SIGINT between CONNECT and `signal()` (netlink_client.c:80-89) ends the C
  client without a DISCONNECT, and the kernel keeps its pid (`Interrupt` of
  System). `QuitterForgotten` is about those that leave through `quit`.
- The reply to a CONNECT goes to whoever is current when `sendMsgNetlink` reads
  `pid` (netLink.c:148), and a DISCONNECT clears `pid` whoever is current
  (netLink.c:57): with two clients each can be the other one. The latter is a
  second way to violate `KeepsSession`.
- A value becomes too long, as in `conf_long`, also when the file fills `data`
  inside an element and the text behind `data` has its closing tag far away.
- `uclient.c` as committed sends to 127.0.0.1 (uclient.c:146), which crosses no
  bridge; Demo is about the server's address its comment asks for. A packet that
  does not match (`Match`) is what the committed program produces.
- The UDP client of `udpTest/` compares before it assigns (udpclient.c:25), so
  its descriptor is always 0: it sends nothing, for ever, unless 0 was free
  (`UdpSendto`). The "quit" it finally sends has no address and fails
  (udpclient.c:58), so the server never ends by itself (`UdpRecv`).
- The TCP server's `count` is commented as the number of packets received
  (tcpserver.c:29) but counts calls of `recv`; `CountersBounded` is what it can
  tell.

### Bounds

- `MaxMsgs`, the messages each client sends (NetLink only). Two for one and one
  for the other client let one connect, disconnect and be overtaken by the other
  (`netlink_two`), so that buffers leak; three in the runs that need one client
  to come back.
- `RcvBuf`, the receive queue of a socket, 1 in NetLink; in System 2 for the
  script and 1 for the tool, whose texts decide nothing. Full and not full, and
  for the script full, drained by half and empty, all occur.
- `Cpus`: two in NetLink and for the races of HookFunc, so that a softirq runs
  both on the CPU of a process and on another one; one in System and where
  HookFunc is compared with PacketFilter, because the second CPU breaks that.
- Payloads: `MCBodies` lists the shapes `extract` can tell apart (no tag, tags
  without content, an open tag, a second element, text before the first, a
  message that ends in B).
- `hook_two` reduces the two CPUs by symmetry, which is sound: no module names a
  CPU, and no liveness is checked.
- `hook_race` gives a torn read no text at all: the violation it finds reads
  complete texts only, so it needs no undefined behaviour beyond the sharing.
- `NlmsgHdr` and `ByteRange` are a message header's length and the number of
  values of a byte (2 and 9 for 16 and 256), scaled to texts where a tag counts
  one. The report of a B, with a closing tag before it or without, fits in a byte,
  and that of the other packet does not: the script sees it cut between the tags.
- DealConf: three names for the eight, one the beginning of another as `content`
  is of `content_flag`; `CONTENTMAXLEN` 6 and `Stride` 8 for 100 and the 128 that
  alignment makes of it; every order of the buffers; files of up to three
  elements, missing, repeated or empty, one value looking like a tag (`<=>`).
  `DataMax` 20 for 1000 in `conf_short`: files of three elements are longer, so
  `data` is cut before, inside and behind the last ones. In `conf_long` the files
  fit, and only the values are too long.
- Demo: `WireMax` 1 and `QueueMax` 2 (`SO_RCVBUF`). The datagram on the wire and
  the one in the hook can wait while others act; the queue is empty, has room and
  is full. All eleven positions occur, so every run of events around the two Bs.
  The addresses are those of `src/conf/netfilter.conf`, whose bytes have two and
  three digits, one with no tens (101 and 108); `AddressProofs` has them all.
- Samples: `Sends` 7, `Letters` 4, `RecvMax` 3, `Room` 3 for 200000, 26, 1024 and
  the socket's buffer: the alphabet wraps, a send is longer than the room and
  than one `recv`, and several sends fit in one.

### Fairness

- A softirq runs to its end (`WF` on `Step(c)`).
- A process is scheduled again and again between softirqs, since ksoftirqd takes
  over under load: `SF` on what it does next (`Proceed`), on `UnregisterHook` and
  on `Unload`, which wait for hooks and handlers in flight.
- A context that waits for the lock has `WF` only: it gets the lock if that stays
  free, not if it is free again and again, since the kernel does not promise a
  waiting writer its turn. For readers this shows less than for writers: the
  writers that could keep one waiting send `MaxMsgs` messages, and no more.
- In System, a script that can take a step of its own takes it (`WF` on
  `ClientStep` of `Scripts`); nothing is assumed of the tools and of packets.
- In Demo `hook_func` ends, and the script and the server, once they can take a
  step, take it (`WF` on `HookStep`, `Answer`, `ServerStep`). In Samples both
  programs are scheduled (`WF` on `ServerStep`, `ClientStep`). No step of theirs
  is disabled again by another but the end of its own process.
- Nobody has to send a packet, a message or a signal, to connect, to start a
  program, or to unload the module.

### What the kernel is assumed to do

None of it is in the repository; the definitions are marked external.

- `sendto` on a netlink socket calls `recvMsgNetlink` in the sender's context;
  different clients do so concurrently. Packets call the hook in the softirq of
  their CPU; it does not nest. A process stays on one CPU during a call (`CpuOf`).
- An open user socket of the module's protocol holds a reference on the module,
  so that rmmod waits for its clients; `nf_unregister_hook` waits for hooks in
  flight; a module whose `init` returns a positive value stays loaded.
- `netlink_unicast` with `MSG_DONTWAIT` takes the buffer, whether it is queued,
  or freed because the receiver is gone or full. A full receiver's next `recv`
  fails with `ENOBUFS`, and it gets nothing until its queue is empty.
- A signal acts in the client's own code or a blocked `recvfrom`, never in the
  middle of a `sendto`, and is blocked in its own handler.
- Every allocation may fail.
- A datagram may be lost, but is neither duplicated nor reordered on the one
  link of the demo. A TCP connection can be made once the server listens;
  `close` lets the other side read what was sent, then 0; a `send` after the
  server is gone fails or raises SIGPIPE.

## Proofs

All theorems hold for every value of the constants that satisfies the named
assumptions of the modules.

**NetLinkProofs.** `TypeInv` adds to `TypeOK` that only clients connect and
disconnect. `LockInv` relates `readers` and `writers` to the places where a
context holds the lock, that writers exclude everyone, and that a pid checked
under the second read lock is still there; it gives `UnicastHasTarget` and
`PidStableForReaders`. `SchedInv` says that a CPU that runs a softirq has no
process between a `_bh` lock call and its unlock; it gives `NoSelfDeadlock`.
`UnloadInv` says that a client inside a handler has its socket open, that from
the release on none is, and that the socket is `created` only while the loader
is at `assign`; it gives `UnloadSafe`. `SessionCorrect` maps `pid` to `current`,
each step to one of `Session` or to a stutter. `LeakBound` is not inductive, as
the bound must already count the sends that may still leak: `LeakInv` adds to
`leaked` the contexts past their first check while pid is cleared (`Exposed`).

**HookFuncProofs.** `TypeCorrect`; `PathInv` (what is known of the packet at
each place, whatever the buffers hold) gives `DropsOnCommandOnly` for any number
of CPUs. Under `OneCpu`, `FilterInv` says what each buffer holds at each place
of `hook_func` and what is known of `start` and `len`: that they delimit the
first message of the body. From it follow `ImplementsFilter` and
`BNotAcceptedUnderDrop`, for bodies of any length. `ReadsMessage` is for the two
reads of the report, and the lemmas `OccursTag` to `CopiedIsB` are about
`strstr` for a single tag and about `IsB`.

**TextTheorems.** The library's induction theorems cannot be used here, as they
take an operator; these take a set. `SetInduction` is from the least-number
principle (`LeastElement`), and that from the library's `WFMin`.
`FiniteRecursion` says that a recursion over `0 .. n`, whose step is itself a
function, has a solution: so a `CHOOSE` of one, which is what a recursive
function definition and the community modules' `FlattenSeq` stand for, obeys its
recursion equation (`FlattenedStepwise`). The others are about the letters of
joined texts.

**SystemProofs.** `QuitInv` (a client whose DISCONNECT has been handled is not
current) gives `QuitterForgotten`. `DropFollowsReport` needs the whole causal
chain, `CauseInv`: a script's queue holds a text that quotes a B, or a script is
about to send `drop`, or `operatorflag` is 2, or a packet was dropped, only after
`shown`. The lemma `HandleDataQuotes` says that what `handledata` takes for a B
is the element `<message>B</message>` in the text, even if the text was cut.

**DealConfProofs.** `TypeOKCorrect`: every buffer always holds a terminated
string, although terminators are overwritten and stored outside. The reason is
that a text is only copied up to the buffer's last character but one
(`StoredKeepsTerminators`), for which the buffers must be disjoint (`InitLayout`,
from the injective order of `Init`). `HookInv` (a
registered hook means that `direction` still says `=>`) gives
`NoHookLeftBehindCorrect`, also where the registration failed.

`ParsedAsConfiguredCorrect` says that every `Tame` file is parsed as configured,
for any names, any number of elements and any sizes. `Tame` excludes what makes
the property false or void: values with a tag of a configured name in them,
values as long as the distance of two buffers (`conf_long` shows what they do),
and, where the file fills `data`, a text behind it that makes a value that long.
Every file of `conf_short` is tame (`ShortAreTame`, which TLC evaluates). The
proof has two parts. `FoundIsFirst` is about `strstr` alone: where the element
begins, its opening tag stands; nowhere before, since a tag begins with `<`, a
name has none, and the tags that are there are those of other names or closing
ones (`TagInElement`, `NoTagBefore`, over the elements by `FlattenedStepwise`);
behind it, the first closing tag of the name is the element's own. `FilledInv`
is about the memory: the buffer of each name that was looked for holds what
`extract` found, cut, whatever was stored in other buffers since. It is
inductive because a text shorter than the distance of two buffers is stored,
terminator included, within its own (`StoredKeepsOthers`).

**AddressProofs.** `Char2StringCorrect`: for each of the 256 bytes the text has
one to three digits, no leading zero, and the byte's value. `InNtoaFits`: no
address needs more than seventeen characters and the terminator.
`InAtonOfDotted`: `in_aton` reads from the dotted text of an address that
address, for all 2^32 of them. `ReadFrom` names the recursion over the text's
characters; `DigitRead` and `NextNumberRead` say what one digit and one number
add to what was read.

**DemoProofs.** `OnlyBsMissing` relates two receives that may be far apart, so
`GapInv` says it of every moment: between what the server received last and the
position the hook will decide on next there is only what the filter may take
out. For it to be kept, the next position must follow the last one decided on,
whether it is still to be sent, on the wire or in the hook: that is `WireInv`.
That nobody opens the gate again (`SkippableStays`) makes the answer of the
script harmless. `ReportNamesConfiguredCorrect`: a report is only made of a packet
that matches, so by `InAtonOfDotted` the packet's addresses are those whose
dotted texts were configured, and those texts are what `in_ntoa` writes. That a
report is made of a match (`ReportedMatches`) needs `HookInv`: the packet in the
hook is the one that was received. `BetweenNeighbours` and `BetweenGrows` are about the cyclic
order of the eleven positions.

**SamplesProofs.** `StreamInv` accounts for each letter: passed to `send`, still
to be copied, on the wire or received, as long as the connection was not reset,
and a server that ended has read the end of the stream; it gives
`EveryLetterArrivesCorrect`. `OnePieceMore` is the arithmetic of
`CountersBoundedCorrect`.

**Only model-checked:** the liveness properties (`CallsReturn`, `RmmodReturns`,
`ReportAnswered`, `BsStop`, `TcpPairEnds`), which need fairness. Every safety
property and every refinement that a passing run checks is also proved. That
`Demo`'s filter variables implement `PacketFilter` is so by the shape of that
module, whose hook takes that module's steps, and is stated nowhere.

## Not modelled

- The Python library files `message.py`, `connection.py`, `main.py`: not used by
  the demo, or sending a text shorter than a header, which is ignored.
- `isLegal` (dealConf.c:150-192): a predicate without effect that nothing calls.
- `log.h` and the build and run scripts, which have no state.
- The lengths of `mymessagebuf` and `tcp_udp_body` (100000, more than a packet)
  and of the stack buffers of the clients; wall-clock times the samples print.
- What the eight-buffer layout leaves behind itself: a value longer than all that
  follows its buffer is stored outside the model.

## Plan

Done: `Session`, `NetLink`; `PacketFilter`, `HookFunc`; `System`; `DealConf`;
`Address`; `Demo`; `Samples`; and the proofs above. Left, in this order:

1. The filter of TCP and UDP in `System` on two CPUs, with the races of
   `HookFunc` as choices of the report.
2. Proofs: what is left of `KeepsSession` and `SendsOnLiveSocket` between the end
   of `init` and the beginning of `fini`, with one client and with several;
   `ParsedAsConfigured` for files whose values hold tags of other names.
