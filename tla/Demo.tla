-------------------------------- MODULE Demo --------------------------------
(***************************************************************************)
(* What the demo does to a stream of datagrams, from end to end:           *)
(* udpTest_dhy/uclient.c sends events, the bridge filters them, and        *)
(* udpTest_dhy/udpserver.c prints what gets through.                       *)
(*                                                                         *)
(* The hook is PacketFilter on one CPU, which HookFunc implements.  The    *)
(* Python script appears as what System shows of it: a report that reaches *)
(* it is answered with drop, unless it ends.                               *)
(***************************************************************************)
EXTENDS Payload, Address

CONSTANTS
  Routes,     \* [saddr, daddr]: where client and server may run
  Addresses,  \* those the file may give
  Confs,      \* [sourceip, targetip]: configured texts
  WireMax,    \* bound: datagrams between the client and the hook
  QueueMax    \* bound: receive queue of the server's socket

\* The file writes addresses in full, without leading zeros or blanks.
ASSUME ConfsAssumption ==
  /\ Addresses \subseteq [1 .. 4 -> Byte]
  /\ \A c \in Confs :
       {c.sourceip, c.targetip} \subseteq {Dotted(in) : in \in Addresses}

ASSUME BoundsAssumption == {WireMax, QueueMax} \subseteq Nat \ {0}

VARIABLES
  route, conf,     \* how the demo is set up
  behind,          \* what the compiler put behind the server's buf
  client,          \* "socket", "loop" or "exited"
  ievent,          \* the client's position in eventbuffer
  wire,            \* positions of datagrams on their way to the hook
  at,              \* position of the datagram in the hook, <<>> without one
  pkt, reported, verdict, operatorflag,  \* of PacketFilter
  named,           \* the addresses as the last report says them
  script,          \* "recv", "drop" (it has read a report) or "dead"
  server,          \* "socket", "bind", "recv" or "exited"
  sockfd,          \* the server's descriptor: "open" or "overwritten"
  queue,           \* events the server has received
  last             \* position of the last of them, <<>> before it and after
                   \* a datagram was lost (history)

Cpu == "cpu"   \* the one that receives the stream

setup == <<route, conf, behind>>
clientVars == <<client, ievent>>
filterVars == <<pkt, reported, verdict, operatorflag>>
serverVars == <<server, sockfd, queue>>
vars == <<setup, clientVars, wire, at, filterVars, named, script, serverVars, last>>

eventbuffer ==
  <<"A2", "A3", "A5", "A2", "A3", "A5", "B", "A2", "A3", "B", "A5">>

Event(i) == eventbuffer[i + 1]

\* func's text, whose title and number never change.
Body(i) == <<"title", OpenTag, Event(i), CloseTag>>

Positions == 0 .. Len(eventbuffer) - 1

\* The hook looks only at packets between the configured addresses.
Match ==
  /\ route.saddr = InAton(conf.sourceip)
  /\ route.daddr = InAton(conf.targetip)

Packet(i, match) == [proto |-> "UDP", match |-> match, body |-> Body(i)]

Filter == INSTANCE PacketFilter WITH
  Cpus <- {Cpu}, Packets <- {Packet(i, m) : i \in Positions, m \in BOOLEAN}

Init ==
  /\ route \in Routes /\ conf \in Confs /\ behind \in {"sockfd", "other"}
  /\ client = "socket" /\ ievent = 0 /\ wire = <<>> /\ at = <<>>
  /\ Filter!Init
  /\ named = <<>> /\ script = "recv"
  /\ server = "socket" /\ sockfd = "open" /\ queue = <<>>
  /\ last = <<>>

----------------------------------------------------------------------------
(* uclient.c                                                               *)

\* socket, or exit(1).
Socket ==
  /\ client = "socket"
  /\ client' \in {"loop", "exited"}
  /\ UNCHANGED <<setup, ievent, wire, at, filterVars, named, script, serverVars, last>>

FuncOneMore ==   \* mutant: one position more than there are
  /\ client = "loop" /\ Len(wire) < WireMax
  /\ ievent' = (ievent + 1) % (Len(eventbuffer) + 1)
  /\ wire' = Append(wire, ievent') /\ UNCHANGED client
  /\ UNCHANGED <<setup, at, filterVars, named, script, serverVars, last>>

\* Every function the loop calls ends in func, which moves on before it
\* sends.  A failing sendto ends the program.
Func ==
  /\ client = "loop" /\ Len(wire) < WireMax
  /\ ievent' = (ievent + 1) % Len(eventbuffer)
  /\ \/ wire' = Append(wire, ievent') /\ UNCHANGED client
     \/ client' = "exited" /\ UNCHANGED wire
  /\ UNCHANGED <<setup, at, filterVars, named, script, serverVars, last>>

----------------------------------------------------------------------------
(* The network and the hook.                                               *)

\* A datagram does not reach the hook.
Lose ==
  /\ wire # <<>> /\ at = <<>>
  /\ wire' = Tail(wire) /\ last' = <<>>
  /\ UNCHANGED <<setup, clientVars, at, filterVars, named, script, serverVars>>

Arrive ==
  /\ wire # <<>>
  /\ Filter!Arrive(Cpu, Packet(Head(wire), Match))
  /\ at' = <<Head(wire)>> /\ wire' = Tail(wire)
  /\ UNCHANGED <<setup, clientVars, named, script, serverVars, last>>

\* DEBUG(...): the report reaches the script, or is lost for want of memory,
\* of room, or because another client is connected.
Report ==
  /\ Filter!Report(Cpu)
  /\ named' = <<InNtoa(route.saddr), InNtoa(route.daddr)>>
  /\ script' \in {script, IF script = "recv" THEN "drop" ELSE script}
  /\ UNCHANGED <<setup, clientVars, wire, at, serverVars, last>>

\* An accepted datagram is queued at the server, or lost without one.
Deliver ==
  IF server = "recv" /\ Len(queue) < QueueMax
    THEN /\ queue' = Append(queue, Event(at[1])) /\ last' = at
         /\ UNCHANGED <<server, sockfd>>
    ELSE last' = <<>> /\ UNCHANGED serverVars

DecideInverted ==   \* mutant: strcmp without == 0
  /\ Reportable(pkt[Cpu]) => reported[Cpu] # <<>>
  /\ verdict[Cpu] = "pending"
  /\ verdict' = [verdict EXCEPT ![Cpu] =
       IF pkt[Cpu].match /\ ~IsB(pkt[Cpu].body) /\ operatorflag = 2
         THEN "DROP" ELSE "ACCEPT"]
  /\ IF verdict'[Cpu] = "ACCEPT" THEN Deliver ELSE UNCHANGED <<serverVars, last>>
  /\ UNCHANGED <<pkt, reported, operatorflag>>
  /\ at' = <<>>
  /\ UNCHANGED <<setup, clientVars, wire, named, script>>

\* The verdict follows the report.
Decide ==
  /\ Reportable(pkt[Cpu]) => reported[Cpu] # <<>>
  /\ Filter!Decide(Cpu)
  /\ IF verdict'[Cpu] = "ACCEPT" THEN Deliver ELSE UNCHANGED <<serverVars, last>>
  /\ at' = <<>>
  /\ UNCHANGED <<setup, clientVars, wire, named, script>>

AnswerPass ==   \* mutant: the script answers pass
  /\ script = "drop" /\ script' = "recv"
  /\ Filter!Command(1)
  /\ UNCHANGED <<setup, clientVars, wire, at, named, serverVars, last>>

\* pyclient.py answers a report with drop.
Answer ==
  /\ script = "drop" /\ script' = "recv"
  /\ Filter!Command(2)
  /\ UNCHANGED <<setup, clientVars, wire, at, named, serverVars, last>>

\* It is interrupted, or its socket overran.
Die ==
  /\ script' = "dead"
  /\ UNCHANGED <<setup, clientVars, wire, at, filterVars, named, serverVars, last>>

----------------------------------------------------------------------------
(* udpserver.c                                                             *)

\* exit: what is still queued is gone.
ServerExit ==
  /\ server' = "exited" /\ queue' = <<>>
  /\ UNCHANGED sockfd

\* socket and bind, or exit(1).
ServerStart ==
  /\ server \in {"socket", "bind"}
  /\ \/ /\ server' = IF server = "socket" THEN "bind" ELSE "recv"
        /\ UNCHANGED <<sockfd, queue>>
     \/ ServerExit
  /\ UNCHANGED <<setup, clientVars, wire, at, filterVars, named, script, last>>

\* A datagram is as long as buf, so buf[z] = 0 is stored behind it.
Recvfrom ==
  /\ server = "recv" /\ sockfd = "open" /\ queue # <<>>
  /\ queue' = Tail(queue)
  /\ sockfd' = IF behind = "sockfd" THEN "overwritten" ELSE sockfd
  /\ UNCHANGED server
  /\ UNCHANGED <<setup, clientVars, wire, at, filterVars, named, script, last>>

\* exit(1); nobody sends stop.
RecvfromFails ==
  /\ server = "recv" /\ sockfd = "overwritten"
  /\ ServerExit
  /\ UNCHANGED <<setup, clientVars, wire, at, filterVars, named, script, last>>

----------------------------------------------------------------------------
HookStep == Report \/ Decide
ServerStep == Recvfrom \/ RecvfromFails

Next ==
  \/ Socket \/ Func \/ Lose \/ Arrive \/ HookStep \/ Answer \/ Die
  \/ ServerStart \/ ServerStep

\* The hook ends, and the script and the server are scheduled.  Nobody has to
\* start a program, and nothing has to arrive.
Spec ==
  /\ Init /\ [][Next]_vars
  /\ WF_vars(HookStep) /\ WF_vars(Answer) /\ WF_vars(ServerStep)

----------------------------------------------------------------------------
(* Properties.                                                             *)

\* Every variable stays in its range.
TypeOK ==
  /\ route \in Routes /\ conf \in Confs /\ behind \in {"sockfd", "other"}
  /\ client \in {"socket", "loop", "exited"}
  /\ ievent \in Positions /\ wire \in Seq(Positions)
  /\ at \in {<<>>} \cup {<<i>> : i \in Positions}
  /\ last \in {<<>>} \cup {<<i>> : i \in Positions}
  /\ operatorflag \in {0, 2}
  /\ pkt[Cpu] \in {Packet(i, m) : i \in Positions, m \in BOOLEAN}
  /\ verdict[Cpu] \in {"none", "pending", "ACCEPT", "DROP"}
  /\ script \in {"recv", "drop", "dead"}
  /\ server \in {"socket", "bind", "recv", "exited"}
  /\ sockfd \in {"open", "overwritten"}
  /\ queue \in Seq(Range(eventbuffer))

\* The positions strictly between i and j, as the client passes them.
Between(i, j) ==
  {k \in Positions : LET d == Len(eventbuffer) IN
     (k - i) % d \in 1 .. ((j - i - 1) % d)}

\* What the server receives next is what the client sent next, but for lost
\* datagrams and for messages B that the filter dropped on command, and those
\* only if the addresses are the configured ones
\* (uclient.c:36-55, netFilter.c:127-184, udpserver.c:28-45).
OnlyBsMissing ==
  [][Len(queue') > Len(queue) /\ last # <<>> =>
       \A k \in Between(last[1], last'[1]) :
         Event(k) = "B" /\ Match /\ operatorflag = 2]_vars

\* A report calls the addresses what the configuration calls them
\* (netFilter.c:127-131, 178, dealConf.c:194-238).
ReportNamesConfigured ==
  named # <<>> => named = <<Quoted(conf.sourceip), Quoted(conf.targetip)>>

\* Once a report has reached the script no message B comes to the server any
\* more from some time on, unless the script ends before it answers
\* (pyclient.py:42-60, netFilter.c:175-184).
BsStop ==
  script = "drop" ~>
    \/ script = "dead"
    \/ [](\A n \in DOMAIN queue : queue[n] # "B")
=============================================================================
