------------------------------- MODULE System -------------------------------
(***************************************************************************)
(* The whole loop: the client programs src/client/netlink_client.c and     *)
(* src/client/pyclient/pyclient.py on top of the kernel module.            *)
(*                                                                         *)
(* The kernel's two components appear as the abstract Session and the      *)
(* packet predicates of Payload, which NetLink and (on one CPU) HookFunc   *)
(* implement; recvMsgNetlink's two effects of a connect or disconnect stay *)
(* separate steps.  A client is one process, interrupted by SIGINT in its  *)
(* own code only: a system call ends first.                                *)
(***************************************************************************)
EXTENDS Payload, Integers

CONSTANTS
  Tools,     \* processes that run netlink_client
  Scripts,   \* processes that run pyclient.py
  Cpus,      \* CPUs that receive packets
  NoPid,     \* user_proc.pid = 0
  Chars,     \* what texts are made of: tags, characters, names of protocols
  Packets,   \* the traffic, [proto, match, body]
  RcvBuf,    \* bound: receive queue of each client's socket, in messages
  NlmsgHdr,  \* length of a message's header, a tag or character counting 1
  ByteRange  \* number of values of a byte, on the same scale

Clients == Tools \cup Scripts

ASSUME ProcessesAssumption ==
  /\ Tools \cap Scripts = {}
  /\ NoPid \notin Clients

ASSUME LengthsAssumption ==
  /\ RcvBuf \in [Clients -> Nat \ {0}] /\ NlmsgHdr \in Nat /\ ByteRange \in Nat \ {0}

ASSUME PacketsAssumption ==
  /\ Packets # {}
  /\ {OpenTag, CloseTag, "B", "connect", "disconnect"} \subseteq Chars
  /\ \A p \in Packets : p.proto \in Chars /\ p.body \in Seq(Chars)

VARIABLES
  current,      \* user_proc.pid
  inbox,        \* receive queue of each client's socket
  operatorflag, \* 0, 1 (pass) or 2 (drop)
  congested,    \* sockets that overran and have not been emptied since
  error,        \* sockets whose next receive fails (ENOBUFS)
  pc,           \* where each client is in its program
  hook,         \* where hook_func is on each CPU
  pkt,          \* its packet
  verdict,      \* what it decided
  shown         \* a script has been sent a report with a message B (history)

sockets == <<inbox, congested, error>>
kernel == <<current, operatorflag, hook, pkt, verdict>>
vars == <<sockets, kernel, pc, shown>>

Replies == {<<"connect">>, <<"disconnect">>}
Message == Replies \cup {ReportOf(p) : p \in Packets}

Kernel == INSTANCE Session WITH Messages <- Message

Init ==
  /\ Kernel!Init
  /\ congested = {} /\ error = {}
  /\ pc = [k \in Clients |-> "socket"]
  /\ hook = [c \in Cpus |-> "idle"]
  /\ pkt = [c \in Cpus |-> CHOOSE p \in Packets : TRUE]
  /\ verdict = [c \in Cpus |-> "none"]
  /\ shown = FALSE

----------------------------------------------------------------------------
(* Sockets.                                                                *)

Goto(k, from, to) == pc[k] = from /\ pc' = [pc EXCEPT ![k] = to]

HasSocket(k) == k \in Clients /\ pc[k] \notin {"socket", "exited", "dead"}

\* A message element B somewhere in the text.
Quotes(text) ==
  \E i \in 1 .. Len(text) - 2 :
    SubSeq(text, i, i + 2) = <<OpenTag, "B", CloseTag>>

\* sendMsgNetlink: the message is queued for the current client, or lost for
\* want of a client, of memory or of room; the last makes its next receive
\* fail and refuses everything until the queue is empty.
Post(m) ==
  \/ /\ HasSocket(current) /\ current \notin congested
     /\ Len(inbox[current]) < RcvBuf[current]
     /\ inbox' = [inbox EXCEPT ![current] = Append(@, m)]
     /\ shown' = (shown \/ (current \in Scripts /\ Quotes(m)))
     /\ UNCHANGED <<congested, error>>
  \/ /\ HasSocket(current)
     /\ current \in congested \/ Len(inbox[current]) = RcvBuf[current]
     /\ congested' = congested \cup {current}
     /\ error' = IF current \in congested THEN error ELSE error \cup {current}
     /\ UNCHANGED <<inbox, shown>>
  \/ UNCHANGED <<sockets, shown>>

\* recv with a pending error.
Fail(k) ==
  /\ k \in error
  /\ error' = error \ {k}
  /\ UNCHANGED <<inbox, congested>>

Dequeue(k) ==
  /\ k \notin error /\ inbox[k] # <<>>
  /\ inbox' = [inbox EXCEPT ![k] = Tail(@)]
  /\ congested' = IF Tail(inbox[k]) = <<>> THEN congested \ {k} ELSE congested
  /\ UNCHANGED error

CloseSocket(k) ==
  /\ inbox' = [inbox EXCEPT ![k] = <<>>]
  /\ congested' = congested \ {k} /\ error' = error \ {k}

----------------------------------------------------------------------------
(* Both clients: open a socket, send CONNECT, get the reply.               *)

Open(k) ==
  /\ Goto(k, "socket", "connect")
  /\ UNCHANGED <<sockets, kernel, shown>>

Connect(k) ==
  /\ Goto(k, "connect", "reply")
  /\ Kernel!Connect(k)
  /\ UNCHANGED <<congested, error, hook, pkt, verdict, shown>>

Reply(k) ==
  /\ Goto(k, "reply", IF k \in Tools THEN "signal" ELSE "recv")
  /\ Post(<<"connect">>)
  /\ UNCHANGED kernel

----------------------------------------------------------------------------
(* netlink_client.c                                                        *)

\* signal(SIGINT, quit)
Signal(k) ==
  /\ Goto(k, "signal", "recvfrom")
  /\ UNCHANGED <<sockets, kernel, shown>>

Recvfrom(k) ==
  /\ k \in Tools /\ pc[k] = "recvfrom"
  /\ Fail(k) \/ Dequeue(k)
  /\ UNCHANGED <<pc, kernel, shown>>

\* SIGINT calls quit.
Quit(k) ==
  /\ Goto(k, "recvfrom", "quit")
  /\ UNCHANGED <<sockets, kernel, shown>>

\* sendto(DISCONNECT): the kernel replies, then clears pid.
Disconnect(k) ==
  /\ Goto(k, "quit", "clear")
  /\ Post(<<"disconnect">>)
  /\ UNCHANGED kernel

ClearSkipped(k) ==   \* mutant: quit only closes the socket
  /\ Goto(k, "clear", "close")
  /\ UNCHANGED <<sockets, kernel, shown>>

Clear(k) ==
  /\ Goto(k, "clear", "close")
  /\ Kernel!Clear
  /\ UNCHANGED <<congested, error, hook, pkt, verdict, shown>>

\* close(sock_fd); exit(0);
Exit(k) ==
  /\ Goto(k, "close", "exited")
  /\ CloseSocket(k)
  /\ UNCHANGED <<kernel, shown>>

----------------------------------------------------------------------------
(* pyclient.py                                                             *)

\* data[16:ord(data[0])]: the first byte of nlmsg_len, which counts the
\* header, the text and its terminator.
Kdata(text) ==
  LET end == ((NlmsgHdr + Len(text) + 1) % ByteRange) - NlmsgHdr IN
  SubSeq(text, 1, IF end < Len(text) THEN end ELSE Len(text))

FirstAt(tag, text, i) ==
  text[i] = tag /\ \A j \in 1 .. i - 1 : text[j] # tag

HandleDataAny(text) ==   \* mutant: the position of the tags is not looked at
  \E i \in DOMAIN text : text[i] = OpenTag

HandleDataAfterTag(text) ==   \* mutant: the event starts behind its first character
  \E l, r \in DOMAIN text :
    /\ FirstAt(OpenTag, text, l) /\ FirstAt(CloseTag, text, r)
    /\ SubSeq(text, l + 2, r - 1) = <<"B">>

\* handledata(text) is 'B'.
HandleData(text) ==
  \E l, r \in DOMAIN text :
    /\ FirstAt(OpenTag, text, l) /\ FirstAt(CloseTag, text, r)
    /\ SubSeq(text, l + 1, r - 1) = <<"B">>

Recv(k) ==
  /\ k \in Scripts /\ pc[k] = "recv"
  /\ Dequeue(k)
  /\ pc' = [pc EXCEPT ![k] =
       IF HandleData(Kdata(Head(inbox[k]))) THEN "command" ELSE "recv"]
  /\ UNCHANGED <<kernel, shown>>

\* sock.recv raises socket.error.
Raise(k) ==
  /\ k \in Scripts /\ pc[k] = "recv" /\ k \in error
  /\ pc' = [pc EXCEPT ![k] = "dead"]
  /\ CloseSocket(k)
  /\ UNCHANGED <<kernel, shown>>

SendPass(k) ==   \* mutant: the text does not compare equal to "drop"
  /\ Goto(k, "command", "recv")
  /\ Kernel!Command(1)
  /\ UNCHANGED <<congested, error, hook, pkt, verdict, shown>>

\* sock.send(nlmsg_replay), whose text is always "drop".
SendDrop(k) ==
  /\ Goto(k, "command", "recv")
  /\ Kernel!Command(2)
  /\ UNCHANGED <<congested, error, hook, pkt, verdict, shown>>

----------------------------------------------------------------------------
\* SIGINT where no handler is installed.
Interrupt(k) ==
  /\ pc[k] \in {"socket", "connect", "signal", "recv", "command"}
  /\ pc' = [pc EXCEPT ![k] = "dead"]
  /\ CloseSocket(k)
  /\ UNCHANGED <<kernel, shown>>

----------------------------------------------------------------------------
(* hook_func                                                               *)

Arrive(c, p) ==
  /\ hook[c] = "idle"
  /\ pkt' = [pkt EXCEPT ![c] = p]
  /\ verdict' = [verdict EXCEPT ![c] = "pending"]
  /\ hook' = [hook EXCEPT ![c] = IF Reportable(p) THEN "report" ELSE "decide"]
  /\ UNCHANGED <<sockets, pc, current, operatorflag, shown>>

Report(c) ==
  /\ hook[c] = "report"
  /\ Post(ReportOf(pkt[c]))
  /\ hook' = [hook EXCEPT ![c] = "decide"]
  /\ UNCHANGED <<pc, current, operatorflag, pkt, verdict>>

Decide(c) ==
  /\ hook[c] = "decide"
  /\ verdict' = [verdict EXCEPT ![c] =
       IF Droppable(pkt[c]) /\ operatorflag = 2 THEN "DROP" ELSE "ACCEPT"]
  /\ hook' = [hook EXCEPT ![c] = "idle"]
  /\ UNCHANGED <<sockets, pc, current, operatorflag, pkt, shown>>

----------------------------------------------------------------------------
\* What a client does by itself.
ClientStep(k) ==
  \/ Open(k) \/ Connect(k) \/ Reply(k)
  \/ Signal(k) \/ Recvfrom(k) \/ Disconnect(k) \/ Clear(k) \/ Exit(k)
  \/ Recv(k) \/ Raise(k) \/ SendDrop(k)

HookStep(c) == Report(c) \/ Decide(c)

Next ==
  \/ \E k \in Clients : ClientStep(k) \/ Quit(k) \/ Interrupt(k)
  \/ \E c \in Cpus : HookStep(c) \/ \E p \in Packets : Arrive(c, p)

Spec == Init /\ [][Next]_vars

\* A script is scheduled; nobody has to interrupt one or to send a packet.
FairSpec == Spec /\ \A k \in Scripts : WF_vars(ClientStep(k))

----------------------------------------------------------------------------
(* Properties.                                                             *)

\* Every variable stays in its range.
TypeOK ==
  /\ current \in Clients \cup {NoPid}
  /\ inbox \in [Clients -> Seq(Message)]
  /\ operatorflag \in {0, 2}
  /\ congested \in SUBSET Clients /\ error \in SUBSET Clients
  /\ pc \in [Clients -> {"socket", "connect", "reply", "signal", "recvfrom",
       "quit", "clear", "close", "exited", "recv", "command", "dead"}]
  /\ hook \in [Cpus -> {"idle", "report", "decide"}]
  /\ pkt \in [Cpus -> Packets]
  /\ verdict \in [Cpus -> {"none", "pending", "ACCEPT", "DROP"}]
  /\ shown \in BOOLEAN

\* Nothing is dropped before a report with a message B has gone to a script:
\* no other client, reply or report closes the gate
\* (pyclient.py:42-76, netLink.c:60-76, netFilter.c:175-184).
DropFollowsReport == (\E c \in Cpus : verdict[c] = "DROP") => shown

\* A client that left through quit is not the one the kernel reports to, no
\* matter who connected meanwhile (netlink_client.c:24-42, netLink.c:52-59).
QuitterForgotten == \A k \in Tools : pc[k] = "exited" => current # k

\* No closing tag stands before the first opening one: there the kernel skips
\* it (dealConf.c:93-101), and the script takes it for the end of the message.
OpensFirst(text) ==
  \A i \in DOMAIN text :
    text[i] = CloseTag => \E j \in 1 .. i - 1 : text[j] = OpenTag

\* A report of a UDP packet with message B that reached a script's queue, opens
\* its message before it closes one, and is short enough for a length of one
\* byte, is answered with drop, unless the script is interrupted or its queue
\* overruns, whatever other reports and replies it reads in between
\* (pyclient.py:42-76).
ReportAnswered ==
  \A k \in Scripts :
    (\E i \in DOMAIN inbox[k] :
       LET text == inbox[k][i] IN
       /\ text[1] = "UDP" /\ IsB(Tail(text)) /\ OpensFirst(text)
       /\ NlmsgHdr + Len(text) + 1 < ByteRange)
      ~> (operatorflag = 2 \/ pc[k] = "dead")
=============================================================================
