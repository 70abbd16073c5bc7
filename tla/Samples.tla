------------------------------ MODULE Samples ------------------------------
(***************************************************************************)
(* The sample programs of tcpTest/ and udpTest/: a client that sends pieces*)
(* of the alphabet and counts what it sent, a server that counts what it   *)
(* received.  Both pairs do the same over different transports, and each   *)
(* behaviour has one of the pairs.                                         *)
(*                                                                         *)
(* A sent text is its length: the letters themselves are never compared,   *)
(* but for a server's "quit", which starts with no letter a client sends.  *)
(***************************************************************************)
EXTENDS Integers

CONSTANTS
  Sends,    \* how often a client sends (200000, 10000000)
  Letters,  \* of the alphabet (26)
  RecvMax,  \* what the TCP server asks of one recv (1024)
  Room      \* bound: what the server's socket holds, in letters or datagrams

ASSUME SizesAssumption == {Sends, Letters, RecvMax, Room} \subseteq Nat \ {0}

VARIABLES
  transport,  \* "tcp" or "udp"
  stdin,      \* descriptor 0 of the UDP client is in use
  client,     \* "socket", "connect", "send", or an Ended state
  server,     \* "socket", "bind", "listen", "accept", "recv", or Ended
  conn,       \* TCP connection: "none", "open", "closed", "reset"
  count,      \* the client's counter
  left,       \* what send has not copied yet; a datagram not counted yet
  passed,     \* letters given to send (history)
  wire,       \* what the server can receive
  received,   \* the server's counter
  total       \* letters received (history)

clientVars == <<count, left, passed>>
serverVars == <<received, total>>
vars == <<transport, stdin, client, server, conn, clientVars, wire, serverVars>>

\* main returned 0, returned -1, or a signal ended the program.
Ended == {"end", "failed", "killed"}

Init ==
  /\ transport \in {"tcp", "udp"} /\ stdin \in BOOLEAN
  /\ client = "socket" /\ server = "socket" /\ conn = "none"
  /\ count = 0 /\ left = 0 /\ passed = 0
  /\ wire = 0 /\ received = 0 /\ total = 0

----------------------------------------------------------------------------
(* The servers.                                                            *)

\* The server's socket is closed; what it has not received is gone.
ServerStops(why) ==
  /\ server' = why /\ wire' = 0
  /\ conn' = IF conn = "none" THEN conn ELSE "reset"

\* socket, bind and listen, or return -1.
TcpServerStart ==
  /\ transport = "tcp" /\ server \in {"socket", "bind", "listen"}
  /\ \/ /\ server' = CASE server = "socket" -> "bind"
                       [] server = "bind" -> "listen"
                       [] server = "listen" -> "accept"
        /\ UNCHANGED <<conn, wire>>
     \/ ServerStops("failed")
  /\ UNCHANGED <<transport, stdin, client, clientVars, serverVars>>

UdpServerStart ==
  /\ transport = "udp" /\ server \in {"socket", "bind"}
  /\ \/ /\ server' = IF server = "socket" THEN "bind" ELSE "recv"
        /\ UNCHANGED <<conn, wire>>
     \/ ServerStops("failed")
  /\ UNCHANGED <<transport, stdin, client, clientVars, serverVars>>

\* accept, or return -1.
Accept ==
  /\ server = "accept" /\ conn # "none"
  /\ \/ server' = "recv" /\ UNCHANGED <<conn, wire>>
     \/ ServerStops("failed")
  /\ UNCHANGED <<transport, stdin, client, clientVars, serverVars>>

TcpRecvShort ==   \* mutant: less than was asked for is taken for the end
  /\ transport = "tcp" /\ server = "recv" /\ wire > 0
  /\ \E n \in 1 .. RecvMax :
       /\ n <= wire
       /\ wire' = wire - n /\ total' = total + n
       /\ server' = IF n < RecvMax THEN "end" ELSE server
  /\ received' = received + 1
  /\ UNCHANGED <<transport, stdin, client, conn, clientVars>>

TcpRecvTwice ==   \* mutant: counted once more
  /\ transport = "tcp" /\ server = "recv" /\ wire > 0
  /\ \E n \in 1 .. RecvMax :
       n <= wire /\ wire' = wire - n /\ total' = total + n
  /\ received' = received + 2
  /\ UNCHANGED <<transport, stdin, client, server, conn, clientVars>>

\* recv returns a part of the stream, whatever the sends were; when it fails
\* it is called again, and nothing has changed.
TcpRecv ==
  /\ transport = "tcp" /\ server = "recv" /\ wire > 0
  /\ \E n \in 1 .. RecvMax :
       n <= wire /\ wire' = wire - n /\ total' = total + n
  /\ received' = received + 1
  /\ UNCHANGED <<transport, stdin, client, server, conn, clientVars>>

TcpEofContinue ==   \* mutant: 0 is taken for an error
  /\ transport = "tcp" /\ server = "recv" /\ wire = 0 /\ conn = "closed"
  /\ UNCHANGED vars

\* recv returns 0.
TcpEof ==
  /\ transport = "tcp" /\ server = "recv" /\ wire = 0 /\ conn = "closed"
  /\ server' = "end"
  /\ UNCHANGED <<transport, stdin, client, conn, clientVars, wire, serverVars>>

\* recvfrom, or return -1.  No datagram is "quit": the loop has no other end.
UdpRecv ==
  /\ transport = "udp" /\ server = "recv"
  /\ \/ /\ wire > 0 /\ wire' = wire - 1
        /\ received' = received + 1
        /\ UNCHANGED <<server, conn, total>>
     \/ ServerStops("failed") /\ UNCHANGED serverVars
  /\ UNCHANGED <<transport, stdin, client, clientVars>>

----------------------------------------------------------------------------
(* The clients.                                                            *)

\* The client's socket is closed; what it has sent can still be received.
ClientStops(why) ==
  /\ client' = why
  /\ conn' = IF conn = "open" THEN "closed" ELSE conn

\* socket, or return -1.
TcpSocket ==
  /\ transport = "tcp" /\ client = "socket"
  /\ client' \in {"connect", "failed"}
  /\ UNCHANGED <<transport, stdin, server, conn, clientVars, wire, serverVars>>

\* A connection can be made once the server listens, before it accepts.
Connect ==
  /\ client = "connect"
  /\ \/ server = "accept" /\ client' = "send" /\ conn' = "open"
     \/ client' = "failed" /\ UNCHANGED conn
  /\ UNCHANGED <<transport, stdin, server, clientVars, wire, serverVars>>

\* send(clientSocket, sendbuf, index, 0)
TcpSend ==
  /\ transport = "tcp" /\ client = "send" /\ left = 0 /\ count < Sends
  /\ left' = (count % Letters) + 1 /\ passed' = passed + left'
  /\ UNCHANGED <<transport, stdin, client, server, conn, count, wire, serverVars>>

\* It copies to the server as there is room, and returns when it has copied all.
TcpCopy ==
  /\ transport = "tcp" /\ client = "send" /\ conn = "open" /\ left > 0
  /\ \E n \in 1 .. left :
       /\ wire + n <= Room
       /\ wire' = wire + n /\ left' = left - n
       /\ count' = IF n = left THEN count + 1 ELSE count
  /\ UNCHANGED <<transport, stdin, client, server, conn, passed, serverVars>>

\* On a reset connection it fails unnoticed, or SIGPIPE ends the client.
TcpSendFails ==
  /\ transport = "tcp" /\ client = "send" /\ conn = "reset" /\ left > 0
  /\ \/ left' = 0 /\ count' = count + 1 /\ UNCHANGED <<client, conn, passed>>
     \/ ClientStops("killed") /\ UNCHANGED clientVars
  /\ UNCHANGED <<transport, stdin, server, wire, serverVars>>

\* close(clientSocket)
TcpClose ==
  /\ transport = "tcp" /\ client = "send" /\ left = 0 /\ count = Sends
  /\ ClientStops("end")
  /\ UNCHANGED <<transport, stdin, server, clientVars, wire, serverVars>>

\* clientSocket = socket(...) < 0, which is 0 unless socket fails.
UdpSocket ==
  /\ transport = "udp" /\ client = "socket"
  /\ client' \in {"send", "failed"}
  /\ UNCHANGED <<transport, stdin, server, conn, clientVars, wire, serverVars>>

\* sendto on descriptor 0, which is the socket only if it was the first free
\* one.  Otherwise it fails, is called again, and nothing has changed.  A
\* datagram may be lost.
UdpSendto ==
  /\ transport = "udp" /\ client = "send" /\ ~stdin
  /\ left = 0 /\ left' = 1
  /\ \/ server = "recv" /\ wire < Room /\ wire' = wire + 1
     \/ UNCHANGED wire
  /\ UNCHANGED <<transport, stdin, client, server, conn, count, passed, serverVars>>

UdpCountLate ==   \* mutant: one too many
  /\ transport = "udp" /\ client = "send" /\ left = 1
  /\ left' = 0 /\ count' = count + 1
  /\ client' = IF count' > Sends THEN "end" ELSE client
  /\ UNCHANGED <<transport, stdin, server, conn, passed, wire, serverVars>>

\* count++; after the last, the send of "quit" fails for want of an address.
UdpCount ==
  /\ transport = "udp" /\ client = "send" /\ left = 1
  /\ left' = 0 /\ count' = count + 1
  /\ client' = IF count' = Sends THEN "end" ELSE client
  /\ UNCHANGED <<transport, stdin, server, conn, passed, wire, serverVars>>

----------------------------------------------------------------------------
\* A signal ends one of the programs.
Kill ==
  \/ /\ client \notin Ended /\ ClientStops("killed")
     /\ UNCHANGED <<transport, stdin, server, clientVars, wire, serverVars>>
  \/ /\ server \notin Ended /\ ServerStops("killed")
     /\ UNCHANGED <<transport, stdin, client, clientVars, serverVars>>

ServerStep ==
  TcpServerStart \/ UdpServerStart \/ Accept \/ TcpRecv \/ TcpEof \/ UdpRecv

ClientStep ==
  \/ TcpSocket \/ Connect \/ TcpSend \/ TcpCopy \/ TcpSendFails \/ TcpClose
  \/ UdpSocket \/ UdpSendto \/ UdpCount

Next == ServerStep \/ ClientStep \/ Kill

Spec == Init /\ [][Next]_vars

\* Both programs are scheduled.
FairSpec == Spec /\ WF_vars(ServerStep) /\ WF_vars(ClientStep)

----------------------------------------------------------------------------
(* Properties.                                                             *)

\* Every variable stays in its range.
TypeOK ==
  /\ transport \in {"tcp", "udp"} /\ stdin \in BOOLEAN
  /\ client \in {"socket", "connect", "send"} \cup Ended
  /\ server \in {"socket", "bind", "listen", "accept", "recv"} \cup Ended
  /\ conn \in {"none", "open", "closed", "reset"}
  /\ count \in 0 .. Sends /\ left \in 0 .. Letters
  /\ wire \in 0 .. Room
  /\ passed \in Nat /\ received \in Nat /\ total \in Nat

\* When both TCP programs have returned 0 the server has received every letter
\* the client has sent, however recv cut the stream into pieces
\* (tcpclient.c:52-78, tcpserver.c:74-98).
EveryLetterArrives ==
  transport = "tcp" /\ client = "end" /\ server = "end" => total = passed

\* What the servers' counters can tell: TCP's counts pieces, each of one to
\* RecvMax letters, and UDP's is never ahead of the client's, but for the one
\* datagram that is not counted yet
\* (tcpserver.c:29, 75-88, udpserver.c:21, 50-56, udpclient.c:45-49).
CountersBounded ==
  /\ transport = "tcp" => received <= total /\ total <= received * RecvMax
  /\ transport = "udp" => received + wire <= count + left

\* Once connected both TCP programs end, however small the room between them:
\* the client does not wait for a server that waits for it
\* (tcpclient.c:41-80, tcpserver.c:62-108).
TcpPairEnds == conn # "none" ~> client \in Ended /\ server \in Ended
=============================================================================
