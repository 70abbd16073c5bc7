--------------------------- MODULE SamplesProofs ---------------------------
(***************************************************************************)
(* Theorems about Samples for any number of sends, any alphabet, any size  *)
(* of recv and any room between the programs.                              *)
(***************************************************************************)
EXTENDS Samples, TLAPS

\* TypeOK, and what keeps count and left in their bounds: a call under way, and
\* UDP's client as long as it runs, leaves count below Sends.
TypeInv ==
  /\ TypeOK
  /\ transport = "udp" => conn = "none" /\ left \in {0, 1}
  /\ client = "send" /\ left > 0 => count < Sends
  /\ transport = "udp" /\ client = "send" => count < Sends
  /\ transport = "udp" => server # "accept"
  /\ client = "connect" => transport = "tcp"
  /\ client \in {"socket", "connect"} => left = 0 /\ count = 0 /\ conn = "none"
  /\ conn = "none" => wire = 0 \/ transport = "udp"

\* Every variable keeps its range.
LEMMA TypeInvariant == Spec => []TypeInv
<1> USE SizesAssumption DEF TypeInv, TypeOK, Ended
<1>1. Init => TypeInv
  BY DEF Init
<1>2. TypeInv /\ [Next]_vars => TypeInv'
  <2> SUFFICES ASSUME TypeInv, [Next]_vars PROVE TypeInv'
    OBVIOUS
  <2> USE DEF ServerStops, ClientStops
  <2>1. CASE TcpServerStart BY <2>1 DEF TcpServerStart, clientVars, serverVars
  <2>2. CASE UdpServerStart BY <2>2 DEF UdpServerStart, clientVars, serverVars
  <2>3. CASE Accept BY <2>3 DEF Accept, clientVars, serverVars
  <2>4. CASE TcpRecv BY <2>4 DEF TcpRecv, clientVars, serverVars
  <2>5. CASE TcpEof BY <2>5 DEF TcpEof, clientVars, serverVars
  <2>6. CASE UdpRecv BY <2>6 DEF UdpRecv, clientVars, serverVars
  <2>7. CASE TcpSocket BY <2>7 DEF TcpSocket, clientVars, serverVars
  <2>8. CASE Connect BY <2>8 DEF Connect, clientVars, serverVars
  <2>9. CASE TcpSend
    <3>1. (count % Letters) + 1 \in 1 .. Letters
      BY <2>9
    <3> QED BY <2>9, <3>1 DEF TcpSend, serverVars
  <2>10. CASE TcpCopy BY <2>10 DEF TcpCopy, serverVars
  <2>11. CASE TcpSendFails BY <2>11 DEF TcpSendFails, clientVars, serverVars
  <2>12. CASE TcpClose BY <2>12 DEF TcpClose, clientVars, serverVars
  <2>13. CASE UdpSocket BY <2>13 DEF UdpSocket, clientVars, serverVars
  <2>14. CASE UdpSendto BY <2>14 DEF UdpSendto, serverVars
  <2>15. CASE UdpCount BY <2>15 DEF UdpCount, serverVars
  <2>16. CASE Kill BY <2>16 DEF Kill, clientVars, serverVars
  <2>17. CASE UNCHANGED vars BY <2>17 DEF vars, clientVars, serverVars
  <2> QED BY <2>1, <2>2, <2>3, <2>4, <2>5, <2>6, <2>7, <2>8, <2>9, <2>10,
             <2>11, <2>12, <2>13, <2>14, <2>15, <2>16, <2>17
             DEF Next, ServerStep, ClientStep
<1> QED BY <1>1, <1>2, PTL DEF Spec

\* Type correctness, for every value of the constants.
THEOREM TypeOKCorrect == Spec => []TypeOK
BY TypeInvariant, PTL DEF TypeInv

----------------------------------------------------------------------------
(* The stream.                                                             *)

\* As long as nothing was thrown away, what the TCP client has given to send
\* is received, on its way, or still to be copied; after an orderly end on
\* either side nothing is left there.
StreamInv ==
  /\ transport = "tcp" /\ conn # "reset" => passed = total + wire + left
  /\ client \in {"socket", "connect"} => passed = 0
  /\ transport = "tcp" /\ client = "end" => left = 0
  /\ transport = "tcp" /\ server = "end" => conn = "closed" /\ wire = 0
  /\ server \in {"socket", "bind", "listen"} => conn = "none" /\ total = 0
  /\ conn = "none" => total = 0
  /\ client \in {"send", "end"} /\ transport = "tcp" => conn # "none"
  /\ conn = "closed" => client \notin {"socket", "connect", "send"}

LEMMA StreamInvariant == Spec => []StreamInv
<1>1. Init => StreamInv
  BY DEF Init, StreamInv
<1>2. TypeInv /\ StreamInv /\ [Next]_vars => StreamInv'
  <2> SUFFICES ASSUME TypeInv, StreamInv, [Next]_vars PROVE StreamInv'
    OBVIOUS
  <2> USE DEF TypeInv, TypeOK, StreamInv, Ended, ServerStops, ClientStops
  <2>1. CASE TcpServerStart BY <2>1 DEF TcpServerStart, clientVars, serverVars
  <2>2. CASE UdpServerStart BY <2>2 DEF UdpServerStart, clientVars, serverVars
  <2>3. CASE Accept BY <2>3 DEF Accept, clientVars, serverVars
  <2>4. CASE TcpRecv BY <2>4, SizesAssumption DEF TcpRecv, clientVars, serverVars
  <2>5. CASE TcpEof BY <2>5 DEF TcpEof, clientVars, serverVars
  <2>6. CASE UdpRecv BY <2>6 DEF UdpRecv, clientVars, serverVars
  <2>7. CASE TcpSocket BY <2>7 DEF TcpSocket, clientVars, serverVars
  <2>8. CASE Connect BY <2>8 DEF Connect, clientVars, serverVars
  <2>9. CASE TcpSend
    <3>1. (count % Letters) + 1 \in 1 .. Letters
      BY <2>9, SizesAssumption
    <3> QED BY <2>9, <3>1 DEF TcpSend, serverVars
  <2>10. CASE TcpCopy BY <2>10, SizesAssumption DEF TcpCopy, serverVars
  <2>11. CASE TcpSendFails BY <2>11 DEF TcpSendFails, clientVars, serverVars
  <2>12. CASE TcpClose BY <2>12 DEF TcpClose, clientVars, serverVars
  <2>13. CASE UdpSocket BY <2>13 DEF UdpSocket, clientVars, serverVars
  <2>14. CASE UdpSendto BY <2>14 DEF UdpSendto, serverVars
  <2>15. CASE UdpCount BY <2>15 DEF UdpCount, serverVars
  <2>16. CASE Kill BY <2>16 DEF Kill, clientVars, serverVars
  <2>17. CASE UNCHANGED vars BY <2>17 DEF vars, clientVars, serverVars
  <2> QED BY <2>1, <2>2, <2>3, <2>4, <2>5, <2>6, <2>7, <2>8, <2>9, <2>10,
             <2>11, <2>12, <2>13, <2>14, <2>15, <2>16, <2>17
             DEF Next, ServerStep, ClientStep
<1> QED BY <1>1, <1>2, TypeInvariant, PTL DEF Spec

\* No letter is lost between a client and a server that both return 0.
THEOREM EveryLetterArrivesCorrect == Spec => []EveryLetterArrives
<1>1. TypeInv /\ StreamInv => EveryLetterArrives
  BY DEF TypeInv, TypeOK, StreamInv, EveryLetterArrives
<1> QED BY <1>1, TypeInvariant, StreamInvariant, PTL

----------------------------------------------------------------------------
(* The counters.                                                           *)

\* One more piece of at most m letters.
LEMMA OnePieceMore ==
  ASSUME NEW t \in Nat, NEW r \in Nat, NEW m \in Nat, NEW n \in 1 .. m,
         r <= t, t <= r * m
  PROVE  r + 1 <= t + n /\ t + n <= (r + 1) * m
<1>1. (r + 1) * m = r * m + m /\ r * m \in Nat
  OBVIOUS
<1> QED BY <1>1

\* A server's counter is never ahead of what it counts, nor TCP's so far behind
\* that a recv would have returned more than was asked for.
THEOREM CountersBoundedCorrect == Spec => []CountersBounded
<1>1. Init => CountersBounded
  BY SizesAssumption DEF Init, CountersBounded
<1>2. TypeInv /\ CountersBounded /\ [Next]_vars => CountersBounded'
  <2> SUFFICES ASSUME TypeInv, CountersBounded, [Next]_vars
               PROVE  CountersBounded'
    OBVIOUS
  <2>1. CASE TcpRecv
    <3>1. PICK n \in 1 .. RecvMax : n <= wire /\ total' = total + n
      BY <2>1 DEF TcpRecv
    <3>2. received + 1 <= total + n /\ total + n <= (received + 1) * RecvMax
      BY <2>1, <3>1, OnePieceMore, SizesAssumption
         DEF TcpRecv, TypeInv, TypeOK, CountersBounded
    <3> QED BY <2>1, <3>1, <3>2 DEF TcpRecv, TypeInv, TypeOK, CountersBounded
  <2>2. CASE transport = "tcp" /\ ~TcpRecv
    <3>1. UNCHANGED <<transport, received, total>>
      BY <2>2 DEF TypeInv, TypeOK, Next, ServerStep, ClientStep, vars, clientVars,
         serverVars, TcpServerStart, UdpServerStart, Accept, TcpEof, UdpRecv,
         TcpSocket, Connect, TcpSend, TcpCopy, TcpSendFails, TcpClose, UdpSocket,
         UdpSendto, UdpCount, Kill
    <3> QED BY <2>2, <3>1 DEF CountersBounded
  <2>3. CASE transport = "udp"
    <3> USE DEF TypeInv, TypeOK, CountersBounded, clientVars, serverVars, ServerStops
    <3>1. CASE UdpServerStart BY <2>3, <3>1 DEF UdpServerStart
    <3>2. CASE UdpRecv BY <2>3, <3>2 DEF UdpRecv
    <3>3. CASE UdpSocket BY <2>3, <3>3 DEF UdpSocket
    <3>4. CASE UdpSendto BY <2>3, <3>4 DEF UdpSendto
    <3>5. CASE UdpCount BY <2>3, <3>5 DEF UdpCount
    <3>6. CASE Kill BY <2>3, <3>6 DEF Kill
    <3>7. CASE UNCHANGED vars BY <2>3, <3>7 DEF vars
    <3> QED BY <2>3, <3>1, <3>2, <3>3, <3>4, <3>5, <3>6, <3>7
       DEF Next, ServerStep, ClientStep, TcpServerStart, Accept, TcpRecv, TcpEof,
       TcpSocket, Connect, TcpSend, TcpCopy, TcpSendFails, TcpClose
  <2> QED BY <2>1, <2>2, <2>3 DEF TypeInv, TypeOK
<1> QED BY <1>1, <1>2, TypeInvariant, PTL DEF Spec
=============================================================================
