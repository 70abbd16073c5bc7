---------------------------- MODULE SystemProofs ----------------------------
(***************************************************************************)
(* Theorems about System for any number of clients of either kind, any     *)
(* number of CPUs, any traffic and any queue length.                       *)
(***************************************************************************)
EXTENDS System, SequenceTheorems, TLAPS

USE DEF Clients

----------------------------------------------------------------------------
(* What the operators do.                                                  *)

\* Every text is a sequence of characters.
LEMMA TextsAreSequences == Message \subseteq Seq(Chars)
<1>1. Replies \subseteq Seq(Chars)
  BY PacketsAssumption DEF Replies
<1>2. ASSUME NEW p \in Packets PROVE ReportOf(p) \in Seq(Chars)
  <2>1. <<p.proto>> \in Seq(Chars) /\ p.body \in Seq(Chars)
    BY PacketsAssumption
  <2>2. <<p.proto>> \o p.body \in Seq(Chars)
    BY <2>1
  <2> QED BY <2>1, <2>2 DEF ReportOf
<1> QED BY <1>1, <1>2 DEF Message

\* A sequence of one element.
LEMMA SingleElement == \A x : Len(<<x>>) = 1 /\ <<x>>[1] = x
  OBVIOUS

\* A sequence of three.
LEMMA ThreeElements ==
  ASSUME NEW S, NEW s \in Seq(S), Len(s) = 3,
         NEW a, NEW b, NEW c, s[1] = a, s[2] = b, s[3] = c
  PROVE  s = <<a, b, c>>
  OBVIOUS

\* A part of a sequence.
LEMMA Slice ==
  ASSUME NEW S, NEW s \in Seq(S), NEW m \in Int, NEW n \in Int,
         1 <= m, n <= Len(s)
  PROVE  /\ SubSeq(s, m, n) \in Seq(S)
         /\ Len(SubSeq(s, m, n)) = IF m <= n THEN n - m + 1 ELSE 0
         /\ \A i \in 1 .. n - m + 1 : SubSeq(s, m, n)[i] = s[m + i - 1]
<1>1. \A i \in m .. n : s[i] \in S
  OBVIOUS
<1> QED BY <1>1, SubSeqProperties

\* The client's parser finds no B where there is none: if it sees one in the
\* part of the text it cuts out, the text holds a message element B.
LEMMA HandleDataQuotes ==
  ASSUME NEW text \in Seq(Chars), HandleData(Kdata(text))
  PROVE  Quotes(text)
<1> DEFINE end == ((NlmsgHdr + Len(text) + 1) % ByteRange) - NlmsgHdr
           e == IF end < Len(text) THEN end ELSE Len(text)
           t == SubSeq(text, 1, e)
<1>1. end \in Int
  BY LengthsAssumption
<1>2. e \in Int /\ e <= Len(text)
  BY <1>1
<1> HIDE DEF end, e
<1>3. t \in Seq(Chars) /\ Len(t) \in Nat /\ Len(text) \in Nat /\ Len(t) <= Len(text)
      /\ \A i \in 1 .. Len(t) : t[i] = text[i]
  BY <1>2, Slice
<1>4. Kdata(text) = t
  BY DEF Kdata, e, end
<1> HIDE DEF t
<1>5. PICK l \in DOMAIN t, r \in DOMAIN t :
        /\ t[l] = OpenTag /\ t[r] = CloseTag
        /\ SubSeq(t, l + 1, r - 1) = <<"B">>
  BY <1>4 DEF HandleData, FirstAt
<1>6. l \in 1 .. Len(t) /\ r \in 1 .. Len(t)
  BY <1>3
<1>7. r = l + 2 /\ t[l + 1] = "B"
  <2>1. PICK m \in Int, n \in Int : m = l + 1 /\ n = r - 1
    BY <1>6
  <2>2. Len(SubSeq(t, m, n)) = 1 /\ SubSeq(t, m, n)[1] = "B"
    <3>1. SubSeq(t, m, n) = <<"B">>
      BY <2>1, <1>5
    <3> QED BY <3>1, SingleElement
  <2>3. /\ Len(SubSeq(t, m, n)) = IF m <= n THEN n - m + 1 ELSE 0
        /\ \A i \in 1 .. n - m + 1 : SubSeq(t, m, n)[i] = t[m + i - 1]
    <3>1. 1 <= m /\ n <= Len(t)
      BY <2>1, <1>3, <1>6
    <3>2. t \in Seq(Chars)
      BY <1>3
    <3> QED BY <3>1, <3>2, Slice
  <2>4. m = n
    BY <2>1, <2>2, <2>3
  <2>5. SubSeq(t, m, n)[1] = t[m]
    BY <2>3, <2>4
  <2>6. t[m] = "B"
    BY <2>2, <2>5
  <2> QED BY <2>1, <2>4, <2>6, <1>6
<1>8. l \in 1 .. Len(text) - 2
  BY <1>3, <1>6, <1>7
<1>9. SubSeq(text, l, l + 2) = <<OpenTag, "B", CloseTag>>
  <2>1. text[l] = OpenTag /\ text[l + 1] = "B" /\ text[l + 2] = CloseTag
    BY <1>3, <1>5, <1>6, <1>7
  <2>2. SubSeq(text, l, l + 2) \in Seq(Chars) /\ Len(SubSeq(text, l, l + 2)) = 3
        /\ \A i \in 1 .. 3 : SubSeq(text, l, l + 2)[i] = text[l + i - 1]
    BY <1>8, Slice, SMTT(30)
  <2> DEFINE x == SubSeq(text, l, l + 2)
  <2>3. x[1] = text[l] /\ x[2] = text[l + 1] /\ x[3] = text[l + 2]
    BY <2>2, <1>8
  <2>4. x \in Seq(Chars) /\ Len(x) = 3
    BY <2>2
  <2> HIDE DEF x
  <2>5. x = <<OpenTag, "B", CloseTag>>
    BY <2>1, <2>3, <2>4, ThreeElements
  <2> QED BY <2>5 DEF x
<1> QED BY <1>8, <1>9 DEF Quotes

----------------------------------------------------------------------------
(* Type correctness.                                                       *)

\* What Post does to the sockets.
LEMMA PostType ==
  ASSUME TypeOK, NEW m \in Message, Post(m)
  PROVE  /\ inbox' \in [Clients -> Seq(Message)]
         /\ congested' \in SUBSET Clients /\ error' \in SUBSET Clients
         /\ shown' \in BOOLEAN
<1>1. CASE /\ HasSocket(current)
           /\ inbox' = [inbox EXCEPT ![current] = Append(@, m)]
           /\ shown' = (shown \/ (current \in Scripts /\ Quotes(m)))
           /\ UNCHANGED <<congested, error>>
  <2>1. shown' \in BOOLEAN
    BY <1>1
  <2>2. Append(inbox[current], m) \in Seq(Message)
    BY <1>1 DEF TypeOK, HasSocket
  <2> QED BY <1>1, <2>1, <2>2 DEF TypeOK, HasSocket
<1>2. CASE /\ HasSocket(current)
           /\ congested' = congested \cup {current}
           /\ error' = IF current \in congested THEN error ELSE error \cup {current}
           /\ UNCHANGED <<inbox, shown>>
  BY <1>2 DEF TypeOK, HasSocket
<1>3. CASE UNCHANGED <<sockets, shown>>
  BY <1>3 DEF TypeOK, sockets
<1> QED BY <1>1, <1>2, <1>3 DEF Post

\* What a receive does to them.
LEMMA DequeueType ==
  ASSUME TypeOK, NEW k \in Clients, Dequeue(k)
  PROVE  /\ inbox' \in [Clients -> Seq(Message)]
         /\ congested' \in SUBSET Clients /\ error' \in SUBSET Clients
<1>1. Tail(inbox[k]) \in Seq(Message)
  BY HeadTailProperties DEF Dequeue, TypeOK
<1> QED BY <1>1 DEF Dequeue, TypeOK

\* Every variable stays in its range.
THEOREM TypeOKCorrect == Spec => []TypeOK
<1>1. Init => TypeOK
  <2> SUFFICES ASSUME Init PROVE TypeOK
    OBVIOUS
  <2>1. (CHOOSE p \in Packets : TRUE) \in Packets
    BY PacketsAssumption
  <2>2. inbox \in [Clients -> Seq(Message)]
    <3>1. inbox = [k \in Clients |-> <<>>]
      BY DEF Init, Kernel!Init
    <3>2. <<>> \in Seq(Message)
      OBVIOUS
    <3> QED BY <3>1, <3>2
  <2> QED BY <2>1, <2>2 DEF Init, Kernel!Init, TypeOK
<1>2. TypeOK /\ [Next]_vars => TypeOK'
  <2> SUFFICES ASSUME TypeOK, [Next]_vars PROVE TypeOK'
    OBVIOUS
  <2>1. ASSUME NEW k \in Clients, Open(k) PROVE TypeOK'
    BY <2>1 DEF Open, Goto, TypeOK, sockets, kernel
  <2>2. ASSUME NEW k \in Clients, Connect(k) PROVE TypeOK'
    BY <2>2 DEF Connect, Goto, Kernel!Connect, TypeOK
  <2>3. ASSUME NEW k \in Clients, Reply(k) PROVE TypeOK'
    <3>1. <<"connect">> \in Message
      BY DEF Message, Replies
    <3>2. Post(<<"connect">>)
      BY <2>3 DEF Reply
    <3> QED BY <2>3, <3>1, <3>2, PostType DEF Reply, Goto, TypeOK, kernel
  <2>4. ASSUME NEW k \in Clients, Signal(k) PROVE TypeOK'
    BY <2>4 DEF Signal, Goto, TypeOK, sockets, kernel
  <2>5. ASSUME NEW k \in Clients, Recvfrom(k) PROVE TypeOK'
    <3>1. CASE Fail(k)
      BY <2>5, <3>1 DEF Recvfrom, Fail, TypeOK, kernel
    <3>2. CASE Dequeue(k)
      BY <2>5, <3>2, DequeueType DEF Recvfrom, TypeOK, kernel
    <3> QED BY <2>5, <3>1, <3>2 DEF Recvfrom
  <2>6. ASSUME NEW k \in Clients, Quit(k) PROVE TypeOK'
    BY <2>6 DEF Quit, Goto, TypeOK, sockets, kernel
  <2>7. ASSUME NEW k \in Clients, Disconnect(k) PROVE TypeOK'
    <3>1. <<"disconnect">> \in Message
      BY DEF Message, Replies
    <3>2. Post(<<"disconnect">>)
      BY <2>7 DEF Disconnect
    <3> QED BY <2>7, <3>1, <3>2, PostType DEF Disconnect, Goto, TypeOK, kernel
  <2>8. ASSUME NEW k \in Clients, Clear(k) PROVE TypeOK'
    BY <2>8 DEF Clear, Goto, Kernel!Clear, TypeOK
  <2>9. ASSUME NEW k \in Clients, Exit(k) PROVE TypeOK'
    BY <2>9 DEF Exit, Goto, CloseSocket, TypeOK, kernel
  <2>10. ASSUME NEW k \in Clients, Recv(k) PROVE TypeOK'
    BY <2>10, DequeueType DEF Recv, TypeOK, kernel
  <2>11. ASSUME NEW k \in Clients, Raise(k) PROVE TypeOK'
    BY <2>11 DEF Raise, CloseSocket, TypeOK, kernel
  <2>12. ASSUME NEW k \in Clients, SendDrop(k) PROVE TypeOK'
    BY <2>12 DEF SendDrop, Goto, Kernel!Command, TypeOK
  <2>13. ASSUME NEW k \in Clients, Interrupt(k) PROVE TypeOK'
    BY <2>13 DEF Interrupt, CloseSocket, TypeOK, kernel
  <2>14. ASSUME NEW c \in Cpus, NEW p \in Packets, Arrive(c, p) PROVE TypeOK'
    BY <2>14 DEF Arrive, TypeOK, sockets
  <2>15. ASSUME NEW c \in Cpus, Report(c) PROVE TypeOK'
    <3>1. ReportOf(pkt[c]) \in Message
      BY DEF Message, TypeOK
    <3>2. Post(ReportOf(pkt[c]))
      BY <2>15 DEF Report
    <3> QED BY <2>15, <3>1, <3>2, PostType DEF Report, TypeOK
  <2>16. ASSUME NEW c \in Cpus, Decide(c) PROVE TypeOK'
    BY <2>16 DEF Decide, TypeOK, sockets
  <2>17. CASE UNCHANGED vars
    BY <2>17 DEF vars, sockets, kernel, TypeOK
  <2> QED
    BY <2>1, <2>2, <2>3, <2>4, <2>5, <2>6, <2>7, <2>8, <2>9, <2>10, <2>11,
       <2>12, <2>13, <2>14, <2>15, <2>16, <2>17
       DEF Next, ClientStep, HookStep
<1> QED BY <1>1, <1>2, PTL DEF Spec

----------------------------------------------------------------------------
(* A client that quits.                                                    *)

\* pid is another's from the moment the kernel has cleared it.
QuitInv == \A k \in Tools : pc[k] \in {"close", "exited"} => current # k

\* A client that left through quit is not the one the kernel reports to.
THEOREM QuitterForgottenCorrect == Spec => []QuitterForgotten
<1>1. Init => QuitInv
  BY DEF Init, QuitInv
<1>2. TypeOK /\ QuitInv /\ [Next]_vars => QuitInv'
  <2> SUFFICES ASSUME TypeOK, QuitInv, [Next]_vars PROVE QuitInv'
    OBVIOUS
  <2> USE DEF QuitInv, TypeOK
  <2>1. ASSUME NEW k \in Clients, Connect(k) PROVE QuitInv'
    BY <2>1 DEF Connect, Goto, Kernel!Connect
  <2>2. ASSUME NEW k \in Clients, Clear(k) PROVE QuitInv'
    BY <2>2, ProcessesAssumption DEF Clear, Goto, Kernel!Clear
  <2>3. ASSUME NEW k \in Clients,
               \/ Open(k) \/ Reply(k) \/ Signal(k) \/ Recvfrom(k) \/ Quit(k)
               \/ Disconnect(k) \/ Exit(k) \/ Recv(k) \/ Raise(k)
               \/ SendDrop(k) \/ Interrupt(k)
        PROVE  QuitInv'
    <3>1. current' = current
      BY <2>3 DEF Open, Reply, Signal, Recvfrom, Quit, Disconnect, Exit, Recv,
                  Raise, SendDrop, Kernel!Command, Interrupt, kernel
    <3>2. \A j \in Tools : pc'[j] \in {"close", "exited"} =>
             pc[j] \in {"close", "exited"}
      BY <2>3 DEF Open, Reply, Signal, Recvfrom, Quit, Disconnect, Exit, Recv,
                  Raise, SendDrop, Interrupt, Goto
    <3> QED BY <3>1, <3>2
  <2>4. ASSUME NEW c \in Cpus, HookStep(c) \/ \E p \in Packets : Arrive(c, p)
        PROVE  QuitInv'
    BY <2>4 DEF HookStep, Report, Decide, Arrive
  <2>5. CASE UNCHANGED vars
    BY <2>5 DEF vars, kernel
  <2> QED BY <2>1, <2>2, <2>3, <2>4, <2>5 DEF Next, ClientStep
<1>3. QuitInv => QuitterForgotten
  BY DEF QuitInv, QuitterForgotten
<1> QED BY <1>1, <1>2, <1>3, TypeOKCorrect, PTL DEF Spec

----------------------------------------------------------------------------
(* Why something is dropped.                                               *)

\* The chain from a report to a dropped packet: a report with a message B in
\* a script's queue, the command the script is about to send, the flag the
\* command sets, the verdict the flag decides.
Queued ==
  \A k \in Scripts : \A i \in 1 .. Len(inbox[k]) :
    Quotes(inbox[k][i]) => shown
Commanding == \A k \in Clients : pc[k] = "command" => shown
Flagged == operatorflag = 2 => shown
Dropped == \A c \in Cpus : verdict[c] = "DROP" => operatorflag = 2

CauseInv == Queued /\ Commanding /\ Flagged /\ Dropped

\* Queueing a message, or losing it, keeps track of what was shown.
LEMMA PostCause ==
  ASSUME TypeOK, Queued, NEW m \in Message, Post(m)
  PROVE  Queued' /\ (shown => shown')
<1>1. CASE /\ HasSocket(current)
           /\ inbox' = [inbox EXCEPT ![current] = Append(@, m)]
           /\ shown' = (shown \/ (current \in Scripts /\ Quotes(m)))
  <2>1. shown => shown'
    BY <1>1
  <2>2. ASSUME NEW k \in Scripts, NEW i \in 1 .. Len(inbox'[k]),
               Quotes(inbox'[k][i])
        PROVE  shown'
    <3>1. inbox[k] \in Seq(Message) /\ current \in Clients
      BY <1>1 DEF TypeOK, HasSocket
    <3>2. CASE current # k
      <4>1. inbox'[k] = inbox[k]
        BY <1>1, <3>2 DEF TypeOK
      <4> QED BY <4>1, <2>1, <2>2 DEF Queued
    <3>3. CASE current = k
      <4>1. inbox'[k] = Append(inbox[k], m)
        BY <1>1, <3>3 DEF TypeOK
      <4>2. CASE i = Len(inbox[k]) + 1
        <5>1. inbox'[k][i] = m
          BY <4>1, <4>2, <3>1
        <5> QED BY <5>1, <2>2, <3>3, <1>1
      <4>3. CASE i \in 1 .. Len(inbox[k])
        <5>1. inbox'[k][i] = inbox[k][i]
          BY <4>1, <4>3, <3>1
        <5> QED BY <5>1, <4>3, <2>1, <2>2 DEF Queued
      <4> QED BY <4>1, <4>2, <4>3, <3>1
    <3> QED BY <3>2, <3>3
  <2> QED BY <2>1, <2>2 DEF Queued
<1>2. CASE UNCHANGED <<inbox, shown>>
  BY <1>2 DEF Queued
<1> QED BY <1>1, <1>2 DEF Post, sockets

\* A receive only shortens the queue.
LEMMA DequeueCause ==
  ASSUME TypeOK, Queued, NEW k \in Clients, Dequeue(k), UNCHANGED shown
  PROVE  Queued'
<1>1. inbox[k] \in Seq(Message) /\ inbox[k] # <<>>
  BY DEF Dequeue, TypeOK
<1>2. /\ Len(Tail(inbox[k])) = Len(inbox[k]) - 1
      /\ \A i \in 1 .. Len(Tail(inbox[k])) : Tail(inbox[k])[i] = inbox[k][i + 1]
  BY <1>1, HeadTailProperties
<1>3. ASSUME NEW j \in Scripts, NEW i \in 1 .. Len(inbox'[j]),
             Quotes(inbox'[j][i])
      PROVE  shown'
  <2>1. CASE j = k
    <3>1. inbox'[j] = Tail(inbox[k])
      BY <2>1 DEF Dequeue, TypeOK
    <3>2. i + 1 \in 1 .. Len(inbox[k]) /\ inbox'[j][i] = inbox[k][i + 1]
      BY <3>1, <1>1, <1>2
    <3> QED BY <3>2, <2>1, <1>3 DEF Queued
  <2>2. CASE j # k
    <3>1. inbox'[j] = inbox[j]
      BY <2>2 DEF Dequeue, TypeOK
    <3> QED BY <3>1, <1>3 DEF Queued
  <2> QED BY <2>1, <2>2
<1> QED BY <1>3 DEF Queued

\* An emptied queue holds no report.
LEMMA CloseCause ==
  ASSUME TypeOK, Queued, NEW k \in Clients, CloseSocket(k), UNCHANGED shown
  PROVE  Queued'
<1>1. \A j \in Scripts : inbox'[j] = inbox[j] \/ inbox'[j] = <<>>
  BY DEF CloseSocket, TypeOK
<1> QED BY <1>1 DEF Queued

\* Nothing is dropped before a report with a message B has gone to a script.
THEOREM DropFollowsReportCorrect == Spec => []DropFollowsReport
<1>1. Init => CauseInv
  BY DEF Init, Kernel!Init, CauseInv, Queued, Commanding, Flagged, Dropped
<1>2. TypeOK /\ CauseInv /\ [Next]_vars => CauseInv'
  <2> SUFFICES ASSUME TypeOK, CauseInv, [Next]_vars PROVE CauseInv'
    OBVIOUS
  <2> USE DEF CauseInv, Commanding, Flagged, Dropped
  <2>1. ASSUME NEW k \in Clients, Open(k) \/ Signal(k) \/ Quit(k)
        PROVE  CauseInv'
    <3>1. UNCHANGED <<inbox, kernel, shown>>
      BY <2>1 DEF Open, Signal, Quit, sockets
    <3>2. \A j \in Clients : pc'[j] = "command" => pc[j] = "command"
      BY <2>1 DEF Open, Signal, Quit, Goto, TypeOK
    <3> QED BY <3>1, <3>2 DEF kernel, Queued
  <2>2. ASSUME NEW k \in Clients, Connect(k) \/ Clear(k)
        PROVE  CauseInv'
    <3>1. UNCHANGED <<inbox, operatorflag, verdict, shown>>
      BY <2>2 DEF Connect, Clear, Kernel!Connect, Kernel!Clear
    <3>2. \A j \in Clients : pc'[j] = "command" => pc[j] = "command"
      BY <2>2 DEF Connect, Clear, Goto, TypeOK
    <3> QED BY <3>1, <3>2 DEF Queued
  <2>3. ASSUME NEW k \in Clients, Reply(k) \/ Disconnect(k)
        PROVE  CauseInv'
    <3>1. PICK m \in Message : Post(m)
      BY <2>3 DEF Reply, Disconnect, Message, Replies
    <3>2. Queued' /\ (shown => shown')
      BY <3>1, PostCause
    <3>3. UNCHANGED kernel
      BY <2>3 DEF Reply, Disconnect
    <3>4. \A j \in Clients : pc'[j] = "command" => pc[j] = "command"
      BY <2>3 DEF Reply, Disconnect, Goto, TypeOK
    <3> QED BY <3>2, <3>3, <3>4 DEF kernel
  <2>4. ASSUME NEW k \in Clients, Recvfrom(k) PROVE CauseInv'
    <3>1. CASE Fail(k)
      BY <2>4, <3>1 DEF Recvfrom, Fail, kernel, Queued
    <3>2. CASE Dequeue(k)
      BY <2>4, <3>2, DequeueCause DEF Recvfrom, kernel
    <3> QED BY <2>4, <3>1, <3>2 DEF Recvfrom
  <2>5. ASSUME NEW k \in Clients, Recv(k) PROVE CauseInv'
    <3>1. Queued' /\ UNCHANGED <<operatorflag, verdict, shown>>
      BY <2>5, DequeueCause DEF Recv, kernel
    <3>2. ASSUME HandleData(Kdata(Head(inbox[k]))) PROVE shown
      <4>1. inbox[k] \in Seq(Message) /\ inbox[k] # <<>> /\ k \in Scripts
        BY <2>5 DEF Recv, Dequeue, TypeOK
      <4>2. 1 \in 1 .. Len(inbox[k]) /\ Head(inbox[k]) = inbox[k][1]
            /\ inbox[k][1] \in Message
        BY <4>1
      <4>3. inbox[k][1] \in Seq(Chars)
        BY <4>2, TextsAreSequences DEF Message
      <4>4. Quotes(inbox[k][1])
        BY <3>2, <4>2, <4>3, HandleDataQuotes
      <4> QED BY <4>1, <4>2, <4>4 DEF Queued
    <3>3. \A j \in Clients : pc'[j] = "command" => pc[j] = "command" \/ shown
      BY <2>5, <3>2 DEF Recv, TypeOK
    <3> QED BY <3>1, <3>3
  <2>6. ASSUME NEW k \in Clients, Raise(k) \/ Interrupt(k) \/ Exit(k)
        PROVE  CauseInv'
    <3>1. CloseSocket(k) /\ UNCHANGED <<kernel, shown>>
      BY <2>6 DEF Raise, Interrupt, Exit
    <3>2. \A j \in Clients : pc'[j] = "command" => pc[j] = "command"
      BY <2>6 DEF Raise, Interrupt, Exit, Goto, TypeOK
    <3> QED BY <3>1, <3>2, CloseCause DEF kernel
  <2>7. ASSUME NEW k \in Clients, SendDrop(k) PROVE CauseInv'
    <3>1. shown /\ UNCHANGED <<inbox, verdict, shown>> /\ operatorflag' = 2
      BY <2>7 DEF SendDrop, Goto, Kernel!Command
    <3> QED BY <3>1 DEF Queued
  <2>8. ASSUME NEW c \in Cpus, Report(c) PROVE CauseInv'
    <3>1. ReportOf(pkt[c]) \in Message
      BY DEF Message, TypeOK
    <3>2. Queued' /\ (shown => shown')
      BY <2>8, <3>1, PostCause DEF Report
    <3> QED BY <2>8, <3>2 DEF Report
  <2>9. ASSUME NEW c \in Cpus, Decide(c) PROVE CauseInv'
    <3>1. UNCHANGED <<inbox, pc, operatorflag, shown>>
      BY <2>9 DEF Decide, sockets
    <3>2. \A d \in Cpus : verdict'[d] = "DROP" =>
            verdict[d] = "DROP" \/ operatorflag = 2
      BY <2>9 DEF Decide, TypeOK
    <3> QED BY <3>1, <3>2 DEF Queued
  <2>10. ASSUME NEW c \in Cpus, NEW p \in Packets, Arrive(c, p) PROVE CauseInv'
    <3>1. UNCHANGED <<inbox, pc, operatorflag, shown>>
      BY <2>10 DEF Arrive, sockets
    <3>2. \A d \in Cpus : verdict'[d] = "DROP" => verdict[d] = "DROP"
      BY <2>10 DEF Arrive, TypeOK
    <3> QED BY <3>1, <3>2 DEF Queued
  <2>11. CASE UNCHANGED vars
    BY <2>11 DEF vars, sockets, kernel, Queued
  <2> QED
    BY <2>1, <2>2, <2>3, <2>4, <2>5, <2>6, <2>7, <2>8, <2>9, <2>10, <2>11
       DEF Next, ClientStep, HookStep
<1>3. CauseInv => DropFollowsReport
  BY DEF CauseInv, Flagged, Dropped, DropFollowsReport
<1> QED BY <1>1, <1>2, <1>3, TypeOKCorrect, PTL DEF Spec
=============================================================================
