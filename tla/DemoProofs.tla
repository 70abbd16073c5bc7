----------------------------- MODULE DemoProofs -----------------------------
(***************************************************************************)
(* Theorems about Demo for any addresses and any room on the way.          *)
(***************************************************************************)
EXTENDS Demo, AddressProofs

Succ(i) == (i + 1) % 11

----------------------------------------------------------------------------
(* Positions and events.                                                   *)

\* eventbuffer has eleven letters.
LEMMA PositionsAre == Positions = 0 .. 10 /\ Len(eventbuffer) = 11
BY DEF Positions, eventbuffer

\* Nothing is between a position and the next.
LEMMA BetweenNeighbours == \A i \in Positions : Between(i, Succ(i)) = {}
<1> SUFFICES ASSUME NEW i \in Positions PROVE Between(i, Succ(i)) = {}
  OBVIOUS
<1>1. i \in 0 .. 10
  BY PositionsAre
<1>2. (Succ(i) - i - 1) % 11 = 0
  BY <1>1 DEF Succ
<1> QED BY <1>2, PositionsAre DEF Between

\* One position further, one more is between.
LEMMA BetweenGrows ==
  \A i, j \in Positions : Between(i, Succ(j)) \subseteq Between(i, j) \cup {j}
<1> SUFFICES ASSUME NEW i \in Positions, NEW j \in Positions,
                    NEW k \in Between(i, Succ(j)), k # j
             PROVE  k \in Between(i, j)
  OBVIOUS
<1>1. i \in 0 .. 10 /\ j \in 0 .. 10 /\ k \in 0 .. 10
  BY PositionsAre DEF Between
<1>2. (k - i) % 11 \in 1 .. ((Succ(j) - i - 1) % 11)
  BY PositionsAre DEF Between
<1>3. (k - i) % 11 \in 1 .. ((j - i - 1) % 11)
  BY <1>1, <1>2 DEF Succ
<1> QED BY <1>1, <1>3, PositionsAre DEF Between

\* A body's message is its event.
LEMMA BodyIsB == \A i \in Positions : IsB(Body(i)) => Event(i) = "B"
BY DEF IsB, Body, OpenTag, CloseTag

----------------------------------------------------------------------------
(* The inductive invariant.                                                *)

\* What the filter may take out of the stream.
Skippable(k) == Event(k) = "B" /\ Match /\ operatorflag = 2

\* Every variable's range.
TypeInv ==
  /\ route \in Routes /\ conf \in Confs /\ behind \in {"sockfd", "other"}
  /\ client \in {"socket", "loop", "exited"}
  /\ ievent \in Positions
  /\ wire \in Seq(Positions)
  /\ at \in {<<>>} \cup {<<i>> : i \in Positions}
  /\ last \in {<<>>} \cup {<<i>> : i \in Positions}
  /\ operatorflag \in {0, 2}
  /\ pkt \in [{Cpu} -> {Packet(i, m) : i \in Positions, m \in BOOLEAN}]
  /\ verdict \in [{Cpu} -> {"none", "pending", "ACCEPT", "DROP"}]
  /\ reported \in [{Cpu} -> {<<>>} \cup {ReportOf(Packet(i, m)) : i \in Positions, m \in BOOLEAN}]
  /\ script \in {"recv", "drop", "dead"}
  /\ server \in {"socket", "bind", "recv", "exited"}
  /\ sockfd \in {"open", "overwritten"}
  /\ queue \in Seq(Range(eventbuffer))

\* The hook works on the datagram that arrived last.
HookInv ==
  /\ verdict[Cpu] = "pending" <=> at # <<>>
  /\ at # <<>> => pkt[Cpu] = Packet(at[1], Match)

\* What is on its way follows without a gap, up to what the client sent last.
WireInv ==
  /\ \A n \in 1 .. Len(wire) - 1 : wire[n + 1] = Succ(wire[n])
  /\ at # <<>> /\ wire # <<>> => wire[1] = Succ(at[1])
  /\ client = "loop" =>
       /\ wire # <<>> => wire[Len(wire)] = ievent
       /\ at # <<>> /\ wire = <<>> => at[1] = ievent
  /\ client = "socket" => wire = <<>> /\ at = <<>> /\ last = <<>>

\* j is the next position the hook decides on.
IsNext(j) ==
  \/ at # <<>> /\ j = at[1]
  \/ at = <<>> /\ wire # <<>> /\ j = wire[1]
  \/ at = <<>> /\ wire = <<>> /\ client = "loop" /\ j = Succ(ievent)

\* Between what the server received last and what comes next, only what the
\* filter may take out is missing.
GapInv ==
  last # <<>> =>
    \A j \in Positions : IsNext(j) =>
      \A k \in Between(last[1], j) : Skippable(k)

IInv == TypeInv /\ HookInv /\ WireInv /\ GapInv

----------------------------------------------------------------------------
(* Lemmas about single steps.                                              *)

\* The next position is one.
LEMMA SuccType == \A i \in Positions : Succ(i) \in Positions
BY PositionsAre DEF Succ

\* A message is one of the letters.
LEMMA EventType == \A i \in Positions : Event(i) \in Range(eventbuffer)
<1> SUFFICES ASSUME NEW i \in Positions PROVE Event(i) \in Range(eventbuffer)
  OBVIOUS
<1>1. i + 1 \in 1 .. 11
  BY PositionsAre
<1>2. i + 1 \in DOMAIN eventbuffer
  BY <1>1 DEF eventbuffer
<1> QED
  BY <1>2 DEF Event, Range

\* What the filter may take out it may take out ever after: nobody opens the
\* gate again.
LEMMA SkippableStays ==
  ASSUME NEW k, Skippable(k), UNCHANGED setup,
         operatorflag' = operatorflag \/ operatorflag' = 2
  PROVE  Skippable(k)'
  BY DEF Skippable, setup, Match, Event, eventbuffer

\* A step that neither moves a datagram nor delivers one keeps the gap.
LEMMA GapKept ==
  ASSUME GapInv, UNCHANGED <<setup, last>>,
         operatorflag' = operatorflag \/ operatorflag' = 2,
         \A j \in Positions : IsNext(j)' => IsNext(j)
  PROVE  GapInv'
<1> SUFFICES ASSUME last # <<>>, NEW j \in Positions, IsNext(j),
                    NEW k \in Between(last[1], j)
             PROVE  Skippable(k)'
  BY DEF GapInv, Positions, eventbuffer, Between
<1> QED
  BY SkippableStays DEF GapInv

\* After the verdict the next position follows the one just decided on.
LEMMA NextAfterVerdict ==
  ASSUME IInv, at # <<>>, at' = <<>>, UNCHANGED <<wire, client, ievent>>,
         NEW j, IsNext(j)'
  PROVE  j = Succ(at[1])
  BY DEF IInv, WireInv, IsNext

\* The packets of PacketFilter.
Packets == {Packet(i, m) : i \in Positions, m \in BOOLEAN}

\* The invariant holds at the start.
LEMMA InitHolds == Init => IInv
<1> SUFFICES ASSUME Init PROVE IInv
  OBVIOUS
<1>1. TypeInv
  <2>1. Packet(0, TRUE) \in Packets
    <3>1. \A i \in Positions, m \in BOOLEAN : Packet(i, m) \in Packets
      BY DEF Packets
    <3>2. 0 \in Positions
      BY PositionsAre
    <3> QED
      BY <3>1, <3>2
  <2>2. (CHOOSE p \in Packets : TRUE) \in Packets
    BY <2>1
  <2>3. pkt \in [{Cpu} -> Packets]
    BY <2>2 DEF Init, Filter!Init, Packets
  <2> QED
    BY <2>3, PositionsAre DEF Init, Filter!Init, TypeInv, Packets
<1>2. HookInv
  BY DEF Init, Filter!Init, HookInv
<1> QED
  BY <1>1, <1>2 DEF Init, IInv, WireInv, GapInv

\* The client's step keeps it.
LEMMA FuncKeeps == IInv /\ Func => IInv'
<1> SUFFICES ASSUME IInv, Func PROVE IInv'
  OBVIOUS
<1>1. ievent' = Succ(ievent) /\ ievent' \in Positions
  BY PositionsAre, SuccType DEF IInv, TypeInv, Func, Succ
<1>2. wire \in Seq(Positions)
  BY DEF IInv, TypeInv
<1>3. CASE client' = "exited" /\ UNCHANGED wire
  <2>1. TypeInv'
    BY <1>1, <1>3 DEF IInv, TypeInv, Func, setup, filterVars, serverVars
  <2>2. HookInv'
    BY DEF IInv, HookInv, Func, setup, filterVars, Match
  <2>3. WireInv'
    BY <1>3 DEF IInv, WireInv, Func
  <2>4. GapInv'
    BY <1>3, GapKept DEF IInv, Func, IsNext, filterVars
  <2> QED
    BY <2>1, <2>2, <2>3, <2>4 DEF IInv
<1>4. CASE wire' = Append(wire, ievent') /\ UNCHANGED client
  <2>0. /\ wire' \in Seq(Positions) /\ Len(wire') = Len(wire) + 1
        /\ wire'[Len(wire) + 1] = ievent'
        /\ \A n \in 1 .. Len(wire) : wire'[n] = wire[n]
        /\ Len(wire) \in Nat
    BY <1>1, <1>2, <1>4
  <2>1. TypeInv'
    BY <1>1, <1>4, <2>0 DEF IInv, TypeInv, Func, setup, filterVars, serverVars
  <2>2. HookInv'
    BY DEF IInv, HookInv, Func, setup, filterVars, Match
  <2>3. WireInv'
    <3>1. ASSUME NEW n \in 1 .. Len(wire') - 1
          PROVE  wire'[n + 1] = Succ(wire'[n])
      <4>1. CASE n = Len(wire)
        <5>1. wire # <<>>
          BY <3>1, <4>1, <1>2
        <5>2. wire[Len(wire)] = ievent
          BY <5>1 DEF IInv, WireInv, Func
        <5> QED
          BY <1>1, <2>0, <3>1, <4>1, <5>2
      <4>2. CASE n \in 1 .. Len(wire) - 1
        BY <2>0, <4>2 DEF IInv, WireInv
      <4> QED
        BY <2>0, <3>1, <4>1, <4>2
    <3>2. ASSUME at # <<>> PROVE wire'[1] = Succ(at[1])
      <4>1. CASE wire = <<>>
        BY <1>1, <2>0, <3>2, <4>1 DEF IInv, WireInv, Func
      <4>2. CASE wire # <<>>
        <5>1. 1 \in 1 .. Len(wire)
          BY <1>2, <4>2
        <5> QED
          BY <2>0, <3>2, <4>2, <5>1 DEF IInv, WireInv
      <4> QED
        BY <4>1, <4>2
    <3>3. wire' # <<>>
      BY <2>0
    <3>4. at' = at
      BY DEF Func
    <3>5. client' = "loop"
      BY <1>4 DEF Func
    <3> QED
      BY <2>0, <3>1, <3>2, <3>3, <3>4, <3>5 DEF WireInv
  <2>4. GapInv'
    <3>1. ASSUME NEW j \in Positions, IsNext(j)' PROVE IsNext(j)
      <4>1. CASE wire = <<>>
        <5>1. wire'[1] = ievent' /\ wire' # <<>>
          BY <2>0, <4>1
        <5>2. at' = at /\ client = "loop"
          BY DEF Func
        <5> QED
          BY <1>1, <3>1, <4>1, <5>1, <5>2 DEF IsNext
      <4>2. CASE wire # <<>>
        <5>1. 1 \in 1 .. Len(wire)
          BY <1>2, <4>2
        <5> QED
          BY <2>0, <3>1, <4>2, <5>1 DEF IsNext, Func
      <4> QED
        BY <4>1, <4>2
    <3> QED
      BY <3>1, GapKept DEF IInv, Func, filterVars
  <2> QED
    BY <2>1, <2>2, <2>3, <2>4 DEF IInv
<1> QED
  BY <1>3, <1>4 DEF Func

\* What is left of the wire when its first datagram is gone.
LEMMA TailOfWire ==
  ASSUME IInv, wire # <<>>, wire' = Tail(wire)
  PROVE  /\ wire' \in Seq(Positions) /\ Len(wire') = Len(wire) - 1
         /\ \A n \in 1 .. Len(wire') : wire'[n] = wire[n + 1]
         /\ \A n \in 1 .. Len(wire') - 1 : wire'[n + 1] = Succ(wire'[n])
         /\ wire' # <<>> => /\ wire'[1] = Succ(wire[1])
                             /\ wire'[Len(wire')] = wire[Len(wire)]
         /\ wire' = <<>> => wire[Len(wire)] = wire[1]
<1>1. wire \in Seq(Positions) /\ Len(wire) \in Nat /\ Len(wire) > 0
  BY DEF IInv, TypeInv
<1>2. /\ wire' \in Seq(Positions) /\ Len(wire') = Len(wire) - 1
      /\ \A n \in 1 .. Len(wire') : wire'[n] = wire[n + 1]
  BY <1>1
<1>3. \A n \in 1 .. Len(wire) - 1 : wire[n + 1] = Succ(wire[n])
  BY DEF IInv, WireInv
<1>4. ASSUME NEW n \in 1 .. Len(wire') - 1
      PROVE  wire'[n + 1] = Succ(wire'[n])
  BY <1>1, <1>2, <1>3
<1>5. ASSUME wire' # <<>>
      PROVE  wire'[1] = Succ(wire[1]) /\ wire'[Len(wire')] = wire[Len(wire)]
  <2>1. Len(wire') # 0
    BY <1>2, <1>5
  <2>2. 1 \in 1 .. Len(wire') /\ 1 \in 1 .. Len(wire) - 1
    BY <1>1, <1>2, <2>1
  <2> QED
    BY <1>1, <1>2, <1>3, <2>2
<1>6. ASSUME wire' = <<>> PROVE wire[Len(wire)] = wire[1]
  <2>1. Len(wire') = 0
    BY <1>2, <1>6
  <2> QED
    BY <1>1, <1>2, <2>1
<1> QED
  BY <1>2, <1>4, <1>5, <1>6

\* A loss keeps it.
LEMMA LoseKeeps == IInv /\ Lose => IInv'
<1> SUFFICES ASSUME IInv, Lose PROVE IInv'
  OBVIOUS
<1>1. wire # <<>> /\ wire' = Tail(wire) /\ at = <<>> /\ at' = <<>>
  BY DEF Lose
<1>2. TypeInv'
  BY <1>1, TailOfWire DEF IInv, TypeInv, Lose, setup, clientVars, filterVars, serverVars
<1>3. HookInv'
  BY DEF IInv, HookInv, Lose, setup, filterVars, Match
<1>4. WireInv'
  BY <1>1, TailOfWire DEF IInv, WireInv, Lose, clientVars
<1>5. GapInv'
  BY DEF Lose, GapInv
<1> QED
  BY <1>2, <1>3, <1>4, <1>5 DEF IInv

\* The hook's first step keeps it.
LEMMA ArriveKeeps == IInv /\ Arrive => IInv'
<1> SUFFICES ASSUME IInv, Arrive PROVE IInv'
  OBVIOUS
<1>1. wire # <<>> /\ wire' = Tail(wire) /\ at' = <<Head(wire)>>
  BY DEF Arrive
<1>2. at = <<>>
  BY DEF IInv, HookInv, Arrive, Filter!Arrive
<1>3. Head(wire) = wire[1] /\ wire[1] \in Positions
  BY <1>1 DEF IInv, TypeInv
<1>4. Match \in BOOLEAN
  BY DEF Match
<1>5. pkt' = [pkt EXCEPT ![Cpu] = Packet(wire[1], Match)]
  BY <1>3 DEF Arrive, Filter!Arrive
<1>6. TypeInv'
  <2>1. Packet(wire[1], Match) \in Packets
    BY <1>3, <1>4 DEF Packets
  <2>2. pkt' \in [{Cpu} -> Packets]
    BY <1>5, <2>1 DEF IInv, TypeInv, Packets
  <2>3. /\ verdict' \in [{Cpu} -> {"none", "pending", "ACCEPT", "DROP"}]
        /\ reported' \in [{Cpu} -> {<<>>} \cup {ReportOf(Packet(i, m)) : i \in Positions, m \in BOOLEAN}]
        /\ operatorflag' = operatorflag
    BY DEF IInv, TypeInv, Arrive, Filter!Arrive
  <2> QED
    BY <1>1, <1>3, <2>2, <2>3, TailOfWire
    DEF IInv, TypeInv, Arrive, setup, clientVars, serverVars, Packets
<1>7. HookInv'
  BY <1>1, <1>3, <1>5 DEF IInv, TypeInv, HookInv, Arrive, Filter!Arrive, setup, Match
<1>8. WireInv'
  BY <1>1, <1>2, <1>3, TailOfWire DEF IInv, WireInv, Arrive, clientVars
<1>9. GapInv'
  BY <1>1, <1>2, <1>3, GapKept DEF IInv, IsNext, Arrive, Filter!Arrive
<1> QED
  BY <1>6, <1>7, <1>8, <1>9 DEF IInv

\* PacketFilter's operators are Payload's.
LEMMA FilterOperators ==
  \A p : /\ Filter!Droppable(p) <=> Droppable(p)
         /\ Filter!Reportable(p) <=> Reportable(p)
         /\ Filter!ReportOf(p) = ReportOf(p)
<1>1. \A body : Filter!IsB(body) <=> IsB(body)
  BY DEF Filter!IsB, IsB, Filter!OpenTag, OpenTag, Filter!CloseTag, CloseTag
<1> QED
  BY <1>1 DEF Filter!Droppable, Droppable, Filter!Reportable, Reportable,
              Filter!ReportOf, ReportOf

\* The hook's verdict keeps it.
LEMMA DecideKeeps == IInv /\ Decide => IInv'
<1> SUFFICES ASSUME IInv, Decide PROVE IInv'
  OBVIOUS
<1>1. PICK i \in Positions : at = <<i>>
  BY DEF IInv, TypeInv, HookInv, Decide, Filter!Decide
<1>2. /\ at[1] = i /\ at' = <<>> /\ pkt[Cpu] = Packet(i, Match)
      /\ UNCHANGED <<setup, clientVars, wire, pkt, reported, operatorflag>>
  BY <1>1 DEF IInv, HookInv, Decide, Filter!Decide
<1>3. verdict' = [verdict EXCEPT ![Cpu] =
       IF Droppable(pkt[Cpu]) /\ operatorflag = 2 THEN "DROP" ELSE "ACCEPT"]
  BY FilterOperators DEF Decide, Filter!Decide
<1>4. verdict' \in [{Cpu} -> {"none", "pending", "ACCEPT", "DROP"}]
      /\ verdict'[Cpu] \in {"ACCEPT", "DROP"}
  BY <1>3 DEF IInv, TypeInv
<1>5. \/ verdict'[Cpu] = "DROP" /\ UNCHANGED <<serverVars, last>>
      \/ verdict'[Cpu] = "ACCEPT" /\ Deliver
  BY <1>4 DEF Decide
<1>6. \/ UNCHANGED queue
      \/ queue' = Append(queue, Event(i))
  BY <1>2, <1>5 DEF Deliver, serverVars
<1>7. TypeInv'
  <2>1. queue' \in Seq(Range(eventbuffer))
    BY <1>6, EventType DEF IInv, TypeInv
  <2>2. server' = server /\ sockfd' = sockfd /\ script' = script
    BY <1>5 DEF Deliver, serverVars, Decide
  <2>3. last' \in {<<>>, last, at}
    BY <1>5 DEF Deliver
  <2> QED
    BY <1>2, <1>4, <2>1, <2>2, <2>3 DEF IInv, TypeInv, setup, clientVars
<1>8. HookInv'
  BY <1>2, <1>4 DEF HookInv
<1>9. WireInv'
  BY <1>1, <1>2 DEF IInv, WireInv, clientVars
<1>10. \A j : IsNext(j)' => j = Succ(i)
  BY <1>1, <1>2, NextAfterVerdict DEF clientVars
<1>11. GapInv'
  <2>1. CASE verdict'[Cpu] = "DROP" /\ UNCHANGED <<serverVars, last>>
    <3>1. Skippable(i)
      <4>1. Droppable(Packet(i, Match)) /\ operatorflag = 2
        BY <1>2, <1>3, <2>1 DEF IInv, TypeInv
      <4>2. Match /\ IsB(Body(i))
        BY <4>1 DEF Droppable, Reportable, Packet
      <4> QED
        BY <4>1, <4>2, BodyIsB DEF Skippable
    <3> SUFFICES ASSUME last # <<>>, NEW k \in Between(last[1], Succ(i))
                 PROVE  Skippable(k)'
      BY <1>10, <2>1 DEF GapInv, Between, Positions, eventbuffer
    <3>2. last[1] \in Positions
      BY DEF IInv, TypeInv
    <3>3. k \in Between(last[1], i) \/ k = i
      BY <3>2, BetweenGrows
    <3>4. IsNext(i)
      BY <1>1 DEF IsNext
    <3>5. Skippable(k)
      BY <3>1, <3>3, <3>4 DEF IInv, GapInv
    <3> QED
      BY <1>2, <3>5, SkippableStays
  <2>2. CASE last' = at
    <3>1. Between(i, Succ(i)) = {}
      BY BetweenNeighbours
    <3> QED
      BY <1>2, <1>10, <2>2, <3>1 DEF GapInv, Between, Positions, eventbuffer
  <2>3. CASE last' = <<>>
    BY <2>3 DEF GapInv
  <2> QED
    BY <1>5, <2>1, <2>2, <2>3 DEF Deliver
<1> QED
  BY <1>7, <1>8, <1>9, <1>11 DEF IInv

\* Nothing is moved or decided on; the script may answer, the client may start.
Undisturbed ==
  /\ UNCHANGED <<setup, wire, at, last, pkt, verdict, ievent>>
  /\ \/ client' = client
     \/ client = "socket" /\ client' \in {"loop", "exited"}
  /\ operatorflag' = operatorflag \/ operatorflag' = 2

\* What neither moves a datagram nor decides on one keeps the invariant when
\* it keeps the types.
LEMMA OthersKeep ==
  ASSUME IInv, TypeInv', Undisturbed PROVE IInv'
<1> USE DEF Undisturbed
<1>1. HookInv'
  BY DEF IInv, HookInv, setup, Match
<1>2. WireInv'
  BY DEF IInv, WireInv
<1>3. GapInv'
  <2>1. CASE client' = client
    BY <2>1, GapKept DEF IInv, IsNext
  <2>2. CASE client = "socket"
    BY <2>2 DEF IInv, WireInv, GapInv
  <2> QED
    BY <2>1, <2>2
<1> QED
  BY <1>1, <1>2, <1>3 DEF IInv

----------------------------------------------------------------------------
(* The theorems.                                                           *)

\* Every step keeps it.
LEMMA StepHolds == IInv /\ [Next]_vars => IInv'
<1> SUFFICES ASSUME IInv, [Next]_vars PROVE IInv'
  OBVIOUS
<1>1. CASE Socket
  <2>1. TypeInv'
    BY <1>1 DEF IInv, TypeInv, Socket, setup, filterVars, serverVars
  <2>2. Undisturbed
    BY <1>1 DEF Undisturbed, Socket, filterVars
  <2> QED
    BY <2>1, <2>2, OthersKeep
<1>2. CASE Func
  BY <1>2, FuncKeeps
<1>3. CASE Lose
  BY <1>3, LoseKeeps
<1>4. CASE Arrive
  BY <1>4, ArriveKeeps
<1>5. CASE Report
  <2>1. /\ reported' = [reported EXCEPT ![Cpu] = ReportOf(pkt[Cpu])]
        /\ UNCHANGED <<pkt, verdict, operatorflag>>
    BY <1>5, FilterOperators DEF Report, Filter!Report
  <2>2. PICK n \in Positions, b \in BOOLEAN : pkt[Cpu] = Packet(n, b)
    BY DEF IInv, TypeInv
  <2>3. reported' \in [{Cpu} -> {<<>>} \cup {ReportOf(Packet(i, m)) : i \in Positions, m \in BOOLEAN}]
    BY <2>1, <2>2 DEF IInv, TypeInv
  <2>4. script' \in {"recv", "drop", "dead"}
    BY <1>5 DEF IInv, TypeInv, Report
  <2>5. TypeInv'
    BY <1>5, <2>1, <2>3, <2>4
    DEF IInv, TypeInv, Report, setup, clientVars, serverVars
  <2>6. Undisturbed
    BY <1>5, <2>1 DEF Undisturbed, Report, clientVars
  <2> QED
    BY <2>5, <2>6, OthersKeep
<1>6. CASE Decide
  BY <1>6, DecideKeeps
<1>7. CASE Answer
  <2>1. operatorflag' = 2 /\ UNCHANGED <<pkt, reported, verdict>>
    BY <1>7 DEF Answer, Filter!Command
  <2>2. TypeInv'
    BY <1>7, <2>1 DEF IInv, TypeInv, Answer, setup, clientVars, serverVars
  <2>3. Undisturbed
    BY <1>7, <2>1 DEF Undisturbed, Answer, clientVars
  <2> QED
    BY <2>2, <2>3, OthersKeep
<1>8. CASE Die
  <2>1. TypeInv'
    BY <1>8 DEF IInv, TypeInv, Die, setup, clientVars, filterVars, serverVars
  <2>2. Undisturbed
    BY <1>8 DEF Undisturbed, Die, clientVars, filterVars
  <2> QED
    BY <2>1, <2>2, OthersKeep
<1>9. ASSUME ServerStart \/ Recvfrom \/ RecvfromFails PROVE IInv'
  <2>1. queue' \in Seq(Range(eventbuffer))
    <3>1. \/ queue' = queue
          \/ queue' = <<>>
          \/ queue # <<>> /\ queue' = Tail(queue)
      BY <1>9 DEF ServerStart, Recvfrom, RecvfromFails, ServerExit
    <3> DEFINE Events == Range(eventbuffer)
    <3>2. queue \in Seq(Events)
      BY DEF IInv, TypeInv
    <3>3. queue' \in Seq(Events)
      <4> HIDE DEF Events
      <4>1. CASE queue' = queue
        BY <3>2, <4>1
      <4>2. CASE queue' = <<>>
        BY <4>2
      <4>3. CASE queue # <<>> /\ queue' = Tail(queue)
        BY <3>2, <4>3
      <4> QED
        BY <3>1, <4>1, <4>2, <4>3
    <3> QED
      BY <3>3
  <2>2. /\ server' \in {"socket", "bind", "recv", "exited"}
        /\ sockfd' \in {"open", "overwritten"}
    BY <1>9 DEF IInv, TypeInv, ServerStart, Recvfrom, RecvfromFails, ServerExit
  <2>3. UNCHANGED <<setup, clientVars, wire, at, filterVars, named, script, last>>
    BY <1>9 DEF ServerStart, Recvfrom, RecvfromFails
  <2>4. TypeInv'
    BY <2>1, <2>2, <2>3 DEF IInv, TypeInv, setup, clientVars, filterVars
  <2>5. Undisturbed
    BY <2>3 DEF Undisturbed, clientVars, filterVars
  <2> QED
    BY <2>4, <2>5, OthersKeep
<1>10. CASE UNCHANGED vars
  <2>1. TypeInv'
    BY <1>10 DEF IInv, TypeInv, vars, setup, clientVars, filterVars, serverVars
  <2>2. Undisturbed
    BY <1>10 DEF Undisturbed, vars, clientVars, filterVars
  <2> QED
    BY <2>1, <2>2, OthersKeep
<1> QED
  BY <1>1, <1>2, <1>3, <1>4, <1>5, <1>6, <1>7, <1>8, <1>9, <1>10
  DEF Next, HookStep, ServerStep

\* So it is an invariant.
LEMMA Invariant == Spec => []IInv
BY InitHolds, StepHolds, PTL DEF Spec

\* Every variable of the demo keeps its range (uclient.c:145-189,
\* netFilter.c:83-235, udpserver.c:12-47).
THEOREM TypeOKCorrect == Spec => []TypeOK
<1>1. IInv => TypeOK
  BY DEF IInv, TypeInv, TypeOK
<1> QED
  BY <1>1, Invariant, PTL

\* What the server receives next is what the client sent next, but for lost
\* datagrams and for messages B dropped on command, whatever the addresses and
\* however much is on its way (uclient.c:36-55, netFilter.c:127-184,
\* udpserver.c:28-45).
THEOREM OnlyBsMissingCorrect == Spec => OnlyBsMissing
<1>1. IInv /\ [Next]_vars =>
        [Len(queue') > Len(queue) /\ last # <<>> =>
           \A k \in Between(last[1], last'[1]) :
             Event(k) = "B" /\ Match /\ operatorflag = 2]_vars
  <2> SUFFICES ASSUME IInv, Next, Len(queue') > Len(queue), last # <<>>,
                      NEW k \in Between(last[1], last'[1])
               PROVE  Skippable(k)
    BY DEF Skippable
  <2>1. queue \in Seq(Range(eventbuffer))
    BY DEF IInv, TypeInv
  <2>2. Decide
    <3>1. ~(UNCHANGED queue)
      BY <2>1
    <3>2. ASSUME ServerExit PROVE FALSE
      BY <2>1, <3>2 DEF ServerExit
    <3>3. ASSUME Recvfrom PROVE FALSE
      BY <2>1, <3>3 DEF Recvfrom
    <3> QED
      BY <3>1, <3>2, <3>3
      DEF Next, Socket, Func, Lose, Arrive, HookStep, Report, Answer, Die,
          ServerStart, ServerStep, RecvfromFails, serverVars
  <2>3. last' = at
    BY <2>1, <2>2 DEF Decide, Deliver, serverVars
  <2>4. PICK i \in Positions : at = <<i>>
    BY <2>2 DEF IInv, TypeInv, HookInv, Decide, Filter!Decide
  <2> QED
    BY <2>3, <2>4 DEF IInv, GapInv, IsNext
<1> QED
  BY <1>1, Invariant, PTL DEF Spec, OnlyBsMissing

----------------------------------------------------------------------------
(* What the reports say.                                                   *)

\* Reading a configured text and writing the address gives the text again.
LEMMA ConfiguredTextKept ==
  ASSUME NEW c \in Confs, NEW text \in {c.sourceip, c.targetip}
  PROVE  InNtoa(InAton(text)) = Quoted(text)
<1>1. PICK in \in [1 .. 4 -> Byte] : text = Dotted(in)
  BY ConfsAssumption
<1>2. InAton(Dotted(in)) = in
  BY InAtonOfDotted
<1> QED BY <1>1, <1>2, Zenon DEF InNtoa

\* What is reported was between the configured addresses.
LEMMA ReportedMatches == IInv /\ Report => Match
<1> SUFFICES ASSUME IInv, Report PROVE Match
  OBVIOUS
<1>1. verdict[Cpu] = "pending" /\ Reportable(pkt[Cpu])
  BY FilterOperators DEF Report, Filter!Report
<1>2. pkt[Cpu] = Packet(at[1], Match)
  BY <1>1 DEF IInv, HookInv
<1> QED BY <1>1, <1>2 DEF Reportable, Packet

\* A report calls the addresses what the configuration calls them, whatever
\* addresses are configured (netFilter.c:127-131, 178, dealConf.c:194-238).
THEOREM ReportNamesConfiguredCorrect == Spec => []ReportNamesConfigured
<1>1. Init => ReportNamesConfigured
  BY DEF Init, ReportNamesConfigured
<1>2. IInv /\ ReportNamesConfigured /\ [Next]_vars => ReportNamesConfigured'
  <2> SUFFICES ASSUME IInv, ReportNamesConfigured, [Next]_vars
               PROVE  ReportNamesConfigured'
    OBVIOUS
  <2>1. CASE Report
    <3>1. /\ named' = <<InNtoa(route.saddr), InNtoa(route.daddr)>>
          /\ conf' = conf
      BY <2>1 DEF Report, setup
    <3>2. route.saddr = InAton(conf.sourceip) /\ route.daddr = InAton(conf.targetip)
      BY <2>1, ReportedMatches DEF Match
    <3>3. conf \in Confs
      BY DEF IInv, TypeInv
    <3>4. /\ InNtoa(InAton(conf.sourceip)) = Quoted(conf.sourceip)
          /\ InNtoa(InAton(conf.targetip)) = Quoted(conf.targetip)
      BY <3>3, ConfiguredTextKept
    <3>5. named' = <<Quoted(conf.sourceip), Quoted(conf.targetip)>>
      BY <3>1, <3>2, <3>4, Zenon
    <3> QED BY <3>1, <3>5, Zenon DEF ReportNamesConfigured
  <2>2. CASE UNCHANGED <<setup, named>>
    BY <2>2, Zenon DEF ReportNamesConfigured, setup
  <2> QED
    BY <2>1, <2>2
    DEF Next, Socket, Func, Lose, Arrive, HookStep, Decide, Answer, Die,
        ServerStart, ServerStep, Recvfrom, RecvfromFails, vars
<1> QED
  BY <1>1, <1>2, Invariant, PTL DEF Spec
=============================================================================
