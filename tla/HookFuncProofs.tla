-------------------------- MODULE HookFuncProofs --------------------------
(***************************************************************************)
(* Theorems about HookFunc: what holds on any number of CPUs, and what     *)
(* holds on one.                                                           *)
(***************************************************************************)
EXTENDS HookFunc, TLAPS

(***************************************************************************)
(* Types, on any number of CPUs.                                           *)
(***************************************************************************)

\* Where a CPU may be while it writes a buffer.
WritePcs == {"body", "open", "close", "copy", "msg"}

TypeInv == TypeOK /\ \A c \in Cpus : buf[c] # "none" => pc[c] \in WritePcs

\* A part of a text is a text.
LEMMA SubSeqType ==
  ASSUME NEW s \in Text, NEW m \in Nat, NEW n \in Nat,
         1 <= m, n <= Len(s)
  PROVE  SubSeq(s, m, n) \in Text
  BY DEF Text

\* What a read returns is a text.
LEMMA ReadType ==
  ASSUME TypeInv, NEW b \in Buffers PROVE Read(b) \subseteq Text
  BY TextsAssumption DEF Read, TypeInv, TypeOK

LEMMA ReadBodyType ==
  ASSUME TypeInv, NEW c \in Cpus
  PROVE  ReadBody(c) \subseteq Text
<1> DEFINE b == mem["tcp_udp_body"]
<1>1. b \in Text /\ Len(b) \in Nat
  BY DEF TypeInv, TypeOK, Buffers, Text
<1>2. start[c] \in Nat /\ 1 <= start[c]
  BY DEF TypeInv, TypeOK
<1>3. SubSeq(b, start[c], Len(b)) \in Text
  BY <1>1, <1>2, SubSeqType
<1> QED
  BY <1>3, TextsAssumption DEF ReadBody

\* A write that begins at one of the places for it.
LEMMA WriteType ==
  ASSUME TypeInv, NEW c \in Cpus, NEW b \in Buffers, NEW s \in Text,
         pc[c] \in WritePcs, Write(c, b, s)
  PROVE  TypeInv'
  BY DEF TypeInv, TypeOK, Write, local, observed

\* hook_func keeps every variable in its range, whatever the CPUs do to each
\* other's buffers.
THEOREM TypeCorrect == Spec => []TypeInv
<1>1. Init => TypeInv
  <2>1. (CHOOSE p \in Packets : TRUE) \in Packets
    <3>1. PICK x \in Protos, s \in Bodies : TRUE
      BY TextsAssumption
    <3>2. [proto |-> x, match |-> TRUE, body |-> s] \in Packets
      BY DEF Packets
    <3> QED
      BY <3>2
  <2>2. <<>> \in Text
    BY DEF Text
  <2> QED
    BY <2>1, <2>2 DEF Init, TypeInv, TypeOK
<1>2. TypeInv /\ [Next]_vars => TypeInv'
  <2> SUFFICES ASSUME TypeInv, [Next]_vars PROVE TypeInv'
    OBVIOUS
  <2>2. ASSUME NEW c \in Cpus, CopyBody(c) PROVE TypeInv'
    <3>1. pkt[c].body \in Text
      BY TextsAssumption DEF Packets, TypeInv, TypeOK
    <3> QED
      BY <2>2, <3>1, WriteType DEF CopyBody, At, Buffers, WritePcs
  <2>3. ASSUME NEW c \in Cpus, SprintfOpen(c) PROVE TypeInv'
    <3>1. <<OpenTag>> \in Text
      <4>1. OpenTag \in Chars
        BY TextsAssumption
      <4> QED
        BY <4>1 DEF Text
    <3> QED
      BY <2>3, <3>1, WriteType DEF SprintfOpen, At, Buffers, WritePcs
  <2>4. ASSUME NEW c \in Cpus, SprintfClose(c) PROVE TypeInv'
    <3>1. <<CloseTag>> \in Text
      <4>1. CloseTag \in Chars
        BY TextsAssumption
      <4> QED
        BY <4>1 DEF Text
    <3> QED
      BY <2>4, <3>1, WriteType DEF SprintfClose, At, Buffers, WritePcs
  <2>5. ASSUME NEW c \in Cpus, CopyMessage(c) PROVE TypeInv'
    <3>1. PICK s \in ReadBody(c) :
            Write(c, "xmldest",
                  SubSeq(s, 1, IF len[c] <= Len(s) THEN len[c] ELSE Len(s)))
      BY <2>5 DEF CopyMessage
    <3> DEFINE n == IF len[c] <= Len(s) THEN len[c] ELSE Len(s)
    <3>2. s \in Text
      BY ReadBodyType
    <3>3. n \in Nat /\ n <= Len(s)
      BY <3>2 DEF TypeInv, TypeOK, Text
    <3>4. SubSeq(s, 1, n) \in Text
      BY <3>2, <3>3, SubSeqType
    <3> QED
      BY <2>5, <3>1, <3>4, WriteType DEF CopyMessage, At, Buffers, WritePcs
  <2>6. ASSUME NEW c \in Cpus, SprintfReport(c) PROVE TypeInv'
    <3>1. pkt[c].proto \in Chars
      BY TextsAssumption DEF Packets, TypeInv, TypeOK
    <3>2. \A s \in Read("tcp_udp_body") : <<pkt[c].proto>> \o s \in Text
      BY <3>1, ReadType DEF Buffers, Text
    <3>3. <<pkt[c].proto>> \in Text
      BY <3>1 DEF Text
    <3> QED
      BY <2>6, <3>2, <3>3, WriteType DEF SprintfReport, At, Buffers, WritePcs
  <2>7. ASSUME NEW c \in Cpus, At(c, "find") \/ At(c, "match"), Empty(c)
        PROVE  TypeInv'
    <3>1. <<>> \in Text
      BY DEF Text
    <3> QED
      BY <2>7, <3>1 DEF TypeInv, TypeOK, Empty, At, Goto, Buffers, local, observed
  <2>8. ASSUME NEW c \in Cpus, FindOpen(c) PROVE TypeInv'
    <3>1. PICK s \in ReadBody(c) : \E i \in 0 .. Len(s) :
            IF i = 0 THEN Empty(c)
            ELSE /\ start' = [start EXCEPT ![c] = @ + i - 1]
                 /\ Goto(c, "skip")
                 /\ UNCHANGED <<mem, dirty, buf, val, len, observed>>
      BY <2>8 DEF FindOpen
    <3>2. PICK i \in 0 .. Len(s) :
            IF i = 0 THEN Empty(c)
            ELSE /\ start' = [start EXCEPT ![c] = @ + i - 1]
                 /\ Goto(c, "skip")
                 /\ UNCHANGED <<mem, dirty, buf, val, len, observed>>
      BY <3>1
    <3>3. i \in Nat
      BY ReadBodyType DEF Text
    <3>4. CASE i = 0
      BY <2>7, <2>8, <3>2, <3>4 DEF FindOpen
    <3>5. CASE i # 0
      <4>1. start[c] + i - 1 \in Nat \ {0}
        BY <3>3, <3>5 DEF TypeInv, TypeOK
      <4>2. /\ start' = [start EXCEPT ![c] = @ + i - 1]
            /\ Goto(c, "skip")
            /\ UNCHANGED <<mem, dirty, buf, val, len, observed>>
        BY <3>2, <3>5
      <4>3. start' \in [Cpus -> Nat \ {0}]
        BY <4>1, <4>2 DEF TypeInv, TypeOK
      <4> QED
        BY <2>8, <4>2, <4>3
        DEF FindOpen, TypeInv, TypeOK, At, Goto, observed
    <3> QED
      BY <3>4, <3>5
  <2>9. ASSUME NEW c \in Cpus, SkipOpen(c) PROVE TypeInv'
    <3>1. PICK t \in Read("newcontent") :
            start' = [start EXCEPT ![c] = @ + Strlen(t)]
      BY <2>9 DEF SkipOpen
    <3>2. Strlen(t) \in Nat
      BY ReadType DEF Strlen, Buffers, Text
    <3>3. start[c] + Strlen(t) \in Nat \ {0}
      BY <3>2 DEF TypeInv, TypeOK
    <3> QED
      BY <2>9, <3>1, <3>3 DEF SkipOpen, TypeInv, TypeOK, At, Goto, observed
  <2>10. ASSUME NEW c \in Cpus, FindClose(c) PROVE TypeInv'
    <3>1. PICK s \in ReadBody(c) : \E i \in 0 .. Len(s) :
            IF i \in {0, 1} THEN Empty(c)
            ELSE /\ len' = [len EXCEPT ![c] = i - 1]
                 /\ Goto(c, "copy")
                 /\ UNCHANGED <<mem, dirty, buf, val, start, observed>>
      BY <2>10 DEF FindClose
    <3>2. PICK i \in 0 .. Len(s) :
            IF i \in {0, 1} THEN Empty(c)
            ELSE /\ len' = [len EXCEPT ![c] = i - 1]
                 /\ Goto(c, "copy")
                 /\ UNCHANGED <<mem, dirty, buf, val, start, observed>>
      BY <3>1
    <3>3. i \in Nat
      BY ReadBodyType DEF Text
    <3>4. CASE i \in {0, 1}
      BY <2>7, <2>10, <3>2, <3>4 DEF FindClose
    <3>5. CASE i \notin {0, 1}
      <4>1. i - 1 \in Nat
        BY <3>3, <3>5
      <4>2. /\ len' = [len EXCEPT ![c] = i - 1]
            /\ Goto(c, "copy")
            /\ UNCHANGED <<mem, dirty, buf, val, start, observed>>
        BY <3>2, <3>5
      <4>3. len' \in [Cpus -> Nat]
        BY <4>1, <4>2 DEF TypeInv, TypeOK
      <4> QED
        BY <2>10, <4>2, <4>3
        DEF FindClose, TypeInv, TypeOK, At, Goto, observed
    <3> QED
      BY <3>4, <3>5
  <2>11. ASSUME NEW c \in Cpus, Compare(c) PROVE TypeInv'
    BY <2>11 DEF Compare, TypeInv, TypeOK, At, Goto, observed
  <2>12. ASSUME NEW c \in Cpus, SendReport(c) PROVE TypeInv'
    <3>1. reported' \in [Cpus -> Text]
      <4>1. \A s \in Text, n \in Nat :
              SubSeq(s, 1, IF n <= Len(s) THEN n ELSE Len(s)) \in Text
        BY DEF Text
      <4>2. Read("mymessagebuf") \subseteq Text
        BY ReadType DEF Buffers
      <4>3. len[c] \in Nat /\ reported \in [Cpus -> Text]
        BY DEF TypeInv, TypeOK
      <4>4. ASSUME NEW s \in Read("mymessagebuf"),
                   reported' = [reported EXCEPT ![c] =
                     SubSeq(s, 1, IF len[c] <= Len(s) THEN len[c] ELSE Len(s))]
            PROVE  reported' \in [Cpus -> Text]
        <5> DEFINE t == SubSeq(s, 1, IF len[c] <= Len(s) THEN len[c] ELSE Len(s))
        <5>1. t \in Text
          BY <4>1, <4>2, <4>3
        <5>2. reported' = [reported EXCEPT ![c] = t]
          BY <4>4
        <5> HIDE DEF t
        <5> QED
          BY <4>3, <5>1, <5>2
      <4> QED
        BY <2>12, <4>3, <4>4 DEF SendReport
    <3>2. pc' \in [Cpus -> {"idle", "body", "open", "find", "skip", "close",
                 "match", "copy", "cmp", "msg", "send", "strcpy", "flag", "accept"}]
      BY <2>12 DEF SendReport, AfterReport, TypeInv, TypeOK, Goto
    <3> QED
      BY <2>12, <3>1, <3>2 DEF SendReport, TypeInv, TypeOK, At, Goto
  <2>18. ASSUME NEW c \in Cpus, SizeReport(c) PROVE TypeInv'
    <3>1. len' \in [Cpus -> Nat]
      <4>1. \A s \in Read("mymessagebuf") : Len(s) \in Nat
        BY ReadType DEF Buffers, Text
      <4> QED
        BY <2>18, <4>1 DEF SizeReport, TypeInv, TypeOK
    <3>2. pc[c] = "send" /\ (Goto(c, "strcpy") \/ Goto(c, "flag") \/ Goto(c, "accept"))
      BY <2>18 DEF SizeReport, AfterReport, At
    <3> QED
      BY <2>18, <3>1, <3>2 DEF SizeReport, TypeInv, TypeOK, At, Goto, observed
  <2>13. ASSUME NEW c \in Cpus, CheckFlag(c) \/ Accept(c) PROVE TypeInv'
    BY <2>13 DEF CheckFlag, Accept, Return, TypeInv, TypeOK, At, Goto, local
  <2>14. ASSUME NEW c \in Cpus, Written(c) PROVE TypeInv'
    <3>1. AfterWrite(c) \in {"open", "msg", "find", "match", "cmp", "send"}
      BY <2>14 DEF Written, AfterWrite, TypeInv, WritePcs
    <3>2. mem' \in [Buffers -> Text] /\ dirty' \in [Buffers -> SUBSET Cpus]
      <4>1. buf[c] \in Buffers /\ val[c] \in Text
        BY <2>14 DEF Written, TypeInv, TypeOK
      <4>2. \/ UNCHANGED <<mem, dirty>>
            \/ /\ mem' = [mem EXCEPT ![buf[c]] = val[c]]
               /\ dirty' = [dirty EXCEPT ![buf[c]] = {}]
        BY <2>14 DEF Written
      <4> QED
        BY <4>1, <4>2 DEF TypeInv, TypeOK
    <3>3. <<>> \in Text
      BY DEF Text
    <3> QED
      BY <2>14, <3>1, <3>2, <3>3
      DEF Written, TypeInv, TypeOK, Goto, local, observed
  <2>15. ASSUME NEW c \in Cpus, NEW p \in Packets, Arrive(c, p) PROVE TypeInv'
    <3>1. <<>> \in Text
      BY DEF Text
    <3> QED
      BY <2>15, <3>1 DEF Arrive, TypeInv, TypeOK, At, Goto, local
  <2>16. CASE Command
    BY <2>16 DEF Command, TypeInv, TypeOK, local
  <2>17. CASE UNCHANGED vars
    BY <2>17 DEF vars, TypeInv, TypeOK, local, observed
  <2> QED
    BY <2>2, <2>3, <2>4, <2>5, <2>6, <2>8, <2>9, <2>10, <2>11, <2>12, <2>13,
       <2>14, <2>15, <2>16, <2>17, <2>18 DEF Next, Step
<1> QED
  BY <1>1, <1>2, PTL DEF Spec

\* The type invariant TLC checks.
COROLLARY TypeOKCorrect == Spec => []TypeOK
<1>1. TypeInv => TypeOK
  BY DEF TypeInv
<1> QED
  BY <1>1, TypeCorrect, PTL

(***************************************************************************)
(* Verdicts, on any number of CPUs.                                        *)
(***************************************************************************)

\* The way to a verdict: past the address check, and on the UDP branch from
\* the call of extract on.
PathInv ==
  \A c \in Cpus :
    /\ pc[c] \notin {"idle", "accept"} => pkt[c].match
    /\ pc[c] \in {"open", "find", "skip", "close", "match", "copy", "cmp", "flag"}
         => pkt[c].proto = "UDP"

\* A race for the buffers never makes hook_func drop a packet that is not UDP,
\* or one that comes while the operator has not said drop.
THEOREM DropsOnCommandOnlyCorrect == Spec => DropsOnCommandOnly
<1>1. Init => PathInv
  BY DEF Init, PathInv
<1>2. TypeInv /\ PathInv /\ [Next]_vars => PathInv'
  <2> SUFFICES ASSUME TypeInv, PathInv, [Next]_vars PROVE PathInv'
    OBVIOUS
  <2> USE DEF PathInv, TypeInv, TypeOK
  <2>1. ASSUME NEW c \in Cpus, NEW p \in Packets, Arrive(c, p) PROVE PathInv'
    BY <2>1 DEF Arrive, Goto
  <2>2. ASSUME NEW c \in Cpus,
               CopyBody(c) \/ SprintfOpen(c) \/ SprintfClose(c)
                 \/ CopyMessage(c) \/ SprintfReport(c)
        PROVE  PathInv'
    <3>1. UNCHANGED <<pc, pkt>>
      BY <2>2 DEF CopyBody, SprintfOpen, SprintfClose, CopyMessage,
                  SprintfReport, Write, observed
    <3> QED
      BY <3>1
  <2>3. ASSUME NEW c \in Cpus, FindOpen(c) PROVE PathInv'
    <3>1. pc[c] = "find" /\ (Goto(c, "cmp") \/ Goto(c, "skip")) /\ pkt' = pkt
      BY <2>3 DEF FindOpen, At, Empty, observed
    <3> QED
      BY <3>1 DEF Goto
  <2>4. ASSUME NEW c \in Cpus, SkipOpen(c) PROVE PathInv'
    BY <2>4 DEF SkipOpen, At, Goto, observed
  <2>5. ASSUME NEW c \in Cpus, FindClose(c) PROVE PathInv'
    <3>1. pc[c] = "match" /\ (Goto(c, "cmp") \/ Goto(c, "copy")) /\ pkt' = pkt
      BY <2>5 DEF FindClose, At, Empty, observed
    <3> QED
      BY <3>1 DEF Goto
  <2>6. ASSUME NEW c \in Cpus, Compare(c) PROVE PathInv'
    BY <2>6 DEF Compare, At, Goto, observed
  <2>7. ASSUME NEW c \in Cpus, SendReport(c) PROVE PathInv'
    BY <2>7 DEF SendReport, AfterReport, At, Goto
  <2>12. ASSUME NEW c \in Cpus, SizeReport(c) PROVE PathInv'
    BY <2>12 DEF SizeReport, AfterReport, At, Goto, observed
  <2>8. ASSUME NEW c \in Cpus, CheckFlag(c) \/ Accept(c) PROVE PathInv'
    BY <2>8 DEF CheckFlag, Accept, Return, Goto
  <2>9. ASSUME NEW c \in Cpus, Written(c) PROVE PathInv'
    <3>1. pc[c] \in WritePcs /\ Goto(c, AfterWrite(c)) /\ pkt' = pkt
      BY <2>9 DEF Written, observed
    <3> QED
      BY <3>1 DEF Goto, AfterWrite, WritePcs
  <2>10. CASE Command
    BY <2>10 DEF Command
  <2>11. CASE UNCHANGED vars
    BY <2>11 DEF vars, observed
  <2> QED
    BY <2>1, <2>2, <2>3, <2>4, <2>5, <2>6, <2>7, <2>8, <2>9, <2>10, <2>11, <2>12
    DEF Next, Step
<1>3. TypeInv /\ PathInv /\ [Next]_vars =>
        [\A c \in Cpus :
           verdict[c] = "pending" /\ verdict'[c] = "DROP" =>
             operatorflag = 2 /\ pkt[c].match /\ pkt[c].proto = "UDP"]_vars
  <2> SUFFICES ASSUME TypeInv, PathInv, [Next]_vars, NEW c \in Cpus,
                      verdict[c] = "pending", verdict'[c] = "DROP"
               PROVE  operatorflag = 2 /\ pkt[c].match /\ pkt[c].proto = "UDP"
    OBVIOUS
  <2>1. \E d \in Cpus : CheckFlag(d) \/ Accept(d) \/ \E p \in Packets : Arrive(d, p)
    BY DEF Next, Step, vars, observed, CopyBody, SprintfOpen, FindOpen, SkipOpen,
           SprintfClose, FindClose, CopyMessage, Compare, SprintfReport,
           SizeReport, SendReport, Written, Write, Empty, Command
  <2>2. verdict \in [Cpus -> {"none", "pending", "ACCEPT", "DROP"}]
    BY DEF TypeInv, TypeOK
  <2>3. ~\E d \in Cpus : Accept(d) \/ \E p \in Packets : Arrive(d, p)
    <3>1. ASSUME NEW d \in Cpus, Accept(d) PROVE FALSE
      BY <3>1, <2>2 DEF Accept, Return
    <3>2. ASSUME NEW d \in Cpus, NEW p \in Packets, Arrive(d, p) PROVE FALSE
      BY <3>2, <2>2 DEF Arrive
    <3> QED
      BY <3>1, <3>2
  <2>4. PICK d \in Cpus : CheckFlag(d)
    BY <2>1, <2>3
  <2>5. CheckFlag(c) /\ operatorflag = 2
    BY <2>4, <2>2 DEF CheckFlag, Return
  <2> QED
    BY <2>5 DEF CheckFlag, At, PathInv
<1> QED
  BY <1>1, <1>2, <1>3, TypeCorrect, PTL DEF Spec, DropsOnCommandOnly

(***************************************************************************)
(* One CPU.                                                                *)
(***************************************************************************)

OneCpu == \A c, d \in Cpus : c = d

\* tag is in s at i and not before.
FirstAt(s, tag, i) ==
  i \in 1 .. Len(s) /\ s[i] = tag /\ \A j \in 1 .. i - 1 : s[j] # tag

\* What CPU c has in hand at each place of hook_func.
Progress(c) ==
  LET body == pkt[c].body IN
  /\ pc[c] # "idle" <=> verdict[c] = "pending"
  /\ pc[c] \notin {"idle", "flag", "accept"} => reported[c] = <<>>
  /\ pc[c] \in {"msg", "send", "strcpy", "flag"} => Filter!Reportable(pkt[c])
  /\ pc[c] = "accept" => ~Filter!Droppable(pkt[c])
  /\ pc[c] = "body" => pkt[c].match /\ pkt[c].proto \in {"TCP", "UDP"}
  /\ pc[c] \in {"open", "find", "skip", "close", "match", "copy", "cmp", "flag"} =>
       pkt[c].match /\ pkt[c].proto = "UDP"
  /\ pc[c] \notin {"skip", "close", "match", "copy", "cmp"} => start[c] = 1
  /\ pc[c] = "skip" => FirstAt(body, OpenTag, start[c])
  /\ pc[c] \in {"close", "match", "copy"} => FirstAt(body, OpenTag, start[c] - 1)
  /\ pc[c] = "copy" =>
       /\ len[c] >= 1 /\ start[c] + len[c] <= Len(body)
       /\ body[start[c] + len[c]] = CloseTag
       /\ \A j \in 0 .. len[c] - 1 : body[start[c] + j] # CloseTag

\* What the buffers hold when CPU c comes to read them.
Contents(c) ==
  /\ pc[c] \notin {"idle", "body", "accept"} /\ pkt[c].proto \in {"TCP", "UDP"} =>
       mem["tcp_udp_body"] = pkt[c].body
  /\ pc[c] \in {"find", "skip"} => mem["newcontent"] = <<OpenTag>>
  /\ pc[c] = "match" => mem["newcontent"] = <<CloseTag>>
  /\ pc[c] = "cmp" => (mem["xmldest"] = <<"B">> <=> Filter!IsB(pkt[c].body))
  /\ pc[c] \in {"send", "strcpy"} => mem["mymessagebuf"] = Filter!ReportOf(pkt[c])
  /\ pc[c] = "strcpy" => len[c] = Len(Filter!ReportOf(pkt[c]))

\* What CPU c has to write at each place that writes.
Due(c, b, text) ==
  CASE pc[c] = "body" -> b = "tcp_udp_body" /\ text = pkt[c].body
    [] pc[c] = "open" -> b = "newcontent" /\ text = <<OpenTag>>
    [] pc[c] = "close" -> b = "newcontent" /\ text = <<CloseTag>>
    [] pc[c] = "copy" -> b = "xmldest" /\ text =
         SubSeq(pkt[c].body, start[c], start[c] + len[c] - 1)
    [] pc[c] = "msg" -> b = "mymessagebuf" /\ text = Filter!ReportOf(pkt[c])
    [] OTHER -> FALSE

\* What CPU c is writing.
Writing(c) ==
  /\ \A b \in Buffers : dirty[b] = IF buf[c] = b THEN {c} ELSE {}
  /\ buf[c] # "none" => Due(c, buf[c], val[c])

FilterInv == \A c \in Cpus : Progress(c) /\ Contents(c) /\ Writing(c)

\* A text of one character.
LEMMA Single ==
  ASSUME NEW s \in Text, NEW x PROVE s = <<x>> <=> Len(s) = 1 /\ s[1] = x
<1>1. ASSUME s = <<x>> PROVE Len(s) = 1 /\ s[1] = x
  BY <1>1
<1>2. ASSUME Len(s) = 1, s[1] = x PROVE s = <<x>>
  BY <1>2 DEF Text
<1> QED
  BY <1>1, <1>2

\* strstr for a single tag.
LEMMA OccursTag ==
  ASSUME NEW s \in Text, NEW tag \in Chars, NEW i \in 1 .. Len(s)
  PROVE  Occurs(<<tag>>, s, i) <=> s[i] = tag
<1>1. Len(<<tag>>) = 1 /\ Len(s) \in Nat
  BY DEF Text
<1>2. SubSeq(s, i, i) \in Text /\ Len(SubSeq(s, i, i)) = 1 /\ SubSeq(s, i, i)[1] = s[i]
  BY DEF Text
<1>3. SubSeq(s, i, i) = <<tag>> <=> s[i] = tag
  BY <1>2, Single
<1> QED
  BY <1>1, <1>3 DEF Occurs

LEMMA StrstrTag ==
  ASSUME NEW s \in Text, NEW tag \in Chars, NEW i \in 0 .. Len(s),
         Strstr(s, <<tag>>, i)
  PROVE  /\ i = 0 => \A j \in 1 .. Len(s) : s[j] # tag
         /\ i # 0 => FirstAt(s, tag, i)
<1>1. Len(s) \in Nat
  BY DEF Text
<1> QED
  BY <1>1, OccursTag DEF Strstr, FirstAt

\* The rest of a text from m on.
LEMMA Rest ==
  ASSUME NEW s \in Text, NEW m \in 1 .. Len(s) + 1
  PROVE  LET r == SubSeq(s, m, Len(s)) IN
         /\ r \in Text /\ Len(r) = Len(s) - m + 1
         /\ \A j \in 1 .. Len(r) : r[j] = s[m + j - 1]
  BY DEF Text

LEMMA RestPart ==
  ASSUME NEW s \in Text, NEW m \in Nat, NEW n \in Nat, m >= 1, n >= 1,
         m + n - 1 <= Len(s)
  PROVE  SubSeq(SubSeq(s, m, Len(s)), 1, n) = SubSeq(s, m, m + n - 1)
<1> DEFINE r == SubSeq(s, m, Len(s))
           x == SubSeq(r, 1, n)
           y == SubSeq(s, m, m + n - 1)
<1>1. Len(s) \in Nat
  BY DEF Text
<1>2. r \in Text /\ Len(r) = Len(s) - m + 1 /\ \A j \in 1 .. Len(r) : r[j] = s[m + j - 1]
  BY <1>1, Rest
<1> HIDE DEF r
<1>3. x \in Text /\ Len(x) = n /\ \A j \in 1 .. n : x[j] = r[j]
  BY <1>1, <1>2 DEF Text
<1>4. y \in Text /\ Len(y) = n /\ \A j \in 1 .. n : y[j] = s[m + j - 1]
  BY <1>1 DEF Text
<1> HIDE DEF x, y
<1>5. \A j \in 1 .. n : x[j] = y[j]
  BY <1>1, <1>2, <1>3, <1>4
<1>6. x = y
  BY <1>3, <1>4, <1>5 DEF Text
<1> QED
  BY <1>6 DEF x, y, r

\* IsB, seen from the place where extract found the opening tag.
LEMMA IsBFrom ==
  ASSUME NEW s \in Text, NEW i \in Nat, FirstAt(s, OpenTag, i)
  PROVE  Filter!IsB(s) <=>
           i + 2 <= Len(s) /\ s[i + 1] = "B" /\ s[i + 2] = CloseTag
<1>1. Len(s) \in Nat /\ Filter!OpenTag = OpenTag /\ Filter!CloseTag = CloseTag
  BY DEF Text, Filter!OpenTag, Filter!CloseTag, OpenTag, CloseTag
<1>2. \A j \in 1 .. Len(s) : FirstAt(s, OpenTag, j) => j = i
  BY <1>1 DEF FirstAt
<1>3. Filter!IsB(s) <=> \E j \in 1 .. Len(s) : FirstAt(s, OpenTag, j)
                          /\ j + 2 <= Len(s) /\ s[j + 1] = "B" /\ s[j + 2] = CloseTag
  BY <1>1 DEF Filter!IsB, FirstAt
<1> QED
  BY <1>1, <1>2, <1>3 DEF FirstAt

LEMMA NoTagNoB ==
  ASSUME NEW s \in Text, \A j \in 1 .. Len(s) : s[j] # OpenTag
  PROVE  ~Filter!IsB(s)
  BY DEF Filter!IsB, Filter!OpenTag, OpenTag

LEMMA TagNotB == CloseTag # "B"
  BY DEF CloseTag

\* The element extract copies is "B" exactly if the body's message is B.
LEMMA CopiedIsB ==
  ASSUME NEW s \in Text, NEW m \in Nat, NEW n \in Nat, m >= 1, n >= 1,
         FirstAt(s, OpenTag, m - 1), m + n <= Len(s), s[m + n] = CloseTag,
         \A j \in 0 .. n - 1 : s[m + j] # CloseTag
  PROVE  SubSeq(s, m, m + n - 1) = <<"B">> <=> Filter!IsB(s)
<1> DEFINE t == SubSeq(s, m, m + n - 1)
<1>1. Len(s) \in Nat /\ Len(t) = n /\ t \in Text /\ t[1] = s[m]
  BY DEF Text
<1>2. Filter!IsB(s) <=> m + 1 <= Len(s) /\ s[m] = "B" /\ s[m + 1] = CloseTag
  BY <1>1, IsBFrom
<1>3. t = <<"B">> <=> n = 1 /\ s[m] = "B"
  BY <1>1, Single
<1>4. s[m + 1] = CloseTag /\ s[m] = "B" => n = 1
  BY <1>1
<1> QED
  BY <1>1, <1>2, <1>3, <1>4, TagNotB

Inv(c) == Progress(c) /\ Contents(c) /\ Writing(c)

\* With one CPU it is enough to look at that one.
LEMMA OnlyOne ==
  ASSUME OneCpu, NEW c \in Cpus, Inv(c)' PROVE FilterInv'
  BY DEF OneCpu, FilterInv, Inv

\* The facts about CPU c that every case starts from.
LEMMA Facts ==
  ASSUME TypeInv, FilterInv, NEW c \in Cpus
  PROVE  /\ Progress(c) /\ Contents(c) /\ Writing(c)
         /\ pkt[c] \in Packets /\ pkt[c].body \in Text /\ pkt[c].proto \in Chars
         /\ pkt[c].match \in BOOLEAN
         /\ start[c] \in Nat \ {0} /\ len[c] \in Nat
         /\ \A b \in Buffers : mem[b] \in Text
         /\ buf[c] = "none" => \A b \in Buffers : Read(b) = {mem[b]}
  BY TextsAssumption DEF FilterInv, TypeInv, TypeOK, Packets, Writing, Read, Buffers

\* A write that begins keeps the invariant if it writes what Writing says.
LEMMA WriteStep ==
  ASSUME OneCpu, TypeInv, FilterInv, NEW c \in Cpus, NEW b \in Buffers, NEW s,
         buf[c] = "none", Write(c, b, s), Due(c, b, s)
  PROVE  FilterInv'
<1>1. UNCHANGED <<mem, pc, start, len, pkt, reported, verdict, operatorflag>>
  BY DEF Write, local, observed
<1>2. Progress(c)' /\ Contents(c)'
  BY <1>1, Facts DEF Progress, Contents
<1>3. buf'[c] = b /\ val'[c] = s
  BY DEF Write, TypeInv, TypeOK
<1>4. \A a \in Buffers : dirty'[a] = IF buf'[c] = a THEN {c} ELSE {}
  <2>1. {d \in Cpus : buf[d] = b} = {}
    BY DEF OneCpu, Buffers
  <2>2. \A a \in Buffers : dirty[a] = {}
    BY Facts DEF Writing, Buffers
  <2> QED
    BY <2>1, <2>2, <1>3 DEF Write, TypeInv, TypeOK
<1>5. Writing(c)'
  BY <1>1, <1>3, <1>4 DEF Writing, Due
<1> QED
  BY <1>2, <1>5, OnlyOne DEF Inv

\* Between two accesses to the buffers nothing is being written.
LEMMA Quiet ==
  ASSUME TypeInv, FilterInv, NEW c \in Cpus, buf[c] = "none",
         UNCHANGED <<dirty, buf>>
  PROVE  Writing(c)'
<1>1. \A b \in Buffers : dirty[b] = {}
  BY Facts DEF Writing, Buffers
<1> QED
  BY <1>1 DEF Writing, Buffers

\* The writes of hook_func and extract.
LEMMA WritesStep ==
  ASSUME OneCpu, TypeInv, FilterInv, NEW c \in Cpus,
         CopyBody(c) \/ SprintfOpen(c) \/ SprintfClose(c) \/ CopyMessage(c)
           \/ SprintfReport(c)
  PROVE  FilterInv'
<1>1. CASE CopyBody(c)
  BY <1>1, WriteStep DEF CopyBody, At, Due, Buffers
<1>2. CASE SprintfOpen(c)
  BY <1>2, WriteStep DEF SprintfOpen, At, Due, Buffers
<1>3. CASE SprintfClose(c)
  BY <1>3, WriteStep DEF SprintfClose, At, Due, Buffers
<1>4. CASE CopyMessage(c)
  <2> DEFINE b == pkt[c].body
             r == SubSeq(b, start[c], Len(b))
  <2>1. buf[c] = "none" /\ pc[c] = "copy"
    BY <1>4 DEF CopyMessage, At
  <2>2. FirstAt(b, OpenTag, start[c] - 1) /\ len[c] >= 1 /\ start[c] + len[c] <= Len(b)
    BY <2>1, Facts DEF Progress
  <2>3. pkt[c].proto = "UDP" /\ mem["tcp_udp_body"] = b /\ dirty["tcp_udp_body"] = {}
    BY <2>1, Facts DEF Progress, Contents, Writing, Buffers
  <2>4. ReadBody(c) = {r}
    BY <2>2, <2>3, Facts DEF ReadBody, Text
  <2>5. SubSeq(r, 1, IF len[c] <= Len(r) THEN len[c] ELSE Len(r))
          = SubSeq(b, start[c], start[c] + len[c] - 1)
    <3>1. Len(r) = Len(b) - start[c] + 1 /\ Len(b) \in Nat
      BY <2>2, Facts, Rest DEF Text
    <3>2. len[c] <= Len(r)
      BY <2>2, <3>1, Facts
    <3>3. SubSeq(r, 1, len[c]) = SubSeq(b, start[c], start[c] + len[c] - 1)
      <4>1. b \in Text /\ start[c] \in Nat /\ len[c] \in Nat /\ start[c] >= 1
        BY Facts
      <4>2. len[c] >= 1 /\ start[c] + len[c] - 1 <= Len(b)
        BY <2>2, <3>1, <4>1
      <4> HIDE DEF b
      <4> QED
        BY <4>1, <4>2, RestPart
    <3> QED
      BY <3>2, <3>3
  <2> QED
    BY <1>4, <2>1, <2>4, <2>5, WriteStep DEF CopyMessage, Due, Buffers
<1>5. CASE SprintfReport(c)
  <2>1. buf[c] = "none" /\ pc[c] = "msg"
    BY <1>5 DEF SprintfReport, At
  <2>2. pkt[c].proto \in {"TCP", "UDP"} => Read("tcp_udp_body") = {pkt[c].body}
    BY <2>1, Facts DEF Contents, Buffers
  <2>3. Write(c, "mymessagebuf", Filter!ReportOf(pkt[c]))
    BY <1>5, <2>2 DEF SprintfReport, Filter!ReportOf
  <2> QED
    BY <2>1, <2>3, WriteStep DEF Due, Buffers
<1> QED
  BY <1>1, <1>2, <1>3, <1>4, <1>5

\* extract gives up: rightly so if the message is not B.
LEMMA EmptyStep ==
  ASSUME OneCpu, TypeInv, FilterInv, NEW c \in Cpus,
         At(c, "find") \/ At(c, "match"), Empty(c), ~Filter!IsB(pkt[c].body)
  PROVE  FilterInv'
<1>1. mem' = [mem EXCEPT !["xmldest"] = <<>>] /\ pc'[c] = "cmp"
  BY DEF Empty, Goto, TypeInv, TypeOK
<1>2. UNCHANGED <<buf, val, start, len, pkt, reported, verdict>>
  BY DEF Empty, local, observed
<1>3. mem'["xmldest"] # <<"B">> /\ mem'["tcp_udp_body"] = mem["tcp_udp_body"]
  BY <1>1 DEF TypeInv, TypeOK, Buffers
<1>4. Progress(c)'
  BY <1>1, <1>2, Facts DEF Progress, At
<1>5. Contents(c)'
  BY <1>1, <1>2, <1>3, Facts DEF Contents, Progress, At
<1>6. Writing(c)'
  <2>1. ~ \E d \in Cpus : buf[d] = "xmldest"
    BY DEF OneCpu, At
  <2>2. \A b \in Buffers : dirty'[b] = {}
    BY <2>1, Facts DEF Empty, Writing, At, TypeInv, TypeOK, Buffers
  <2> QED
    BY <1>2, <2>2 DEF Writing, At, Buffers
<1> QED
  BY <1>4, <1>5, <1>6, OnlyOne DEF Inv

\* strstr(data, "<message>").
LEMMA FindOpenStep ==
  ASSUME OneCpu, TypeInv, FilterInv, NEW c \in Cpus, FindOpen(c)
  PROVE  FilterInv'
<1> DEFINE b == pkt[c].body
<1>1. buf[c] = "none" /\ pc[c] = "find"
  BY DEF FindOpen, At
<1>2. start[c] = 1 /\ mem["tcp_udp_body"] = b /\ b \in Text /\ Len(b) \in Nat
  BY <1>1, Facts DEF Progress, Contents, Text
<1>3. ReadBody(c) = {b} /\ Read("newcontent") = {<<OpenTag>>}
  <2>1. dirty["tcp_udp_body"] = {}
    BY <1>1, Facts DEF Writing, Buffers
  <2>2. SubSeq(b, 1, Len(b)) = b
    BY <1>2 DEF Text
  <2>3. ReadBody(c) = {b}
    BY <1>2, <2>1, <2>2 DEF ReadBody
  <2> QED
    BY <1>1, <2>3, Facts DEF Contents, Buffers
<1>4. PICK i \in 0 .. Len(b) :
        /\ Strstr(b, <<OpenTag>>, i)
        /\ IF i = 0 THEN Empty(c)
           ELSE /\ start' = [start EXCEPT ![c] = @ + i - 1]
                /\ Goto(c, "skip")
                /\ UNCHANGED <<mem, dirty, buf, val, len, observed>>
  BY <1>3 DEF FindOpen
<1>5. OpenTag \in Chars
  BY TextsAssumption
<1>6. CASE i = 0
  <2>1. ~Filter!IsB(b)
    BY <1>2, <1>4, <1>5, <1>6, StrstrTag, NoTagNoB
  <2> QED
    BY <1>1, <1>4, <1>6, <2>1, EmptyStep DEF At
<1>7. CASE i # 0
  <2>1. FirstAt(b, OpenTag, i)
    BY <1>2, <1>4, <1>5, <1>7, StrstrTag
  <2>2. start'[c] = i /\ pc'[c] = "skip"
    BY <1>2, <1>4, <1>7 DEF Goto, TypeInv, TypeOK
  <2>3. UNCHANGED <<mem, dirty, buf, val, len, pkt, reported, verdict>>
    BY <1>4, <1>7 DEF observed
  <2>4. Progress(c)'
    BY <1>1, <2>1, <2>2, <2>3, Facts DEF Progress
  <2>5. Contents(c)'
    BY <1>1, <2>2, <2>3, Facts DEF Contents
  <2> QED
    BY <1>1, <2>3, <2>4, <2>5, Quiet, OnlyOne DEF Inv
<1> QED
  BY <1>6, <1>7

\* start += strlen(newcontent).
LEMMA SkipOpenStep ==
  ASSUME OneCpu, TypeInv, FilterInv, NEW c \in Cpus, SkipOpen(c)
  PROVE  FilterInv'
<1>1. buf[c] = "none" /\ pc[c] = "skip"
  BY DEF SkipOpen, At
<1>2. Read("newcontent") = {<<OpenTag>>}
  BY <1>1, Facts DEF Contents, Buffers
<1>3. Strlen(<<OpenTag>>) = 1
  BY DEF Strlen, OpenTag, CloseTag
<1>4. start'[c] = start[c] + 1 /\ pc'[c] = "close"
  BY <1>2, <1>3 DEF SkipOpen, Goto, TypeInv, TypeOK
<1>5. UNCHANGED <<mem, dirty, buf, val, len, pkt, reported, verdict>>
  BY DEF SkipOpen, observed
<1>6. FirstAt(pkt[c].body, OpenTag, start'[c] - 1)
  BY <1>1, <1>4, Facts DEF Progress
<1>7. Progress(c)'
  BY <1>1, <1>4, <1>5, <1>6, Facts DEF Progress
<1>8. Contents(c)'
  BY <1>1, <1>4, <1>5, Facts DEF Contents
<1> QED
  BY <1>1, <1>5, <1>7, <1>8, Quiet, OnlyOne DEF Inv

\* strstr(data + minlen, "</message>").
LEMMA FindCloseStep ==
  ASSUME OneCpu, TypeInv, FilterInv, NEW c \in Cpus, FindClose(c)
  PROVE  FilterInv'
<1> DEFINE b == pkt[c].body
           m == start[c]
           r == SubSeq(b, m, Len(b))
<1>1. buf[c] = "none" /\ pc[c] = "match"
  BY DEF FindClose, At
<1>2. /\ mem["tcp_udp_body"] = b /\ b \in Text /\ Len(b) \in Nat
      /\ m \in Nat /\ FirstAt(b, OpenTag, m - 1)
  BY <1>1, Facts DEF Progress, Contents, Text
<1>3. m >= 2 /\ m <= Len(b) + 1
  BY <1>2 DEF FirstAt
<1> HIDE DEF b, m
<1>4. r \in Text /\ Len(r) = Len(b) - m + 1 /\ \A j \in 1 .. Len(r) : r[j] = b[m + j - 1]
  BY <1>2, <1>3, Rest
<1>5. ReadBody(c) = {r} /\ Read("newcontent") = {<<CloseTag>>}
  <2>1. dirty["tcp_udp_body"] = {}
    BY <1>1, Facts DEF Writing, Buffers
  <2>2. ReadBody(c) = {r}
    BY <1>2, <1>3, <2>1 DEF ReadBody, m
  <2> QED
    BY <1>1, <2>2, Facts DEF Contents, Buffers
<1>6. PICK i \in 0 .. Len(r) :
        /\ Strstr(r, <<CloseTag>>, i)
        /\ IF i \in {0, 1} THEN Empty(c)
           ELSE /\ len' = [len EXCEPT ![c] = i - 1]
                /\ Goto(c, "copy")
                /\ UNCHANGED <<mem, dirty, buf, val, start, observed>>
  BY <1>5 DEF FindClose
<1> HIDE DEF r
<1>7. CloseTag \in Chars
  BY TextsAssumption
<1>8. /\ i = 0 => \A j \in 1 .. Len(r) : r[j] # CloseTag
      /\ i # 0 => FirstAt(r, CloseTag, i)
  BY <1>4, <1>6, <1>7, StrstrTag
<1>9. Filter!IsB(b) <=> m + 1 <= Len(b) /\ b[m] = "B" /\ b[m + 1] = CloseTag
  <2> DEFINE k == m - 1
  <2>1. k \in Nat /\ FirstAt(b, OpenTag, k) /\ k + 1 = m /\ k + 2 = m + 1
    BY <1>2, <1>3
  <2> HIDE DEF k
  <2>2. Filter!IsB(b) <=> k + 2 <= Len(b) /\ b[k + 1] = "B" /\ b[k + 2] = CloseTag
    BY <1>2, <2>1, IsBFrom
  <2> QED
    BY <2>1, <2>2
<1>10. CASE i \in {0, 1}
  <2>1. ASSUME i = 0 PROVE ~Filter!IsB(b)
    <3>1. m + 1 <= Len(b) => r[2] = b[m + 1] /\ 2 \in 1 .. Len(r)
      BY <1>2, <1>3, <1>4
    <3> QED
      BY <1>8, <1>9, <2>1, <3>1
  <2>2. ASSUME i = 1 PROVE ~Filter!IsB(b)
    <3>1. r[1] = CloseTag /\ 1 \in 1 .. Len(r)
      BY <1>8, <2>2 DEF FirstAt
    <3>2. b[m] = CloseTag
      BY <1>2, <1>3, <1>4, <3>1
    <3> QED
      BY <1>9, <3>2, TagNotB
  <2>3. ~Filter!IsB(b)
    BY <1>10, <2>1, <2>2
  <2> QED
    BY <1>1, <1>6, <1>10, <2>3, EmptyStep DEF At, b
<1>11. CASE i \notin {0, 1}
  <2>1. len'[c] = i - 1 /\ pc'[c] = "copy"
    BY <1>6, <1>11 DEF Goto, TypeInv, TypeOK
  <2>2. UNCHANGED <<mem, dirty, buf, val, start, pkt, reported, verdict>>
    BY <1>6, <1>11 DEF observed
  <2>3. i \in 2 .. Len(r) /\ r[i] = CloseTag /\ \A j \in 1 .. i - 1 : r[j] # CloseTag
    BY <1>4, <1>8, <1>11 DEF FirstAt
  <2>4. m + (i - 1) <= Len(b) /\ b[m + (i - 1)] = CloseTag
    BY <1>2, <1>3, <1>4, <2>3
  <2>5. \A j \in 0 .. (i - 1) - 1 : b[m + j] # CloseTag
    <3> SUFFICES ASSUME NEW j \in 0 .. (i - 1) - 1 PROVE b[m + j] # CloseTag
      OBVIOUS
    <3>1. j + 1 \in 1 .. i - 1 /\ j + 1 \in 1 .. Len(r) /\ m + (j + 1) - 1 = m + j
      BY <1>2, <1>4, <2>3
    <3>2. r[j + 1] = b[m + j]
      BY <1>4, <3>1
    <3> QED
      BY <2>3, <3>1, <3>2
  <2>6. Progress(c)'
    BY <1>1, <1>2, <2>1, <2>2, <2>3, <2>4, <2>5, Facts DEF Progress, b, m
  <2>7. Contents(c)'
    BY <1>1, <2>1, <2>2, Facts DEF Contents
  <2> QED
    BY <1>1, <2>2, <2>6, <2>7, Quiet, OnlyOne DEF Inv
<1> QED
  BY <1>10, <1>11

\* strcmp(xmldest, "B").
LEMMA CompareStep ==
  ASSUME OneCpu, TypeInv, FilterInv, NEW c \in Cpus, Compare(c)
  PROVE  FilterInv'
<1>1. buf[c] = "none" /\ pc[c] = "cmp"
  BY DEF Compare, At
<1>2. Read("xmldest") = {mem["xmldest"]}
  BY <1>1, Facts DEF Buffers
<1>3. pc'[c] = IF Filter!IsB(pkt[c].body) THEN "msg" ELSE "accept"
  BY <1>1, <1>2, Facts DEF Compare, Contents, Goto, TypeInv, TypeOK
<1>4. start'[c] = 1
  BY DEF Compare, TypeInv, TypeOK
<1>5. UNCHANGED <<mem, dirty, buf, val, pkt, reported, verdict>>
  BY DEF Compare, observed
<1>6. Progress(c)'
  BY <1>1, <1>3, <1>4, <1>5, Facts
  DEF Progress, Filter!Reportable, Filter!Droppable
<1>7. Contents(c)'
  BY <1>1, <1>3, <1>5, Facts DEF Contents
<1> QED
  BY <1>1, <1>5, <1>6, <1>7, Quiet, OnlyOne DEF Inv

\* What the two reads of sendMsgNetlink find.
LEMMA ReadsMessage ==
  ASSUME OneCpu, TypeInv, FilterInv, NEW c \in Cpus,
         buf[c] = "none", pc[c] \in {"send", "strcpy"}
  PROVE  Read("mymessagebuf") = {Filter!ReportOf(pkt[c])}
  BY Facts DEF Contents, Buffers, Read

\* sendMsgNetlink(mymessagebuf), and the verdicts.
LEMMA EndStep ==
  ASSUME OneCpu, TypeInv, FilterInv, NEW c \in Cpus,
         SizeReport(c) \/ SendReport(c) \/ CheckFlag(c) \/ Accept(c)
  PROVE  FilterInv'
<1>1. CASE SendReport(c)
  <2>1. buf[c] = "none" /\ pc[c] = "strcpy"
    BY <1>1 DEF SendReport, At
  <2>2. pc'[c] = IF pkt[c].proto = "UDP" THEN "flag" ELSE "accept"
    BY <1>1 DEF SendReport, AfterReport, Goto, TypeInv, TypeOK
  <2>3. UNCHANGED <<mem, dirty, buf, val, start, pkt, verdict>>
    BY <1>1 DEF SendReport
  <2>4. Progress(c)' /\ Contents(c)'
    BY <2>1, <2>2, <2>3, Facts
    DEF Progress, Contents, Filter!Droppable, Filter!Reportable
  <2> QED
    BY <2>1, <2>3, <2>4, Quiet, OnlyOne DEF Inv
<1>3. CASE SizeReport(c)
  <2>1. buf[c] = "none" /\ pc[c] = "send"
    BY <1>3 DEF SizeReport, At
  <2>2. UNCHANGED <<mem, dirty, buf, val, start, pkt, reported, verdict>>
    BY <1>3 DEF SizeReport, observed
  <2>3. \/ pc'[c] = "strcpy" /\ len'[c] = Len(Filter!ReportOf(pkt[c]))
        \/ pc'[c] = IF pkt[c].proto = "UDP" THEN "flag" ELSE "accept"
    <3>1. Read("mymessagebuf") = {Filter!ReportOf(pkt[c])}
      BY <2>1, ReadsMessage
    <3> QED
      BY <1>3, <3>1 DEF SizeReport, AfterReport, Goto, TypeInv, TypeOK
  <2>4. Progress(c)' /\ Contents(c)'
    BY <2>1, <2>2, <2>3, Facts
    DEF Progress, Contents, Filter!Droppable, Filter!Reportable
  <2> QED
    BY <2>1, <2>2, <2>4, Quiet, OnlyOne DEF Inv
<1>2. CASE CheckFlag(c) \/ Accept(c)
  <2>1. buf[c] = "none" /\ pc[c] \in {"flag", "accept"}
    BY <1>2 DEF CheckFlag, Accept, At
  <2>2. pc'[c] = "idle" /\ verdict'[c] # "pending"
    BY <1>2 DEF CheckFlag, Accept, Return, Goto, TypeInv, TypeOK
  <2>3. UNCHANGED <<mem, dirty, buf, val, start, len, pkt, reported>>
    BY <1>2 DEF CheckFlag, Accept, Return, local
  <2>4. Progress(c)' /\ Contents(c)'
    BY <2>1, <2>2, <2>3, Facts DEF Progress, Contents
  <2> QED
    BY <2>1, <2>3, <2>4, Quiet, OnlyOne DEF Inv
<1> QED
  BY <1>1, <1>2, <1>3

\* The end of a write.
LEMMA WrittenStep ==
  ASSUME OneCpu, TypeInv, FilterInv, NEW c \in Cpus, Written(c)
  PROVE  FilterInv'
<1>1. buf[c] \in Buffers /\ Due(c, buf[c], val[c]) /\ pc[c] \in WritePcs
  BY Facts DEF Written, Writing, TypeInv, TypeOK
<1>2. dirty[buf[c]] = {c}
  BY <1>1, Facts DEF Writing
<1>3. /\ mem' = [mem EXCEPT ![buf[c]] = val[c]]
      /\ dirty' = [dirty EXCEPT ![buf[c]] = {}]
      /\ buf'[c] = "none" /\ pc'[c] = AfterWrite(c)
      /\ UNCHANGED <<start, len, pkt, reported, verdict>>
  BY <1>2 DEF Written, Goto, local, observed, TypeInv, TypeOK
<1>4. Writing(c)'
  <2>1. \A b \in Buffers : dirty'[b] = {}
    BY <1>3, Facts DEF Writing, TypeInv, TypeOK
  <2> QED
    BY <1>3, <2>1 DEF Writing, Buffers
<1>5. mem'[buf[c]] = val[c] /\ \A b \in Buffers \ {buf[c]} : mem'[b] = mem[b]
  BY <1>1, <1>3 DEF TypeInv, TypeOK
<1>6. Progress(c)'
  BY <1>1, <1>3, Facts DEF Progress, AfterWrite, WritePcs, Filter!Reportable
<1>7. Contents(c)'
  <2>1. CASE pc[c] = "copy"
    <3> DEFINE b == pkt[c].body
               m == start[c]
               n == len[c]
    <3>1. val[c] = <<"B">> <=> Filter!IsB(b)
      <4>1. /\ FirstAt(b, OpenTag, m - 1) /\ n >= 1 /\ m + n <= Len(b)
            /\ b[m + n] = CloseTag /\ \A j \in 0 .. n - 1 : b[m + j] # CloseTag
        BY <2>1, Facts DEF Progress
      <4>2. b \in Text /\ m \in Nat /\ n \in Nat /\ m >= 1
        BY Facts
      <4>3. val[c] = SubSeq(b, m, m + n - 1)
        BY <1>1, <2>1 DEF Due
      <4> HIDE DEF b, m, n
      <4> QED
        BY <4>1, <4>2, <4>3, CopiedIsB
    <3> QED
      BY <1>1, <1>3, <1>5, <2>1, <3>1, Facts
      DEF Contents, Due, AfterWrite, Buffers
  <2>2. CASE pc[c] # "copy"
    BY <1>1, <1>3, <1>5, <2>2, Facts
    DEF Contents, Due, AfterWrite, WritePcs, Buffers
  <2> QED
    BY <2>1, <2>2
<1> QED
  BY <1>4, <1>6, <1>7, OnlyOne DEF Inv

\* A packet comes in.
LEMMA ArriveStep ==
  ASSUME OneCpu, TypeInv, FilterInv, NEW c \in Cpus, NEW p \in Packets, Arrive(c, p)
  PROVE  FilterInv'
<1>1. buf[c] = "none" /\ pc[c] = "idle" /\ start[c] = 1
  BY Facts DEF Arrive, At, Progress
<1>2. /\ pkt'[c] = p /\ reported'[c] = <<>> /\ verdict'[c] = "pending"
      /\ pc'[c] = CASE ~p.match -> "accept"
                    [] p.match /\ p.proto \in {"TCP", "UDP"} -> "body"
                    [] OTHER -> "msg"
      /\ UNCHANGED <<mem, dirty, buf, val, start, len>>
  BY DEF Arrive, Goto, local, TypeInv, TypeOK
<1>3. Progress(c)'
  BY <1>1, <1>2 DEF Progress, Filter!Reportable, Filter!Droppable
<1>4. Contents(c)'
  BY <1>2 DEF Contents
<1> QED
  BY <1>1, <1>2, <1>3, <1>4, Quiet, OnlyOne DEF Inv

\* With one CPU, the buffers always hold what hook_func expects in them.
LEMMA BuffersCorrect == ASSUME OneCpu PROVE Spec => []FilterInv
<1>1. Init => FilterInv
  <2> SUFFICES ASSUME Init, NEW c \in Cpus
               PROVE  Progress(c) /\ Contents(c) /\ Writing(c)
    BY DEF FilterInv
  <2> QED
    BY DEF Init, Progress, Contents, Writing, Buffers
<1>2. TypeInv /\ FilterInv /\ [Next]_vars => FilterInv'
  <2> SUFFICES ASSUME TypeInv, FilterInv, [Next]_vars PROVE FilterInv'
    OBVIOUS
  <2>1. CASE Command \/ UNCHANGED vars
    <3> SUFFICES ASSUME NEW c \in Cpus
                 PROVE  (Progress(c) /\ Contents(c) /\ Writing(c))'
      BY DEF FilterInv
    <3>1. UNCHANGED <<mem, dirty, pc, buf, val, start, len, pkt, reported, verdict>>
      BY <2>1 DEF Command, vars, local, observed
    <3>2. Progress(c) /\ Contents(c) /\ Writing(c)
      BY DEF FilterInv
    <3>3. Progress(c)'
      BY <3>1, <3>2 DEF Progress
    <3>4. Contents(c)' /\ Writing(c)'
      BY <3>1, <3>2 DEF Contents, Writing, Due
    <3> QED
      BY <3>3, <3>4
  <2> QED
    BY <2>1, WritesStep, FindOpenStep, SkipOpenStep, FindCloseStep, CompareStep,
       EndStep, WrittenStep, ArriveStep DEF Next, Step
<1> QED
  BY <1>1, <1>2, TypeCorrect, PTL DEF Spec

\* With one CPU, hook_func implements PacketFilter: static buffers or not, no
\* packet's verdict or report depends on another packet.
THEOREM FilterCorrect == ASSUME OneCpu PROVE Spec => ImplementsFilter
<1>1. Init => Filter!Init
  BY DEF Init, Filter!Init
<1>2. TypeInv /\ FilterInv /\ [Next]_vars => [Filter!Next]_(Filter!filterVars)
  <2> DEFINE Goal == [Filter!Next]_(Filter!filterVars)
  <2> SUFFICES ASSUME TypeInv, FilterInv, [Next]_vars PROVE Goal
    OBVIOUS
  <2> USE DEF Filter!filterVars
  <2>1. ASSUME NEW c \in Cpus,
               CopyBody(c) \/ SprintfOpen(c) \/ SprintfClose(c) \/ CopyMessage(c)
                 \/ SprintfReport(c) \/ FindOpen(c) \/ SkipOpen(c) \/ FindClose(c)
                 \/ Compare(c) \/ SizeReport(c) \/ Written(c)
        PROVE  Goal
    BY <2>1 DEF CopyBody, SprintfOpen, SprintfClose, CopyMessage, SprintfReport,
                FindOpen, SkipOpen, FindClose, Compare, SizeReport, Written,
                Write, Empty, observed
  <2>2. ASSUME NEW c \in Cpus, SendReport(c) PROVE Goal
    <3>1. buf[c] = "none" /\ pc[c] = "strcpy"
      BY <2>2 DEF SendReport, At
    <3>2. /\ verdict[c] = "pending" /\ reported[c] = <<>>
          /\ Filter!Reportable(pkt[c])
      BY <3>1, Facts DEF Progress
    <3>3. Read("mymessagebuf") = {Filter!ReportOf(pkt[c])}
      BY <3>1, ReadsMessage
    <3>6. LET s == Filter!ReportOf(pkt[c]) IN
          SubSeq(s, 1, IF len[c] <= Len(s) THEN len[c] ELSE Len(s)) = s
      <4> DEFINE s == Filter!ReportOf(pkt[c])
      <4>1. s \in Text
        BY <3>1, Facts DEF Contents, TypeInv, TypeOK, Buffers
      <4>2. len[c] = Len(s)
        BY <3>1, Facts DEF Contents
      <4> HIDE DEF s
      <4>3. SubSeq(s, 1, Len(s)) = s
        BY <4>1 DEF Text
      <4> QED
        BY <4>1, <4>2, <4>3 DEF s
    <3>4. CASE UNCHANGED reported
      BY <2>2, <3>4 DEF SendReport
    <3>5. CASE reported' = [reported EXCEPT ![c] = Filter!ReportOf(pkt[c])]
      <4>1. Filter!Report(c)
        BY <2>2, <3>2, <3>5 DEF SendReport, Filter!Report
      <4> QED
        BY <4>1 DEF Filter!Next
    <3> QED
      BY <2>2, <3>3, <3>4, <3>5, <3>6 DEF SendReport
  <2>3. ASSUME NEW c \in Cpus, CheckFlag(c) PROVE Goal
    <3>1. verdict[c] = "pending" /\ Filter!Droppable(pkt[c])
      BY <2>3, Facts DEF CheckFlag, At, Progress, Contents, Filter!Droppable
    <3>2. Filter!Decide(c)
      BY <2>3, <3>1 DEF CheckFlag, Return, Filter!Decide
    <3> QED
      BY <3>2 DEF Filter!Next
  <2>4. ASSUME NEW c \in Cpus, Accept(c) PROVE Goal
    <3>1. verdict[c] = "pending" /\ ~Filter!Droppable(pkt[c])
      BY <2>4, Facts DEF Accept, At, Progress
    <3>2. Filter!Decide(c)
      BY <2>4, <3>1 DEF Accept, Return, Filter!Decide
    <3> QED
      BY <3>2 DEF Filter!Next
  <2>5. ASSUME NEW c \in Cpus, NEW p \in Packets, Arrive(c, p) PROVE Goal
    <3>1. verdict[c] # "pending"
      BY <2>5, Facts DEF Arrive, At, Progress
    <3>2. Filter!Arrive(c, p)
      BY <2>5, <3>1 DEF Arrive, Filter!Arrive
    <3> QED
      BY <2>5, <3>2 DEF Filter!Next
  <2>6. CASE Command
    <3>1. PICK f \in {1, 2} : operatorflag' = f
      BY <2>6 DEF Command
    <3>2. Filter!Command(f)
      BY <2>6, <3>1 DEF Command, Filter!Command
    <3> QED
      BY <3>2 DEF Filter!Next
  <2>7. CASE UNCHANGED vars
    BY <2>7 DEF vars, observed
  <2> QED
    BY <2>1, <2>2, <2>3, <2>4, <2>5, <2>6, <2>7 DEF Next, Step
<1> QED
  BY <1>1, <1>2, TypeCorrect, BuffersCorrect, PTL
  DEF Spec, ImplementsFilter, Filter!Spec

\* With one CPU no B gets through once the operator has said drop
\* (netFilter.c:173, 180-184).
THEOREM BNotAcceptedCorrect == ASSUME OneCpu PROVE Spec => BNotAcceptedUnderDrop
<1>1. TypeInv /\ FilterInv /\ [Next]_vars =>
        [\A c \in Cpus :
           operatorflag = 2 /\ verdict[c] = "pending" /\ verdict'[c] = "ACCEPT"
             => ~Filter!Droppable(pkt[c])]_vars
  <2> SUFFICES ASSUME TypeInv, FilterInv, [Next]_vars, NEW c \in Cpus,
                      operatorflag = 2, verdict[c] = "pending", verdict'[c] = "ACCEPT"
               PROVE  ~Filter!Droppable(pkt[c])
    OBVIOUS
  <2>1. \E d \in Cpus : CheckFlag(d) \/ Accept(d) \/ \E p \in Packets : Arrive(d, p)
    BY DEF Next, Step, vars, observed, CopyBody, SprintfOpen, FindOpen, SkipOpen,
           SprintfClose, FindClose, CopyMessage, Compare, SprintfReport,
           SizeReport, SendReport, Written, Write, Empty, Command
  <2>2. Accept(c)
    BY <2>1 DEF CheckFlag, Accept, Return, Arrive, TypeInv, TypeOK
  <2> QED
    BY <2>2, Facts DEF Accept, At, Progress
<1> QED
  BY <1>1, TypeCorrect, BuffersCorrect, PTL DEF Spec, BNotAcceptedUnderDrop
=============================================================================
