----------------------------- MODULE HookFunc -----------------------------
(***************************************************************************)
(* hook_func of src/src/netFilter.c with the calls it makes to extract     *)
(* (src/src/dealConf.c) and sendMsgNetlink.                                *)
(*                                                                         *)
(* hook_func runs in the softirq of every CPU that receives a packet, and  *)
(* keeps its working data in four static buffers that no lock protects.    *)
(* One step is one access to a buffer.  A write takes two, between which   *)
(* the buffer holds no particular text; it keeps holding none when two     *)
(* CPUs' writes overlap.  To read such a buffer may give any text.         *)
(***************************************************************************)
EXTENDS CString

CONSTANTS
  Cpus,    \* CPUs that receive packets
  Chars,   \* what texts are made of: tags, characters, names of protocols
  Bodies,  \* application data of the packets
  Protos,  \* protocols of the packets
  Texts    \* what a racing read may return

OpenTag == "<message>"
CloseTag == "</message>"

Text == Seq(Chars)

ASSUME TextsAssumption ==
  /\ {OpenTag, CloseTag} \cup Protos \subseteq Chars
  /\ Bodies \subseteq Text /\ Texts \subseteq Text
  /\ Bodies # {} /\ Protos # {}

Packets == [proto : Protos, match : BOOLEAN, body : Bodies]

Buffers == {"tcp_udp_body", "newcontent", "xmldest", "mymessagebuf"}

VARIABLES
  mem,          \* the text in each buffer
  dirty,        \* CPUs whose writes to the buffer are under way or overlapped
  operatorflag, \* 0, 1 (pass) or 2 (drop)
  pc,           \* where hook_func is on each CPU
  buf,          \* buffer a CPU is writing, or "none"
  val,          \* what it writes there
  start, len,   \* extract's pointer into the body, and end - start; then len
                \* is the length of the report
  pkt,          \* the packet each CPU works on, or worked on last
  reported,     \* what was sent to the client about it
  verdict       \* "none" before the first packet, "pending", then "ACCEPT"
                \* (NF_ACCEPT) or "DROP" (NF_DROP)

local == <<start, len>>
observed == <<pkt, reported, verdict, operatorflag>>
vars == <<mem, dirty, pc, buf, val, local, observed>>

Init ==
  /\ mem = [b \in Buffers |-> <<>>]
  /\ dirty = [b \in Buffers |-> {}]
  /\ operatorflag = 0
  /\ pc = [c \in Cpus |-> "idle"]
  /\ buf = [c \in Cpus |-> "none"]
  /\ val = [c \in Cpus |-> <<>>]
  /\ start = [c \in Cpus |-> 1] /\ len = [c \in Cpus |-> 0]
  /\ pkt = [c \in Cpus |-> CHOOSE p \in Packets : TRUE]
  /\ reported = [c \in Cpus |-> <<>>]
  /\ verdict = [c \in Cpus |-> "none"]

----------------------------------------------------------------------------
(* Buffers.                                                                *)

At(c, l) == pc[c] = l /\ buf[c] = "none"

Goto(c, l) == pc' = [pc EXCEPT ![c] = l]

Write(c, b, text) ==
  /\ buf' = [buf EXCEPT ![c] = b]
  /\ val' = [val EXCEPT ![c] = text]
  /\ dirty' = [dirty EXCEPT ![b] = {c} \cup {d \in Cpus : buf[d] = b}]
  /\ UNCHANGED <<mem, pc, local, observed>>

\* Where each write leads.
AfterWrite(c) ==
  CASE pc[c] = "body" -> IF pkt[c].proto = "UDP" THEN "open" ELSE "msg"
    [] pc[c] = "open" -> "find"
    [] pc[c] = "close" -> "match"
    [] pc[c] = "copy" -> "cmp"
    [] pc[c] = "msg" -> "send"

Written(c) ==
  /\ buf[c] # "none"
  /\ IF dirty[buf[c]] = {c}
       THEN /\ mem' = [mem EXCEPT ![buf[c]] = val[c]]
            /\ dirty' = [dirty EXCEPT ![buf[c]] = {}]
       ELSE UNCHANGED <<mem, dirty>>
  /\ Goto(c, AfterWrite(c))
  /\ buf' = [buf EXCEPT ![c] = "none"]
  /\ val' = [val EXCEPT ![c] = <<>>]
  /\ UNCHANGED <<local, observed>>

Read(b) == IF dirty[b] = {} THEN {mem[b]} ELSE Texts

\* The body from start on; behind its terminator lies what was there before.
ReadBody(c) ==
  LET s == mem["tcp_udp_body"] IN
  IF dirty["tcp_udp_body"] = {} /\ start[c] <= Len(s) + 1
    THEN {SubSeq(s, start[c], Len(s))}
    ELSE Texts

----------------------------------------------------------------------------
(* hook_func up to the switch.                                             *)

\* No skb, a broadcast, or other addresses: accepted at once.  TCP and UDP
\* copy the application data, the other protocols only report.
Arrive(c, p) ==
  /\ At(c, "idle")
  /\ pkt' = [pkt EXCEPT ![c] = p]
  /\ reported' = [reported EXCEPT ![c] = <<>>]
  /\ verdict' = [verdict EXCEPT ![c] = "pending"]
  /\ Goto(c, CASE ~p.match -> "accept"
               [] p.match /\ p.proto \in {"TCP", "UDP"} -> "body"
               [] OTHER -> "msg")
  /\ UNCHANGED <<mem, dirty, buf, val, local, operatorflag>>

CopyBody(c) == At(c, "body") /\ Write(c, "tcp_udp_body", pkt[c].body)

----------------------------------------------------------------------------
(* extract(xmldest, "message", tcp_udp_body, 0, 100).                      *)

\* strlen: the closing tag is one character longer than the opening one.
Strlen(t) == IF t = <<CloseTag>> THEN 2 ELSE Len(t)

SprintfOpen(c) == At(c, "open") /\ Write(c, "newcontent", <<OpenTag>>)

EmptyKeepsDest(c) ==   \* mutant: returns without clearing dest
  /\ Goto(c, "cmp")
  /\ UNCHANGED <<mem, dirty, buf, val, local, observed>>

\* dest[0] = '\0', on every path that finds nothing; one byte, but perhaps
\* into another CPU's copy.
Empty(c) ==
  /\ mem' = [mem EXCEPT !["xmldest"] = <<>>]
  /\ dirty' = [dirty EXCEPT !["xmldest"] =
       IF \E d \in Cpus : buf[d] = "xmldest" THEN @ \cup {c} ELSE {}]
  /\ Goto(c, "cmp")
  /\ UNCHANGED <<buf, val, local, observed>>

FindOpen(c) ==
  /\ At(c, "find")
  /\ \E s \in ReadBody(c), t \in Read("newcontent") : \E i \in 0 .. Len(s) :
       /\ Strstr(s, t, i)
       /\ IF i = 0 THEN Empty(c)
          ELSE /\ start' = [start EXCEPT ![c] = @ + i - 1]
               /\ Goto(c, "skip")
               /\ UNCHANGED <<mem, dirty, buf, val, len, observed>>

SkipOpenForgotten(c) ==   \* mutant: start stays at the tag itself
  /\ At(c, "skip")
  /\ Goto(c, "close")
  /\ UNCHANGED <<mem, dirty, buf, val, local, observed>>

SkipOpen(c) ==
  /\ At(c, "skip")
  /\ \E t \in Read("newcontent") : start' = [start EXCEPT ![c] = @ + Strlen(t)]
  /\ Goto(c, "close")
  /\ UNCHANGED <<mem, dirty, buf, val, len, observed>>

SprintfClose(c) == At(c, "close") /\ Write(c, "newcontent", <<CloseTag>>)

FindCloseUnchecked(c) ==   \* mutant: no test of end
  /\ At(c, "match")
  /\ \E s \in ReadBody(c), t \in Read("newcontent") : \E i \in 0 .. Len(s) :
       /\ Strstr(s, t, i)
       /\ len' = [len EXCEPT ![c] = i - 1]
  /\ Goto(c, "copy")
  /\ UNCHANGED <<mem, dirty, buf, val, start, observed>>

\* No closing tag, or nothing in front of it.
FindClose(c) ==
  /\ At(c, "match")
  /\ \E s \in ReadBody(c), t \in Read("newcontent") : \E i \in 0 .. Len(s) :
       /\ Strstr(s, t, i)
       /\ IF i \in {0, 1} THEN Empty(c)
          ELSE /\ len' = [len EXCEPT ![c] = i - 1]
               /\ Goto(c, "copy")
               /\ UNCHANGED <<mem, dirty, buf, val, start, observed>>

\* strncpy stops at the end of the body.  (A text of 100 characters or more is
\* cut; it is not "B" either way.)
CopyMessage(c) ==
  /\ At(c, "copy")
  /\ \E s \in ReadBody(c) :
       Write(c, "xmldest",
             SubSeq(s, 1, IF len[c] <= Len(s) THEN len[c] ELSE Len(s)))

----------------------------------------------------------------------------
(* Report and verdict.                                                     *)

\* Anything but "B" is accepted without a report.  (extract has returned.)
Compare(c) ==
  /\ At(c, "cmp")
  /\ \E s \in Read("xmldest") : Goto(c, IF s = <<"B">> THEN "msg" ELSE "accept")
  /\ start' = [start EXCEPT ![c] = 1]
  /\ len' = [len EXCEPT ![c] = 0]
  /\ UNCHANGED <<mem, dirty, buf, val, observed>>

\* sprintf(mymessagebuf, ...); TCP and UDP reports quote tcp_udp_body.
SprintfReport(c) ==
  /\ At(c, "msg")
  /\ IF pkt[c].proto \in {"TCP", "UDP"}
       THEN \E s \in Read("tcp_udp_body") :
              Write(c, "mymessagebuf", <<pkt[c].proto>> \o s)
       ELSE Write(c, "mymessagebuf", <<pkt[c].proto>>)

AfterReport(c) == IF pkt[c].proto = "UDP" THEN "flag" ELSE "accept"

\* sendMsgNetlink(mymessagebuf) reads the text twice: its length sizes the
\* message, the text is copied into that.  Its result is not looked at:
\* without a client, memory or room in its queue nothing is sent.
SizeReport(c) ==
  /\ At(c, "send")
  /\ \/ /\ \E s \in Read("mymessagebuf") : len' = [len EXCEPT ![c] = Len(s)]
        /\ Goto(c, "strcpy")
     \/ Goto(c, AfterReport(c)) /\ UNCHANGED len
  /\ UNCHANGED <<mem, dirty, buf, val, start, observed>>

\* The message goes out as long as it was sized.  What a longer text writes
\* behind it is outside the model.
SendReport(c) ==
  /\ At(c, "strcpy")
  /\ \/ \E s \in Read("mymessagebuf") : reported' = [reported EXCEPT ![c] =
          SubSeq(s, 1, IF len[c] <= Len(s) THEN len[c] ELSE Len(s))]
     \/ UNCHANGED reported
  /\ len' = [len EXCEPT ![c] = 0]
  /\ Goto(c, AfterReport(c))
  /\ UNCHANGED <<mem, dirty, buf, val, start, pkt, verdict, operatorflag>>

Return(c, v) ==
  /\ verdict' = [verdict EXCEPT ![c] = v]
  /\ Goto(c, "idle")
  /\ UNCHANGED <<mem, dirty, buf, val, local, pkt, reported, operatorflag>>

CheckFlagDefaultDrop(c) ==   \* mutant: undecided means drop
  /\ At(c, "flag")
  /\ Return(c, IF operatorflag = 1 THEN "ACCEPT" ELSE "DROP")

\* The flag is read after the report; nobody waits for an answer to it.
CheckFlag(c) ==
  /\ At(c, "flag")
  /\ Return(c, IF operatorflag = 2 THEN "DROP" ELSE "ACCEPT")

Accept(c) == At(c, "accept") /\ Return(c, "ACCEPT")

\* recvMsgNetlink, for a command, at any time.
Command ==
  /\ operatorflag' \in {1, 2}
  /\ UNCHANGED <<mem, dirty, pc, buf, val, local, pkt, reported, verdict>>

----------------------------------------------------------------------------
Step(c) ==
  \/ CopyBody(c) \/ SprintfOpen(c) \/ FindOpen(c) \/ SkipOpen(c)
  \/ SprintfClose(c) \/ FindClose(c) \/ CopyMessage(c) \/ Compare(c)
  \/ SprintfReport(c) \/ SizeReport(c) \/ SendReport(c)
  \/ CheckFlag(c) \/ Accept(c)
  \/ Written(c)

Next ==
  \/ \E c \in Cpus : Step(c) \/ \E p \in Packets : Arrive(c, p)
  \/ Command

Spec == Init /\ [][Next]_vars

----------------------------------------------------------------------------
(* Properties.                                                             *)

Filter == INSTANCE PacketFilter

\* On one CPU, hook_func treats each packet as PacketFilter says
\* (netFilter.c:83-235, dealConf.c:59-123): the static buffers of an earlier
\* packet never leak into the verdict or the report of a later one.
ImplementsFilter == Filter!Spec

\* Every variable stays in its range (netFilter.c:72-76, dealConf.c:14).
TypeOK ==
  /\ mem \in [Buffers -> Text] /\ dirty \in [Buffers -> SUBSET Cpus]
  /\ operatorflag \in {0, 1, 2}
  /\ pc \in [Cpus -> {"idle", "body", "open", "find", "skip", "close", "match",
                      "copy", "cmp", "msg", "send", "strcpy", "flag", "accept"}]
  /\ buf \in [Cpus -> Buffers \cup {"none"}] /\ val \in [Cpus -> Text]
  /\ start \in [Cpus -> Nat \ {0}] /\ len \in [Cpus -> Nat]
  /\ pkt \in [Cpus -> Packets]
  /\ reported \in [Cpus -> Text]
  /\ verdict \in [Cpus -> {"none", "pending", "ACCEPT", "DROP"}]

\* Whatever the CPUs do to each other's buffers, a packet is only dropped if
\* it is UDP between the configured addresses, and only while the operator
\* says drop (netFilter.c:127-131, 180-184).
DropsOnCommandOnly ==
  [][\A c \in Cpus :
       verdict[c] = "pending" /\ verdict'[c] = "DROP" =>
         operatorflag = 2 /\ pkt[c].match /\ pkt[c].proto = "UDP"]_vars

\* Once the operator has said drop, a packet whose message is B is not let
\* through (netFilter.c:173, 180-184).
BNotAcceptedUnderDrop ==
  [][\A c \in Cpus :
       operatorflag = 2 /\ verdict[c] = "pending" /\ verdict'[c] = "ACCEPT"
         => ~Filter!Droppable(pkt[c])]_vars
=============================================================================
