------------------------------ MODULE MCSystem ------------------------------
(***************************************************************************)
(* Instances of System for TLC: the traffic and the room in the sockets.   *)
(***************************************************************************)
EXTENDS System

MCChars == {OpenTag, CloseTag, "A", "B", "UDP", "TCP", "ICMP",
            "connect", "disconnect"}

B == <<OpenTag, "B", CloseTag>>

\* A message A in a report too long for a byte, which a script sees cut
\* between the tags.
LongA == <<OpenTag, "A", CloseTag>> \o [i \in 1 .. 7 |-> "A"]

\* A message B for the kernel, an empty one for the script.
ClosedB == <<CloseTag>> \o B

Packet(proto, body) == [proto |-> proto, match |-> TRUE, body |-> body]

MCPackets == {Packet("UDP", B), Packet("UDP", ClosedB), Packet("TCP", LongA)}

MCRcvBuf == [k \in Clients |-> IF k \in Scripts THEN 2 ELSE 1]
=============================================================================
