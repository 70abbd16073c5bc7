------------------------------ MODULE Payload ------------------------------
(***************************************************************************)
(* Packets as the hook sees them: what netFilter.c looks for in the        *)
(* application data, which packets it reports, what a report says and      *)
(* which packets it may drop.                                              *)
(*                                                                         *)
(* A packet is [proto, match, body]: protocol, whether it is between the   *)
(* configured addresses (and no broadcast), application data.              *)
(***************************************************************************)
EXTENDS Naturals, Sequences

\* Application data is a sequence of tags and characters.
OpenTag == "<message>"
CloseTag == "</message>"

\* The first message element of the body is B.
IsB(body) ==
  \E i \in 1 .. Len(body) :
    /\ body[i] = OpenTag
    /\ \A j \in 1 .. i - 1 : body[j] # OpenTag
    /\ i + 2 <= Len(body)
    /\ body[i + 1] = "B" /\ body[i + 2] = CloseTag

Reportable(p) == p.match /\ (p.proto = "UDP" => IsB(p.body))

ReportOf(p) ==
  IF p.proto \in {"TCP", "UDP"} THEN <<p.proto>> \o p.body ELSE <<p.proto>>

Droppable(p) == Reportable(p) /\ p.proto = "UDP"
=============================================================================
