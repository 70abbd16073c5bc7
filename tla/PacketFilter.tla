--------------------------- MODULE PacketFilter ---------------------------
(***************************************************************************)
(* What the packet filter promises for each packet on its own: a packet    *)
(* between the configured addresses is reported to the client, unless it   *)
(* is UDP and its message is not B; a reported UDP packet is dropped when  *)
(* the operator has said drop by the time of the verdict; every other      *)
(* packet is accepted.  No packet's verdict or report depends on another.  *)
(***************************************************************************)
EXTENDS Payload

CONSTANTS
  Cpus,     \* CPUs that receive packets
  Packets   \* [proto, match, body]: protocol, whether it is between the
            \* configured addresses (and no broadcast), application data

VARIABLES
  pkt,          \* the packet each CPU works on, or worked on last
  reported,     \* what was sent to the client about it
  verdict,      \* "none" before the first packet, "pending", "ACCEPT", "DROP"
  operatorflag  \* 0 undecided, 1 pass, 2 drop

filterVars == <<pkt, reported, verdict, operatorflag>>

Init ==
  /\ pkt = [c \in Cpus |-> CHOOSE p \in Packets : TRUE]
  /\ reported = [c \in Cpus |-> <<>>]
  /\ verdict = [c \in Cpus |-> "none"]
  /\ operatorflag = 0

Arrive(c, p) ==
  /\ verdict[c] # "pending"
  /\ pkt' = [pkt EXCEPT ![c] = p]
  /\ reported' = [reported EXCEPT ![c] = <<>>]
  /\ verdict' = [verdict EXCEPT ![c] = "pending"]
  /\ UNCHANGED operatorflag

Report(c) ==
  /\ verdict[c] = "pending" /\ Reportable(pkt[c]) /\ reported[c] = <<>>
  /\ reported' = [reported EXCEPT ![c] = ReportOf(pkt[c])]
  /\ UNCHANGED <<pkt, verdict, operatorflag>>

Decide(c) ==
  /\ verdict[c] = "pending"
  /\ verdict' = [verdict EXCEPT ![c] =
       IF Droppable(pkt[c]) /\ operatorflag = 2 THEN "DROP" ELSE "ACCEPT"]
  /\ UNCHANGED <<pkt, reported, operatorflag>>

Command(f) ==
  /\ operatorflag' = f
  /\ UNCHANGED <<pkt, reported, verdict>>

Next ==
  \/ \E c \in Cpus : Report(c) \/ Decide(c) \/ \E p \in Packets : Arrive(c, p)
  \/ \E f \in {1, 2} : Command(f)

Spec == Init /\ [][Next]_filterVars
=============================================================================
