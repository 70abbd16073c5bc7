------------------------------ MODULE Session ------------------------------
(***************************************************************************)
(* What the netlink component promises, without locks, contexts or socket  *)
(* buffers: there is at most one current client; every message the kernel  *)
(* delivers goes to the client that is current at the moment of delivery;  *)
(* only a command changes operatorflag.                                    *)
(*                                                                         *)
(* A message the kernel fails to deliver (no client, no memory, a full or  *)
(* closed receiver) is a step that changes nothing here.                   *)
(***************************************************************************)
EXTENDS Sequences

CONSTANTS
  Clients,   \* user processes, named by their pid
  NoPid,     \* the pid 0: no client is connected
  Messages   \* what the kernel may send

VARIABLES
  current,      \* the connected client
  inbox,        \* what each client has been sent and has not read
  operatorflag  \* 0 undecided, 1 pass, 2 drop

sessionVars == <<current, inbox, operatorflag>>

Init ==
  /\ current = NoPid
  /\ inbox = [k \in Clients |-> <<>>]
  /\ operatorflag = 0

Connect(k) ==
  /\ current' = k
  /\ UNCHANGED <<inbox, operatorflag>>

Clear ==
  /\ current' = NoPid
  /\ UNCHANGED <<inbox, operatorflag>>

Deliver(m) ==
  /\ current \in Clients
  /\ inbox' = [inbox EXCEPT ![current] = Append(@, m)]
  /\ UNCHANGED <<current, operatorflag>>

Command(f) ==
  /\ operatorflag' = f
  /\ UNCHANGED <<current, inbox>>

Read(k) ==
  /\ inbox[k] # <<>>
  /\ inbox' = [inbox EXCEPT ![k] = Tail(@)]
  /\ UNCHANGED <<current, operatorflag>>

Close(k) ==
  /\ inbox' = [inbox EXCEPT ![k] = <<>>]
  /\ UNCHANGED <<current, operatorflag>>

Next ==
  \/ Clear
  \/ \E k \in Clients : Connect(k) \/ Read(k) \/ Close(k)
  \/ \E m \in Messages : Deliver(m)
  \/ \E f \in {1, 2} : Command(f)

Spec == Init /\ [][Next]_sessionVars
=============================================================================
