------------------------------ MODULE NetLink ------------------------------
(***************************************************************************)
(* src/src/netLink.c, the kernel end of the netlink channel, with the      *)
(* module's entry and exit in src/src/main.c and the hook's registration   *)
(* in src/src/netFilter.c.                                                 *)
(*                                                                         *)
(* Three kinds of context run this code at the same time:                  *)
(*   - a client process, inside sendto(): netlink calls recvMsgNetlink     *)
(*     synchronously in the sender's context;                              *)
(*   - hook_func, in the softirq of a CPU, which calls sendMsgNetlink;     *)
(*   - the process that loads and unloads the module.                      *)
(* A softirq preempts the process running on its CPU unless that process   *)
(* has bottom halves disabled, which is what the _bh of the lock calls is  *)
(* for.  One step is one access to shared state: each lock acquisition,    *)
(* and each critical section's read or write of user_proc.pid.             *)
(***************************************************************************)
EXTENDS Naturals, Sequences, FiniteSets

CONSTANTS
  Clients,   \* client processes; a client is its pid (nlmsg_pid = getpid())
  Cpus,      \* CPUs; a CPU names the softirq context that runs hook_func on it
  Loader,    \* the process context of insmod and rmmod
  CpuOf,     \* the CPU a process runs on
  NoPid,     \* user_proc.pid = 0
  MaxMsgs,   \* bound: messages each client sends to the kernel
  RcvBuf     \* receive queue of a client's socket, in messages

Procs == Clients \cup {Loader}
Ctx == Procs \cup Cpus

ASSUME ContextsAssumption ==
  /\ Clients \cap Cpus = {}
  /\ Loader \notin Clients \cup Cpus
  /\ NoPid \notin Clients
  /\ IsFiniteSet(Clients) /\ IsFiniteSet(Cpus)
  /\ CpuOf \in [Procs -> Cpus]

ASSUME BoundsAssumption == MaxMsgs \in [Clients -> Nat] /\ RcvBuf \in Nat \ {0}

VARIABLES
  nl_sk,        \* "NULL"; "created" (clients can use the socket, the pointer
                \* is not set yet); "open"; "released" (freed, pointer still set)
  pid,          \* user_proc.pid
  readers,      \* contexts that hold user_proc.lock for reading
  writers,      \* contexts that hold user_proc.lock for writing
  operatorflag, \* 0, 1 (pass) or 2 (drop)
  pc,           \* where each context is in this code
  job,          \* what the context is here for
  sock,         \* each client's socket
  inbox,        \* receive queue of each client's socket
  sent,         \* messages each client has sent to the kernel
  leaked,       \* skbs allocated, neither sent nor freed (history)
  cleared       \* times pid was set to 0 (history)

vars == <<nl_sk, pid, readers, writers, operatorflag, pc, job,
          sock, inbox, sent, leaked, cleared>>

----------------------------------------------------------------------------
(* Contexts and scheduling.                                                *)

\* Between the call of write_lock_bh, or of read_lock_bh, and its unlock.
WriteRegion == {"w_spin", "w_held"}
ReadRegion == {"r1_spin", "r1_held", "r2_spin", "r2_held", "r2_send"}
LockRegion == WriteRegion \cup ReadRegion

ReadSection == {"r1_held", "r2_held", "r2_send"}

\* From the pid check that let a send go on to its end.
Committed == {"alloc", "r2_spin", "r2_held", "r2_send"}

\* Of the loader only: before init; the socket created; the hook registered;
\* netlink released; the hook taken off the list; module memory freed.
LoaderPcs == {"load", "assign", "hooked", "released", "unhooked", "gone"}

PcValues == LoaderPcs \cup {"idle", "w_lock", "send", "alloc"} \cup LockRegion

Jobs == {"none", "CREATE", "CONNECT", "DISCONNECT", "REPORT"}

Message == [text : Jobs, by : Ctx]

PlainLocks(c) == FALSE   \* mutant: lock calls without _bh

BhDisabled(c) ==
  \E p \in Procs : CpuOf[p] = c /\ pc[p] \in LockRegion

\* A softirq runs to its end; a process runs when no softirq has preempted it
\* and no other process of its CPU has preemption disabled.
Runnable(x) ==
  x \in Procs =>
    /\ pc[CpuOf[x]] = "idle"
    /\ \A p \in Procs \ {x} : CpuOf[p] = CpuOf[x] => pc[p] \notin LockRegion

Goto(x, from, to) ==
  /\ pc[x] = from
  /\ Runnable(x)
  /\ pc' = [pc EXCEPT ![x] = to]

\* Where sendMsgNetlink returns to: recvMsgNetlink still has to clear pid
\* when it was called for a disconnect.
AfterSend(x) == IF job[x] = "DISCONNECT" THEN "w_lock" ELSE "idle"

Init ==
  /\ nl_sk = "NULL"
  /\ pid = NoPid
  /\ readers = {} /\ writers = {}
  /\ operatorflag = 0
  /\ pc = [x \in Ctx |-> IF x = Loader THEN "load" ELSE "idle"]
  /\ job = [x \in Ctx |-> "none"]
  /\ sock = [k \in Clients |-> "new"]
  /\ inbox = [k \in Clients |-> <<>>]
  /\ sent = [k \in Clients |-> 0]
  /\ leaked = 0 /\ cleared = 0

----------------------------------------------------------------------------
(* user_proc.lock                                                          *)

\* write_lock_bh: bottom halves go off before the wait for the lock.
WriteLockBh(x) ==
  /\ Goto(x, "w_lock", "w_spin")
  /\ UNCHANGED <<nl_sk, pid, readers, writers, operatorflag, job,
                 sock, inbox, sent, leaked, cleared>>

WriteAcquireShared(x) ==   \* mutant: does not wait for the readers
  /\ Goto(x, "w_spin", "w_held")
  /\ writers = {}
  /\ writers' = {x}
  /\ UNCHANGED <<nl_sk, pid, readers, operatorflag, job,
                 sock, inbox, sent, leaked, cleared>>

WriteAcquire(x) ==
  /\ Goto(x, "w_spin", "w_held")
  /\ readers = {} /\ writers = {}
  /\ writers' = {x}
  /\ UNCHANGED <<nl_sk, pid, readers, operatorflag, job,
                 sock, inbox, sent, leaked, cleared>>

ReadAcquire(x) ==
  /\ \/ Goto(x, "r1_spin", "r1_held")
     \/ Goto(x, "r2_spin", "r2_held")
  /\ writers = {}
  /\ readers' = readers \cup {x}
  /\ UNCHANGED <<nl_sk, pid, writers, operatorflag, job,
                 sock, inbox, sent, leaked, cleared>>

\* The write section: store the client's pid or 0, and unlock.  A connect
\* goes on to send its reply.
SetPidKeepsLock(x) ==   \* mutant: write_unlock_bh forgotten
  /\ Goto(x, "w_held", IF job[x] = "CONNECT" THEN "send" ELSE "idle")
  /\ pid' = IF job[x] = "CONNECT" THEN x ELSE NoPid
  /\ cleared' = IF job[x] = "CONNECT" THEN cleared ELSE cleared + 1
  /\ UNCHANGED <<nl_sk, readers, writers, operatorflag, job, sock, inbox, sent, leaked>>

SetPid(x) ==
  /\ Goto(x, "w_held", IF job[x] = "CONNECT" THEN "send" ELSE "idle")
  /\ pid' = IF job[x] = "CONNECT" THEN x ELSE NoPid
  /\ cleared' = IF job[x] = "CONNECT" THEN cleared ELSE cleared + 1
  /\ writers' = writers \ {x}
  /\ UNCHANGED <<nl_sk, readers, operatorflag, job, sock, inbox, sent, leaked>>

----------------------------------------------------------------------------
(* sendMsgNetlink, called by recvMsgNetlink for a reply and by hook_func   *)
(* for a report.                                                           *)

SendEntry(x) ==
  /\ Goto(x, "send", IF nl_sk \in {"NULL", "created"} THEN AfterSend(x) ELSE "r1_spin")
  /\ UNCHANGED <<nl_sk, pid, readers, writers, operatorflag, job,
                 sock, inbox, sent, leaked, cleared>>

\* First read section: is there a client at all?
CheckClientKeepsLock(x) ==   \* mutant: returns without read_unlock_bh
  /\ Goto(x, "r1_held", IF pid = NoPid THEN AfterSend(x) ELSE "alloc")
  /\ readers' = IF pid = NoPid THEN readers ELSE readers \ {x}
  /\ UNCHANGED <<nl_sk, pid, writers, operatorflag, job,
                 sock, inbox, sent, leaked, cleared>>

CheckClientDropped(x) ==   \* mutant: no first check of pid
  /\ Goto(x, "r1_held", "alloc")
  /\ readers' = readers \ {x}
  /\ UNCHANGED <<nl_sk, pid, writers, operatorflag, job,
                 sock, inbox, sent, leaked, cleared>>

CheckClient(x) ==
  /\ Goto(x, "r1_held", IF pid = NoPid THEN AfterSend(x) ELSE "alloc")
  /\ readers' = readers \ {x}
  /\ UNCHANGED <<nl_sk, pid, writers, operatorflag, job,
                 sock, inbox, sent, leaked, cleared>>

\* alloc_skb(GFP_ATOMIC) may fail.
AllocSkb(x) ==
  /\ \/ Goto(x, "alloc", "r2_spin")
     \/ Goto(x, "alloc", AfterSend(x))
  /\ UNCHANGED <<nl_sk, pid, readers, writers, operatorflag, job,
                 sock, inbox, sent, leaked, cleared>>

\* Second read section: the client may have gone meanwhile; then the function
\* returns without freeing the skb.
RecheckUnlocked(x) ==   \* mutant: read_unlock_bh before netlink_unicast
  /\ Goto(x, "r2_held", IF pid = NoPid THEN AfterSend(x) ELSE "r2_send")
  /\ readers' = readers \ {x}
  /\ leaked' = IF pid = NoPid THEN leaked + 1 ELSE leaked
  /\ UNCHANGED <<nl_sk, pid, writers, operatorflag, job,
                 sock, inbox, sent, cleared>>

Recheck(x) ==
  /\ Goto(x, "r2_held", IF pid = NoPid THEN AfterSend(x) ELSE "r2_send")
  /\ IF pid = NoPid
       THEN readers' = readers \ {x} /\ leaked' = leaked + 1
       ELSE UNCHANGED <<readers, leaked>>
  /\ UNCHANGED <<nl_sk, pid, writers, operatorflag, job,
                 sock, inbox, sent, cleared>>

\* netlink_unicast to the socket bound to pid p, MSG_DONTWAIT: the skb is
\* queued, or freed when p has no open socket or its queue is full.
Queued(p, m) ==
  IF p \in Clients /\ sock[p] = "open" /\ Len(inbox[p]) < RcvBuf
    THEN [inbox EXCEPT ![p] = Append(@, m)]
    ELSE inbox

UnicastToCaller(x) ==   \* mutant: replies to the sender instead of pid
  /\ Goto(x, "r2_send", AfterSend(x))
  /\ inbox' = Queued(IF x \in Clients THEN x ELSE pid, [text |-> job[x], by |-> x])
  /\ readers' = readers \ {x}
  /\ UNCHANGED <<nl_sk, pid, writers, operatorflag, job,
                 sock, sent, leaked, cleared>>

\* user_proc.pid is read a second time, under the same read lock.
Unicast(x) ==
  /\ Goto(x, "r2_send", AfterSend(x))
  /\ inbox' = Queued(pid, [text |-> job[x], by |-> x])
  /\ readers' = readers \ {x}
  /\ UNCHANGED <<nl_sk, pid, writers, operatorflag, job,
                 sock, sent, leaked, cleared>>

----------------------------------------------------------------------------
(* recvMsgNetlink, one action per message type.  A message shorter than    *)
(* its header, or of another type, changes nothing.                        *)

Published == nl_sk \in {"created", "open"}

Receive(k) ==
  /\ Published /\ sock[k] = "open"
  /\ pc[k] = "idle" /\ Runnable(k)
  /\ sent[k] < MaxMsgs[k]
  /\ sent' = [sent EXCEPT ![k] = @ + 1]

RecvConnect(k) ==
  /\ Receive(k)
  /\ Goto(k, "idle", "w_lock")
  /\ job' = [job EXCEPT ![k] = "CONNECT"]
  /\ UNCHANGED <<nl_sk, pid, readers, writers, operatorflag,
                 sock, inbox, leaked, cleared>>

\* The reply is sent first, pid is cleared afterwards.
RecvDisconnect(k) ==
  /\ Receive(k)
  /\ Goto(k, "idle", "send")
  /\ job' = [job EXCEPT ![k] = "DISCONNECT"]
  /\ UNCHANGED <<nl_sk, pid, readers, writers, operatorflag,
                 sock, inbox, leaked, cleared>>

RecvCommandOffByOne(k) ==   \* mutant: drop is 3
  /\ Receive(k)
  /\ operatorflag' \in {1, 3}
  /\ UNCHANGED <<nl_sk, pid, readers, writers, pc, job,
                 sock, inbox, leaked, cleared>>

\* No lock, no check of who sends it, no reply.
RecvCommand(k) ==
  /\ Receive(k)
  /\ operatorflag' \in {1, 2}
  /\ UNCHANGED <<nl_sk, pid, readers, writers, pc, job,
                 sock, inbox, leaked, cleared>>

----------------------------------------------------------------------------
(* init and fini.                                                          *)

\* netlink_kernel_create, which may fail, publishes the socket before it
\* returns the pointer, and before the first store to pid.
CreateNetlink ==
  /\ \/ Goto(Loader, "load", "assign") /\ nl_sk' = "created"
     \/ Goto(Loader, "load", "idle")   /\ nl_sk' = "NULL"
  /\ job' = [job EXCEPT ![Loader] = "CREATE"]
  /\ UNCHANGED <<pid, readers, writers, operatorflag,
                 sock, inbox, sent, leaked, cleared>>

AssignSocket ==
  /\ Goto(Loader, "assign", "w_lock")
  /\ nl_sk' = "open"
  /\ UNCHANGED <<pid, readers, writers, operatorflag, job,
                 sock, inbox, sent, leaked, cleared>>

\* init goes on to register the hook, whether createNetlink succeeded or not,
\* if the configuration can be read and its direction is "=>".
RegisterHook ==
  /\ Goto(Loader, "idle", "hooked")
  /\ UNCHANGED <<nl_sk, pid, readers, writers, operatorflag, job,
                 sock, inbox, sent, leaked, cleared>>

\* fini releases the socket first; nl_sk keeps its value.  rmmod is refused
\* while a client holds a socket of this protocol.  Without a hook there is
\* nothing to take off afterwards.
DeleteNetlink ==
  /\ \/ Goto(Loader, "hooked", "released")
     \/ Goto(Loader, "idle", "unhooked")
  /\ \A k \in Clients : sock[k] # "open"
  /\ nl_sk' = IF nl_sk = "open" THEN "released" ELSE nl_sk
  /\ UNCHANGED <<pid, readers, writers, operatorflag, job,
                 sock, inbox, sent, leaked, cleared>>

UnregisterHookSkipped ==   \* mutant: the hook stays registered
  /\ Goto(Loader, "released", "gone")
  /\ UNCHANGED <<nl_sk, pid, readers, writers, operatorflag, job,
                 sock, inbox, sent, leaked, cleared>>

UnregisterHook ==
  /\ Goto(Loader, "released", "unhooked")
  /\ UNCHANGED <<nl_sk, pid, readers, writers, operatorflag, job,
                 sock, inbox, sent, leaked, cleared>>

\* nf_unregister_hook returns, and the module is freed, when the hook calls
\* under way have ended.
Unload ==
  /\ Goto(Loader, "unhooked", "gone")
  /\ \A c \in Cpus : pc[c] = "idle"
  /\ UNCHANGED <<nl_sk, pid, readers, writers, operatorflag, job,
                 sock, inbox, sent, leaked, cleared>>

\* After that nothing happens in this code.
Unloaded ==
  /\ pc[Loader] = "gone"
  /\ UNCHANGED vars

----------------------------------------------------------------------------
(* The contexts outside this file: packets and client processes.           *)

\* A packet makes hook_func call sendMsgNetlink on CPU c.
HookReport(c) ==
  /\ pc[c] = "idle" /\ ~BhDisabled(c)
  /\ pc[Loader] \in {"hooked", "released"}
  /\ pc' = [pc EXCEPT ![c] = "send"]
  /\ job' = [job EXCEPT ![c] = "REPORT"]
  /\ UNCHANGED <<nl_sk, pid, readers, writers, operatorflag,
                 sock, inbox, sent, leaked, cleared>>

OpenSocket(k) ==
  /\ Published /\ sock[k] = "new"
  /\ sock' = [sock EXCEPT ![k] = "open"]
  /\ UNCHANGED <<nl_sk, pid, readers, writers, operatorflag, pc, job,
                 inbox, sent, leaked, cleared>>

\* Exit or death of the client, which the kernel code is not told of.
CloseSocket(k) ==
  /\ sock[k] = "open" /\ pc[k] = "idle"
  /\ sock' = [sock EXCEPT ![k] = "closed"]
  /\ inbox' = [inbox EXCEPT ![k] = <<>>]
  /\ UNCHANGED <<nl_sk, pid, readers, writers, operatorflag, pc, job,
                 sent, leaked, cleared>>

ClientRead(k) ==
  /\ pc[k] = "idle" /\ inbox[k] # <<>>
  /\ inbox' = [inbox EXCEPT ![k] = Tail(@)]
  /\ UNCHANGED <<nl_sk, pid, readers, writers, operatorflag, pc, job,
                 sock, sent, leaked, cleared>>

----------------------------------------------------------------------------
\* One step of a call in progress.
Step(x) ==
  \/ WriteLockBh(x) \/ WriteAcquire(x) \/ SetPid(x)
  \/ SendEntry(x) \/ ReadAcquire(x) \/ CheckClient(x)
  \/ AllocSkb(x) \/ Recheck(x) \/ Unicast(x)

Next ==
  \/ \E x \in Ctx : Step(x)
  \/ \E k \in Clients :
       \/ RecvConnect(k) \/ RecvDisconnect(k) \/ RecvCommand(k)
       \/ OpenSocket(k) \/ CloseSocket(k) \/ ClientRead(k)
  \/ \E c \in Cpus : HookReport(c)
  \/ CreateNetlink \/ AssignSocket \/ RegisterHook
  \/ DeleteNetlink \/ UnregisterHook \/ Unload \/ Unloaded

Spec == Init /\ [][Next]_vars

\* A step of a call other than taking a lock it waits for.
Proceed(x) == pc[x] \notin {"w_spin", "r1_spin", "r2_spin"} /\ Step(x)

\* Each context runs on; a process does so again and again between softirqs
\* (ksoftirqd takes over under load).  Who waits for the lock gets it if it
\* stays free: the kernel lets readers pass a waiting writer.
Fairness ==
  /\ \A x \in Ctx : WF_vars(Step(x))
  /\ \A p \in Procs : SF_vars(Proceed(p))
  /\ SF_vars(UnregisterHook) /\ SF_vars(Unload)

FairSpec == Spec /\ Fairness

----------------------------------------------------------------------------
(* Properties.                                                             *)

\* Every variable stays in its range (netLink.c:15-23 and the queues).
TypeOK ==
  /\ nl_sk \in {"NULL", "created", "open", "released"}
  /\ pid \in Clients \cup {NoPid}
  /\ readers \in SUBSET Ctx /\ writers \in SUBSET Ctx
  /\ operatorflag \in {0, 1, 2}
  /\ pc \in [Ctx -> PcValues]
  /\ job \in [Ctx -> Jobs]
  /\ sock \in [Clients -> {"new", "open", "closed"}]
  /\ inbox \in [Clients -> Seq(Message)]
  /\ sent \in [Clients -> Nat]
  /\ leaked \in Nat /\ cleared \in Nat

\* Between the second pid check and netlink_unicast, which reads
\* user_proc.pid again (netLink.c:143 and 148), the client cannot go away: a
\* message is never addressed to pid 0, the kernel itself.
UnicastHasTarget ==
  \A x \in Ctx : pc[x] = "r2_send" => pid # NoPid

\* A softirq never waits for user_proc.lock while the process it preempted on
\* its own CPU holds or awaits it (the _bh of netLink.c:47, 56, 104, 142).
NoSelfDeadlock ==
  \A c \in Cpus :
    pc[c] \in {"r1_spin", "r2_spin"} =>
      \A p \in Procs : CpuOf[p] = c => pc[p] \notin LockRegion

\* pid is only changed when no context is inside a read section
\* (netLink.c:47-49 and 56-58 against 104-109 and 142-149).
PidStableForReaders ==
  [][pid' # pid => \A x \in Ctx : pc[x] \notin ReadSection]_vars

\* The skbs lost on the return of netLink.c:145: each time pid is cleared, at
\* most the sends then past their first check lose theirs.
LeakBound == leaked <= cleared * Cardinality(Ctx)

\* netLink.c implements Session: whatever the interleaving, a message goes to
\* the client current when netlink_unicast runs (netLink.c:142-149).
Abstract == INSTANCE Session WITH current <- pid, Messages <- Message
ImplementsSession == Abstract!Spec

\* The module's memory is not freed under a running call: fini returns when
\* neither a handler nor a hook is inside this code (main.c:58-60).
UnloadSafe ==
  pc[Loader] = "gone" => \A x \in Ctx \ {Loader} : pc[x] = "idle"

\* rmmod returns, packets or not (main.c:53-62).
RmmodReturns == pc[Loader] \in {"released", "unhooked"} ~> pc[Loader] = "gone"

\* A message is only sent on a socket that is open; without one the call
\* returns at once (netLink.c:98-101).
SendsOnLiveSocket ==
  \A x \in Ctx : pc[x] = "r2_send" => nl_sk = "open"

\* A writer that waits for ever while readers keep coming (netLink.c:47, 56).
Starves(p) ==
  <>[](pc[p] = "w_spin") /\ []<><<readers' # readers>>_vars

\* hook_func's send always returns, whatever the traffic, and so does every
\* handler, unless a writer of its CPU (itself, say) starves: nothing else
\* makes a context wait for user_proc.lock for ever.
CallsReturn ==
  /\ \A c \in Cpus : pc[c] # "idle" ~> pc[c] = "idle"
  /\ \A k \in Clients :
       \/ pc[k] # "idle" ~> pc[k] = "idle"
       \/ \E p \in Procs : CpuOf[p] = CpuOf[k] /\ Starves(p)

\* A client stays connected until its own DISCONNECT or another CONNECT
\* (netLink.c:43-59).
KeepsSession ==
  [][\A k \in Clients :
        pid = k /\ pid' = NoPid => pc[k] = "w_held" /\ job[k] = "DISCONNECT"]_vars
=============================================================================
