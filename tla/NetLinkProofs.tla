--------------------------- MODULE NetLinkProofs ---------------------------
(***************************************************************************)
(* Theorems about NetLink, for any finite sets of clients and CPUs.        *)
(***************************************************************************)
EXTENDS NetLink, TLAPS, FiniteSetTheorems

\* Only clients connect and disconnect.
JobInv ==
  \A x \in Ctx : job[x] \in {"CONNECT", "DISCONNECT"} => x \in Clients

TypeInv == TypeOK /\ JobInv

\* Where the kinds of contexts lie.
LEMMA CtxFacts ==
  /\ Clients \subseteq Ctx /\ Cpus \subseteq Ctx /\ Procs \subseteq Ctx
  /\ Loader \in Ctx /\ Loader \in Procs /\ Clients \subseteq Procs
  /\ Procs \cap Cpus = {}
  /\ \A p \in Procs : CpuOf[p] \in Cpus
  BY ContextsAssumption DEF Ctx, Procs

(***************************************************************************)
(* Types.                                                                  *)
(***************************************************************************)

\* netLink.c keeps every variable in its range, and pid is 0 or a client.
THEOREM TypeCorrect == Spec => []TypeInv
<1>1. Init => TypeInv
  BY CtxFacts, BoundsAssumption
  DEF Init, TypeInv, TypeOK, JobInv, PcValues, LoaderPcs, Jobs, LockRegion, WriteRegion, ReadRegion
<1>2. TypeInv /\ [Next]_vars => TypeInv'
  <2> SUFFICES ASSUME TypeInv, [Next]_vars PROVE TypeInv'
    OBVIOUS
  <2> USE CtxFacts DEF TypeInv, TypeOK, JobInv, PcValues, LoaderPcs, Jobs, LockRegion, WriteRegion, ReadRegion
  <2>1. ASSUME NEW x \in Ctx, WriteLockBh(x) PROVE TypeInv'
    BY <2>1 DEF WriteLockBh, Goto
  <2>2. ASSUME NEW x \in Ctx, WriteAcquire(x) PROVE TypeInv'
    BY <2>2 DEF WriteAcquire, Goto
  <2>3. ASSUME NEW x \in Ctx, SetPid(x) PROVE TypeInv'
    BY <2>3 DEF SetPid, Goto
  <2>4. ASSUME NEW x \in Ctx, SendEntry(x) PROVE TypeInv'
    BY <2>4 DEF SendEntry, Goto, AfterSend
  <2>5. ASSUME NEW x \in Ctx, ReadAcquire(x) PROVE TypeInv'
    BY <2>5 DEF ReadAcquire, Goto
  <2>6. ASSUME NEW x \in Ctx, CheckClient(x) PROVE TypeInv'
    BY <2>6 DEF CheckClient, Goto, AfterSend
  <2>7. ASSUME NEW x \in Ctx, AllocSkb(x) PROVE TypeInv'
    BY <2>7 DEF AllocSkb, Goto, AfterSend
  <2>8. ASSUME NEW x \in Ctx, Recheck(x) PROVE TypeInv'
    BY <2>8 DEF Recheck, Goto, AfterSend
  <2>9. ASSUME NEW x \in Ctx, Unicast(x) PROVE TypeInv'
    BY <2>9 DEF Unicast, Goto, AfterSend, Queued, Message
  <2>10. ASSUME NEW k \in Clients, RecvConnect(k) PROVE TypeInv'
    BY <2>10 DEF RecvConnect, Receive, Goto
  <2>11. ASSUME NEW k \in Clients, RecvDisconnect(k) PROVE TypeInv'
    BY <2>11 DEF RecvDisconnect, Receive, Goto
  <2>12. ASSUME NEW k \in Clients, RecvCommand(k) PROVE TypeInv'
    BY <2>12 DEF RecvCommand, Receive
  <2>13. ASSUME NEW k \in Clients, OpenSocket(k) PROVE TypeInv'
    BY <2>13 DEF OpenSocket
  <2>14. ASSUME NEW k \in Clients, CloseSocket(k) PROVE TypeInv'
    BY <2>14 DEF CloseSocket
  <2>15. ASSUME NEW k \in Clients, ClientRead(k) PROVE TypeInv'
    BY <2>15 DEF ClientRead
  <2>16. ASSUME NEW c \in Cpus, HookReport(c) PROVE TypeInv'
    BY <2>16, ContextsAssumption DEF HookReport
  <2>17. CASE CreateNetlink
    BY <2>17, ContextsAssumption DEF CreateNetlink, Goto
  <2>24. CASE AssignSocket
    BY <2>24, ContextsAssumption DEF AssignSocket, Goto
  <2>18. CASE DeleteNetlink
    BY <2>18 DEF DeleteNetlink, Goto
  <2>20. CASE RegisterHook
    BY <2>20 DEF RegisterHook, Goto
  <2>21. CASE UnregisterHook
    BY <2>21 DEF UnregisterHook, Goto
  <2>22. CASE Unload
    BY <2>22 DEF Unload, Goto
  <2>23. CASE Unloaded
    BY <2>23 DEF Unloaded, vars
  <2>19. CASE UNCHANGED vars
    BY <2>19 DEF vars
  <2> QED
    BY <2>1, <2>2, <2>3, <2>4, <2>5, <2>6, <2>7, <2>8, <2>9, <2>10, <2>11,
       <2>12, <2>13, <2>14, <2>15, <2>16, <2>17, <2>18, <2>19,
       <2>20, <2>21, <2>22, <2>23, <2>24
    DEF Next, Step
<1> QED
  BY <1>1, <1>2, PTL DEF Spec

\* The type invariant TLC checks.
COROLLARY TypeOKCorrect == Spec => []TypeOK
<1>1. TypeInv => TypeOK
  BY DEF TypeInv
<1> QED
  BY <1>1, TypeCorrect, PTL

(***************************************************************************)
(* The lock.                                                               *)
(***************************************************************************)

\* The lock's holders are the contexts inside the sections, writers exclude
\* everyone, and a send past its second check has a client.
LockInv ==
  /\ readers = {x \in Ctx : pc[x] \in ReadSection}
  /\ writers = {x \in Ctx : pc[x] = "w_held"}
  /\ writers # {} => readers = {}
  /\ \A x, y \in writers : x = y
  /\ UnicastHasTarget

\* LockInv holds in every reachable state of netLink.c.
THEOREM LockCorrect == Spec => []LockInv
<1>1. Init => LockInv
  BY CtxFacts DEF Init, LockInv, UnicastHasTarget, ReadSection
<1>2. TypeInv /\ LockInv /\ [Next]_vars => LockInv'
  <2> SUFFICES ASSUME TypeInv, LockInv, [Next]_vars PROVE LockInv'
    OBVIOUS
  <2> USE CtxFacts DEF TypeInv, TypeOK, LockInv, UnicastHasTarget, ReadSection
  <2>1. ASSUME NEW x \in Ctx, WriteLockBh(x) PROVE LockInv'
    BY <2>1 DEF WriteLockBh, Goto
  <2>2. ASSUME NEW x \in Ctx, WriteAcquire(x) PROVE LockInv'
    BY <2>2 DEF WriteAcquire, Goto
  <2>3. ASSUME NEW x \in Ctx, SetPid(x) PROVE LockInv'
    BY <2>3 DEF SetPid, Goto
  <2>4. ASSUME NEW x \in Ctx, SendEntry(x) PROVE LockInv'
    BY <2>4 DEF SendEntry, Goto, AfterSend
  <2>5. ASSUME NEW x \in Ctx, ReadAcquire(x) PROVE LockInv'
    BY <2>5 DEF ReadAcquire, Goto
  <2>6. ASSUME NEW x \in Ctx, CheckClient(x) PROVE LockInv'
    BY <2>6 DEF CheckClient, Goto, AfterSend
  <2>7. ASSUME NEW x \in Ctx, AllocSkb(x) PROVE LockInv'
    BY <2>7 DEF AllocSkb, Goto, AfterSend
  <2>8. ASSUME NEW x \in Ctx, Recheck(x) PROVE LockInv'
    BY <2>8 DEF Recheck, Goto, AfterSend
  <2>9. ASSUME NEW x \in Ctx, Unicast(x) PROVE LockInv'
    BY <2>9 DEF Unicast, Goto, AfterSend
  <2>10. ASSUME NEW k \in Clients, RecvConnect(k) PROVE LockInv'
    BY <2>10 DEF RecvConnect, Receive, Goto
  <2>11. ASSUME NEW k \in Clients, RecvDisconnect(k) PROVE LockInv'
    BY <2>11 DEF RecvDisconnect, Receive, Goto
  <2>12. ASSUME NEW k \in Clients, RecvCommand(k) PROVE LockInv'
    BY <2>12 DEF RecvCommand, Receive
  <2>13. ASSUME NEW k \in Clients, OpenSocket(k) PROVE LockInv'
    BY <2>13 DEF OpenSocket
  <2>14. ASSUME NEW k \in Clients, CloseSocket(k) PROVE LockInv'
    BY <2>14 DEF CloseSocket
  <2>15. ASSUME NEW k \in Clients, ClientRead(k) PROVE LockInv'
    BY <2>15 DEF ClientRead
  <2>16. ASSUME NEW c \in Cpus, HookReport(c) PROVE LockInv'
    BY <2>16 DEF HookReport
  <2>17. CASE CreateNetlink
    BY <2>17 DEF CreateNetlink, Goto
  <2>24. CASE AssignSocket
    BY <2>24 DEF AssignSocket, Goto
  <2>18. CASE DeleteNetlink
    BY <2>18 DEF DeleteNetlink, Goto
  <2>20. CASE RegisterHook
    BY <2>20 DEF RegisterHook, Goto
  <2>21. CASE UnregisterHook
    BY <2>21 DEF UnregisterHook, Goto
  <2>22. CASE Unload
    BY <2>22 DEF Unload, Goto
  <2>23. CASE Unloaded
    BY <2>23 DEF Unloaded, vars
  <2>19. CASE UNCHANGED vars
    BY <2>19 DEF vars
  <2> QED
    BY <2>1, <2>2, <2>3, <2>4, <2>5, <2>6, <2>7, <2>8, <2>9,
       <2>10, <2>11, <2>12, <2>13, <2>14, <2>15, <2>16, <2>17, <2>18, <2>19,
       <2>20, <2>21, <2>22, <2>23, <2>24
    DEF Next, Step
<1> QED
  BY <1>1, <1>2, TypeCorrect, PTL DEF Spec

\* A message is never addressed to pid 0 (netLink.c:143-148): what TLC checks
\* on small instances, for every set of clients and CPUs.
THEOREM UnicastTargetCorrect == Spec => []UnicastHasTarget
<1>1. LockInv => UnicastHasTarget
  BY DEF LockInv
<1> QED
  BY <1>1, LockCorrect, PTL

\* pid changes only while no context reads it (netLink.c:47-49, 56-58).
THEOREM PidStableCorrect == Spec => PidStableForReaders
<1>1. TypeInv /\ LockInv /\ [Next]_vars =>
        [pid' # pid => \A x \in Ctx : pc[x] \notin ReadSection]_vars
  <2> SUFFICES ASSUME TypeInv, LockInv, [Next]_vars, pid' # pid
               PROVE  \A x \in Ctx : pc[x] \notin ReadSection
    OBVIOUS
  <2>1. \E x \in Ctx : SetPid(x)
    BY DEF Next, Step, vars, WriteLockBh, WriteAcquire, SendEntry, ReadAcquire,
           CheckClient, AllocSkb, Recheck, Unicast, RecvConnect, RecvDisconnect,
           RecvCommand, OpenSocket, CloseSocket, ClientRead, HookReport,
           CreateNetlink, AssignSocket, DeleteNetlink, RegisterHook, UnregisterHook, Unload,
           Unloaded
  <2>2. writers # {}
    BY <2>1 DEF SetPid, Goto, LockInv
  <2> QED
    BY <2>2 DEF LockInv
<1> QED
  BY <1>1, TypeCorrect, LockCorrect, PTL DEF Spec, PidStableForReaders

(***************************************************************************)
(* Scheduling.                                                             *)
(***************************************************************************)

\* A CPU that runs a softirq has no process inside a lock region.
SchedInv ==
  \A c \in Cpus : pc[c] # "idle" =>
    \A p \in Procs : CpuOf[p] = c => pc[p] \notin LockRegion

\* No softirq spins on a lock held by the process it preempted.
THEOREM NoSelfDeadlockCorrect == Spec => []NoSelfDeadlock
<1>1. Init => SchedInv
  BY CtxFacts, ContextsAssumption DEF Init, SchedInv
<1>2. TypeInv /\ SchedInv /\ [Next]_vars => SchedInv'
  <2> SUFFICES ASSUME TypeInv, SchedInv, [Next]_vars PROVE SchedInv'
    OBVIOUS
  <2> USE CtxFacts DEF TypeInv, TypeOK, SchedInv, LockRegion, WriteRegion, ReadRegion, Runnable
  <2>1. ASSUME NEW x \in Ctx, WriteLockBh(x) PROVE SchedInv'
    BY <2>1 DEF WriteLockBh, Goto
  <2>2. ASSUME NEW x \in Ctx, WriteAcquire(x) PROVE SchedInv'
    BY <2>2 DEF WriteAcquire, Goto
  <2>3. ASSUME NEW x \in Ctx, SetPid(x) PROVE SchedInv'
    BY <2>3 DEF SetPid, Goto
  <2>4. ASSUME NEW x \in Ctx, SendEntry(x) PROVE SchedInv'
    BY <2>4 DEF SendEntry, Goto, AfterSend
  <2>5. ASSUME NEW x \in Ctx, ReadAcquire(x) PROVE SchedInv'
    BY <2>5 DEF ReadAcquire, Goto
  <2>6. ASSUME NEW x \in Ctx, CheckClient(x) PROVE SchedInv'
    BY <2>6 DEF CheckClient, Goto, AfterSend
  <2>7. ASSUME NEW x \in Ctx, AllocSkb(x) PROVE SchedInv'
    BY <2>7 DEF AllocSkb, Goto, AfterSend
  <2>8. ASSUME NEW x \in Ctx, Recheck(x) PROVE SchedInv'
    BY <2>8 DEF Recheck, Goto, AfterSend
  <2>9. ASSUME NEW x \in Ctx, Unicast(x) PROVE SchedInv'
    BY <2>9 DEF Unicast, Goto, AfterSend
  <2>10. ASSUME NEW k \in Clients, RecvConnect(k) PROVE SchedInv'
    BY <2>10 DEF RecvConnect, Receive, Goto
  <2>11. ASSUME NEW k \in Clients, RecvDisconnect(k) PROVE SchedInv'
    BY <2>11 DEF RecvDisconnect, Receive, Goto
  <2>12. ASSUME NEW k \in Clients, RecvCommand(k) PROVE SchedInv'
    BY <2>12 DEF RecvCommand, Receive
  <2>13. ASSUME NEW k \in Clients, OpenSocket(k) PROVE SchedInv'
    BY <2>13 DEF OpenSocket
  <2>14. ASSUME NEW k \in Clients, CloseSocket(k) PROVE SchedInv'
    BY <2>14 DEF CloseSocket
  <2>15. ASSUME NEW k \in Clients, ClientRead(k) PROVE SchedInv'
    BY <2>15 DEF ClientRead
  <2>16. ASSUME NEW c \in Cpus, HookReport(c) PROVE SchedInv'
    BY <2>16 DEF HookReport, BhDisabled
  <2>17. CASE CreateNetlink
    BY <2>17 DEF CreateNetlink, Goto
  <2>24. CASE AssignSocket
    BY <2>24 DEF AssignSocket, Goto
  <2>18. CASE DeleteNetlink
    BY <2>18 DEF DeleteNetlink, Goto
  <2>20. CASE RegisterHook
    BY <2>20 DEF RegisterHook, Goto
  <2>21. CASE UnregisterHook
    BY <2>21 DEF UnregisterHook, Goto
  <2>22. CASE Unload
    BY <2>22 DEF Unload, Goto
  <2>23. CASE Unloaded
    BY <2>23 DEF Unloaded, vars
  <2>19. CASE UNCHANGED vars
    BY <2>19 DEF vars
  <2> QED
    BY <2>1, <2>2, <2>3, <2>4, <2>5, <2>6, <2>7, <2>8, <2>9,
       <2>10, <2>11, <2>12, <2>13, <2>14, <2>15, <2>16, <2>17, <2>18, <2>19,
       <2>20, <2>21, <2>22, <2>23, <2>24
    DEF Next, Step
<1>3. SchedInv => NoSelfDeadlock
  BY DEF SchedInv, NoSelfDeadlock
<1> QED
  BY <1>1, <1>2, <1>3, TypeCorrect, PTL DEF Spec

(***************************************************************************)
(* Unloading.                                                              *)
(***************************************************************************)

\* A client inside a handler holds its socket, which keeps the module loaded;
\* from the release on there is no socket and none can be opened; init does not
\* end between the creation of the socket and the assignment of its pointer.
UnloadInv ==
  /\ \A k \in Clients : pc[k] # "idle" => sock[k] = "open"
  /\ pc[Loader] \in {"released", "unhooked", "gone"} =>
       ~Published /\ \A k \in Clients : sock[k] # "open"
  /\ nl_sk = "created" => pc[Loader] = "assign"
  /\ pc[Loader] = "gone" => \A c \in Cpus : pc[c] = "idle"

\* The module is not freed under a running call (main.c:58-60).
THEOREM UnloadSafeCorrect == Spec => []UnloadSafe
<1>1. Init => UnloadInv
  BY CtxFacts, ContextsAssumption DEF Init, UnloadInv, Published
<1>2. TypeInv /\ UnloadInv /\ [Next]_vars => UnloadInv'
  <2> SUFFICES ASSUME TypeInv, UnloadInv, [Next]_vars PROVE UnloadInv'
    OBVIOUS
  <2> USE CtxFacts, ContextsAssumption DEF TypeInv, TypeOK, UnloadInv, Published
  <2>1. ASSUME NEW x \in Ctx, WriteLockBh(x) PROVE UnloadInv'
    BY <2>1 DEF WriteLockBh, Goto
  <2>2. ASSUME NEW x \in Ctx, WriteAcquire(x) PROVE UnloadInv'
    BY <2>2 DEF WriteAcquire, Goto
  <2>3. ASSUME NEW x \in Ctx, SetPid(x) PROVE UnloadInv'
    BY <2>3 DEF SetPid, Goto
  <2>4. ASSUME NEW x \in Ctx, SendEntry(x) PROVE UnloadInv'
    BY <2>4 DEF SendEntry, Goto, AfterSend
  <2>5. ASSUME NEW x \in Ctx, ReadAcquire(x) PROVE UnloadInv'
    BY <2>5 DEF ReadAcquire, Goto
  <2>6. ASSUME NEW x \in Ctx, CheckClient(x) PROVE UnloadInv'
    BY <2>6 DEF CheckClient, Goto, AfterSend
  <2>7. ASSUME NEW x \in Ctx, AllocSkb(x) PROVE UnloadInv'
    BY <2>7 DEF AllocSkb, Goto, AfterSend
  <2>8. ASSUME NEW x \in Ctx, Recheck(x) PROVE UnloadInv'
    BY <2>8 DEF Recheck, Goto, AfterSend
  <2>9. ASSUME NEW x \in Ctx, Unicast(x) PROVE UnloadInv'
    BY <2>9 DEF Unicast, Goto, AfterSend
  <2>10. ASSUME NEW k \in Clients, RecvConnect(k) PROVE UnloadInv'
    BY <2>10 DEF RecvConnect, Receive, Goto
  <2>11. ASSUME NEW k \in Clients, RecvDisconnect(k) PROVE UnloadInv'
    BY <2>11 DEF RecvDisconnect, Receive, Goto
  <2>12. ASSUME NEW k \in Clients, RecvCommand(k) PROVE UnloadInv'
    BY <2>12 DEF RecvCommand, Receive
  <2>13. ASSUME NEW k \in Clients, OpenSocket(k) PROVE UnloadInv'
    BY <2>13 DEF OpenSocket
  <2>14. ASSUME NEW k \in Clients, CloseSocket(k) PROVE UnloadInv'
    BY <2>14 DEF CloseSocket
  <2>15. ASSUME NEW k \in Clients, ClientRead(k) PROVE UnloadInv'
    BY <2>15 DEF ClientRead
  <2>16. ASSUME NEW c \in Cpus, HookReport(c) PROVE UnloadInv'
    BY <2>16 DEF HookReport
  <2>17. CASE CreateNetlink
    BY <2>17 DEF CreateNetlink, Goto
  <2>24. CASE AssignSocket
    BY <2>24 DEF AssignSocket, Goto
  <2>18. CASE DeleteNetlink
    BY <2>18 DEF DeleteNetlink, Goto
  <2>19. CASE RegisterHook
    BY <2>19 DEF RegisterHook, Goto
  <2>20. CASE UnregisterHook
    BY <2>20 DEF UnregisterHook, Goto
  <2>21. CASE Unload
    BY <2>21 DEF Unload, Goto
  <2>22. CASE Unloaded
    BY <2>22 DEF Unloaded, vars
  <2>23. CASE UNCHANGED vars
    BY <2>23 DEF vars
  <2> QED
    BY <2>1, <2>2, <2>3, <2>4, <2>5, <2>6, <2>7, <2>8, <2>9, <2>10,
       <2>11, <2>12, <2>13, <2>14, <2>15, <2>16, <2>17, <2>18, <2>19,
       <2>20, <2>21, <2>22, <2>23, <2>24
    DEF Next, Step
<1>3. TypeInv /\ UnloadInv => UnloadSafe
  BY CtxFacts DEF UnloadInv, UnloadSafe, Ctx, Procs, TypeInv, TypeOK
<1> QED
  BY <1>1, <1>2, <1>3, TypeCorrect, PTL DEF Spec

(***************************************************************************)
(* Refinement.                                                             *)
(***************************************************************************)

\* netLink.c implements Session under the mapping current <- pid.
THEOREM SessionCorrect == Spec => ImplementsSession
<1>1. Init => Abstract!Init
  BY DEF Init, Abstract!Init
<1>2. TypeInv /\ LockInv /\ [Next]_vars => [Abstract!Next]_(Abstract!sessionVars)
  <2> DEFINE Goal == [Abstract!Next]_(Abstract!sessionVars)
  <2> SUFFICES ASSUME TypeInv, LockInv, [Next]_vars PROVE Goal
    OBVIOUS
  <2> USE CtxFacts DEF TypeInv, TypeOK, JobInv, Abstract!sessionVars
  <2>1. ASSUME NEW x \in Ctx, WriteLockBh(x) PROVE Goal
    BY <2>1 DEF WriteLockBh, Goto
  <2>2. ASSUME NEW x \in Ctx, WriteAcquire(x) PROVE Goal
    BY <2>2 DEF WriteAcquire, Goto
  <2>3. ASSUME NEW x \in Ctx, SetPid(x) PROVE Goal
    <3>1. CASE job[x] = "CONNECT"
      <4>1. x \in Clients /\ Abstract!Connect(x)
        BY <2>3, <3>1 DEF SetPid, Goto, Abstract!Connect
      <4> QED
        BY <4>1 DEF Abstract!Next
    <3>2. CASE job[x] # "CONNECT"
      <4>1. Abstract!Clear
        BY <2>3, <3>2 DEF SetPid, Goto, Abstract!Clear
      <4> QED
        BY <4>1 DEF Abstract!Next
    <3> QED
      BY <3>1, <3>2
  <2>4. ASSUME NEW x \in Ctx, SendEntry(x) PROVE Goal
    BY <2>4 DEF SendEntry, Goto, AfterSend
  <2>5. ASSUME NEW x \in Ctx, ReadAcquire(x) PROVE Goal
    BY <2>5 DEF ReadAcquire, Goto
  <2>6. ASSUME NEW x \in Ctx, CheckClient(x) PROVE Goal
    BY <2>6 DEF CheckClient, Goto, AfterSend
  <2>7. ASSUME NEW x \in Ctx, AllocSkb(x) PROVE Goal
    BY <2>7 DEF AllocSkb, Goto, AfterSend
  <2>8. ASSUME NEW x \in Ctx, Recheck(x) PROVE Goal
    BY <2>8 DEF Recheck, Goto, AfterSend
  <2>9. ASSUME NEW x \in Ctx, Unicast(x) PROVE Goal
    <3> DEFINE m == [text |-> job[x], by |-> x]
    <3>1. m \in Message
      BY DEF Message
    <3>2. CASE inbox' = inbox
      BY <2>9, <3>2 DEF Unicast
    <3>3. CASE inbox' # inbox
      <4>1. pid \in Clients /\ inbox' = [inbox EXCEPT ![pid] = Append(@, m)]
        BY <2>9, <3>3 DEF Unicast, Queued
      <4>2. Abstract!Deliver(m)
        BY <2>9, <4>1 DEF Unicast, Abstract!Deliver
      <4> QED
        BY <3>1, <4>2 DEF Abstract!Next
    <3> QED
      BY <3>2, <3>3
  <2>10. ASSUME NEW k \in Clients, RecvConnect(k) PROVE Goal
    BY <2>10 DEF RecvConnect, Receive, Goto
  <2>11. ASSUME NEW k \in Clients, RecvDisconnect(k) PROVE Goal
    BY <2>11 DEF RecvDisconnect, Receive, Goto
  <2>12. ASSUME NEW k \in Clients, RecvCommand(k) PROVE Goal
    <3>1. PICK f \in {1, 2} : operatorflag' = f
      BY <2>12 DEF RecvCommand
    <3>2. Abstract!Command(f)
      BY <2>12, <3>1 DEF RecvCommand, Abstract!Command
    <3> QED
      BY <3>2 DEF Abstract!Next
  <2>13. ASSUME NEW k \in Clients, OpenSocket(k) PROVE Goal
    BY <2>13 DEF OpenSocket
  <2>14. ASSUME NEW k \in Clients, CloseSocket(k) PROVE Goal
    <3>1. Abstract!Close(k)
      BY <2>14 DEF CloseSocket, Abstract!Close
    <3> QED
      BY <3>1 DEF Abstract!Next
  <2>15. ASSUME NEW k \in Clients, ClientRead(k) PROVE Goal
    <3>1. Abstract!Read(k)
      BY <2>15 DEF ClientRead, Abstract!Read
    <3> QED
      BY <3>1 DEF Abstract!Next
  <2>16. ASSUME NEW c \in Cpus, HookReport(c) PROVE Goal
    BY <2>16 DEF HookReport
  <2>17. CASE CreateNetlink
    BY <2>17 DEF CreateNetlink, Goto
  <2>24. CASE AssignSocket
    BY <2>24 DEF AssignSocket, Goto
  <2>18. CASE DeleteNetlink
    BY <2>18 DEF DeleteNetlink, Goto
  <2>20. CASE RegisterHook
    BY <2>20 DEF RegisterHook, Goto
  <2>21. CASE UnregisterHook
    BY <2>21 DEF UnregisterHook, Goto
  <2>22. CASE Unload
    BY <2>22 DEF Unload, Goto
  <2>23. CASE Unloaded
    BY <2>23 DEF Unloaded, vars
  <2>19. CASE UNCHANGED vars
    BY <2>19 DEF vars
  <2> QED
    BY <2>1, <2>2, <2>3, <2>4, <2>5, <2>6, <2>7, <2>8, <2>9,
       <2>10, <2>11, <2>12, <2>13, <2>14, <2>15, <2>16, <2>17, <2>18, <2>19,
       <2>20, <2>21, <2>22, <2>23, <2>24
    DEF Next, Step
<1> QED
  BY <1>1, <1>2, TypeCorrect, LockCorrect, PTL
  DEF Spec, ImplementsSession, Abstract!Spec

(***************************************************************************)
(* Leaked buffers.                                                         *)
(***************************************************************************)

\* The sends that will lose their skb unless a client connects in time.
Exposed == IF pid = NoPid THEN {x \in Ctx : pc[x] \in Committed} ELSE {}

LeakInv == leaked + Cardinality(Exposed) <= cleared * Cardinality(Ctx)

\* The sizes LeakInv speaks of are natural numbers.
LEMMA ExposedFinite ==
  /\ IsFiniteSet(Ctx) /\ Cardinality(Ctx) \in Nat
  /\ \A S \in SUBSET Ctx :
       IsFiniteSet(S) /\ Cardinality(S) \in Nat /\ Cardinality(S) <= Cardinality(Ctx)
<1>1. IsFiniteSet(Ctx)
  <2>1. IsFiniteSet(Clients \cup {Loader})
    BY ContextsAssumption, FS_AddElement
  <2> QED
    BY <2>1, ContextsAssumption, FS_Union DEF Ctx, Procs
<1> QED
  BY <1>1, FS_Subset, FS_CardinalityType

\* A step that leaks nothing, clears nothing and exposes no further send.
LEMMA LeakUnchanged ==
  ASSUME TypeInv, LeakInv, UNCHANGED <<leaked, cleared>>,
         Exposed' \subseteq Exposed
  PROVE  LeakInv'
<1>1. Exposed \subseteq Ctx
  BY DEF Exposed
<1>2. Cardinality(Exposed') <= Cardinality(Exposed) /\ Cardinality(Exposed') \in Nat
  BY <1>1, ExposedFinite, FS_Subset, FS_CardinalityType
<1>3. Cardinality(Exposed) \in Nat /\ Cardinality(Ctx) \in Nat
  BY <1>1, ExposedFinite
<1> QED
  BY <1>2, <1>3 DEF LeakInv, TypeInv, TypeOK

\* LeakInv is inductive.
LEMMA LeakStep == TypeInv /\ LeakInv /\ [Next]_vars => LeakInv'
<1> SUFFICES ASSUME TypeInv, LeakInv, [Next]_vars PROVE LeakInv'
  OBVIOUS
<1> DEFINE Smaller == UNCHANGED <<leaked, cleared>> /\ Exposed' \subseteq Exposed
<1> USE DEF TypeInv, TypeOK
<1>1. ASSUME NEW x \in Ctx, SetPid(x) PROVE LeakInv'
  <2>1. CASE job[x] = "CONNECT"
    <3>1. pid' # NoPid
      BY <1>1, <2>1, ContextsAssumption DEF SetPid, JobInv
    <3> QED
      BY <1>1, <2>1, <3>1, LeakUnchanged DEF SetPid, Exposed
  <2>2. CASE job[x] # "CONNECT"
    <3>1. leaked' = leaked /\ cleared' = cleared + 1
      BY <1>1, <2>2 DEF SetPid
    <3>2. Cardinality(Exposed') \in Nat /\ Cardinality(Exposed') <= Cardinality(Ctx)
      <4>1. Exposed' \subseteq Ctx
        BY DEF Exposed
      <4> QED
        BY <4>1, ExposedFinite
    <3>3. leaked <= cleared * Cardinality(Ctx)
      <4>1. Exposed \subseteq Ctx
        BY DEF Exposed
      <4>2. Cardinality(Exposed) \in Nat /\ Cardinality(Ctx) \in Nat
        BY <4>1, ExposedFinite
      <4> QED
        BY <4>2 DEF LeakInv
    <3>4. (cleared + 1) * Cardinality(Ctx) = cleared * Cardinality(Ctx) + Cardinality(Ctx)
      BY ExposedFinite
    <3> QED
      BY <3>1, <3>2, <3>3, <3>4, ExposedFinite DEF LeakInv
  <2> QED
    BY <2>1, <2>2
<1>2. ASSUME NEW x \in Ctx, Recheck(x) PROVE LeakInv'
  <2>1. CASE pid = NoPid
    <3>1. x \in Exposed /\ Exposed \subseteq Ctx
      BY <1>2, <2>1 DEF Recheck, Goto, Exposed, Committed
    <3>2. Exposed' = Exposed \ {x}
      BY <1>2, <2>1 DEF Recheck, Goto, Exposed, Committed, AfterSend
    <3>3. Cardinality(Exposed') = Cardinality(Exposed) - 1
      BY <3>1, <3>2, ExposedFinite, FS_RemoveElement
    <3>4. leaked' = leaked + 1 /\ cleared' = cleared
      BY <1>2, <2>1 DEF Recheck
    <3> QED
      BY <3>1, <3>3, <3>4, ExposedFinite DEF LeakInv
  <2>2. CASE pid # NoPid
    <3>1. Smaller
      BY <1>2, <2>2 DEF Recheck, Exposed
    <3> QED
      BY <3>1, LeakUnchanged
  <2> QED
    BY <2>1, <2>2
<1>3. ASSUME ~ \E x \in Ctx : SetPid(x) \/ Recheck(x) PROVE Smaller
  <2> USE DEF Exposed, Committed
  <2>1. ASSUME NEW x \in Ctx, WriteLockBh(x) PROVE Smaller
    BY <2>1 DEF WriteLockBh, Goto
  <2>2. ASSUME NEW x \in Ctx, WriteAcquire(x) PROVE Smaller
    BY <2>2 DEF WriteAcquire, Goto
  <2>4. ASSUME NEW x \in Ctx, SendEntry(x) PROVE Smaller
    BY <2>4 DEF SendEntry, Goto, AfterSend
  <2>5. ASSUME NEW x \in Ctx, ReadAcquire(x) PROVE Smaller
    BY <2>5 DEF ReadAcquire, Goto
  <2>6. ASSUME NEW x \in Ctx, CheckClient(x) PROVE Smaller
    BY <2>6 DEF CheckClient, Goto, AfterSend
  <2>7. ASSUME NEW x \in Ctx, AllocSkb(x) PROVE Smaller
    BY <2>7 DEF AllocSkb, Goto, AfterSend
  <2>9. ASSUME NEW x \in Ctx, Unicast(x) PROVE Smaller
    BY <2>9 DEF Unicast, Goto, AfterSend
  <2>10. ASSUME NEW k \in Clients, RecvConnect(k) PROVE Smaller
    BY <2>10 DEF RecvConnect, Receive, Goto
  <2>11. ASSUME NEW k \in Clients, RecvDisconnect(k) PROVE Smaller
    BY <2>11 DEF RecvDisconnect, Receive, Goto
  <2>12. ASSUME NEW k \in Clients, RecvCommand(k) PROVE Smaller
    BY <2>12 DEF RecvCommand, Receive
  <2>13. ASSUME NEW k \in Clients, OpenSocket(k) PROVE Smaller
    BY <2>13 DEF OpenSocket
  <2>14. ASSUME NEW k \in Clients, CloseSocket(k) PROVE Smaller
    BY <2>14 DEF CloseSocket
  <2>15. ASSUME NEW k \in Clients, ClientRead(k) PROVE Smaller
    BY <2>15 DEF ClientRead
  <2>16. ASSUME NEW c \in Cpus, HookReport(c) PROVE Smaller
    BY <2>16 DEF HookReport
  <2>17. CASE CreateNetlink
    BY <2>17 DEF CreateNetlink, Goto
  <2>24. CASE AssignSocket
    BY <2>24 DEF AssignSocket, Goto
  <2>18. CASE DeleteNetlink
    BY <2>18 DEF DeleteNetlink, Goto
  <2>20. CASE RegisterHook
    BY <2>20 DEF RegisterHook, Goto
  <2>21. CASE UnregisterHook
    BY <2>21 DEF UnregisterHook, Goto
  <2>22. CASE Unload
    BY <2>22 DEF Unload, Goto
  <2>23. CASE Unloaded
    BY <2>23 DEF Unloaded, vars
  <2>19. CASE UNCHANGED vars
    BY <2>19 DEF vars
  <2> QED
    BY <1>3, <2>1, <2>2, <2>4, <2>5, <2>6, <2>7, <2>9, <2>10, <2>11, <2>12,
       <2>13, <2>14, <2>15, <2>16, <2>17, <2>18, <2>19,
       <2>20, <2>21, <2>22, <2>23, <2>24 DEF Next, Step
<1> QED
  BY <1>1, <1>2, <1>3, LeakUnchanged

\* At most |Ctx| skbs are lost each time pid is cleared (netLink.c:143-146).
THEOREM LeakBoundCorrect == Spec => []LeakBound
<1>1. Init => LeakInv
  <2> SUFFICES ASSUME Init PROVE LeakInv
    OBVIOUS
  <2>1. Exposed = {}
    BY DEF Init, Exposed, Committed
  <2> QED
    BY <2>1, FS_EmptySet, ExposedFinite DEF Init, LeakInv
<1>2. TypeInv /\ LeakInv => LeakBound
  <2> SUFFICES ASSUME TypeInv, LeakInv PROVE LeakBound
    OBVIOUS
  <2>1. Exposed \subseteq Ctx
    BY DEF Exposed
  <2> QED
    BY <2>1, ExposedFinite DEF LeakInv, LeakBound, TypeInv, TypeOK
<1> QED
  BY <1>1, <1>2, LeakStep, TypeCorrect, PTL DEF Spec
=============================================================================
