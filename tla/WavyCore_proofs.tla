-------------------------- MODULE WavyCore_proofs --------------------------
(***************************************************************************)
(* Proofs of the safety properties of WavyCore, for any number of workers, *)
(* descriptors and tasks.                                                  *)
(***************************************************************************)
EXTENDS WavyCore, TLAPS

-----------------------------------------------------------------------------
(* Operators.                                                              *)

\* A report is a non-empty list without repetitions of members of S.
LEMMA ReportsType ==
  ASSUME NEW S, NEW s \in Reports(S)
  PROVE  /\ s \in Seq(S) /\ Len(s) \in Nat \ {0}
         /\ \A k \in 1..Len(s) : s[k] \in S
         /\ \A j, k \in 1..Len(s) : s[j] = s[k] => j = k
<1>1. PICK n \in 1..BacklogSize :
        s \in [1..n -> S] /\ \A j, k \in 1..n : s[j] = s[k] => j = k
  BY DEF Reports
<1>2. n \in Nat \ {0}
  BY BoundAssumption
<1>3. s \in Seq(S) /\ Len(s) = n
  BY <1>1, <1>2
<1> QED
  BY <1>1, <1>2, <1>3

\* A signal moves at most one worker, from "waiting" to "start".
LEMMA SignalledType ==
  ASSUME NEW p \in [Workers -> PcSet], NEW q \in Signalled(p)
  PROVE  /\ q \in [Workers -> PcSet]
         /\ \A w \in Workers : q[w] = p[w] \/ (p[w] = "waiting" /\ q[w] = "start")
         /\ \/ \A w \in Workers : q[w] # "waiting"
            \/ \E v \in Workers : p[v] = "waiting" /\ q[v] = "start"
BY DEF Signalled, Waiters, PcSet, Holding

-----------------------------------------------------------------------------
(* Type correctness.                                                       *)

\* The initial state is well typed.
LEMMA TypeInit == Init => TypeOK
<1> SUFFICES ASSUME Init PROVE TypeOK
  OBVIOUS
<1> USE IdentAssumption, BoundAssumption DEF Init, PcSet, Holding, Registration
<1>1. /\ pc \in [Workers -> PcSet]
      /\ ev \in [Workers -> Idents \union {NoFd}]
      /\ newfd \in [Workers -> Conns \union {NoFd}]
  OBVIOUS
<1>2. m_backlog \in Seq(Idents) /\ out_queue \in Seq(Conns)
  OBVIOUS
<1>3. /\ reg \in [Idents -> Registration] /\ oreg \in [Conns -> Registration]
      /\ pend \in [Conns -> BOOLEAN] /\ m_state \in [Idents -> BOOLEAN]
  OBVIOUS
<1>4. m_pollable \in BOOLEAN /\ m_end_flag \in BOOLEAN
  BY Zenon
<1>5. m_off \in Nat /\ m_num \in Nat /\ m_task_queue \in 0..MaxTasks /\ open \in SUBSET Idents
  OBVIOUS
<1>6. \A w \in Workers : HandOK(w)
  BY DEF HandOK
<1> QED
  BY <1>1, <1>2, <1>3, <1>4, <1>5, <1>6, Zenon DEF TypeOK

\* What Take does to the queues of the out port.
LEMMA TakeType ==
  ASSUME TypeOK, NEW w \in Workers, NEW e \in Idents, Take(w, e)
  PROVE  /\ ev' \in [Workers -> Idents \union {NoFd}] /\ ev' = [ev EXCEPT ![w] = e]
         /\ out_queue' \in Seq(Conns) /\ oreg' \in [Conns -> Registration]
         /\ UNCHANGED pend
<1>1. CASE e = OUT
  <2>1. PICK s \in Reports({c \in Conns : oreg[c] = "armed"}) \union {<<>>} :
          out_queue' = out_queue \o s /\ oreg' = Fired(oreg, s) /\ UNCHANGED pend
    BY <1>1 DEF Take, PollEvent
  <2>2. s \in Seq(Conns)
    <3>1. CASE s = <<>>
      BY <3>1
    <3>2. CASE s \in Reports({c \in Conns : oreg[c] = "armed"})
      <4>1. /\ s \in Seq({c \in Conns : oreg[c] = "armed"})
            /\ \A k \in 1..Len(s) : s[k] \in {c \in Conns : oreg[c] = "armed"}
        BY <3>2, ReportsType
      <4> QED
        BY <4>1
    <3> QED
      BY <2>1, <3>1, <3>2
  <2>3. out_queue' \in Seq(Conns)
    BY <2>1, <2>2 DEF TypeOK
  <2>4. oreg' \in [Conns -> Registration]
    BY <2>1 DEF TypeOK, Fired, Registration
  <2> QED
    BY <2>1, <2>3, <2>4 DEF Take, TypeOK
<1>2. CASE e # OUT
  BY <1>2 DEF Take, TypeOK, outVars
<1> QED
  BY <1>1, <1>2

\* Where the workers are after a step that signals.
LEMMA DoTaskPc ==
  ASSUME TypeOK, NEW w \in Workers, DoTask(w)
  PROVE  /\ pc' \in [Workers -> PcSet] /\ pc'[w] = "task"
         /\ \A v \in Workers : v # w => pc'[v] = pc[v] \/ (pc[v] = "waiting" /\ pc'[v] = "start")
<1> DEFINE r == [pc EXCEPT ![w] = "task"]
<1>1. r \in [Workers -> PcSet] /\ r[w] = "task" /\ \A v \in Workers : v # w => r[v] = pc[v]
  BY DEF TypeOK, PcSet
<1>2. pc' = r \/ pc' \in Signalled(r)
  BY DEF DoTask
<1> HIDE DEF r
<1> QED
  BY <1>1, <1>2, SignalledType

\* Relock moves the poller and wakes at most one waiter.
LEMMA RelockPc ==
  ASSUME TypeOK, NEW w \in Workers, Relock(w)
  PROVE  /\ pc' \in [Workers -> PcSet] /\ pc'[w] = AfterTake(m_backlog[1])
         /\ \A v \in Workers : v # w => pc'[v] = pc[v] \/ (pc[v] = "waiting" /\ pc'[v] = "start")
         /\ \/ \A v \in Workers : pc'[v] # "waiting"
            \/ \E v \in Workers : v # w /\ pc[v] = "waiting" /\ pc'[v] = "start"
<1> DEFINE l == AfterTake(m_backlog[1])
           r == [pc EXCEPT ![w] = l]
<1>1. l \in PcSet /\ l # "waiting"
  BY DEF AfterTake, PcSet, Holding
<1>2. r \in [Workers -> PcSet] /\ r[w] = l /\ \A v \in Workers : v # w => r[v] = pc[v]
  BY <1>1 DEF TypeOK
<1>3. pc' \in Signalled(r)
  BY DEF Relock
<1> HIDE DEF r
<1> QED
  BY <1>1, <1>2, <1>3, SignalledType

\* submit moves nobody and wakes at most one waiter.
LEMMA SubmitPc ==
  ASSUME TypeOK, Submit
  PROVE  /\ pc' \in [Workers -> PcSet]
         /\ \A v \in Workers : pc'[v] = pc[v] \/ (pc[v] = "waiting" /\ pc'[v] = "start")
         /\ \/ \A v \in Workers : pc'[v] # "waiting"
            \/ \E v \in Workers : pc[v] = "waiting" /\ pc'[v] = "start"
<1>1. pc \in [Workers -> PcSet] /\ pc' \in Signalled(pc)
  BY DEF TypeOK, Submit
<1> QED
  BY <1>1, SignalledType

\* Every step of a worker and every submit keeps the types.  OnePoller is
\* needed where an event is taken: m_backlog[m_off] exists.
LEMMA TypeStep == TypeOK /\ OnePoller /\ [Next]_vars => TypeOK'
<1> SUFFICES ASSUME TypeOK, OnePoller, [Next]_vars PROVE TypeOK'
  OBVIOUS
<1> USE DEF TypeOK, HandOK, PcSet, Holding, Registration, Goto, poolVars, pollVars, outVars, fdVars
<1>1. ASSUME NEW w \in Workers, Lock(w) PROVE TypeOK'
  BY <1>1, IdentAssumption, BoundAssumption DEF Lock, Idents, Fds
<1>2. ASSUME NEW w \in Workers, DoOut(w) PROVE TypeOK'
  BY <1>2, IdentAssumption, BoundAssumption DEF DoOut, Idents, Fds
<1>3. ASSUME NEW w \in Workers, DoTask(w) PROVE TypeOK'
  <2>1. m_task_queue' \in 0..MaxTasks
    BY <1>3, BoundAssumption DEF DoTask
  <2>4. /\ pc' \in [Workers -> PcSet]
        /\ \A v \in Workers : v # w => pc'[v] = pc[v] \/ (pc[v] = "waiting" /\ pc'[v] = "start")
        /\ pc'[w] = "task"
    BY <1>3, DoTaskPc
  <2>5. \A v \in Workers : HandOK(v)'
    BY <2>4, <1>3 DEF DoTask
  <2> QED
    BY <2>1, <2>4, <2>5, <1>3 DEF DoTask
<1>4. ASSUME NEW w \in Workers, CondWait(w) PROVE TypeOK'
  BY <1>4, IdentAssumption, BoundAssumption DEF CondWait, Idents, Fds
<1>5. ASSUME NEW w \in Workers, StartPoll(w) PROVE TypeOK'
  BY <1>5, IdentAssumption, BoundAssumption DEF StartPoll, Idents, Fds
<1>6. ASSUME NEW w \in Workers, PollEnd(w) PROVE TypeOK'
  BY <1>6, IdentAssumption, BoundAssumption DEF PollEnd, Idents, Fds
<1>7. ASSUME NEW w \in Workers, Relock(w) PROVE TypeOK'
  <2> DEFINE e == m_backlog[1]
  <2>1. e \in Idents
    BY <1>7 DEF OnePoller, Relock
  <2>2. /\ ev' \in [Workers -> Idents \union {NoFd}] /\ ev' = [ev EXCEPT ![w] = e]
        /\ out_queue' \in Seq(Conns) /\ oreg' \in [Conns -> Registration] /\ UNCHANGED pend
    BY <2>1, <1>7, TakeType DEF Relock
  <2>4. /\ pc' \in [Workers -> PcSet]
        /\ \A v \in Workers : v # w => pc'[v] = pc[v] \/ (pc[v] = "waiting" /\ pc'[v] = "start")
        /\ pc'[w] = AfterTake(e)
    BY <1>7, RelockPc
  <2>5. \A v \in Workers : HandOK(v)'
    BY <2>1, <2>2, <2>4, <1>7 DEF Relock, AfterTake
  <2>6. m_off' \in Nat /\ m_num' \in Nat /\ m_pollable' \in BOOLEAN
    BY <1>7 DEF Relock
  <2> QED
    BY <2>2, <2>4, <2>5, <2>6, <1>7 DEF Relock
<1>8. ASSUME NEW w \in Workers, TakeBacklog(w) PROVE TypeOK'
  <2> DEFINE e == m_backlog[m_off + 1]
  <2>1. e \in Idents
    <3>1. \A v \in Workers : pc[v] # "relock"
      BY <1>8 DEF OnePoller, Polling, TakeBacklog
    <3>2. m_off + 1 \in 1..Len(m_backlog)
      BY <3>1, <1>8 DEF OnePoller, TakeBacklog
    <3> QED
      BY <3>2
  <2>2. /\ ev' \in [Workers -> Idents \union {NoFd}] /\ ev' = [ev EXCEPT ![w] = e]
        /\ out_queue' \in Seq(Conns) /\ oreg' \in [Conns -> Registration] /\ UNCHANGED pend
    BY <2>1, <1>8, TakeType DEF TakeBacklog
  <2>3. pc' \in [Workers -> PcSet] /\ pc' = [pc EXCEPT ![w] = AfterTake(e)]
    BY <1>8 DEF AfterTake, TakeBacklog
  <2>4. \A v \in Workers : HandOK(v)'
    BY <2>1, <2>2, <2>3, <1>8 DEF TakeBacklog, AfterTake
  <2> QED
    BY <2>2, <2>3, <2>4, <1>8 DEF TakeBacklog
<1>9. ASSUME NEW w \in Workers, TaskDone(w) PROVE TypeOK'
  BY <1>9, IdentAssumption, BoundAssumption DEF TaskDone, Idents, Fds
<1>10. ASSUME NEW w \in Workers, WriteDone(w) PROVE TypeOK'
  BY <1>10, IdentAssumption, BoundAssumption DEF WriteDone, Idents, Fds
<1>11. ASSUME NEW w \in Workers, WriteMore(w) PROVE TypeOK'
  BY <1>11, IdentAssumption, BoundAssumption DEF WriteMore, Idents, Fds
<1>12. ASSUME NEW w \in Workers, HandlerReturn(w) PROVE TypeOK'
  BY <1>12, IdentAssumption, BoundAssumption DEF HandlerReturn, Idents, Fds
<1>13. ASSUME NEW w \in Workers, HandlerThrow(w) PROVE TypeOK'
  BY <1>13, IdentAssumption, BoundAssumption DEF HandlerThrow, Idents, Fds
<1>14. ASSUME NEW w \in Workers, SetHandler(w) PROVE TypeOK'
  BY <1>14, IdentAssumption, BoundAssumption DEF SetHandler, Idents, Fds
<1>15. ASSUME NEW w \in Workers, AddFd(w) PROVE TypeOK'
  BY <1>15, IdentAssumption, BoundAssumption DEF AddFd, Idents, Fds
<1>16. ASSUME NEW w \in Workers, EndFlag(w) PROVE TypeOK'
  BY <1>16, IdentAssumption, BoundAssumption DEF EndFlag, Idents, Fds
<1>17. ASSUME NEW w \in Workers, EndBroadcast(w) PROVE TypeOK'
  <2>1. pc' \in [Workers -> PcSet]
    BY <1>17 DEF EndBroadcast, Broadcast
  <2>2. \A v \in Workers : v # w => pc'[v] = pc[v] \/ (pc[v] = "waiting" /\ pc'[v] = "start")
    BY <1>17 DEF EndBroadcast, Broadcast
  <2>3. pc'[w] \in {"react", "remove"} /\ (pc'[w] = "remove" => ev[w] \notin Signals)
    BY <1>17 DEF EndBroadcast, Broadcast
  <2>4. UNCHANGED <<ev, newfd>> /\ pc[w] = "endlock"
    BY <1>17 DEF EndBroadcast
  <2>5. ASSUME NEW v \in Workers PROVE HandOK(v)'
    <3>1. CASE v = w
      BY <2>3, <2>4, <3>1
    <3>2. CASE v # w
      BY <2>2, <2>4, <3>2
    <3> QED
      BY <3>1, <3>2
  <2> QED
    BY <2>1, <2>5, <1>17 DEF EndBroadcast
<1>18. ASSUME NEW w \in Workers, Reactivate(w) PROVE TypeOK'
  BY <1>18, IdentAssumption, BoundAssumption DEF Reactivate, Idents, Fds
<1>19. ASSUME NEW w \in Workers, Remove(w) PROVE TypeOK'
  BY <1>19, IdentAssumption, BoundAssumption DEF Remove, Idents, Fds
<1>20. ASSUME NEW w \in Workers, ResetHandler(w) PROVE TypeOK'
  BY <1>20, IdentAssumption, BoundAssumption DEF ResetHandler, Idents, Fds
<1>21. ASSUME NEW w \in Workers, Close(w) PROVE TypeOK'
  BY <1>21, IdentAssumption, BoundAssumption DEF Close, Idents, Fds
<1>22. ASSUME NEW w \in Workers, SpuriousWakeup(w) PROVE TypeOK'
  BY <1>22, IdentAssumption, BoundAssumption DEF SpuriousWakeup, Idents, Fds
<1>23. ASSUME NEW w \in Workers, PollReturn(w) PROVE TypeOK'
  <2>1. PICK s \in Reports(CanReport) : m_backlog' = s /\ reg' = Fired(reg, s)
    BY <1>23 DEF PollReturn
  <2>2. m_backlog' \in Seq(Idents)
    BY <2>1, ReportsType DEF CanReport
  <2>3. reg' \in [Idents -> Registration]
    BY <2>1 DEF Fired
  <2> QED
    BY <2>2, <2>3, <1>23 DEF PollReturn
<1>24. ASSUME NEW w \in Workers, HandlerWrite(w) PROVE TypeOK'
  BY <1>24, IdentAssumption, BoundAssumption DEF HandlerWrite, Idents, Fds
<1>25. ASSUME NEW w \in Workers, Accept(w) PROVE TypeOK'
  BY <1>25, IdentAssumption, BoundAssumption DEF Accept, Idents, Fds
<1>26. CASE Submit
  <2>1. m_task_queue' \in 0..MaxTasks
    BY <1>26, BoundAssumption DEF Submit
  <2>2. /\ pc' \in [Workers -> PcSet]
        /\ \A v \in Workers : pc'[v] = pc[v] \/ (pc[v] = "waiting" /\ pc'[v] = "start")
    BY <1>26, SubmitPc
  <2> QED
    BY <2>1, <2>2, <1>26 DEF Submit
<1>27. CASE UNCHANGED vars
  BY <1>27 DEF vars
<1> QED
  BY <1>1, <1>2, <1>3, <1>4, <1>5, <1>6, <1>7, <1>8, <1>9, <1>10, <1>11, <1>12, <1>13, <1>14, <1>15, <1>16, <1>17, <1>18, <1>19, <1>20, <1>21, <1>22, <1>23, <1>24, <1>25, <1>26, <1>27 DEF Next, LoopStep, WorkStep, EnvStep, Terminated

-----------------------------------------------------------------------------
(* The poller and its backlog.                                             *)

\* Nobody polls at the start.
LEMMA PollerInit == Init => OnePoller
BY DEF Init, OnePoller, Polling

\* The role of the poller passes from worker to worker under m_pollable.
LEMMA PollerStep == TypeOK /\ OnePoller /\ [Next]_vars => OnePoller'
<1> SUFFICES ASSUME TypeOK, OnePoller, [Next]_vars PROVE OnePoller'
  OBVIOUS
<1> USE DEF TypeOK, PcSet, Holding, Goto, poolVars, pollVars, outVars, fdVars, OnePoller, Polling
<1>1. ASSUME NEW w \in Workers, Lock(w) PROVE OnePoller'
  BY <1>1 DEF Lock
<1>2. ASSUME NEW w \in Workers, DoOut(w) PROVE OnePoller'
  BY <1>2 DEF DoOut
<1>3. ASSUME NEW w \in Workers, DoTask(w) PROVE OnePoller'
  <2>1. /\ pc'[w] = "task"
        /\ \A v \in Workers : v # w => pc'[v] = pc[v] \/ (pc[v] = "waiting" /\ pc'[v] = "start")
    BY <1>3, DoTaskPc
  <2>2. UNCHANGED pollVars /\ pc[w] = "locked"
    BY <1>3 DEF DoTask
  <2> QED
    BY <2>1, <2>2
<1>4. ASSUME NEW w \in Workers, CondWait(w) PROVE OnePoller'
  BY <1>4 DEF CondWait
<1>5. ASSUME NEW w \in Workers, StartPoll(w) PROVE OnePoller'
  BY <1>5 DEF StartPoll
<1>6. ASSUME NEW w \in Workers, PollEnd(w) PROVE OnePoller'
  BY <1>6 DEF PollEnd
<1>7. ASSUME NEW w \in Workers, Relock(w) PROVE OnePoller'
  <2>1. Len(m_backlog) \in Nat /\ Len(m_backlog) >= 1
    BY <1>7 DEF Relock
  <2>2. \A v \in Workers : pc'[v] \notin {"poll", "relock"}
    BY <1>7, RelockPc DEF Relock, AfterTake
  <2> QED
    BY <2>1, <2>2, <1>7 DEF Relock
<1>8. ASSUME NEW w \in Workers, TakeBacklog(w) PROVE OnePoller'
  BY <1>8 DEF TakeBacklog, AfterTake
<1>9. ASSUME NEW w \in Workers, TaskDone(w) PROVE OnePoller'
  BY <1>9 DEF TaskDone
<1>10. ASSUME NEW w \in Workers, WriteDone(w) PROVE OnePoller'
  BY <1>10 DEF WriteDone
<1>11. ASSUME NEW w \in Workers, WriteMore(w) PROVE OnePoller'
  BY <1>11 DEF WriteMore
<1>12. ASSUME NEW w \in Workers, HandlerReturn(w) PROVE OnePoller'
  BY <1>12 DEF HandlerReturn
<1>13. ASSUME NEW w \in Workers, HandlerThrow(w) PROVE OnePoller'
  BY <1>13 DEF HandlerThrow
<1>14. ASSUME NEW w \in Workers, SetHandler(w) PROVE OnePoller'
  BY <1>14 DEF SetHandler
<1>15. ASSUME NEW w \in Workers, AddFd(w) PROVE OnePoller'
  BY <1>15 DEF AddFd
<1>16. ASSUME NEW w \in Workers, EndFlag(w) PROVE OnePoller'
  BY <1>16 DEF EndFlag
<1>17. ASSUME NEW w \in Workers, EndBroadcast(w) PROVE OnePoller'
  BY <1>17 DEF EndBroadcast, Broadcast
<1>18. ASSUME NEW w \in Workers, Reactivate(w) PROVE OnePoller'
  BY <1>18 DEF Reactivate
<1>19. ASSUME NEW w \in Workers, Remove(w) PROVE OnePoller'
  BY <1>19 DEF Remove
<1>20. ASSUME NEW w \in Workers, ResetHandler(w) PROVE OnePoller'
  BY <1>20 DEF ResetHandler
<1>21. ASSUME NEW w \in Workers, Close(w) PROVE OnePoller'
  BY <1>21 DEF Close
<1>22. ASSUME NEW w \in Workers, SpuriousWakeup(w) PROVE OnePoller'
  BY <1>22 DEF SpuriousWakeup
<1>23. ASSUME NEW w \in Workers, PollReturn(w) PROVE OnePoller'
  <2>1. m_backlog' # <<>>
    BY <1>23, ReportsType DEF PollReturn
  <2> QED
    BY <2>1, <1>23 DEF PollReturn
<1>24. ASSUME NEW w \in Workers, HandlerWrite(w) PROVE OnePoller'
  BY <1>24 DEF HandlerWrite
<1>25. ASSUME NEW w \in Workers, Accept(w) PROVE OnePoller'
  BY <1>25 DEF Accept
<1>26. CASE Submit
  BY <1>26, SubmitPc DEF Submit
<1>27. CASE UNCHANGED vars
  BY <1>27 DEF vars
<1> QED
  BY <1>1, <1>2, <1>3, <1>4, <1>5, <1>6, <1>7, <1>8, <1>9, <1>10, <1>11, <1>12, <1>13, <1>14, <1>15, <1>16, <1>17, <1>18, <1>19, <1>20, <1>21, <1>22, <1>23, <1>24, <1>25, <1>26, <1>27
     DEF Next, LoopStep, WorkStep, EnvStep, Terminated

-----------------------------------------------------------------------------
(* Wakeups.                                                                *)

\* All workers are awake at the start.
LEMMA AttendedInit == Init => WorkAttended
BY WorkersAssumption DEF Init, WorkAttended

\* A worker only goes to sleep when another one polls and nothing is queued.
LEMMA AttendedStep == TypeOK /\ OnePoller /\ WorkAttended /\ [Next]_vars => WorkAttended'
<1> SUFFICES ASSUME TypeOK, OnePoller, WorkAttended, [Next]_vars PROVE WorkAttended'
  OBVIOUS
<1> USE DEF TypeOK, PcSet, Holding, Goto, poolVars, pollVars, outVars, fdVars, OnePoller, Polling, WorkAttended
<1>1. ASSUME NEW w \in Workers, Lock(w) PROVE WorkAttended'
  BY <1>1 DEF Lock
<1>2. ASSUME NEW w \in Workers, DoOut(w) PROVE WorkAttended'
  BY <1>2 DEF DoOut
<1>3. ASSUME NEW w \in Workers, DoTask(w) PROVE WorkAttended'
  <2>1. /\ pc'[w] = "task"
        /\ \A v \in Workers : v # w => pc'[v] = pc[v] \/ (pc[v] = "waiting" /\ pc'[v] = "start")
    BY <1>3, DoTaskPc
  <2>2. UNCHANGED <<m_pollable, m_end_flag, out_queue>> /\ pc[w] = "locked"
    BY <1>3 DEF DoTask
  <2> QED
    BY <2>1, <2>2
<1>4. ASSUME NEW w \in Workers, CondWait(w) PROVE WorkAttended'
  BY <1>4 DEF CondWait
<1>5. ASSUME NEW w \in Workers, StartPoll(w) PROVE WorkAttended'
  BY <1>5 DEF StartPoll
<1>6. ASSUME NEW w \in Workers, PollEnd(w) PROVE WorkAttended'
  BY <1>6 DEF PollEnd
<1>7. ASSUME NEW w \in Workers, Relock(w) PROVE WorkAttended'
  <2>1. /\ pc'[w] \in {"react", "handle"}
        /\ \A v \in Workers : v # w => pc'[v] = pc[v] \/ (pc[v] = "waiting" /\ pc'[v] = "start")
        /\ \/ \A v \in Workers : pc'[v] # "waiting"
           \/ \E v \in Workers : v # w /\ pc[v] = "waiting" /\ pc'[v] = "start"
    BY <1>7, RelockPc DEF AfterTake
  <2>2. m_pollable' /\ m_end_flag' = m_end_flag
    BY <1>7 DEF Relock
  <2>3. PICK v \in Workers : v # w /\ pc'[v] # "waiting"
    BY <2>1, WorkersAssumption
  <2>4. ~m_end_flag => \A u \in Workers : pc'[u] # "exited"
    BY <2>1
  <2> QED
    BY <2>1, <2>2, <2>3, <2>4
<1>8. ASSUME NEW w \in Workers, TakeBacklog(w) PROVE WorkAttended'
  <2>1. /\ m_pollable /\ m_pollable' /\ m_end_flag' = m_end_flag
        /\ pc'[w] \in {"react", "handle"} /\ pc[w] = "locked"
        /\ \A v \in Workers : v # w => pc'[v] = pc[v]
    BY <1>8 DEF TakeBacklog, AfterTake
  <2> QED
    BY <2>1
<1>9. ASSUME NEW w \in Workers, TaskDone(w) PROVE WorkAttended'
  BY <1>9 DEF TaskDone
<1>10. ASSUME NEW w \in Workers, WriteDone(w) PROVE WorkAttended'
  BY <1>10 DEF WriteDone
<1>11. ASSUME NEW w \in Workers, WriteMore(w) PROVE WorkAttended'
  BY <1>11 DEF WriteMore
<1>12. ASSUME NEW w \in Workers, HandlerReturn(w) PROVE WorkAttended'
  BY <1>12 DEF HandlerReturn
<1>13. ASSUME NEW w \in Workers, HandlerThrow(w) PROVE WorkAttended'
  BY <1>13 DEF HandlerThrow
<1>14. ASSUME NEW w \in Workers, SetHandler(w) PROVE WorkAttended'
  BY <1>14 DEF SetHandler
<1>15. ASSUME NEW w \in Workers, AddFd(w) PROVE WorkAttended'
  BY <1>15 DEF AddFd
<1>16. ASSUME NEW w \in Workers, EndFlag(w) PROVE WorkAttended'
  BY <1>16 DEF EndFlag
<1>17. ASSUME NEW w \in Workers, EndBroadcast(w) PROVE WorkAttended'
  BY <1>17 DEF EndBroadcast, Broadcast
<1>18. ASSUME NEW w \in Workers, Reactivate(w) PROVE WorkAttended'
  BY <1>18 DEF Reactivate
<1>19. ASSUME NEW w \in Workers, Remove(w) PROVE WorkAttended'
  BY <1>19 DEF Remove
<1>20. ASSUME NEW w \in Workers, ResetHandler(w) PROVE WorkAttended'
  BY <1>20 DEF ResetHandler
<1>21. ASSUME NEW w \in Workers, Close(w) PROVE WorkAttended'
  BY <1>21 DEF Close
<1>22. ASSUME NEW w \in Workers, SpuriousWakeup(w) PROVE WorkAttended'
  BY <1>22 DEF SpuriousWakeup
<1>23. ASSUME NEW w \in Workers, PollReturn(w) PROVE WorkAttended'
  BY <1>23 DEF PollReturn
<1>24. ASSUME NEW w \in Workers, HandlerWrite(w) PROVE WorkAttended'
  BY <1>24 DEF HandlerWrite
<1>25. ASSUME NEW w \in Workers, Accept(w) PROVE WorkAttended'
  BY <1>25 DEF Accept
<1>26. CASE Submit
  BY <1>26, SubmitPc, WorkersAssumption DEF Submit
<1>27. CASE UNCHANGED vars
  BY <1>27 DEF vars
<1> QED
  BY <1>1, <1>2, <1>3, <1>4, <1>5, <1>6, <1>7, <1>8, <1>9, <1>10, <1>11, <1>12, <1>13, <1>14, <1>15, <1>16, <1>17, <1>18, <1>19, <1>20, <1>21, <1>22, <1>23, <1>24, <1>25, <1>26, <1>27
     DEF Next, LoopStep, WorkStep, EnvStep, Terminated

\* end() has not been called at the start.
LEMMA HeardInit == Init => EndHeard
BY DEF Init, EndHeard

\* A worker that saw the flag unset holds the mutex until it sleeps.
LEMMA HeardStep == TypeOK /\ EndHeard /\ [Next]_vars => EndHeard'
<1> SUFFICES ASSUME TypeOK, EndHeard, [Next]_vars PROVE EndHeard'
  OBVIOUS
<1> USE DEF TypeOK, PcSet, Holding, Goto, poolVars, pollVars, outVars, fdVars, EndHeard
<1>1. ASSUME NEW w \in Workers, Lock(w) PROVE EndHeard'
  BY <1>1 DEF Lock
<1>2. ASSUME NEW w \in Workers, DoOut(w) PROVE EndHeard'
  BY <1>2 DEF DoOut
<1>3. ASSUME NEW w \in Workers, DoTask(w) PROVE EndHeard'
  BY <1>3, DoTaskPc DEF DoTask
<1>4. ASSUME NEW w \in Workers, CondWait(w) PROVE EndHeard'
  BY <1>4 DEF CondWait
<1>5. ASSUME NEW w \in Workers, StartPoll(w) PROVE EndHeard'
  BY <1>5 DEF StartPoll
<1>6. ASSUME NEW w \in Workers, PollEnd(w) PROVE EndHeard'
  BY <1>6 DEF PollEnd
<1>7. ASSUME NEW w \in Workers, Relock(w) PROVE EndHeard'
  BY <1>7, RelockPc DEF Relock, AfterTake
<1>8. ASSUME NEW w \in Workers, TakeBacklog(w) PROVE EndHeard'
  BY <1>8 DEF TakeBacklog, AfterTake
<1>9. ASSUME NEW w \in Workers, TaskDone(w) PROVE EndHeard'
  BY <1>9 DEF TaskDone
<1>10. ASSUME NEW w \in Workers, WriteDone(w) PROVE EndHeard'
  BY <1>10 DEF WriteDone
<1>11. ASSUME NEW w \in Workers, WriteMore(w) PROVE EndHeard'
  BY <1>11 DEF WriteMore
<1>12. ASSUME NEW w \in Workers, HandlerReturn(w) PROVE EndHeard'
  BY <1>12 DEF HandlerReturn
<1>13. ASSUME NEW w \in Workers, HandlerThrow(w) PROVE EndHeard'
  BY <1>13 DEF HandlerThrow
<1>14. ASSUME NEW w \in Workers, SetHandler(w) PROVE EndHeard'
  BY <1>14 DEF SetHandler
<1>15. ASSUME NEW w \in Workers, AddFd(w) PROVE EndHeard'
  BY <1>15 DEF AddFd
<1>16. ASSUME NEW w \in Workers, EndFlag(w) PROVE EndHeard'
  BY <1>16 DEF EndFlag
<1>17. ASSUME NEW w \in Workers, EndBroadcast(w) PROVE EndHeard'
  BY <1>17 DEF EndBroadcast, Broadcast, MutexFree
<1>18. ASSUME NEW w \in Workers, Reactivate(w) PROVE EndHeard'
  BY <1>18 DEF Reactivate
<1>19. ASSUME NEW w \in Workers, Remove(w) PROVE EndHeard'
  BY <1>19 DEF Remove
<1>20. ASSUME NEW w \in Workers, ResetHandler(w) PROVE EndHeard'
  BY <1>20 DEF ResetHandler
<1>21. ASSUME NEW w \in Workers, Close(w) PROVE EndHeard'
  BY <1>21 DEF Close
<1>22. ASSUME NEW w \in Workers, SpuriousWakeup(w) PROVE EndHeard'
  BY <1>22 DEF SpuriousWakeup
<1>23. ASSUME NEW w \in Workers, PollReturn(w) PROVE EndHeard'
  BY <1>23 DEF PollReturn
<1>24. ASSUME NEW w \in Workers, HandlerWrite(w) PROVE EndHeard'
  BY <1>24 DEF HandlerWrite
<1>25. ASSUME NEW w \in Workers, Accept(w) PROVE EndHeard'
  BY <1>25 DEF Accept
<1>26. CASE Submit
  BY <1>26, SubmitPc DEF Submit
<1>27. CASE UNCHANGED vars
  BY <1>27 DEF vars
<1> QED
  BY <1>1, <1>2, <1>3, <1>4, <1>5, <1>6, <1>7, <1>8, <1>9, <1>10, <1>11, <1>12, <1>13, <1>14, <1>15, <1>16, <1>17, <1>18, <1>19, <1>20, <1>21, <1>22, <1>23, <1>24, <1>25, <1>26, <1>27
     DEF Next, LoopStep, WorkStep, EnvStep, Terminated

-----------------------------------------------------------------------------
(* Events and handlers.                                                    *)

\* No event is reported and no connection open at the start.
LEMMA OwnershipInit == Init => EventOwnership /\ HandlerPresent
<1> SUFFICES ASSUME Init PROVE EventOwnership /\ HandlerPresent
  OBVIOUS
<1>1. Undelivered = {}
  BY DEF Init, Undelivered
<1>2. EventOwnership
  BY <1>1 DEF Init, EventOwnership, Queued, Holds, Holding
<1>3. \A w \in Workers : pc[w] = "start"
  BY DEF Init
<1>4. \A i \in Idents : (reg[i] = "none" <=> i \in Conns) /\ (m_state[i] <=> i \notin Conns)
  BY DEF Init
<1>5. open = Idents \ Conns /\ Conns \subseteq Idents
  BY DEF Init, Idents, Fds
<1>6. HandlerPresent
  BY <1>3, <1>4, <1>5 DEF HandlerPresent
<1> QED
  BY <1>2, <1>6

\* The events a step leaves where they are: no poll, no registration, and
\* workers only move inside their run of a handler or drop out of it.
Quiet ==
  /\ UNCHANGED <<m_backlog, m_off, reg>>
  /\ \A v \in Workers :
       /\ pc'[v] = "relock" <=> pc[v] = "relock"
       /\ pc'[v] \in Holding => pc[v] \in Holding /\ ev'[v] = ev[v]
       /\ pc'[v] \in Holding =>
            (pc'[v] \in {"reset", "close"} <=> pc[v] \in {"reset", "close"})

\* The undelivered part of the backlog depends on m_backlog, m_off and on
\* whether a poll has just returned.
LEMMA UndeliveredFrame ==
  ASSUME UNCHANGED <<m_backlog, m_off>>,
         \A v \in Workers : pc'[v] = "relock" <=> pc[v] = "relock"
  PROVE  Undelivered' = Undelivered /\ \A i : Queued(i)' <=> Queued(i)
<1>1. Undelivered' = Undelivered
  BY DEF Undelivered
<1> QED
  BY <1>1 DEF Queued

\* A step that touches no registration, handler or backlog, and in which no
\* worker changes what it holds, keeps both ownership invariants.
LEMMA QuietStep ==
  ASSUME EventOwnership, Quiet
  PROVE  EventOwnership'
<1>1. Undelivered' = Undelivered /\ (\A i : Queued(i)' <=> Queued(i))
  BY UndeliveredFrame DEF Quiet
<1>2. \A v \in Workers, i \in Idents : Holds(v, i)' => Holds(v, i)
  BY DEF Quiet, Holds
<1>3. \A v \in Workers, i \in Idents :
        Holds(v, i)' => (pc'[v] \in {"reset", "close"} <=> pc[v] \in {"reset", "close"})
  BY DEF Quiet, Holds
<1>4. m_backlog' = m_backlog /\ reg' = reg
  BY DEF Quiet
<1> QED
  BY <1>1, <1>2, <1>3, <1>4 DEF EventOwnership

\* An event has one owner at a time.
LEMMA OwnershipStep == TypeOK /\ OnePoller /\ EventOwnership /\ HandlerPresent /\ [Next]_vars => EventOwnership'
<1> SUFFICES ASSUME TypeOK, OnePoller, EventOwnership, HandlerPresent, [Next]_vars PROVE EventOwnership'
  OBVIOUS
<1> USE DEF TypeOK, HandOK, PcSet, Holding, Goto, poolVars, pollVars, outVars, fdVars, Quiet
<1>1. ASSUME NEW w \in Workers, Lock(w) PROVE EventOwnership'
  <2>1. Quiet
    BY <1>1 DEF Lock
  <2> QED
    BY <2>1, QuietStep
<1>2. ASSUME NEW w \in Workers, DoOut(w) PROVE EventOwnership'
  <2>1. Quiet
    BY <1>2 DEF DoOut
  <2> QED
    BY <2>1, QuietStep
<1>3. ASSUME NEW w \in Workers, DoTask(w) PROVE EventOwnership'
  <2>1. Quiet
    BY <1>3, DoTaskPc DEF DoTask
  <2> QED
    BY <2>1, QuietStep
<1>4. ASSUME NEW w \in Workers, CondWait(w) PROVE EventOwnership'
  <2>1. Quiet
    BY <1>4 DEF CondWait
  <2> QED
    BY <2>1, QuietStep
<1>5. ASSUME NEW w \in Workers, StartPoll(w) PROVE EventOwnership'
  <2>1. Quiet
    BY <1>5 DEF StartPoll
  <2> QED
    BY <2>1, QuietStep
<1>6. ASSUME NEW w \in Workers, PollEnd(w) PROVE EventOwnership'
  <2>1. Quiet
    BY <1>6 DEF PollEnd
  <2> QED
    BY <2>1, QuietStep
<1>7. ASSUME NEW w \in Workers, Relock(w) PROVE EventOwnership'
  <2> DEFINE n == 1
  <2>1. /\ n \in Undelivered /\ m_backlog[n] \in Idents
        /\ Undelivered' = Undelivered \ {n} /\ UNCHANGED <<m_backlog, reg>>
    <3>1. Len(m_backlog) \in Nat /\ Len(m_backlog) >= 1 /\ m_backlog[1] \in Idents
      BY <1>7 DEF Relock, OnePoller
    <3>2. \A v \in Workers : pc'[v] # "relock"
      BY <1>7, RelockPc DEF Relock, AfterTake, OnePoller, Polling
    <3>3. Undelivered = 1..Len(m_backlog)
      BY <1>7 DEF Undelivered, Relock
    <3>4. Undelivered' = {k \in 1..Len(m_backlog) : k > 1}
      BY <1>7, <3>2 DEF Undelivered, Relock
    <3> QED
      BY <3>1, <3>3, <3>4, <1>7 DEF Relock
  <2>2. pc'[w] \in {"handle", "react"} /\ ev'[w] = m_backlog[n]
    BY <1>7, RelockPc DEF Relock, AfterTake, Take
  <2>3. \A v \in Workers, i \in Idents : Holds(v, i)' =>
          (v = w /\ i = m_backlog[n]) \/ (v # w /\ Holds(v, i) /\ pc'[v] = pc[v])
    BY <2>2, <1>7, RelockPc DEF Relock, Holds, Take
  <2>4. \A i : Queued(i)' => Queued(i) /\ i # m_backlog[n]
    BY <2>1 DEF Queued, EventOwnership
  <2>5. Queued(m_backlog[n])
    BY <2>1 DEF Queued
  <2> HIDE DEF n
  <2> QED
    BY <2>1, <2>2, <2>3, <2>4, <2>5 DEF EventOwnership
<1>8. ASSUME NEW w \in Workers, TakeBacklog(w) PROVE EventOwnership'
  <2> DEFINE n == m_off + 1
  <2>1. /\ n \in Undelivered /\ m_backlog[n] \in Idents
        /\ Undelivered' = Undelivered \ {n} /\ UNCHANGED <<m_backlog, reg>>
    <3>1. \A v \in Workers : pc[v] # "relock"
      BY <1>8 DEF OnePoller, Polling, TakeBacklog
    <3>2. m_off + 1 \in 1..Len(m_backlog)
      BY <3>1, <1>8 DEF OnePoller, TakeBacklog
    <3>3. \A v \in Workers : pc'[v] # "relock"
      BY <3>1, <1>8 DEF TakeBacklog, AfterTake
    <3>4. Undelivered = {k \in 1..Len(m_backlog) : k > m_off}
      BY <3>1 DEF Undelivered
    <3>5. Undelivered' = {k \in 1..Len(m_backlog) : k > m_off + 1}
      BY <3>3, <1>8 DEF Undelivered, TakeBacklog
    <3> QED
      BY <3>2, <3>4, <3>5, <1>8 DEF TakeBacklog
  <2>2. pc'[w] \in {"handle", "react"} /\ ev'[w] = m_backlog[n]
    BY <1>8 DEF TakeBacklog, AfterTake, Take
  <2>3. \A v \in Workers, i \in Idents : Holds(v, i)' =>
          (v = w /\ i = m_backlog[n]) \/ (v # w /\ Holds(v, i) /\ pc'[v] = pc[v])
    BY <2>2, <1>8 DEF TakeBacklog, Holds, Take
  <2>4. \A i : Queued(i)' => Queued(i) /\ i # m_backlog[n]
    BY <2>1 DEF Queued, EventOwnership
  <2>5. Queued(m_backlog[n])
    BY <2>1 DEF Queued
  <2> HIDE DEF n
  <2> QED
    BY <2>1, <2>2, <2>3, <2>4, <2>5 DEF EventOwnership
<1>9. ASSUME NEW w \in Workers, TaskDone(w) PROVE EventOwnership'
  <2>1. Quiet
    BY <1>9 DEF TaskDone
  <2> QED
    BY <2>1, QuietStep
<1>10. ASSUME NEW w \in Workers, WriteDone(w) PROVE EventOwnership'
  <2>1. Quiet
    BY <1>10 DEF WriteDone
  <2> QED
    BY <2>1, QuietStep
<1>11. ASSUME NEW w \in Workers, WriteMore(w) PROVE EventOwnership'
  <2>1. Quiet
    BY <1>11 DEF WriteMore
  <2> QED
    BY <2>1, QuietStep
<1>12. ASSUME NEW w \in Workers, HandlerReturn(w) PROVE EventOwnership'
  <2>1. Quiet
    BY <1>12 DEF HandlerReturn
  <2> QED
    BY <2>1, QuietStep
<1>13. ASSUME NEW w \in Workers, HandlerThrow(w) PROVE EventOwnership'
  <2>1. Quiet
    BY <1>13 DEF HandlerThrow
  <2> QED
    BY <2>1, QuietStep
<1>14. ASSUME NEW w \in Workers, SetHandler(w) PROVE EventOwnership'
  <2>1. Quiet
    BY <1>14 DEF SetHandler
  <2> QED
    BY <2>1, QuietStep
<1>15. ASSUME NEW w \in Workers, AddFd(w) PROVE EventOwnership'
  <2>1. Undelivered' = Undelivered /\ (\A i : Queued(i)' <=> Queued(i)) /\ m_backlog' = m_backlog
    BY <1>15, UndeliveredFrame DEF AddFd
  <2>2. newfd[w] \in Idents /\ ~Queued(newfd[w]) /\ \A v \in Workers \ {w} : ~Holds(v, newfd[w])
    BY <1>15, IdentAssumption DEF AddFd, HandlerPresent, EventOwnership, Idents, Fds
  <2>3. \A i \in Idents : reg'[i] = IF i = newfd[w] THEN "armed" ELSE reg[i]
    BY <1>15 DEF AddFd
  <2>4. \A v \in Workers, i \in Idents : Holds(v, i)' =>
          /\ Holds(v, i)
          /\ v # w => pc'[v] = pc[v]
          /\ v = w => pc[w] = "addfd" /\ pc'[w] = "handle" /\ i # newfd[w]
    BY <1>15, <2>2, IdentAssumption DEF AddFd, Holds
  <2> QED
    BY <2>1, <2>2, <2>3, <2>4, <1>15 DEF EventOwnership, AddFd, Holds
<1>16. ASSUME NEW w \in Workers, EndFlag(w) PROVE EventOwnership'
  <2>1. Quiet
    BY <1>16 DEF EndFlag
  <2> QED
    BY <2>1, QuietStep
<1>17. ASSUME NEW w \in Workers, EndBroadcast(w) PROVE EventOwnership'
  <2>1. Quiet
    BY <1>17 DEF EndBroadcast, Broadcast
  <2> QED
    BY <2>1, QuietStep
<1>18. ASSUME NEW w \in Workers, Reactivate(w) PROVE EventOwnership'
  <2>1. Undelivered' = Undelivered /\ (\A i : Queued(i)' <=> Queued(i)) /\ m_backlog' = m_backlog
    BY <1>18, UndeliveredFrame DEF Reactivate
  <2>2. ev[w] \in Idents /\ ~Queued(ev[w]) /\ \A v \in Workers \ {w} : ~Holds(v, ev[w])
    BY <1>18 DEF Reactivate, EventOwnership, Holds
  <2>3. \A i \in Idents : reg'[i] = IF i = ev[w] THEN "armed" ELSE reg[i]
    BY <1>18 DEF Reactivate
  <2>4. \A v \in Workers, i \in Idents : Holds(v, i)' =>
          /\ Holds(v, i)
          /\ v # w => pc'[v] = pc[v]
          /\ v = w => FALSE
    BY <1>18, <2>2, IdentAssumption DEF Reactivate, Holds
  <2> QED
    BY <2>1, <2>2, <2>3, <2>4, <1>18 DEF EventOwnership, Reactivate, Holds
<1>19. ASSUME NEW w \in Workers, Remove(w) PROVE EventOwnership'
  <2>1. Undelivered' = Undelivered /\ (\A i : Queued(i)' <=> Queued(i)) /\ m_backlog' = m_backlog
    BY <1>19, UndeliveredFrame DEF Remove
  <2>2. ev[w] \in Idents /\ ~Queued(ev[w]) /\ \A v \in Workers \ {w} : ~Holds(v, ev[w])
    BY <1>19 DEF Remove, EventOwnership, Holds
  <2>3. \A i \in Idents : reg'[i] = IF i = ev[w] THEN "none" ELSE reg[i]
    BY <1>19 DEF Remove
  <2>4. \A v \in Workers, i \in Idents : Holds(v, i)' =>
          /\ Holds(v, i)
          /\ v # w => pc'[v] = pc[v]
          /\ v = w => i = ev[w] /\ pc'[w] = "reset"
    BY <1>19, <2>2, IdentAssumption DEF Remove, Holds
  <2> QED
    BY <2>1, <2>2, <2>3, <2>4, <1>19 DEF EventOwnership, Remove, Holds
<1>20. ASSUME NEW w \in Workers, ResetHandler(w) PROVE EventOwnership'
  <2>1. Quiet
    BY <1>20 DEF ResetHandler
  <2> QED
    BY <2>1, QuietStep
<1>21. ASSUME NEW w \in Workers, Close(w) PROVE EventOwnership'
  <2>1. Quiet
    BY <1>21 DEF Close
  <2> QED
    BY <2>1, QuietStep
<1>22. ASSUME NEW w \in Workers, SpuriousWakeup(w) PROVE EventOwnership'
  <2>1. Quiet
    BY <1>22 DEF SpuriousWakeup
  <2> QED
    BY <2>1, QuietStep
<1>23. ASSUME NEW w \in Workers, PollReturn(w) PROVE EventOwnership'
  <2>1. PICK s \in Reports(CanReport) : m_backlog' = s /\ reg' = Fired(reg, s)
    BY <1>23 DEF PollReturn
  <2>2. /\ \A k \in 1..Len(s) : s[k] \in Idents /\ reg[s[k]] = "armed"
        /\ \A j, k \in 1..Len(s) : s[j] = s[k] => j = k
    BY <2>1, ReportsType DEF CanReport
  <2>3. Undelivered' = 1..Len(s) /\ \A i : Queued(i)' <=> \E k \in 1..Len(s) : s[k] = i
    <3>1. pc'[w] = "relock"
      BY <1>23 DEF PollReturn
    <3> QED
      BY <2>1, <3>1 DEF Undelivered, Queued
  <2>4. \A i \in Idents : reg'[i] = IF Queued(i)' THEN "fired" ELSE reg[i]
    BY <2>1, <2>3 DEF Fired
  <2>5. \A i \in Idents : Queued(i)' => reg[i] = "armed"
    BY <2>2, <2>3
  <2>6. \A v \in Workers, i \in Idents : Holds(v, i)' => Holds(v, i) /\ pc'[v] = pc[v]
    BY <1>23 DEF PollReturn, Holds
  <2>7. \A v \in Workers, i \in Idents : Holds(v, i) => reg[i] # "armed"
    BY DEF EventOwnership
  <2>8. \A v \in Workers, i \in Idents : Holds(v, i)' => ~Queued(i)' /\ reg'[i] = reg[i]
    BY <2>4, <2>5, <2>6, <2>7
  <2>9. \A j, k \in Undelivered' : m_backlog'[j] = m_backlog'[k] => j = k
    BY <2>1, <2>2, <2>3
  <2> QED
    BY <2>4, <2>6, <2>8, <2>9 DEF EventOwnership
<1>24. ASSUME NEW w \in Workers, HandlerWrite(w) PROVE EventOwnership'
  <2>1. Quiet
    BY <1>24 DEF HandlerWrite
  <2> QED
    BY <2>1, QuietStep
<1>25. ASSUME NEW w \in Workers, Accept(w) PROVE EventOwnership'
  <2>1. Quiet
    BY <1>25 DEF Accept
  <2> QED
    BY <2>1, QuietStep
<1>26. CASE Submit
  <2>1. Quiet
    BY <1>26, SubmitPc DEF Submit
  <2> QED
    BY <2>1, QuietStep
<1>27. CASE UNCHANGED vars
  <2>1. Quiet
    BY <1>27 DEF vars
  <2> QED
    BY <2>1, QuietStep
<1> QED
  BY <1>1, <1>2, <1>3, <1>4, <1>5, <1>6, <1>7, <1>8, <1>9, <1>10, <1>11, <1>12, <1>13, <1>14, <1>15, <1>16, <1>17, <1>18, <1>19, <1>20, <1>21, <1>22, <1>23, <1>24, <1>25, <1>26, <1>27
     DEF Next, LoopStep, WorkStep, EnvStep, Terminated

\* A descriptor number is not reused before its handler is gone.
LEMMA PresentStep == TypeOK /\ OnePoller /\ EventOwnership /\ HandlerPresent /\ [Next]_vars => HandlerPresent'
<1> SUFFICES ASSUME TypeOK, OnePoller, EventOwnership, HandlerPresent, [Next]_vars PROVE HandlerPresent'
  OBVIOUS
<1> USE DEF TypeOK, HandOK, PcSet, Holding, Goto, poolVars, pollVars, outVars, fdVars, HandlerPresent
<1>1. ASSUME NEW w \in Workers, Lock(w) PROVE HandlerPresent'
  BY <1>1, IdentAssumption DEF Lock, EventOwnership, Holds
<1>2. ASSUME NEW w \in Workers, DoOut(w) PROVE HandlerPresent'
  BY <1>2, IdentAssumption DEF DoOut, EventOwnership, Holds
<1>3. ASSUME NEW w \in Workers, DoTask(w) PROVE HandlerPresent'
  <2>1. /\ pc' \in [Workers -> PcSet] /\ pc'[w] = "task"
        /\ \A v \in Workers : v # w => pc'[v] = pc[v] \/ (pc[v] = "waiting" /\ pc'[v] = "start")
    BY <1>3, DoTaskPc
  <2> QED
    BY <2>1, <1>3 DEF DoTask, Holds
<1>4. ASSUME NEW w \in Workers, CondWait(w) PROVE HandlerPresent'
  BY <1>4, IdentAssumption DEF CondWait, EventOwnership, Holds
<1>5. ASSUME NEW w \in Workers, StartPoll(w) PROVE HandlerPresent'
  BY <1>5, IdentAssumption DEF StartPoll, EventOwnership, Holds
<1>6. ASSUME NEW w \in Workers, PollEnd(w) PROVE HandlerPresent'
  BY <1>6, IdentAssumption DEF PollEnd, EventOwnership, Holds
<1>7. ASSUME NEW w \in Workers, Relock(w) PROVE HandlerPresent'
  <2>1. Queued(m_backlog[1]) /\ m_backlog[1] \in Idents
    <3>1. Len(m_backlog) \in Nat /\ Len(m_backlog) >= 1 /\ m_backlog[1] \in Idents
      BY <1>7 DEF Relock, OnePoller
    <3> QED
      BY <3>1, <1>7 DEF Relock, Queued, Undelivered
  <2>2. reg[m_backlog[1]] = "fired"
    BY <2>1 DEF EventOwnership
  <2>3. pc'[w] \in {"handle", "react"} /\ ev' = [ev EXCEPT ![w] = m_backlog[1]]
    BY <1>7, RelockPc DEF Relock, AfterTake, Take
  <2>4. \A v \in Workers : v # w => pc'[v] = pc[v] \/ (pc[v] = "waiting" /\ pc'[v] = "start")
    BY <1>7, RelockPc
  <2>5. \A v \in Workers : newfd[v] # NoFd => newfd[v] # m_backlog[1]
    BY <2>2
  <2>6. UNCHANGED <<newfd, reg, m_state, open>>
    BY <1>7 DEF Relock
  <2> QED
    BY <2>1, <2>2, <2>3, <2>4, <2>5, <2>6 DEF Holds
<1>8. ASSUME NEW w \in Workers, TakeBacklog(w) PROVE HandlerPresent'
  <2> DEFINE n == m_off + 1
  <2>1. Queued(m_backlog[n]) /\ m_backlog[n] \in Idents
    <3>1. \A v \in Workers : pc[v] # "relock"
      BY <1>8 DEF OnePoller, Polling, TakeBacklog
    <3>2. n \in 1..Len(m_backlog)
      BY <3>1, <1>8 DEF OnePoller, TakeBacklog
    <3> QED
      BY <3>2 DEF Queued, Undelivered
  <2>2. reg[m_backlog[n]] = "fired"
    BY <2>1 DEF EventOwnership
  <2>3. pc'[w] \in {"handle", "react"} /\ ev' = [ev EXCEPT ![w] = m_backlog[n]]
    BY <1>8 DEF TakeBacklog, AfterTake, Take
  <2> QED
    BY <2>1, <2>2, <2>3, <1>8 DEF TakeBacklog, Holds
<1>9. ASSUME NEW w \in Workers, TaskDone(w) PROVE HandlerPresent'
  BY <1>9, IdentAssumption DEF TaskDone, EventOwnership, Holds
<1>10. ASSUME NEW w \in Workers, WriteDone(w) PROVE HandlerPresent'
  BY <1>10, IdentAssumption DEF WriteDone, EventOwnership, Holds
<1>11. ASSUME NEW w \in Workers, WriteMore(w) PROVE HandlerPresent'
  BY <1>11, IdentAssumption DEF WriteMore, EventOwnership, Holds
<1>12. ASSUME NEW w \in Workers, HandlerReturn(w) PROVE HandlerPresent'
  BY <1>12, IdentAssumption DEF HandlerReturn, EventOwnership, Holds
<1>13. ASSUME NEW w \in Workers, HandlerThrow(w) PROVE HandlerPresent'
  BY <1>13, IdentAssumption DEF HandlerThrow, EventOwnership, Holds
<1>14. ASSUME NEW w \in Workers, SetHandler(w) PROVE HandlerPresent'
  BY <1>14, IdentAssumption DEF SetHandler, EventOwnership, Holds
<1>15. ASSUME NEW w \in Workers, AddFd(w) PROVE HandlerPresent'
  BY <1>15, IdentAssumption DEF AddFd, EventOwnership, Holds
<1>16. ASSUME NEW w \in Workers, EndFlag(w) PROVE HandlerPresent'
  BY <1>16, IdentAssumption DEF EndFlag, EventOwnership, Holds
<1>17. ASSUME NEW w \in Workers, EndBroadcast(w) PROVE HandlerPresent'
  BY <1>17 DEF EndBroadcast, Broadcast, Holds
<1>18. ASSUME NEW w \in Workers, Reactivate(w) PROVE HandlerPresent'
  BY <1>18, IdentAssumption DEF Reactivate, EventOwnership, Holds
<1>19. ASSUME NEW w \in Workers, Remove(w) PROVE HandlerPresent'
  BY <1>19, IdentAssumption DEF Remove, EventOwnership, Holds
<1>20. ASSUME NEW w \in Workers, ResetHandler(w) PROVE HandlerPresent'
  BY <1>20, IdentAssumption DEF ResetHandler, EventOwnership, Holds
<1>21. ASSUME NEW w \in Workers, Close(w) PROVE HandlerPresent'
  BY <1>21, IdentAssumption DEF Close, EventOwnership, Holds
<1>22. ASSUME NEW w \in Workers, SpuriousWakeup(w) PROVE HandlerPresent'
  BY <1>22, IdentAssumption DEF SpuriousWakeup, EventOwnership, Holds
<1>23. ASSUME NEW w \in Workers, PollReturn(w) PROVE HandlerPresent'
  <2>1. PICK s \in Reports(CanReport) : reg' = Fired(reg, s)
    BY <1>23 DEF PollReturn
  <2>2. \A k \in 1..Len(s) : s[k] \in Idents /\ reg[s[k]] = "armed"
    BY <2>1, ReportsType DEF CanReport
  <2>3. \A i \in Idents : reg'[i] = reg[i] \/ (reg[i] = "armed" /\ reg'[i] = "fired")
    BY <2>1, <2>2 DEF Fired
  <2> QED
    BY <2>3, <1>23, IdentAssumption DEF PollReturn, Holds, Idents, Fds
<1>24. ASSUME NEW w \in Workers, HandlerWrite(w) PROVE HandlerPresent'
  BY <1>24, IdentAssumption DEF HandlerWrite, EventOwnership, Holds
<1>25. ASSUME NEW w \in Workers, Accept(w) PROVE HandlerPresent'
  <2>1. PICK c \in Conns \ open : open' = open \union {c} /\ newfd' = [newfd EXCEPT ![w] = c]
    BY <1>25 DEF Accept
  <2>2. c \in Idents /\ reg[c] = "none" /\ ~m_state[c]
    BY <2>1 DEF Idents, Fds
  <2>3. \A v \in Workers : newfd[v] # c
    BY <2>1, IdentAssumption DEF Idents, Fds
  <2>4. \A v \in Workers : ~Holds(v, c)
    BY <2>1, <2>2 DEF EventOwnership, Holds
  <2>5. \A v \in Workers, i \in Idents : Holds(v, i)' => Holds(v, i)
    BY <1>25 DEF Accept, Holds
  <2> QED
    BY <2>1, <2>2, <2>3, <2>4, <2>5, <1>25, IdentAssumption DEF Accept
<1>26. CASE Submit
  BY <1>26, SubmitPc DEF Submit, Holds
<1>27. CASE UNCHANGED vars
  BY <1>27 DEF vars, Holds
<1> QED
  BY <1>1, <1>2, <1>3, <1>4, <1>5, <1>6, <1>7, <1>8, <1>9, <1>10, <1>11, <1>12, <1>13, <1>14, <1>15, <1>16, <1>17, <1>18, <1>19, <1>20, <1>21, <1>22, <1>23, <1>24, <1>25, <1>26, <1>27
     DEF Next, LoopStep, WorkStep, EnvStep, Terminated

-----------------------------------------------------------------------------
(* Write events.                                                           *)

\* No write event exists at the start.
LEMMA WriteInit == Init => WriteEventOwnership
BY DEF Init, WriteEventOwnership

\* out::poll_event turns armed registrations into write events.
LEMMA TakeWrites ==
  ASSUME TypeOK, WriteEventOwnership, NEW w \in Workers, NEW e \in Idents, Take(w, e),
         pc' \in [Workers -> PcSet],
         \A v \in Workers : pc'[v] = "write" => pc[v] = "write" /\ ev'[v] = ev[v]
  PROVE  WriteEventOwnership'
<1>1. CASE e # OUT
  BY <1>1 DEF Take, outVars, WriteEventOwnership
<1>2. CASE e = OUT
  <2> DEFINE armed == {c \in Conns : oreg[c] = "armed"}
  <2>1. PICK s \in Reports(armed) \union {<<>>} :
          out_queue' = out_queue \o s /\ oreg' = Fired(oreg, s) /\ pend' = pend
    BY <1>2 DEF Take, PollEvent
  <2>2. /\ s \in Seq(armed)
        /\ \A k \in 1..Len(s) : s[k] \in armed
        /\ \A j, k \in 1..Len(s) : s[j] = s[k] => j = k
    <3>1. CASE s = <<>>
      BY <3>1
    <3>2. CASE s \in Reports(armed)
      BY <3>2, ReportsType
    <3> QED
      BY <2>1, <3>1, <3>2
  <2> DEFINE q == out_queue
  <2>3. q \in Seq(Conns) /\ s \in Seq(Conns)
    BY <2>2 DEF TypeOK
  <2>4. /\ Len(q \o s) = Len(q) + Len(s) /\ Len(q) \in Nat /\ Len(s) \in Nat
        /\ \A k \in 1..Len(q \o s) :
             (q \o s)[k] = IF k <= Len(q) THEN q[k] ELSE s[k - Len(q)]
    BY <2>3
  <2>5. \A c \in Conns : /\ c \in armed => oreg[c] = "armed" /\ pend[c]
                         /\ oreg'[c] = IF \E k \in 1..Len(s) : s[k] = c THEN "fired" ELSE oreg[c]
    BY <2>1 DEF TypeOK, Fired, WriteEventOwnership
  <2>6. \A k \in 1..Len(q) : q[k] \in Conns /\ q[k] \notin armed /\ pend[q[k]]
    BY <2>3 DEF WriteEventOwnership
  <2>7. \A j, k \in 1..Len(q \o s) : (q \o s)[j] = (q \o s)[k] => j = k
    <3> SUFFICES ASSUME NEW j \in 1..Len(q \o s), NEW k \in 1..Len(q \o s),
                        (q \o s)[j] = (q \o s)[k]
                 PROVE  j = k
      OBVIOUS
    <3>1. CASE j <= Len(q) /\ k <= Len(q)
      BY <3>1, <2>4 DEF WriteEventOwnership
    <3>2. CASE j > Len(q) /\ k > Len(q)
      BY <3>2, <2>2, <2>4
    <3>3. CASE j <= Len(q) /\ k > Len(q)
      BY <3>3, <2>2, <2>4, <2>6
    <3>4. CASE j > Len(q) /\ k <= Len(q)
      BY <3>4, <2>2, <2>4, <2>6
    <3> QED
      BY <2>4, <3>1, <3>2, <3>3, <3>4
  <2>8. \A k \in 1..Len(q \o s) :
          /\ (q \o s)[k] \in Conns /\ pend[(q \o s)[k]] /\ oreg'[(q \o s)[k]] # "armed"
          /\ (q \o s)[k] \in armed \/ \E j \in 1..Len(q) : (q \o s)[k] = q[j]
    <3> SUFFICES ASSUME NEW k \in 1..Len(q \o s)
                 PROVE  /\ (q \o s)[k] \in Conns /\ pend[(q \o s)[k]]
                        /\ oreg'[(q \o s)[k]] # "armed"
                        /\ (q \o s)[k] \in armed \/ \E j \in 1..Len(q) : (q \o s)[k] = q[j]
      OBVIOUS
    <3>1. CASE k <= Len(q)
      <4>1. k \in 1..Len(q) /\ (q \o s)[k] = q[k]
        BY <3>1, <2>4
      <4>2. oreg'[q[k]] # "armed"
        BY <4>1, <2>5, <2>6
      <4> QED
        BY <4>1, <4>2, <2>6
    <3>2. CASE k > Len(q)
      <4>1. k - Len(q) \in 1..Len(s) /\ (q \o s)[k] = s[k - Len(q)]
        BY <3>2, <2>4
      <4>2. s[k - Len(q)] \in armed /\ s[k - Len(q)] \in Conns
        BY <4>1, <2>2
      <4>3. oreg'[s[k - Len(q)]] = "fired" /\ pend[s[k - Len(q)]]
        BY <4>1, <4>2, <2>5
      <4> QED
        BY <4>1, <4>2, <4>3
    <3> QED
      BY <2>4, <3>1, <3>2
  <2>9. \A v \in Workers : pc'[v] = "write" =>
          /\ ev[v] \in Conns /\ pend[ev[v]] /\ oreg'[ev[v]] # "armed"
          /\ \A k \in 1..Len(q \o s) : (q \o s)[k] # ev[v]
    BY <2>5, <2>8 DEF TypeOK, HandOK, WriteEventOwnership
  <2>10. \A c \in Conns : oreg'[c] # "none" => pend[c]
    BY <2>2, <2>5 DEF WriteEventOwnership
  <2> HIDE DEF q, armed
  <2>11. out_queue' = q \o s /\ pend' = pend
    BY <2>1 DEF q
  <2>12. \A v \in Workers : pc'[v] = "write" =>
           /\ ev'[v] = ev[v]
           /\ \A u \in Workers : pc'[u] = "write" /\ ev'[u] = ev'[v] => u = v
    BY DEF WriteEventOwnership
  <2> QED
    BY <2>7, <2>8, <2>9, <2>10, <2>11, <2>12 DEF WriteEventOwnership
<1> QED
  BY <1>1, <1>2

\* A write event is consumed before its context is emptied.
LEMMA WriteStep == TypeOK /\ OnePoller /\ WriteEventOwnership /\ [Next]_vars => WriteEventOwnership'
<1> SUFFICES ASSUME TypeOK, OnePoller, WriteEventOwnership, [Next]_vars PROVE WriteEventOwnership'
  OBVIOUS
<1> USE DEF TypeOK, HandOK, PcSet, Holding, Goto, poolVars, pollVars, outVars, fdVars, WriteEventOwnership
<1>1. ASSUME NEW w \in Workers, Lock(w) PROVE WriteEventOwnership'
  BY <1>1 DEF Lock
<1>2. ASSUME NEW w \in Workers, DoOut(w) PROVE WriteEventOwnership'
  <2>1. /\ Len(out_queue) \in Nat /\ Len(out_queue) >= 1 /\ out_queue[1] \in Conns
        /\ Len(out_queue') = Len(out_queue) - 1
        /\ \A k \in 1..Len(out_queue') : out_queue'[k] = out_queue[k + 1]
        /\ ev'[w] = out_queue[1] /\ pc'[w] = "write"
    BY <1>2 DEF DoOut
  <2>2. \A v \in Workers : v # w => ev'[v] = ev[v] /\ pc'[v] = pc[v]
    BY <1>2 DEF DoOut
  <2>3. UNCHANGED <<oreg, pend>>
    BY <1>2 DEF DoOut
  <2>4. \A k \in 1..Len(out_queue') : k + 1 \in 1..Len(out_queue) /\ k + 1 # 1
    BY <2>1
  <2>5. \A j, k \in 1..Len(out_queue') : out_queue'[j] = out_queue'[k] => j = k
    <3> SUFFICES ASSUME NEW j \in 1..Len(out_queue'), NEW k \in 1..Len(out_queue'),
                        out_queue'[j] = out_queue'[k]
                 PROVE  j = k
      OBVIOUS
    <3>1. out_queue[j + 1] = out_queue[k + 1]
      BY <2>1
    <3>2. j + 1 = k + 1
      BY <2>4, <3>1
    <3> QED
      BY <2>1, <3>2
  <2>6. \A k \in 1..Len(out_queue') :
          /\ pend[out_queue'[k]] /\ oreg[out_queue'[k]] # "armed"
          /\ out_queue'[k] # out_queue[1]
          /\ \E j \in 1..Len(out_queue) : out_queue'[k] = out_queue[j]
    BY <2>1, <2>4
  <2>7. pend[out_queue[1]] /\ oreg[out_queue[1]] # "armed"
    BY <2>1
  <2>8. \A v \in Workers : v # w /\ pc'[v] = "write" =>
          ev'[v] # out_queue[1] /\ \A k \in 1..Len(out_queue') : out_queue'[k] # ev'[v]
    BY <2>1, <2>2, <2>6
  <2>9. \A u, v \in Workers : pc'[u] = "write" /\ pc'[v] = "write" /\ ev'[u] = ev'[v] => u = v
    BY <2>1, <2>2, <2>8
  <2>10. ASSUME NEW v \in Workers, pc'[v] = "write"
         PROVE  /\ pend[ev'[v]] /\ oreg[ev'[v]] # "armed"
                /\ \A k \in 1..Len(out_queue') : out_queue'[k] # ev'[v]
    <3>1. CASE v = w
      <4>1. ev'[v] = out_queue[1]
        BY <2>1, <3>1
      <4> QED
        BY <4>1, <2>6, <2>7, Zenon
    <3>2. CASE v # w
      <4>1. ev'[v] = ev[v] /\ pc[v] = "write"
        BY <2>2, <2>10, <3>2
      <4>2. pend[ev[v]] /\ oreg[ev[v]] # "armed"
        BY <4>1, Zenon
      <4> QED
        BY <4>1, <4>2, <2>8, <2>10, <3>2, Zenon
    <3> QED
      BY <3>1, <3>2
  <2>12. \A c \in Conns : oreg[c] # "none" => pend[c]
    OBVIOUS
  <2> QED
    BY <2>3, <2>5, <2>6, <2>9, <2>10, <2>12, Zenon
<1>3. ASSUME NEW w \in Workers, DoTask(w) PROVE WriteEventOwnership'
  <2>1. /\ pc'[w] = "task"
        /\ \A v \in Workers : v # w => pc'[v] = pc[v] \/ (pc[v] = "waiting" /\ pc'[v] = "start")
    BY <1>3, DoTaskPc
  <2> QED
    BY <2>1, <1>3 DEF DoTask
<1>4. ASSUME NEW w \in Workers, CondWait(w) PROVE WriteEventOwnership'
  BY <1>4 DEF CondWait
<1>5. ASSUME NEW w \in Workers, StartPoll(w) PROVE WriteEventOwnership'
  BY <1>5 DEF StartPoll
<1>6. ASSUME NEW w \in Workers, PollEnd(w) PROVE WriteEventOwnership'
  BY <1>6 DEF PollEnd
<1>7. ASSUME NEW w \in Workers, Relock(w) PROVE WriteEventOwnership'
  <2>1. m_backlog[1] \in Idents /\ Take(w, m_backlog[1])
    BY <1>7 DEF Relock, OnePoller
  <2>2. /\ pc' \in [Workers -> PcSet] /\ pc'[w] # "write"
        /\ \A v \in Workers : v # w => pc'[v] = pc[v] \/ (pc[v] = "waiting" /\ pc'[v] = "start")
    BY <1>7, RelockPc DEF AfterTake
  <2>3. \A v \in Workers : v # w => ev'[v] = ev[v]
    BY <2>1 DEF Take
  <2>4. \A v \in Workers : pc'[v] = "write" => pc[v] = "write" /\ ev'[v] = ev[v]
    BY <2>2, <2>3
  <2> HIDE DEF TypeOK, WriteEventOwnership, PcSet
  <2> QED
    BY <2>1, <2>2, <2>4, TakeWrites, Zenon
<1>8. ASSUME NEW w \in Workers, TakeBacklog(w) PROVE WriteEventOwnership'
  <2>1. m_backlog[m_off + 1] \in Idents /\ Take(w, m_backlog[m_off + 1])
    <3>1. \A v \in Workers : pc[v] # "relock"
      BY <1>8 DEF OnePoller, Polling, TakeBacklog
    <3>2. m_off + 1 \in 1..Len(m_backlog)
      BY <3>1, <1>8 DEF OnePoller, TakeBacklog
    <3> QED
      BY <3>2, <1>8 DEF TakeBacklog
  <2>2. /\ pc' \in [Workers -> PcSet] /\ pc'[w] # "write"
        /\ \A v \in Workers : v # w => pc'[v] = pc[v]
    BY <1>8 DEF AfterTake, TakeBacklog
  <2>3. \A v \in Workers : v # w => ev'[v] = ev[v]
    BY <2>1 DEF Take
  <2>4. \A v \in Workers : pc'[v] = "write" => pc[v] = "write" /\ ev'[v] = ev[v]
    BY <2>2, <2>3
  <2> HIDE DEF TypeOK, WriteEventOwnership, PcSet
  <2> QED
    BY <2>1, <2>2, <2>4, TakeWrites, Zenon
<1>9. ASSUME NEW w \in Workers, TaskDone(w) PROVE WriteEventOwnership'
  BY <1>9 DEF TaskDone
<1>10. ASSUME NEW w \in Workers, WriteDone(w) PROVE WriteEventOwnership'
  BY <1>10 DEF WriteDone
<1>11. ASSUME NEW w \in Workers, WriteMore(w) PROVE WriteEventOwnership'
  BY <1>11 DEF WriteMore
<1>12. ASSUME NEW w \in Workers, HandlerReturn(w) PROVE WriteEventOwnership'
  BY <1>12 DEF HandlerReturn
<1>13. ASSUME NEW w \in Workers, HandlerThrow(w) PROVE WriteEventOwnership'
  BY <1>13 DEF HandlerThrow
<1>14. ASSUME NEW w \in Workers, SetHandler(w) PROVE WriteEventOwnership'
  BY <1>14 DEF SetHandler
<1>15. ASSUME NEW w \in Workers, AddFd(w) PROVE WriteEventOwnership'
  BY <1>15 DEF AddFd
<1>16. ASSUME NEW w \in Workers, EndFlag(w) PROVE WriteEventOwnership'
  BY <1>16 DEF EndFlag
<1>17. ASSUME NEW w \in Workers, EndBroadcast(w) PROVE WriteEventOwnership'
  BY <1>17 DEF EndBroadcast, Broadcast
<1>18. ASSUME NEW w \in Workers, Reactivate(w) PROVE WriteEventOwnership'
  BY <1>18 DEF Reactivate
<1>19. ASSUME NEW w \in Workers, Remove(w) PROVE WriteEventOwnership'
  BY <1>19 DEF Remove
<1>20. ASSUME NEW w \in Workers, ResetHandler(w) PROVE WriteEventOwnership'
  BY <1>20 DEF ResetHandler
<1>21. ASSUME NEW w \in Workers, Close(w) PROVE WriteEventOwnership'
  BY <1>21 DEF Close
<1>22. ASSUME NEW w \in Workers, SpuriousWakeup(w) PROVE WriteEventOwnership'
  BY <1>22 DEF SpuriousWakeup
<1>23. ASSUME NEW w \in Workers, PollReturn(w) PROVE WriteEventOwnership'
  BY <1>23 DEF PollReturn
<1>24. ASSUME NEW w \in Workers, HandlerWrite(w) PROVE WriteEventOwnership'
  BY <1>24 DEF HandlerWrite
<1>25. ASSUME NEW w \in Workers, Accept(w) PROVE WriteEventOwnership'
  BY <1>25 DEF Accept
<1>26. CASE Submit
  BY <1>26, SubmitPc DEF Submit
<1>27. CASE UNCHANGED vars
  BY <1>27 DEF vars
<1> QED
  BY <1>1, <1>2, <1>3, <1>4, <1>5, <1>6, <1>7, <1>8, <1>9, <1>10, <1>11, <1>12, <1>13, <1>14, <1>15, <1>16, <1>17, <1>18, <1>19, <1>20, <1>21, <1>22, <1>23, <1>24, <1>25, <1>26, <1>27
     DEF Next, LoopStep, WorkStep, EnvStep, Terminated

-----------------------------------------------------------------------------
(* The theorems.                                                           *)

\* The inductive invariant: OnePoller makes the backlog safe to read,
\* EventOwnership and HandlerPresent need each other (a descriptor number is
\* free only when nobody holds it, and held only when it is open).
IInv ==
  /\ TypeOK /\ OnePoller
  /\ EventOwnership /\ HandlerPresent
  /\ WorkAttended /\ EndHeard /\ WriteEventOwnership

\* Every reachable state of the event loop satisfies the inductive invariant.
THEOREM Invariance == Spec => []IInv
<1>1. Init => IInv
  BY TypeInit, PollerInit, OwnershipInit, AttendedInit, HeardInit, WriteInit DEF IInv
<1>2. IInv /\ [Next]_vars => IInv'
  BY TypeStep, PollerStep, OwnershipStep, PresentStep, AttendedStep, HeardStep, WriteStep DEF IInv
<1> QED
  BY <1>1, <1>2, PTL DEF Spec

\* The variables of the event loop keep their types and no worker works on a
\* descriptor of the wrong kind, for any pool.
THEOREM TypeCorrect == Spec => []TypeOK
<1>1. IInv => TypeOK
  BY DEF IInv
<1> QED
  BY <1>1, Invariance, PTL

\* At most one worker polls and m_pollable says so.
THEOREM PollerUnique == Spec => []OnePoller
<1>1. IInv => OnePoller
  BY DEF IInv
<1> QED
  BY <1>1, Invariance, PTL

\* One event, one owner: two workers never run the handler of one descriptor.
THEOREM HandlersExclusive == Spec => []EventOwnership
<1>1. IInv => EventOwnership
  BY DEF IInv
<1> QED
  BY <1>1, Invariance, PTL

\* Every dispatched event finds its own handler, whatever the reuse of
\* descriptor numbers.
THEOREM HandlersPresent == Spec => []HandlerPresent
<1>1. IInv => HandlerPresent
  BY DEF IInv
<1> QED
  BY <1>1, Invariance, PTL

\* No wakeup of the condition variable is lost.
THEOREM NoLostWakeup == Spec => []WorkAttended
<1>1. IInv => WorkAttended
  BY DEF IInv
<1> QED
  BY <1>1, Invariance, PTL

\* Nobody sleeps through end().
THEOREM EndReachesAll == Spec => []EndHeard
<1>1. IInv => EndHeard
  BY DEF IInv
<1> QED
  BY <1>1, Invariance, PTL

\* At most one write event per descriptor, and only for a non-empty context.
THEOREM WritesExclusive == Spec => []WriteEventOwnership
<1>1. IInv => WriteEventOwnership
  BY DEF IInv
<1> QED
  BY <1>1, Invariance, PTL
-----------------------------------------------------------------------------
(* The life of a descriptor.                                               *)

\* A step that the life of descriptor i does not show.
SameAt(i) ==
  /\ \A v \in Workers : Holds(v, i)' <=> Holds(v, i)
  /\ (\E v \in Workers : newfd'[v] = i) <=> (\E v \in Workers : newfd[v] = i)
  /\ Queued(i)' <=> Queued(i)
  /\ reg'[i] = reg[i] \/ \E v \in Workers : Holds(v, i)

Runners(i) == {w \in Workers : Holds(w, i)}

\* Where nothing visible changes, the abstract state of the descriptor stays.
LEMMA SameAtPhase ==
  ASSUME NEW i \in Idents, SameAt(i)
  PROVE  Phase(i)' = Phase(i) /\ Runners(i)' = Runners(i)
<1>1. CASE \E v \in Workers : Holds(v, i)
  BY <1>1 DEF SameAt, Phase, Runners
<1>2. CASE ~ \E v \in Workers : Holds(v, i)
  BY <1>2 DEF SameAt, Phase, Runners
<1> QED
  BY <1>1, <1>2

\* A step in which nobody takes, drops or re-arms anything.
Still ==
  /\ UNCHANGED <<m_backlog, m_off, newfd>>
  /\ \A i \in Idents : reg'[i] = reg[i] \/ \E v \in Workers : Holds(v, i)
  /\ \A v \in Workers :
       /\ pc'[v] = "relock" <=> pc[v] = "relock"
       /\ pc'[v] \in Holding <=> pc[v] \in Holding
       /\ pc'[v] \in Holding => ev'[v] = ev[v]

\* It is a stuttering step of the life of every descriptor.
LEMMA StillStutters ==
  ASSUME Still
  PROVE  UNCHANGED Lifecycle!vars
<1>1. \A i : Queued(i)' <=> Queued(i)
  BY UndeliveredFrame DEF Still
<1>2. \A v \in Workers, i \in Idents : Holds(v, i)' <=> Holds(v, i)
  BY DEF Still, Holds
<1>3. ASSUME NEW i \in Idents PROVE Phase(i)' = Phase(i) /\ Runners(i)' = Runners(i)
  <2>1. SameAt(i)
    BY <1>1, <1>2 DEF SameAt, Still
  <2> QED
    BY <2>1, SameAtPhase
<1> QED
  BY <1>3 DEF Lifecycle!vars, Runners

\* A step that shows at descriptor e only.
LEMMA OneMoves ==
  ASSUME NEW e \in Idents, NEW p, NEW R,
         \A i \in Idents : i # e => SameAt(i),
         Phase(e)' = p, Runners(e)' = R
  PROVE  /\ [i \in Idents |-> Phase(i)]' = [[i \in Idents |-> Phase(i)] EXCEPT ![e] = p]
         /\ [i \in Idents |-> {w \in Workers : Holds(w, i)}]'
              = [[i \in Idents |-> {w \in Workers : Holds(w, i)}] EXCEPT ![e] = R]
<1>1. \A i \in Idents : i # e => Phase(i)' = Phase(i) /\ Runners(i)' = Runners(i)
  BY SameAtPhase
<1> QED
  BY <1>1 DEF Runners

\* A step that shows at descriptor c only, which nobody holds.
LEMMA FreeMoves ==
  ASSUME NEW c \in Idents, NEW p,
         \A i \in Idents : i # c => SameAt(i),
         Phase(c)' = p, Runners(c) = {}, Runners(c)' = {}
  PROVE  /\ [i \in Idents |-> Phase(i)]' = [[i \in Idents |-> Phase(i)] EXCEPT ![c] = p]
         /\ UNCHANGED [i \in Idents |-> {w \in Workers : Holds(w, i)}]
<1>1. \A i \in Idents : i # c => Phase(i)' = Phase(i) /\ Runners(i)' = Runners(i)
  BY SameAtPhase
<1> QED
  BY <1>1 DEF Runners

\* The loop starts with the permanent descriptors armed and the others closed.
LEMMA LifecycleInit == Init => Lifecycle!Init
<1> SUFFICES ASSUME Init PROVE Lifecycle!Init
  OBVIOUS
<1>1. Undelivered = {}
  BY DEF Init, Undelivered
<1>2. \A w \in Workers, i \in Idents : ~Holds(w, i) /\ newfd[w] # i
  BY IdentAssumption DEF Init, Holds, Holding
<1>3. \A i \in Idents : ~Queued(i)
  BY <1>1 DEF Queued
<1>4. \A i \in Idents : reg[i] = "armed" <=> i \in Idents \ Conns
  BY DEF Init
<1>5. \A i \in Idents : Phase(i) = IF i \in Idents \ Conns THEN "idle" ELSE "closed"
  BY <1>2, <1>3, <1>4 DEF Phase
<1> QED
  BY <1>2, <1>5 DEF Lifecycle!Init

\* Taking the n-th event of the backlog begins the run of its handler.
LEMMA TakeBegins ==
  ASSUME TypeOK, EventOwnership, HandlerPresent, NEW w \in Workers, NEW n \in Undelivered,
         NEW e \in Idents, e = m_backlog[n],
         Undelivered' = Undelivered \ {n}, UNCHANGED <<m_backlog, reg, newfd>>,
         pc[w] \notin Holding, pc'[w] \in Holding, ev' = [ev EXCEPT ![w] = e],
         \A v \in Workers : v # w => (pc'[v] \in Holding <=> pc[v] \in Holding)
  PROVE  Lifecycle!Begin(w, e)
<1>1. Queued(e) /\ reg[e] = "fired"
  BY DEF Queued, EventOwnership
<1>2. /\ \A v \in Workers : ~Holds(v, e)
      /\ \A v \in Workers, i \in Idents : i # e => (Holds(v, i)' <=> Holds(v, i))
      /\ \A v \in Workers : Holds(v, e)' <=> v = w
  BY <1>1 DEF EventOwnership, Holds, TypeOK
<1>3. \A v \in Workers : newfd[v] # e
  BY <1>1, IdentAssumption DEF HandlerPresent, TypeOK, HandOK
<1>4. \A i \in Idents : i # e => (Queued(i)' <=> Queued(i))
  BY DEF Queued
<1>5. \A i \in Idents : i # e => SameAt(i)
  BY <1>2, <1>4 DEF SameAt
<1>6. Phase(e) = "queued" /\ Runners(e) = {}
  BY <1>1, <1>2, <1>3 DEF Phase, Runners
<1>7. Phase(e)' = "running" /\ Runners(e)' = {w}
  BY <1>2 DEF Phase, Runners
<1> QED
  BY <1>5, <1>6, <1>7, OneMoves DEF Lifecycle!Begin, Runners

\* Every step of the loop is a step of the life of the descriptors, or none.
LEMMA LifecycleStep ==
  TypeOK /\ OnePoller /\ EventOwnership /\ HandlerPresent /\ [Next]_vars
    => [Lifecycle!Next]_Lifecycle!vars
<1> SUFFICES ASSUME TypeOK, OnePoller, EventOwnership, HandlerPresent, [Next]_vars
             PROVE  Lifecycle!Next \/ UNCHANGED Lifecycle!vars
  OBVIOUS
<1> USE DEF TypeOK, HandOK, PcSet, Holding, Goto, poolVars, pollVars, outVars, fdVars, Still
<1>1. ASSUME NEW w \in Workers, Lock(w)
      PROVE  Lifecycle!Next \/ UNCHANGED Lifecycle!vars
  <2>1. Still
    BY <1>1 DEF Lock
  <2> QED
    BY <2>1, StillStutters
<1>2. ASSUME NEW w \in Workers, DoOut(w)
      PROVE  Lifecycle!Next \/ UNCHANGED Lifecycle!vars
  <2>1. Still
    BY <1>2 DEF DoOut
  <2> QED
    BY <2>1, StillStutters
<1>3. ASSUME NEW w \in Workers, DoTask(w)
      PROVE  Lifecycle!Next \/ UNCHANGED Lifecycle!vars
  <2>1. Still
    BY <1>3, DoTaskPc DEF DoTask
  <2> QED
    BY <2>1, StillStutters
<1>4. ASSUME NEW w \in Workers, CondWait(w)
      PROVE  Lifecycle!Next \/ UNCHANGED Lifecycle!vars
  <2>1. Still
    BY <1>4 DEF CondWait
  <2> QED
    BY <2>1, StillStutters
<1>5. ASSUME NEW w \in Workers, StartPoll(w)
      PROVE  Lifecycle!Next \/ UNCHANGED Lifecycle!vars
  <2>1. Still
    BY <1>5 DEF StartPoll
  <2> QED
    BY <2>1, StillStutters
<1>6. ASSUME NEW w \in Workers, PollEnd(w)
      PROVE  Lifecycle!Next \/ UNCHANGED Lifecycle!vars
  <2>1. Still
    BY <1>6 DEF PollEnd
  <2> QED
    BY <2>1, StillStutters
<1>7. ASSUME NEW w \in Workers, Relock(w)
      PROVE  Lifecycle!Next \/ UNCHANGED Lifecycle!vars
  <2>1. m_backlog[1] \in Idents /\ 1 \in 1..Len(m_backlog)
    BY <1>7 DEF Relock, OnePoller
  <2>2. /\ pc'[w] = AfterTake(m_backlog[1])
        /\ \A v \in Workers : v # w => pc'[v] = pc[v] \/ (pc[v] = "waiting" /\ pc'[v] = "start")
    BY <1>7, RelockPc
  <2>3. \A v \in Workers : pc'[v] # "relock"
    BY <2>2, <1>7 DEF Relock, OnePoller, Polling, AfterTake
  <2>4. Undelivered = 1..Len(m_backlog)
    BY <1>7 DEF Undelivered, Relock
  <2>5. Undelivered' = {k \in 1..Len(m_backlog) : k > 1}
    BY <1>7, <2>3 DEF Undelivered, Relock
  <2>6. 1 \in Undelivered /\ Undelivered' = Undelivered \ {1}
    BY <2>1, <2>4, <2>5
  <2>7. /\ pc[w] \notin Holding /\ pc'[w] \in Holding
        /\ \A v \in Workers : v # w => (pc'[v] \in Holding <=> pc[v] \in Holding)
    BY <1>7, <2>2 DEF Relock, AfterTake
  <2>8. ev' = [ev EXCEPT ![w] = m_backlog[1]] /\ UNCHANGED <<m_backlog, reg, newfd>>
    BY <1>7 DEF Relock, Take
  <2> HIDE DEF TypeOK, Holding
  <2>9. Lifecycle!Begin(w, m_backlog[1])
    BY <2>1, <2>6, <2>7, <2>8, TakeBegins
  <2> QED
    BY <2>1, <2>9 DEF Lifecycle!Next
<1>8. ASSUME NEW w \in Workers, TakeBacklog(w)
      PROVE  Lifecycle!Next \/ UNCHANGED Lifecycle!vars
  <2> DEFINE n == m_off + 1
  <2>1. \A v \in Workers : pc[v] # "relock"
    BY <1>8 DEF OnePoller, Polling, TakeBacklog
  <2>2. n \in 1..Len(m_backlog) /\ m_backlog[n] \in Idents
    BY <2>1, <1>8 DEF OnePoller, TakeBacklog
  <2>3. \A v \in Workers : pc'[v] # "relock"
    BY <2>1, <1>8 DEF TakeBacklog, AfterTake
  <2>4. Undelivered = {k \in 1..Len(m_backlog) : k > m_off}
    BY <2>1 DEF Undelivered
  <2>5. Undelivered' = {k \in 1..Len(m_backlog) : k > m_off + 1}
    BY <2>3, <1>8 DEF Undelivered, TakeBacklog
  <2>6. n \in Undelivered /\ Undelivered' = Undelivered \ {n}
    BY <2>2, <2>4, <2>5
  <2>7. /\ pc[w] \notin Holding /\ pc'[w] \in Holding
        /\ \A v \in Workers : v # w => (pc'[v] \in Holding <=> pc[v] \in Holding)
    BY <1>8 DEF TakeBacklog, AfterTake
  <2>8. ev' = [ev EXCEPT ![w] = m_backlog[n]] /\ UNCHANGED <<m_backlog, reg, newfd>>
    BY <1>8 DEF TakeBacklog, Take
  <2> HIDE DEF TypeOK, Holding, n
  <2>9. Lifecycle!Begin(w, m_backlog[n])
    BY <2>2, <2>6, <2>7, <2>8, TakeBegins
  <2> QED
    BY <2>2, <2>9 DEF Lifecycle!Next
<1>9. ASSUME NEW w \in Workers, TaskDone(w)
      PROVE  Lifecycle!Next \/ UNCHANGED Lifecycle!vars
  <2>1. Still
    BY <1>9 DEF TaskDone
  <2> QED
    BY <2>1, StillStutters
<1>10. ASSUME NEW w \in Workers, WriteDone(w)
      PROVE  Lifecycle!Next \/ UNCHANGED Lifecycle!vars
  <2>1. Still
    BY <1>10 DEF WriteDone
  <2> QED
    BY <2>1, StillStutters
<1>11. ASSUME NEW w \in Workers, WriteMore(w)
      PROVE  Lifecycle!Next \/ UNCHANGED Lifecycle!vars
  <2>1. Still
    BY <1>11 DEF WriteMore
  <2> QED
    BY <2>1, StillStutters
<1>12. ASSUME NEW w \in Workers, HandlerReturn(w)
      PROVE  Lifecycle!Next \/ UNCHANGED Lifecycle!vars
  <2>1. Still
    BY <1>12 DEF HandlerReturn
  <2> QED
    BY <2>1, StillStutters
<1>13. ASSUME NEW w \in Workers, HandlerThrow(w)
      PROVE  Lifecycle!Next \/ UNCHANGED Lifecycle!vars
  <2>1. Still
    BY <1>13 DEF HandlerThrow
  <2> QED
    BY <2>1, StillStutters
<1>14. ASSUME NEW w \in Workers, SetHandler(w)
      PROVE  Lifecycle!Next \/ UNCHANGED Lifecycle!vars
  <2>1. Still
    BY <1>14 DEF SetHandler
  <2> QED
    BY <2>1, StillStutters
<1>15. ASSUME NEW w \in Workers, AddFd(w)
      PROVE  Lifecycle!Next \/ UNCHANGED Lifecycle!vars
  <2>0. PICK c \in Conns : c = newfd[w]
    BY <1>15 DEF AddFd
  <2>1. /\ c \in Idents /\ reg[c] = "none"
        /\ (\A v \in Workers : ~Holds(v, c)) /\ (\A v \in Workers \ {w} : newfd[v] # c)
    BY <1>15, <2>0, IdentAssumption DEF AddFd, HandlerPresent, Idents, Fds
  <2>2. ~Queued(c)
    BY <2>1 DEF EventOwnership
  <2>3. \A i : Queued(i)' <=> Queued(i)
    BY <1>15, UndeliveredFrame DEF AddFd
  <2>4. \A v \in Workers, i \in Idents : Holds(v, i)' <=> Holds(v, i)
    BY <1>15 DEF AddFd, Holds
  <2>5. /\ newfd'[w] = NoFd /\ \A v \in Workers : v # w => newfd'[v] = newfd[v]
        /\ \A i \in Idents : reg'[i] = IF i = c THEN "armed" ELSE reg[i]
    BY <1>15, <2>0 DEF AddFd
  <2>6. c # NoFd /\ \A i \in Idents : i # NoFd
    BY <2>1, IdentAssumption
  <2> HIDE DEF TypeOK, Holding
  <2>7. ASSUME NEW i \in Idents, i # c PROVE SameAt(i)
    <3>1. (\E v \in Workers : newfd'[v] = i) <=> (\E v \in Workers : newfd[v] = i)
      BY <2>0, <2>5, <2>6, <2>7
    <3> QED
      BY <2>3, <2>4, <2>5, <2>7, <3>1 DEF SameAt
  <2>8. Phase(c) = "opening" /\ Runners(c) = {} /\ Runners(c)' = {}
    BY <2>0, <2>1, <2>4 DEF Phase, Runners
  <2>9. Phase(c)' = "idle"
    BY <2>1, <2>2, <2>3, <2>4, <2>5, <2>6 DEF Phase
  <2>10. Lifecycle!Arm(c)
    BY <2>1, <2>7, <2>8, <2>9, FreeMoves DEF Lifecycle!Arm
  <2> QED
    BY <2>1, <2>10 DEF Lifecycle!Next
<1>16. ASSUME NEW w \in Workers, EndFlag(w)
      PROVE  Lifecycle!Next \/ UNCHANGED Lifecycle!vars
  <2>1. Still
    BY <1>16 DEF EndFlag
  <2> QED
    BY <2>1, StillStutters
<1>17. ASSUME NEW w \in Workers, EndBroadcast(w)
      PROVE  Lifecycle!Next \/ UNCHANGED Lifecycle!vars
  <2>1. Still
    BY <1>17 DEF EndBroadcast, Broadcast
  <2> QED
    BY <2>1, StillStutters
<1>18. ASSUME NEW w \in Workers, Reactivate(w)
      PROVE  Lifecycle!Next \/ UNCHANGED Lifecycle!vars
  <2>0. PICK e \in Idents : e = ev[w]
    BY <1>18 DEF Reactivate
  <2>1. e \in Idents /\ Holds(w, e) /\ Runners(e) = {w} /\ ~Queued(e)
    BY <1>18, <2>0 DEF Reactivate, Holds, EventOwnership, Runners
  <2>2. \A v \in Workers : newfd[v] # e
    BY <2>1, IdentAssumption DEF HandlerPresent
  <2>3. \A i : Queued(i)' <=> Queued(i)
    BY <1>18, UndeliveredFrame DEF Reactivate
  <2>4. /\ \A v \in Workers, i \in Idents : i # e => (Holds(v, i)' <=> Holds(v, i))
        /\ \A v \in Workers : ~Holds(v, e)'
    BY <1>18, <2>0, <2>1 DEF Reactivate, Holds, EventOwnership
  <2>5. newfd' = newfd /\ \A i \in Idents : reg'[i] = IF i = e THEN "armed" ELSE reg[i]
    BY <1>18, <2>0 DEF Reactivate
  <2> HIDE DEF TypeOK, Holding
  <2>6. \A i \in Idents : i # e => SameAt(i)
    BY <2>3, <2>4, <2>5 DEF SameAt
  <2>7. Phase(e) = "running"
    BY <2>1 DEF Phase
  <2>8. Phase(e)' = "idle" /\ Runners(e)' = {}
    BY <2>1, <2>2, <2>3, <2>4, <2>5 DEF Phase, Runners
  <2>9. Lifecycle!Finish(w, e, "idle")
    BY <2>1, <2>6, <2>7, <2>8, OneMoves DEF Lifecycle!Finish, Runners
  <2> QED
    BY <2>1, <2>9 DEF Lifecycle!Next
<1>19. ASSUME NEW w \in Workers, Remove(w)
      PROVE  Lifecycle!Next \/ UNCHANGED Lifecycle!vars
  <2>1. Still
    BY <1>19 DEF Remove, Holds
  <2> QED
    BY <2>1, StillStutters
<1>20. ASSUME NEW w \in Workers, ResetHandler(w)
      PROVE  Lifecycle!Next \/ UNCHANGED Lifecycle!vars
  <2>1. Still
    BY <1>20 DEF ResetHandler
  <2> QED
    BY <2>1, StillStutters
<1>21. ASSUME NEW w \in Workers, Close(w)
      PROVE  Lifecycle!Next \/ UNCHANGED Lifecycle!vars
  <2>0. PICK e \in Idents : e = ev[w]
    BY <1>21 DEF Close
  <2>1. e \in Idents /\ Holds(w, e) /\ Runners(e) = {w} /\ ~Queued(e)
    BY <1>21, <2>0 DEF Close, Holds, EventOwnership, Runners
  <2>2. \A v \in Workers : newfd[v] # e
    BY <2>1, IdentAssumption DEF HandlerPresent
  <2>3. \A i : Queued(i)' <=> Queued(i)
    BY <1>21, UndeliveredFrame DEF Close
  <2>4. /\ \A v \in Workers, i \in Idents : i # e => (Holds(v, i)' <=> Holds(v, i))
        /\ \A v \in Workers : ~Holds(v, e)'
    BY <1>21, <2>0, <2>1 DEF Close, Holds, EventOwnership
  <2>5. newfd' = newfd /\ reg' = reg /\ reg[e] = "none"
    BY <1>21, <2>0, <2>1 DEF Close, EventOwnership, Holds
  <2> HIDE DEF TypeOK, Holding
  <2>6. \A i \in Idents : i # e => SameAt(i)
    BY <2>3, <2>4, <2>5 DEF SameAt
  <2>7. Phase(e) = "running"
    BY <2>1 DEF Phase
  <2>8. Phase(e)' = "closed" /\ Runners(e)' = {}
    BY <2>1, <2>2, <2>3, <2>4, <2>5 DEF Phase, Runners
  <2>9. Lifecycle!Finish(w, e, "closed")
    BY <2>1, <2>6, <2>7, <2>8, OneMoves DEF Lifecycle!Finish, Runners
  <2> QED
    BY <2>1, <2>9 DEF Lifecycle!Next
<1>22. ASSUME NEW w \in Workers, SpuriousWakeup(w)
      PROVE  Lifecycle!Next \/ UNCHANGED Lifecycle!vars
  <2>1. Still
    BY <1>22 DEF SpuriousWakeup
  <2> QED
    BY <2>1, StillStutters
<1>23. ASSUME NEW w \in Workers, PollReturn(w)
      PROVE  Lifecycle!Next \/ UNCHANGED Lifecycle!vars
  <2>1. PICK s \in Reports(CanReport) : m_backlog' = s /\ reg' = Fired(reg, s)
    BY <1>23 DEF PollReturn
  <2> DEFINE S == {s[k] : k \in 1..Len(s)}
  <2>2. S \in SUBSET Idents /\ \A i \in S : reg[i] = "armed"
    BY <2>1, ReportsType DEF CanReport
  <2>3. pc[w] = "poll" /\ (\A v \in Workers : pc[v] # "relock") /\ m_off = Len(m_backlog)
    BY <1>23 DEF PollReturn, OnePoller, Polling
  <2>4. \A i : ~Queued(i)
    <3>1. Undelivered = {}
      BY <2>3 DEF Undelivered
    <3> QED
      BY <3>1 DEF Queued
  <2>5. \A i : Queued(i)' <=> i \in S
    <3>1. pc'[w] = "relock"
      BY <1>23 DEF PollReturn
    <3>2. Undelivered' = 1..Len(s)
      BY <2>1, <3>1 DEF Undelivered
    <3> QED
      BY <2>1, <3>2 DEF Queued
  <2>6. \A v \in Workers, i \in Idents : Holds(v, i)' <=> Holds(v, i)
    BY <1>23 DEF PollReturn, Holds
  <2>7. newfd' = newfd /\ \A i \in Idents : i \notin S => reg'[i] = reg[i]
    BY <1>23, <2>1 DEF PollReturn, Fired
  <2> HIDE DEF TypeOK, Holding, S
  <2>8. ASSUME NEW i \in Idents, i \notin S PROVE Phase(i)' = Phase(i)
    <3>1. SameAt(i)
      BY <2>4, <2>5, <2>6, <2>7, <2>8 DEF SameAt
    <3> QED
      BY <3>1, SameAtPhase
  <2>9. ASSUME NEW i \in S PROVE Phase(i) = "idle" /\ Phase(i)' = "queued"
    <3>1. i \in Idents /\ reg[i] = "armed"
      BY <2>2
    <3>2. \A v \in Workers : ~Holds(v, i)
      BY <3>1 DEF EventOwnership
    <3>3. \A v \in Workers : newfd[v] # i
      BY <3>1, IdentAssumption DEF HandlerPresent, TypeOK, HandOK
    <3> QED
      BY <3>1, <3>2, <3>3, <2>4, <2>5, <2>6, <2>7 DEF Phase
  <2>10. Lifecycle!Report(S)
    BY <2>2, <2>6, <2>8, <2>9 DEF Lifecycle!Report
  <2> QED
    BY <2>2, <2>10 DEF Lifecycle!Next
<1>24. ASSUME NEW w \in Workers, HandlerWrite(w)
      PROVE  Lifecycle!Next \/ UNCHANGED Lifecycle!vars
  <2>1. Still
    BY <1>24 DEF HandlerWrite
  <2> QED
    BY <2>1, StillStutters
<1>25. ASSUME NEW w \in Workers, Accept(w)
      PROVE  Lifecycle!Next \/ UNCHANGED Lifecycle!vars
  <2>1. PICK c \in Conns \ open : newfd' = [newfd EXCEPT ![w] = c]
    BY <1>25 DEF Accept
  <2>2. c \in Idents /\ c # NoFd /\ newfd[w] = NoFd
    BY <1>25, IdentAssumption DEF Accept, Idents, Fds
  <2>3. reg[c] = "none"
    BY <2>2 DEF HandlerPresent
  <2>4. ~Queued(c) /\ \A v \in Workers : ~Holds(v, c)
    BY <2>2, <2>3 DEF EventOwnership, HandlerPresent, Holds
  <2>5. \A v \in Workers : newfd[v] # c
    BY <2>2 DEF HandlerPresent
  <2>6. \A i : Queued(i)' <=> Queued(i)
    BY <1>25, UndeliveredFrame DEF Accept
  <2>7. \A v \in Workers, i \in Idents : Holds(v, i)' <=> Holds(v, i)
    BY <1>25 DEF Accept, Holds
  <2>8. /\ newfd'[w] = c /\ \A v \in Workers : v # w => newfd'[v] = newfd[v]
        /\ reg' = reg /\ NoFd \notin Idents
    BY <1>25, <2>1, IdentAssumption DEF Accept
  <2> HIDE DEF TypeOK, Holding
  <2>9. ASSUME NEW i \in Idents, i # c PROVE SameAt(i)
    <3>1. (\E v \in Workers : newfd'[v] = i) <=> (\E v \in Workers : newfd[v] = i)
      BY <2>2, <2>8, <2>9
    <3> QED
      BY <2>6, <2>7, <2>8, <3>1 DEF SameAt
  <2>10. Phase(c) = "closed" /\ Runners(c) = {} /\ Runners(c)' = {}
    BY <2>3, <2>4, <2>5, <2>7, <2>2 DEF Phase, Runners
  <2>11. Phase(c)' = "opening"
    BY <2>2, <2>4, <2>7, <2>8 DEF Phase
  <2>12. Lifecycle!Open(c)
    BY <2>2, <2>9, <2>10, <2>11, FreeMoves DEF Lifecycle!Open
  <2> QED
    BY <2>2, <2>12 DEF Lifecycle!Next
<1>26. CASE Submit
  <2>1. Still
    BY <1>26, SubmitPc DEF Submit
  <2> QED
    BY <2>1, StillStutters
<1>27. CASE UNCHANGED vars
  <2>1. Still
    BY <1>27 DEF vars
  <2> QED
    BY <2>1, StillStutters
<1> QED
  BY <1>1, <1>2, <1>3, <1>4, <1>5, <1>6, <1>7, <1>8, <1>9,
     <1>10, <1>11, <1>12, <1>13, <1>14, <1>15, <1>16, <1>17, <1>18,
     <1>19, <1>20, <1>21, <1>22, <1>23, <1>24, <1>25, <1>26, <1>27
     DEF Next, LoopStep, WorkStep, EnvStep, Terminated

\* The event loop implements the life of a descriptor that the author of a
\* handler relies on (FdLifecycle): whatever the pool, an event is run by one
\* worker, and that worker alone re-arms or closes the descriptor.
THEOREM LoopImplementsLifecycle == Spec => RefinesLifecycle
<1>1. IInv /\ [Next]_vars => [Lifecycle!Next]_Lifecycle!vars
  BY LifecycleStep DEF IInv
<1> QED
  BY <1>1, LifecycleInit, Invariance, PTL DEF Spec, RefinesLifecycle, Lifecycle!Spec
=============================================================================
