------------------------------ MODULE WavyCore ------------------------------
(***************************************************************************)
(* The event loop of mp::wavy (mpsrc/wavy_base.cc) as memxy runs it on     *)
(* Linux: a pool of worker threads executes coreimpl::operator(), sharing  *)
(* one one-shot epoll port, one backlog of polled events, a queue of       *)
(* submitted tasks and the queue of write events of the out port.          *)
(*                                                                         *)
(* A region that the code runs under m_mutex is one step, except that the  *)
(* look at m_end_flag (line 250) and the decision that follows it are two  *)
(* steps ("start" -> "locked" -> ...): m_end_flag and, on the way out,     *)
(* m_pollable are written without the mutex (lines 73 and 279), so they    *)
(* may change between the two.  Every call that runs outside the mutex     *)
(* (poll, handler, epoll_ctl, reset_handler, close) is a step of its own.  *)
(***************************************************************************)
EXTENDS Naturals, Sequences, FiniteSets

CONSTANTS
  Workers,      \* the threads started by add_thread
  Conns,        \* descriptors that accepted connections may get
  Listeners,    \* the listening descriptors of the two gates
  Signals,      \* the signalfd descriptors of service::init
  OUT,          \* the descriptor of the out port, watched by the main port
  NoFd,         \* not a descriptor
  QueueLimit,   \* MP_WAVY_TASK_QUEUE_LIMIT
  BacklogSize,  \* MP_WAVY_PORT_BACKLOG_SIZE
  MaxTasks      \* bound of the model: tasks in the queue at one time

Fds    == Conns \union Listeners \union Signals
Idents == Fds \union {OUT}

ASSUME IdentAssumption ==
  /\ OUT \notin Fds /\ NoFd \notin Idents
  /\ Conns \cap Listeners = {} /\ Conns \cap Signals = {}
  /\ Listeners \cap Signals = {}

\* service::start is called with 8 threads; the loop needs at least two (one
\* that polls never looks at the queues).
ASSUME WorkersAssumption == \E v, w \in Workers : v # w

ASSUME BoundAssumption ==
  QueueLimit \in Nat /\ BacklogSize \in Nat \ {0} /\ MaxTasks \in Nat

VARIABLES
  pc,           \* where each worker is
  ev,           \* the event (its ident) each worker is working on
  newfd,        \* the descriptor a listen handler has just accepted
  m_backlog,    \* the events the last poll returned
  m_off, m_num, \* the part of m_backlog that is not yet handed out
  m_pollable,
  m_end_flag,
  m_task_queue, \* number of submitted tasks not yet taken
  out_queue,    \* out::m_queue, the write events not yet taken
  reg,          \* registration of each ident in the main port
  oreg,         \* registration of each connection in the out port
  pend,         \* the transfer context of the descriptor is not empty
  m_state,      \* m_state[ident] holds a handler
  open          \* descriptors that are open

poolVars == <<pc, ev, newfd>>
pollVars == <<m_backlog, m_off, m_num, m_pollable>>
outVars  == <<out_queue, oreg, pend>>
fdVars   == <<reg, m_state, open>>
vars     == <<poolVars, pollVars, m_end_flag, m_task_queue, outVars, fdVars>>

\* What the epoll instance knows of a descriptor: not registered, registered
\* and armed, or registered and disarmed by the event it has reported
\* (EPOLLONESHOT).
Registration == {"none", "armed", "fired"}

\* A worker that has taken the event of a descriptor off the backlog keeps it
\* at these points, until it re-arms or closes the descriptor.
Holding ==
  {"handle", "sethandler", "addfd", "endlock", "react", "remove", "reset", "close"}

PcSet == Holding \union
  {"start", "locked", "waiting", "poll", "relock", "task", "write", "exited"}

Init ==
  /\ pc = [w \in Workers |-> "start"]
  /\ ev = [w \in Workers |-> NoFd]
  /\ newfd = [w \in Workers |-> NoFd]
  /\ m_backlog = <<>> /\ m_off = 0 /\ m_num = 0
  /\ m_pollable = TRUE
  /\ m_end_flag = FALSE
  /\ m_task_queue = 0
  /\ out_queue = <<>>
  /\ reg = [i \in Idents |-> IF i \in Conns THEN "none" ELSE "armed"]
  /\ oreg = [c \in Conns |-> "none"]
  /\ pend = [c \in Conns |-> FALSE]
  /\ m_state = [i \in Idents |-> i \notin Conns]
  /\ open = Idents \ Conns

-----------------------------------------------------------------------------
(* The mutex and the condition variable.                                   *)

MutexFree == \A w \in Workers : pc[w] # "locked"

Waiters(p) == {w \in Workers : p[w] = "waiting"}

\* Mutant: wakes nobody.
Signalled_Nobody(p) == {p}

\* m_cond.signal(): wakes one waiter, any of them, if there is one.  A woken
\* worker must get the mutex again before it looks at m_end_flag.
Signalled(p) ==
  IF Waiters(p) = {} THEN {p}
                     ELSE {[p EXCEPT ![v] = "start"] : v \in Waiters(p)}

\* Mutant: wakes nobody.
Broadcast_Nobody(p) == p

\* m_cond.broadcast()
Broadcast(p) == [w \in Workers |-> IF p[w] = "waiting" THEN "start" ELSE p[w]]

Goto(w, l) == pc' = [pc EXCEPT ![w] = l]

\* pthread_cond_wait may return without a signal; the loop looks again.
SpuriousWakeup(w) ==
  /\ pc[w] = "waiting"
  /\ Goto(w, "start")
  /\ UNCHANGED <<ev, newfd, pollVars, m_end_flag, m_task_queue, outVars, fdVars>>

-----------------------------------------------------------------------------
(* The loop, from the top down to the event it takes.                      *)

\* Take the mutex and look at m_end_flag.
Lock(w) ==
  /\ pc[w] = "start" /\ MutexFree
  /\ Goto(w, IF m_end_flag THEN "exited" ELSE "locked")
  /\ UNCHANGED <<ev, newfd, pollVars, m_end_flag, m_task_queue, outVars, fdVars>>

\* do_out: take a write event; write_event runs without the mutex.
DoOut(w) ==
  /\ pc[w] = "locked" /\ ~m_pollable /\ out_queue # <<>>
  /\ ev' = [ev EXCEPT ![w] = Head(out_queue)]
  /\ out_queue' = Tail(out_queue)
  /\ Goto(w, "write")
  /\ UNCHANGED <<newfd, pollVars, m_end_flag, m_task_queue, oreg, pend, fdVars>>

\* do_task: when somebody polls and no write event waits, or when the queue
\* has grown past its limit.  The task runs without the mutex.
DoTask(w) ==
  /\ pc[w] = "locked"
  /\ \/ ~m_pollable /\ out_queue = <<>> /\ m_task_queue > 0
     \/ m_pollable /\ m_task_queue > QueueLimit
  /\ m_task_queue' = m_task_queue - 1
  /\ LET p == [pc EXCEPT ![w] = "task"]
     IN  pc' \in IF m_task_queue' > 0 THEN Signalled(p) ELSE {p}
  /\ UNCHANGED <<ev, newfd, pollVars, m_end_flag, outVars, fdVars>>

\* Somebody polls and there is nothing to do: m_cond.wait releases the mutex.
CondWait(w) ==
  /\ pc[w] = "locked" /\ ~m_pollable /\ out_queue = <<>> /\ m_task_queue = 0
  /\ Goto(w, "waiting")
  /\ UNCHANGED <<ev, newfd, pollVars, m_end_flag, m_task_queue, outVars, fdVars>>

\* Mutant: the poller does not claim its role.
StartPoll_StaysPollable(w) ==
  /\ pc[w] = "locked" /\ m_pollable /\ m_task_queue <= QueueLimit
  /\ m_num = m_off
  /\ UNCHANGED m_pollable
  /\ Goto(w, "poll")
  /\ UNCHANGED <<ev, newfd, m_backlog, m_off, m_num, m_end_flag, m_task_queue,
                 outVars, fdVars>>

\* Mutant: polls although the task queue is over its limit.
StartPoll_IgnoresLimit(w) ==
  /\ pc[w] = "locked" /\ m_pollable
  /\ m_num = m_off
  /\ m_pollable' = FALSE
  /\ Goto(w, "poll")
  /\ UNCHANGED <<ev, newfd, m_backlog, m_off, m_num, m_end_flag, m_task_queue,
                 outVars, fdVars>>

\* Nobody polls and the backlog is used up: become the poller.
StartPoll(w) ==
  /\ pc[w] = "locked" /\ m_pollable /\ m_task_queue <= QueueLimit
  /\ m_num = m_off
  /\ m_pollable' = FALSE
  /\ Goto(w, "poll")
  /\ UNCHANGED <<ev, newfd, m_backlog, m_off, m_num, m_end_flag, m_task_queue,
                 outVars, fdVars>>

\* The lists of one to BacklogSize different members of S.
Reports(S) ==
  UNION {{s \in [1..n -> S] : \A j, k \in 1..n : s[j] = s[k] => j = k} :
         n \in 1..BacklogSize}

\* Mutant: descriptors are registered without EPOLLONESHOT.
Fired_NotOneShot(r, s) == r

\* The registrations r of a port after epoll_wait has reported the list s: a
\* reported descriptor is disarmed.
Fired(r, s) ==
  [i \in DOMAIN r |-> IF \E k \in 1..Len(s) : s[k] = i THEN "fired" ELSE r[i]]

\* epoll_wait reports armed descriptors.  The out port is readable only if one
\* of its own registrations is armed.
CanReport ==
  {i \in Idents : reg[i] = "armed" /\ (i = OUT => \E c \in Conns : oreg[c] = "armed")}

\* m_port.wait returns num > 0 events.  It has filled m_backlog without the
\* mutex.
PollReturn(w) ==
  /\ pc[w] = "poll"
  /\ \E s \in Reports(CanReport) :
       /\ m_backlog' = s
       /\ reg' = Fired(reg, s)
  /\ Goto(w, "relock")
  /\ UNCHANGED <<ev, newfd, m_off, m_num, m_pollable, m_end_flag, m_task_queue,
                 outVars, m_state, open>>

\* m_port.wait returns 0 or is interrupted after end(): leave, giving up the
\* role of the poller without the mutex.  (Before end() the wait is repeated.)
PollEnd(w) ==
  /\ pc[w] = "poll" /\ m_end_flag
  /\ m_pollable' = TRUE
  /\ Goto(w, "exited")
  /\ UNCHANGED <<ev, newfd, m_backlog, m_off, m_num, m_end_flag, m_task_queue,
                 outVars, fdVars>>

\* out::poll_event moves what the out port reports into out_queue.  It may
\* report nothing: a descriptor may be closed or no longer writable.
PollEvent ==
  LET armed == {c \in Conns : oreg[c] = "armed"}
  IN  \E s \in Reports(armed) \union {<<>>} :
        /\ out_queue' = out_queue \o s
        /\ oreg' = Fired(oreg, s)
        /\ UNCHANGED pend

\* e = m_backlog[m_off++] and what follows it under the mutex.
Take(w, e) ==
  /\ ev' = [ev EXCEPT ![w] = e]
  /\ IF e = OUT THEN PollEvent ELSE UNCHANGED outVars

AfterTake(e) == IF e = OUT THEN "react" ELSE "handle"

\* Mutant: the poller gives up its role and wakes nobody.
Relock_NoSignal(w) ==
  /\ pc[w] = "relock" /\ MutexFree
  /\ m_off' = 1
  /\ m_num' = Len(m_backlog)
  /\ m_pollable' = TRUE
  /\ pc' = [pc EXCEPT ![w] = AfterTake(m_backlog[1])]
  /\ Take(w, m_backlog[1])
  /\ UNCHANGED <<newfd, m_backlog, m_end_flag, m_task_queue, fdVars>>

\* The poller publishes the new backlog, gives up its role, wakes a worker
\* and takes the first event.
Relock(w) ==
  /\ pc[w] = "relock" /\ MutexFree
  /\ m_off' = 1
  /\ m_num' = Len(m_backlog)
  /\ m_pollable' = TRUE
  /\ pc' \in Signalled([pc EXCEPT ![w] = AfterTake(m_backlog[1])])
  /\ Take(w, m_backlog[1])
  /\ UNCHANGED <<newfd, m_backlog, m_end_flag, m_task_queue, fdVars>>

\* Mutant: m_off is not advanced.
TakeBacklog_KeepsOffset(w) ==
  /\ pc[w] = "locked" /\ m_pollable /\ m_task_queue <= QueueLimit
  /\ m_num # m_off
  /\ UNCHANGED m_off
  /\ Goto(w, AfterTake(m_backlog[m_off + 1]))
  /\ Take(w, m_backlog[m_off + 1])
  /\ UNCHANGED <<newfd, m_backlog, m_num, m_pollable, m_end_flag, m_task_queue, fdVars>>

\* Nobody polls and the backlog still has events: take the next one.
TakeBacklog(w) ==
  /\ pc[w] = "locked" /\ m_pollable /\ m_task_queue <= QueueLimit
  /\ m_num # m_off
  /\ m_off' = m_off + 1
  /\ Goto(w, AfterTake(m_backlog[m_off + 1]))
  /\ Take(w, m_backlog[m_off + 1])
  /\ UNCHANGED <<newfd, m_backlog, m_num, m_pollable, m_end_flag, m_task_queue, fdVars>>

-----------------------------------------------------------------------------
(* What a worker does with its event, task or write event.                 *)

TaskDone(w) ==
  /\ pc[w] = "task"
  /\ Goto(w, "start")
  /\ UNCHANGED <<ev, newfd, pollVars, m_end_flag, m_task_queue, outVars, fdVars>>

\* Mutant: registers the descriptor although its context is not empty.
HandlerWrite_AlwaysWatches(w) ==
  /\ pc[w] = "handle" /\ ev[w] \in Conns
  /\ pend' = [pend EXCEPT ![ev[w]] = TRUE]
  /\ oreg' = [oreg EXCEPT ![ev[w]] = "armed"]
  /\ UNCHANGED <<poolVars, pollVars, m_end_flag, m_task_queue, out_queue, fdVars>>

\* A read handler answers and the socket does not take every byte: the rest
\* goes to the transfer context and, if that was empty, the descriptor is
\* registered in the out port (out::watch).
HandlerWrite(w) ==
  /\ pc[w] = "handle" /\ ev[w] \in Conns /\ ~pend[ev[w]]
  /\ pend' = [pend EXCEPT ![ev[w]] = TRUE]
  /\ oreg' = [oreg EXCEPT ![ev[w]] = "armed"]
  /\ UNCHANGED <<poolVars, pollVars, m_end_flag, m_task_queue, out_queue, fdVars>>

\* The handler returns: read() or accept() would block.
HandlerReturn(w) ==
  /\ pc[w] = "handle" /\ ev[w] \in Conns \union Listeners
  /\ Goto(w, "react")
  /\ UNCHANGED <<ev, newfd, pollVars, m_end_flag, m_task_queue, outVars, fdVars>>

\* The handler of a connection throws: closed by the peer, or a parse error.
HandlerThrow(w) ==
  /\ pc[w] = "handle" /\ ev[w] \in Conns
  /\ Goto(w, "remove")
  /\ UNCHANGED <<ev, newfd, pollVars, m_end_flag, m_task_queue, outVars, fdVars>>

\* Mutant: add_fd before set_handler.
Accept_ArmsFirst(w) ==
  /\ pc[w] = "handle" /\ ev[w] \in Listeners
  /\ \E c \in Conns \ open :
       /\ open' = open \union {c}
       /\ reg' = [reg EXCEPT ![c] = "armed"]
       /\ newfd' = [newfd EXCEPT ![w] = c]
  /\ Goto(w, "sethandler")
  /\ UNCHANGED <<ev, pollVars, m_end_flag, m_task_queue, outVars, m_state>>

\* accept() returns a descriptor that no open file uses.
Accept(w) ==
  /\ pc[w] = "handle" /\ ev[w] \in Listeners
  /\ \E c \in Conns \ open :
       /\ open' = open \union {c}
       /\ newfd' = [newfd EXCEPT ![w] = c]
  /\ Goto(w, "sethandler")
  /\ UNCHANGED <<ev, pollVars, m_end_flag, m_task_queue, outVars, reg, m_state>>

\* add_handler_impl, first half: set_handler.
SetHandler(w) ==
  /\ pc[w] = "sethandler"
  /\ m_state' = [m_state EXCEPT ![newfd[w]] = TRUE]
  /\ Goto(w, "addfd")
  /\ UNCHANGED <<ev, newfd, pollVars, m_end_flag, m_task_queue, outVars, reg, open>>

\* add_handler_impl, second half: add_fd; then the accept loop goes on.
AddFd(w) ==
  /\ pc[w] = "addfd"
  /\ reg' = [reg EXCEPT ![newfd[w]] = "armed"]
  /\ newfd' = [newfd EXCEPT ![w] = NoFd]
  /\ Goto(w, "handle")
  /\ UNCHANGED <<ev, pollVars, m_end_flag, m_task_queue, outVars, m_state, open>>

\* core::end(), first half: a signal arrived, or accept() failed.
EndFlag(w) ==
  /\ pc[w] = "handle" /\ ev[w] \in Signals \union Listeners
  /\ m_end_flag' = TRUE
  /\ Goto(w, "endlock")
  /\ UNCHANGED <<ev, newfd, pollVars, m_task_queue, outVars, fdVars>>

\* core::end(), second half: broadcast under the mutex.  The signal handler
\* then returns true, the listen handler throws.
EndBroadcast(w) ==
  /\ pc[w] = "endlock" /\ MutexFree
  /\ pc' = Broadcast([pc EXCEPT ![w] = IF ev[w] \in Signals THEN "react" ELSE "remove"])
  /\ UNCHANGED <<ev, newfd, pollVars, m_end_flag, m_task_queue, outVars, fdVars>>

\* shot_reactivate(e)
Reactivate(w) ==
  /\ pc[w] = "react"
  /\ reg' = [reg EXCEPT ![ev[w]] = "armed"]
  /\ ev' = [ev EXCEPT ![w] = NoFd]
  /\ Goto(w, "start")
  /\ UNCHANGED <<newfd, pollVars, m_end_flag, m_task_queue, outVars, m_state, open>>

\* shot_remove(e)
Remove(w) ==
  /\ pc[w] = "remove"
  /\ reg' = [reg EXCEPT ![ev[w]] = "none"]
  /\ Goto(w, "reset")
  /\ UNCHANGED <<ev, newfd, pollVars, m_end_flag, m_task_queue, outVars, m_state, open>>

\* reset_handler(ident): the pointer in m_state is cleared first ...
ResetHandler(w) ==
  /\ pc[w] = "reset"
  /\ m_state' = [m_state EXCEPT ![ev[w]] = FALSE]
  /\ Goto(w, "close")
  /\ UNCHANGED <<ev, newfd, pollVars, m_end_flag, m_task_queue, outVars, reg, open>>

\* ... then ~handler closes the descriptor.  That drops its registration in
\* the out port too, but not its transfer context.
Close(w) ==
  /\ pc[w] = "close"
  /\ open' = open \ {ev[w]}
  /\ oreg' = [c \in Conns |-> IF c = ev[w] THEN "none" ELSE oreg[c]]
  /\ ev' = [ev EXCEPT ![w] = NoFd]
  /\ Goto(w, "start")
  /\ UNCHANGED <<newfd, pollVars, m_end_flag, m_task_queue, out_queue, pend,
                 reg, m_state>>

\* out::write_event: everything is written, or the socket is broken; the
\* context is emptied and the registration removed.
WriteDone(w) ==
  /\ pc[w] = "write"
  /\ pend' = [pend EXCEPT ![ev[w]] = FALSE]
  /\ oreg' = [oreg EXCEPT ![ev[w]] = "none"]
  /\ ev' = [ev EXCEPT ![w] = NoFd]
  /\ Goto(w, "start")
  /\ UNCHANGED <<newfd, pollVars, m_end_flag, m_task_queue, out_queue, fdVars>>

\* out::write_event: the socket would block.  EPOLL_CTL_MOD fails without
\* effect if the descriptor was closed in the meantime.
WriteMore(w) ==
  /\ pc[w] = "write"
  /\ oreg' = [oreg EXCEPT ![ev[w]] = IF @ = "none" THEN "none" ELSE "armed"]
  /\ ev' = [ev EXCEPT ![w] = NoFd]
  /\ Goto(w, "start")
  /\ UNCHANGED <<newfd, pollVars, m_end_flag, m_task_queue, out_queue, pend, fdVars>>

\* submit_impl, called by a handler, a task or a thread outside the pool.
Submit ==
  /\ MutexFree /\ m_task_queue < MaxTasks
  /\ m_task_queue' = m_task_queue + 1
  /\ pc' \in Signalled(pc)
  /\ UNCHANGED <<ev, newfd, pollVars, m_end_flag, outVars, fdVars>>

\* Every worker has returned; core::join returns.
Terminated ==
  /\ \A w \in Workers : pc[w] = "exited"
  /\ UNCHANGED vars

-----------------------------------------------------------------------------
\* A worker that keeps getting the processor takes its next step; a poll
\* returns at least every second, and handlers, tasks and writes do not block
\* for ever.
LoopStep(w) ==
  \/ Lock(w) \/ DoOut(w) \/ DoTask(w) \/ CondWait(w) \/ StartPoll(w)
  \/ PollEnd(w) \/ Relock(w) \/ TakeBacklog(w)

WorkStep(w) ==
  \/ TaskDone(w) \/ WriteDone(w) \/ WriteMore(w)
  \/ HandlerReturn(w) \/ HandlerThrow(w)
  \/ SetHandler(w) \/ AddFd(w) \/ EndFlag(w) \/ EndBroadcast(w)
  \/ Reactivate(w) \/ Remove(w) \/ ResetHandler(w) \/ Close(w)

\* What the environment may do or not do: wake a worker for no reason, make
\* descriptors ready, fill a socket, connect.
EnvStep(w) ==
  \/ SpuriousWakeup(w) \/ PollReturn(w) \/ HandlerWrite(w) \/ Accept(w)

Next ==
  \/ \E w \in Workers : LoopStep(w) \/ WorkStep(w) \/ EnvStep(w)
  \/ Submit
  \/ Terminated

Spec == Init /\ [][Next]_vars

Fairness == \A w \in Workers : WF_vars(LoopStep(w)) /\ WF_vars(WorkStep(w))

FairSpec == Spec /\ Fairness

-----------------------------------------------------------------------------
(* Properties.                                                             *)

\* What a worker holds fits its place in the loop.
HandOK(w) ==
  /\ pc[w] \in Holding => ev[w] \in Idents
  /\ pc[w] = "write" => ev[w] \in Conns
  /\ newfd[w] # NoFd <=> pc[w] \in {"sethandler", "addfd"}
  /\ pc[w] \in {"sethandler", "addfd"} => ev[w] \in Listeners
  /\ pc[w] = "endlock" => ev[w] \in Listeners \union Signals
  /\ pc[w] \in {"remove", "reset", "close"} => ev[w] \in Conns \union Listeners
  /\ pc[w] = "handle" => ev[w] # OUT

\* Every variable of the loop keeps its type, and no worker works on a
\* descriptor of the wrong kind (the out port is never dispatched to a handler,
\* a signalfd is never closed).
TypeOK ==
  /\ pc \in [Workers -> PcSet]
  /\ ev \in [Workers -> Idents \union {NoFd}]
  /\ newfd \in [Workers -> Conns \union {NoFd}]
  /\ m_backlog \in Seq(Idents)
  /\ m_off \in Nat /\ m_num \in Nat
  /\ m_pollable \in BOOLEAN /\ m_end_flag \in BOOLEAN
  /\ m_task_queue \in 0..MaxTasks
  /\ out_queue \in Seq(Conns)
  /\ reg \in [Idents -> Registration]
  /\ oreg \in [Conns -> Registration]
  /\ pend \in [Conns -> BOOLEAN]
  /\ m_state \in [Idents -> BOOLEAN]
  /\ open \in SUBSET Idents
  /\ \A w \in Workers : HandOK(w)

Polling(w) == pc[w] \in {"poll", "relock"}

\* m_pollable tells whether a worker polls, although it is written both under
\* the mutex and, by a worker that leaves, without it: never two workers poll,
\* and so nobody reads m_backlog, m_off or m_num while m_port.wait fills the
\* backlog.  The window [m_off, m_num) lies inside it, and is empty when a
\* worker starts to poll.
OnePoller ==
  /\ m_pollable <=> \A w \in Workers : ~Polling(w)
  /\ \A v, w \in Workers : Polling(v) /\ Polling(w) => v = w
  /\ m_off <= m_num /\ (~m_pollable => m_off = m_num)
  /\ (\A w \in Workers : pc[w] # "relock") => m_num = Len(m_backlog)
  /\ \A w \in Workers : pc[w] = "relock" => m_backlog # <<>>

\* The positions of m_backlog whose events no worker has taken yet.
Undelivered ==
  {k \in 1..Len(m_backlog) : k > m_off \/ \E w \in Workers : pc[w] = "relock"}

Queued(i) == \E k \in Undelivered : m_backlog[k] = i

Holds(w, i) == pc[w] \in Holding /\ ev[w] = i

\* One event, one owner: an armed descriptor has no event anywhere, a reported
\* event is in the backlog once or in the hands of one worker, and a worker
\* that removed the descriptor is still the only one that knows it.  Two
\* workers therefore never run the same handler.
EventOwnership ==
  /\ \A j, k \in Undelivered : m_backlog[j] = m_backlog[k] => j = k
  /\ \A i \in Idents : Queued(i) => reg[i] = "fired"
  /\ \A w \in Workers, i \in Idents :
       Holds(w, i) =>
         /\ reg[i] = IF pc[w] \in {"reset", "close"} THEN "none" ELSE "fired"
         /\ ~Queued(i)
         /\ \A v \in Workers : Holds(v, i) => v = w

\* Whoever finds an event finds a handler: m_state is set, and the descriptor
\* open, for every descriptor the main port knows; a descriptor between
\* accept() and add_fd belongs to one listen handler, and nothing that an
\* earlier owner of the same number still does can touch its m_state or
\* registration.  This is the accept path without failures: after the second close
\* in the catch block of wavy_listen.cc:60-62 a handler may remain for a number
\* that is not open (ListenEvent has that path, and its properties name it).
HandlerPresent ==
  /\ \A i \in Idents : reg[i] # "none" => m_state[i] /\ i \in open
  /\ \A w \in Workers :
       pc[w] \in {"sethandler", "addfd"} =>
         /\ newfd[w] \in open /\ reg[newfd[w]] = "none"
         /\ m_state[newfd[w]] <=> pc[w] = "addfd"
         /\ \A v \in Workers : ~Holds(v, newfd[w])
         /\ \A v \in Workers \ {w} : newfd[v] # newfd[w]
  /\ \A w \in Workers :
       pc[w] \in {"reset", "close"} =>
         /\ ev[w] \in open
         /\ m_state[ev[w]] <=> pc[w] = "reset"
  /\ \A c \in Conns : m_state[c] => c \in open

\* No wakeup is lost: as long as end() was not called, two workers are awake
\* whenever nobody polls (one of them will poll), and whenever one polls and
\* work is queued another one is awake that will see it.
WorkAttended ==
  ~m_end_flag =>
    /\ m_pollable => \E v, w \in Workers : v # w /\ pc[v] # "waiting" /\ pc[w] # "waiting"
    /\ ~m_pollable /\ (m_task_queue > 0 \/ out_queue # <<>>) =>
         \E w \in Workers : pc[w] # "waiting" /\ ~Polling(w)
    /\ \A w \in Workers : pc[w] # "exited"

\* A descriptor has at most one write event, queued or in the hands of one
\* worker, and only while its transfer context is not empty, also when it is
\* closed while the event is in flight and its number is used again.  So
\* out::watch never meets a registration of its own (EEXIST), and a context is
\* never written for two events.
WriteEventOwnership ==
  /\ \A c \in Conns : oreg[c] # "none" => pend[c]
  /\ \A j, k \in 1..Len(out_queue) : out_queue[j] = out_queue[k] => j = k
  /\ \A k \in 1..Len(out_queue) : pend[out_queue[k]] /\ oreg[out_queue[k]] # "armed"
  /\ \A w \in Workers :
       pc[w] = "write" =>
         /\ pend[ev[w]] /\ oreg[ev[w]] # "armed"
         /\ \A k \in 1..Len(out_queue) : out_queue[k] # ev[w]
         /\ \A v \in Workers : pc[v] = "write" /\ ev[v] = ev[w] => v = w

\* end() reaches everybody: once its broadcast is over, no worker sleeps and
\* none is between its look at m_end_flag and m_cond.wait, although the flag
\* was set without the mutex.
EndHeard ==
  m_end_flag /\ (\A w \in Workers : pc[w] # "endlock") =>
    \A w \in Workers : pc[w] \notin {"waiting", "locked"}

\* end() stops the pool: however it meets polls, waits, queued work and a
\* second end(), every worker returns and join() does not hang.
EndStopsPool == m_end_flag ~> \A w \in Workers : pc[w] = "exited"

\* While a worker stays in the poll, queued tasks and write events are taken
\* by the others.
QueuesServed ==
  (~m_pollable /\ (m_task_queue > 0 \/ out_queue # <<>>))
    ~> (m_pollable \/ m_end_flag \/ \E w \in Workers : pc[w] \in {"task", "write"})

\* A task queue over MP_WAVY_TASK_QUEUE_LIMIT is worked off however many
\* events keep coming.
LongQueueServed ==
  (m_task_queue > QueueLimit) ~> (m_end_flag \/ \E w \in Workers : pc[w] = "task")

\* The loop implements the life of a descriptor that handlers rely on.
Phase(i) ==
  IF \E w \in Workers : Holds(w, i) THEN "running"
  ELSE IF \E w \in Workers : newfd[w] = i THEN "opening"
  ELSE IF Queued(i) THEN "queued"
  ELSE IF reg[i] = "armed" THEN "idle" ELSE "closed"

Lifecycle ==
  INSTANCE FdLifecycle WITH
    Permanent <- Idents \ Conns,
    phase <- [i \in Idents |-> Phase(i)],
    runners <- [i \in Idents |-> {w \in Workers : Holds(w, i)}]

RefinesLifecycle == Lifecycle!Spec
=============================================================================
