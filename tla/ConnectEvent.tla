---------------------------- MODULE ConnectEvent ----------------------------
(***************************************************************************)
(* core::connect_event and core::connect_thread (wavy_connect.cc): several *)
(* connections are opened at once, each with a callback (fd, err).  The    *)
(* first waits in the event loop, with a timer against it; the second      *)
(* waits in poll(), on the worker that runs its task.                      *)
(*                                                                         *)
(* The event of the socket and the event of the timer may be handled by    *)
(* two workers at the same time; m_done decides.  The handlers close the   *)
(* socket themselves, before the loop removes the event and the handler,   *)
(* so that the number may be in use again: hit is the set of calls whose   *)
(* descriptor was removed in place of another one.                         *)
(***************************************************************************)
EXTENDS Naturals, Sequences

CONSTANTS
  Calls,    \* the calls of connect_event and connect_thread
  NFds,     \* RLIMIT_NOFILE: the number of descriptors
  Workers   \* the threads of the loop

None == <<>>

Fds == 1..NFds

VARIABLES
  at,       \* where each call is
  sock,     \* its socket
  tfd,      \* its timer
  peer,     \* what the peer did with the connection
  expired,  \* the calls whose timer has expired
  owner,    \* what each descriptor is: <<"sock" | "timer" | "user", call>>
  reg,      \* its registration with epoll, one-shot
  m_state,  \* its handler: <<"connect" | "timeout", call>>
  m_done,   \* the flag of each connect_handler
  cb,       \* the calls of each callback: with a descriptor or not
  work,     \* what each worker does
  hit,      \* see above
  crashed   \* a handler was called through an empty pointer, or while deleted

callVars   == <<at, sock, tfd>>
worldVars  == <<peer, expired>>
kernelVars == <<owner, reg>>
ghostVars  == <<hit, crashed>>
vars == <<callVars, worldVars, kernelVars, m_state, m_done, cb, work, ghostVars>>

Idle == [at |-> "idle", fd |-> 0, c |-> None]

Init ==
  /\ at = [c \in Calls |-> "idle"]
  /\ sock = [c \in Calls |-> 0] /\ tfd = [c \in Calls |-> 0]
  /\ peer = [c \in Calls |-> "pending"] /\ expired = {}
  /\ owner = [f \in Fds |-> None] /\ reg = [f \in Fds |-> "none"]
  /\ m_state = [f \in Fds |-> None] /\ m_done = [c \in Calls |-> FALSE]
  /\ cb = [c \in Calls |-> <<>>]
  /\ work = [w \in Workers |-> Idle]
  /\ hit = {} /\ crashed = FALSE

Goto(c, l) == at' = [at EXCEPT ![c] = l]

\* The kernel hands out the lowest number that is free, and forgets the
\* registration of a descriptor that is closed.
Opened(f, x) ==
  /\ owner[f] = None /\ \A g \in Fds : g < f => owner[g] # None
  /\ owner' = [owner EXCEPT ![f] = x] /\ UNCHANGED reg

Closed(f) ==
  /\ owner' = [owner EXCEPT ![f] = None]
  /\ reg' = [reg EXCEPT ![f] = "none"]

\* callback(fd, err): who gets a descriptor owns it.  A callback that registers a
\* handler for the number while it runs is not modelled.
Callback(c, given) == cb' = [cb EXCEPT ![c] = Append(@, given)]

CallbackFd(c, f) ==
  /\ Callback(c, TRUE)
  /\ owner' = [owner EXCEPT ![f] = <<"user", c>>] /\ UNCHANGED reg

\* What SO_ERROR says of the socket decides: close it, or give it away.
Settle(c, f) ==
  IF peer[c] = "refused" THEN Closed(f) /\ Callback(c, FALSE) ELSE CallbackFd(c, f)

-----------------------------------------------------------------------------
(* connect_event                                                           *)

\* socket or connect fails: submit(callback, -1, err).
ConnectFails(c) ==
  /\ at[c] = "idle"
  /\ Goto(c, "failed")
  /\ UNCHANGED <<sock, tfd, worldVars, kernelVars, m_state, m_done, cb, work, ghostVars>>

\* connect succeeds at once, submit(callback, fd, 0), or is in progress.
Connect(c, f) ==
  /\ at[c] = "idle"
  /\ Opened(f, <<"sock", c>>)
  /\ sock' = [sock EXCEPT ![c] = f]
  /\ \/ Goto(c, "connected") /\ peer' = [peer EXCEPT ![c] = "established"]
     \/ Goto(c, "handler") /\ UNCHANGED peer
  /\ UNCHANGED <<tfd, expired, m_state, m_done, cb, work, ghostVars>>

\* add_handler: the handler is set, then the descriptor is registered.
SetHandler(c) ==
  /\ at[c] = "handler"
  /\ m_state' = [m_state EXCEPT ![sock[c]] = <<"connect", c>>]
  /\ Goto(c, "addfd")
  /\ UNCHANGED <<sock, tfd, worldVars, kernelVars, m_done, cb, work, ghostVars>>

SetHandlerFails(c) ==
  /\ at[c] = "handler"
  /\ Closed(sock[c])
  /\ Goto(c, "failed")
  /\ UNCHANGED <<sock, tfd, worldVars, m_state, m_done, cb, work, ghostVars>>

\* Nobody looks at the result of add_fd.
AddFd(c) ==
  /\ at[c] = "addfd"
  /\ \E r \in {"armed", "none"} : reg' = [reg EXCEPT ![sock[c]] = r]
  /\ Goto(c, "timer")
  /\ UNCHANGED <<sock, tfd, worldVars, owner, m_state, m_done, cb, work, ghostVars>>

CreateTimer(c, f) ==
  /\ at[c] = "timer"
  /\ Opened(f, <<"timer", c>>)
  /\ tfd' = [tfd EXCEPT ![c] = f]
  /\ Goto(c, "settimer")
  /\ UNCHANGED <<sock, worldVars, m_state, m_done, cb, work, ghostVars>>

\* The exception is swallowed; ~timer closes what was opened.
CreateTimerFails(c) ==
  /\ at[c] = "timer"
  /\ Goto(c, "untimed")
  /\ UNCHANGED <<sock, tfd, worldVars, kernelVars, m_state, m_done, cb, work, ghostVars>>

SetTimerHandler(c) ==
  /\ at[c] = "settimer"
  /\ m_state' = [m_state EXCEPT ![tfd[c]] = <<"timeout", c>>]
  /\ Goto(c, "addtimer")
  /\ UNCHANGED <<sock, tfd, worldVars, kernelVars, m_done, cb, work, ghostVars>>

AddTimer(c) ==
  /\ at[c] = "addtimer"
  /\ reg' = [reg EXCEPT ![tfd[c]] = "armed"]
  /\ Goto(c, "returned")
  /\ UNCHANGED <<sock, tfd, worldVars, owner, m_state, m_done, cb, work, ghostVars>>

AddTimerFails(c) ==
  /\ at[c] = "addtimer"
  /\ m_state' = [m_state EXCEPT ![tfd[c]] = None]
  /\ Closed(tfd[c])
  /\ Goto(c, "untimed")
  /\ UNCHANGED <<sock, tfd, worldVars, m_done, cb, work, ghostVars>>

-----------------------------------------------------------------------------
(* Tasks                                                                   *)

\* A submitted callback.
RunTask(w, c) ==
  /\ work[w] = Idle /\ at[c] \in {"failed", "connected"}
  /\ IF at[c] = "connected" THEN CallbackFd(c, sock[c])
                            ELSE Callback(c, FALSE) /\ UNCHANGED kernelVars
  /\ Goto(c, "returned")
  /\ UNCHANGED <<sock, tfd, worldVars, m_state, m_done, work, ghostVars>>

ConnectThread(c) ==
  /\ at[c] = "idle"
  /\ Goto(c, "queued")
  /\ UNCHANGED <<sock, tfd, worldVars, kernelVars, m_state, m_done, cb, work, ghostVars>>

\* connect_task::operator(): socket fails, ...
TaskFails(w, c) ==
  /\ work[w] = Idle /\ at[c] = "queued"
  /\ Callback(c, FALSE)
  /\ Goto(c, "returned")
  /\ UNCHANGED <<sock, tfd, worldVars, kernelVars, m_state, m_done, work, ghostVars>>

\* ... or the worker waits for the peer, ...
TaskConnect(w, c, f) ==
  /\ work[w] = Idle /\ at[c] = "queued"
  /\ Opened(f, <<"sock", c>>)
  /\ sock' = [sock EXCEPT ![c] = f]
  /\ work' = [work EXCEPT ![w] = [at |-> "poll", fd |-> f, c |-> c]]
  /\ Goto(c, "returned")
  /\ UNCHANGED <<tfd, worldVars, m_state, m_done, cb, ghostVars>>

\* ... which answers at once or while it polls, ...
TaskPolled(w) ==
  /\ work[w].at = "poll" /\ peer[work[w].c] # "pending"
  /\ Settle(work[w].c, work[w].fd)
  /\ work' = [work EXCEPT ![w] = Idle]
  /\ UNCHANGED <<callVars, worldVars, m_state, m_done, ghostVars>>

\* ... or does not (the callback gets err = 0: only errno is set).
TaskTimeout(w) ==
  /\ work[w].at = "poll" /\ peer[work[w].c] = "pending"
  /\ Closed(work[w].fd) /\ Callback(work[w].c, FALSE)
  /\ work' = [work EXCEPT ![w] = Idle]
  /\ UNCHANGED <<callVars, worldVars, m_state, m_done, ghostVars>>

-----------------------------------------------------------------------------
(* The loop                                                                *)

Stage(w, l) == work' = [work EXCEPT ![w].at = l]

\* The socket is registered for reading: a connection that is up but silent
\* is not reported.
Ready(f) ==
  \E c \in Calls :
    \/ owner[f] = <<"sock", c>> /\ peer[c] \in {"data", "refused"}
    \/ owner[f] = <<"timer", c>> /\ c \in expired

Report(w) ==
  /\ work[w] = Idle
  /\ \E f \in Fds :
       /\ reg[f] = "armed" /\ Ready(f)
       /\ reg' = [reg EXCEPT ![f] = "shot"]
       /\ work' = [work EXCEPT ![w] = [at |-> "call", fd |-> f, c |-> owner[f][2]]]
  /\ UNCHANGED <<callVars, worldVars, owner, m_state, m_done, cb, ghostVars>>

ConnectHandler_Late(w) ==
  LET f == work[w].fd  c == work[w].c IN
  /\ work[w].at = "call" /\ m_state[f] = <<"connect", c>>
  /\ IF m_done[c] THEN Closed(f) /\ Stage(w, "remove")
                  ELSE UNCHANGED kernelVars /\ Stage(w, "getsockopt")
  /\ UNCHANGED <<callVars, worldVars, m_state, m_done, cb, ghostVars>>

\* connect_handler::operator(): the compare-and-swap ...
ConnectHandler(w) ==
  LET f == work[w].fd  c == work[w].c IN
  /\ work[w].at = "call" /\ m_state[f] = <<"connect", c>>
  /\ m_done' = [m_done EXCEPT ![c] = TRUE]
  /\ IF m_done[c] THEN Closed(f) /\ Stage(w, "remove")
                  ELSE UNCHANGED kernelVars /\ Stage(w, "getsockopt")
  /\ UNCHANGED <<callVars, worldVars, m_state, cb, ghostVars>>

\* ... and the rest.
ConnectResult(w) ==
  /\ work[w].at = "getsockopt"
  /\ Settle(work[w].c, work[w].fd)
  /\ Stage(w, "remove")
  /\ UNCHANGED <<callVars, worldVars, m_state, m_done, ghostVars>>

TimeoutHandler_Closes(w) ==
  LET f == work[w].fd  c == work[w].c IN
  /\ work[w].at = "call" /\ m_state[f] = <<"timeout", c>>
  /\ m_done' = [m_done EXCEPT ![c] = TRUE]
  /\ IF m_done[c] THEN UNCHANGED cb ELSE Callback(c, FALSE)
  /\ Closed(sock[c])
  /\ Stage(w, "remove")
  /\ UNCHANGED <<callVars, worldVars, m_state, ghostVars>>

TimeoutHandler_Skips(w) ==
  LET f == work[w].fd  c == work[w].c IN
  /\ work[w].at = "call" /\ m_state[f] = <<"timeout", c>>
  /\ m_done' = [m_done EXCEPT ![c] = TRUE]
  /\ Stage(w, "remove")
  /\ UNCHANGED <<callVars, worldVars, kernelVars, m_state, cb, ghostVars>>

\* connect_timeout_handler::operator() and connect_handler::timeout().  The
\* socket stays open, and so does the timer.
TimeoutHandler(w) ==
  LET f == work[w].fd  c == work[w].c IN
  /\ work[w].at = "call" /\ m_state[f] = <<"timeout", c>>
  /\ m_done' = [m_done EXCEPT ![c] = TRUE]
  /\ IF m_done[c] THEN UNCHANGED cb ELSE Callback(c, FALSE)
  /\ Stage(w, "remove")
  /\ UNCHANGED <<callVars, worldVars, kernelVars, m_state, ghostVars>>

\* No pointer in m_state and none in the timer's handler keeps it.
Deleted(c) ==
  /\ at[c] \in {"returned", "untimed"}
  /\ \A f \in Fds : m_state[f] \notin {<<"connect", c>>, <<"timeout", c>>}

\* What is called is gone, or goes while it runs.
Crash(w) ==
  /\ \/ work[w].at = "call" /\ m_state[work[w].fd] = None
     \/ work[w].at = "getsockopt" /\ Deleted(work[w].c)
  /\ crashed' = TRUE
  /\ UNCHANGED <<callVars, worldVars, kernelVars, m_state, m_done, cb, work, hit>>

\* The calls other than that of worker w that use the number its event has.
Others(w) ==
  {d \in Calls \ {work[w].c} : owner[work[w].fd] \in {<<"sock", d>>, <<"timer", d>>}}

\* After a handler that returns false: shot_remove and reset_handler.
ShotRemove(w) ==
  /\ work[w].at = "remove"
  /\ reg' = [reg EXCEPT ![work[w].fd] = "none"]
  /\ hit' = hit \union Others(w)
  /\ Stage(w, "reset")
  /\ UNCHANGED <<callVars, worldVars, owner, m_state, m_done, cb, crashed>>

ResetHandler(w) ==
  /\ work[w].at = "reset"
  /\ m_state' = [m_state EXCEPT ![work[w].fd] = None]
  /\ hit' = hit \union Others(w)
  /\ work' = [work EXCEPT ![w] = Idle]
  /\ UNCHANGED <<callVars, worldVars, kernelVars, m_done, cb, crashed>>

-----------------------------------------------------------------------------
(* The world                                                               *)

Peer(c) ==
  /\ sock[c] # 0 /\ owner[sock[c]] = <<"sock", c>>
  /\ \/ peer[c] = "pending" /\ \E r \in {"established", "refused"} : peer' = [peer EXCEPT ![c] = r]
     \/ peer[c] = "established" /\ peer' = [peer EXCEPT ![c] = "data"]
  /\ UNCHANGED <<callVars, expired, kernelVars, m_state, m_done, cb, work, ghostVars>>

Expire(c) ==
  /\ c \notin expired
  /\ tfd[c] # 0 /\ owner[tfd[c]] = <<"timer", c>>
  /\ expired' = expired \union {c}
  /\ UNCHANGED <<callVars, peer, kernelVars, m_state, m_done, cb, work, ghostVars>>

UserCloses(f) ==
  /\ \E c \in Calls : owner[f] = <<"user", c>>
  /\ Closed(f)
  /\ UNCHANGED <<callVars, worldVars, m_state, m_done, cb, work, ghostVars>>

-----------------------------------------------------------------------------

CallStep(c) ==
  \/ ConnectFails(c) \/ ConnectThread(c)
  \/ \E f \in Fds : Connect(c, f) \/ CreateTimer(c, f)
  \/ SetHandler(c) \/ SetHandlerFails(c) \/ AddFd(c) \/ CreateTimerFails(c)
  \/ SetTimerHandler(c) \/ AddTimer(c) \/ AddTimerFails(c)

WorkerStep(w) ==
  \/ \E c \in Calls : RunTask(w, c) \/ TaskFails(w, c) \/ \E f \in Fds : TaskConnect(w, c, f)
  \/ TaskPolled(w) \/ TaskTimeout(w) \/ Report(w) \/ ConnectHandler(w)
  \/ ConnectResult(w) \/ TimeoutHandler(w) \/ Crash(w) \/ ShotRemove(w) \/ ResetHandler(w)

Running ==
  /\ ~crashed
  /\ \/ \E c \in Calls : CallStep(c) \/ Peer(c) \/ Expire(c)
     \/ \E w \in Workers : WorkerStep(w)
     \/ \E f \in Fds : UserCloses(f)

Ended ==
  /\ crashed \/ \A c \in Calls : at[c] \in {"returned", "untimed"}
  /\ UNCHANGED vars

Next == Running \/ Ended

Spec == Init /\ [][Next]_vars

\* The threads are scheduled, and a timer that is set expires.
FairSpec ==
  /\ Spec
  /\ \A c \in Calls : WF_vars(~crashed /\ CallStep(c)) /\ WF_vars(~crashed /\ Expire(c))
  /\ \A w \in Workers : WF_vars(~crashed /\ WorkerStep(w))

-----------------------------------------------------------------------------
(* Properties                                                              *)

\* The variables stay within their types.
TypeOK ==
  /\ at \in [Calls -> {"idle", "failed", "connected", "handler", "addfd", "timer",
                       "settimer", "addtimer", "untimed", "queued", "returned"}]
  /\ sock \in [Calls -> Fds \union {0}] /\ tfd \in [Calls -> Fds \union {0}]
  /\ peer \in [Calls -> {"pending", "established", "data", "refused"}]
  /\ expired \subseteq Calls /\ hit \subseteq Calls /\ crashed \in BOOLEAN
  /\ owner \in [Fds -> {None} \union ({"sock", "timer", "user"} \X Calls)]
  /\ reg \in [Fds -> {"none", "armed", "shot"}]
  /\ m_state \in [Fds -> {None} \union ({"connect", "timeout"} \X Calls)]
  /\ m_done \in [Calls -> BOOLEAN] /\ cb \in [Calls -> Seq(BOOLEAN)]
  /\ work \in [Workers -> {Idle} \union
       [at : {"poll", "call", "getsockopt", "remove", "reset"}, fd : Fds, c : Calls]]

\* A callback is called at most once, whatever the socket, the timer and the
\* failures of the set-up do (wavy_connect.cc:144 and 180).
CallbackOnce == \A c \in Calls : Len(cb[c]) <= 1

\* The descriptor a callback is given is the connected socket of its call, and
\* nobody but the owner of the callback closes it from then on
\* (wavy_connect.cc:144-146 and 169-174).
GivenKept ==
  [][/\ \A c \in Calls :
          cb'[c] # cb[c] /\ cb'[c][Len(cb'[c])] =>
            owner'[sock'[c]] = <<"user", c>> /\ peer[c] \in {"established", "data"}
     /\ \A f \in Fds : owner[f] # None /\ owner[f][1] = "user" /\ owner'[f] # owner[f] =>
          UserCloses(f)]_vars

\* Every call that has returned calls back in the end.  The exceptions are a
\* timer that could not be set, which the code swallows (wavy_connect.cc:273),
\* a descriptor that the loop removed in place of another one, and a crash.
CallsBack ==
  \A c \in Calls : at[c] = "returned" ~> cb[c] # <<>> \/ crashed \/ c \in hit
=============================================================================
