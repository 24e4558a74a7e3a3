---------------------------- MODULE ListenEvent ----------------------------
(***************************************************************************)
(* core::listen_event and the accept loop of listen_handler                *)
(* (wavy_listen.cc) with the callbacks of the two gates: who closes a      *)
(* socket when a step of taking it in fails.  WavyCore has the same path   *)
(* without failures and with the threads in detail; here an actor is a     *)
(* listener, whose handler one worker runs at a time.                      *)
(*                                                                         *)
(* A socket is a number of its own, in the order of creation, and a        *)
(* descriptor is what the kernel gives out again.  A handler closes its    *)
(* descriptor when it is destroyed, whatever it has become: victims are    *)
(* the sockets that were closed in place of another one.                   *)
(***************************************************************************)
EXTENDS Naturals

CONSTANTS
  Listeners,  \* the gates
  NFds,       \* RLIMIT_NOFILE: the number of descriptors
  MaxSocks    \* bound of the model: sockets that are ever made

ASSUME NumberAssumption == NFds \in Nat /\ MaxSocks \in Nat

None == 0

Fds == 1..NFds

Socks == 1..MaxSocks

VARIABLES
  at,       \* where each listener is
  lfd, lid, \* its descriptor and its socket, once listen_event returned
  fd, id,   \* the descriptor and the socket it is taking in
  made,     \* number of sockets made so far
  owner,    \* the socket behind each descriptor
  reg,      \* the descriptors registered with epoll
  m_state,  \* the handler of each descriptor, named by its socket
  twice,    \* a handler closed its descriptor on the way to the catch block
  deaf,     \* sockets whose add_fd failed
  victims   \* see above

ownVars   == <<lfd, lid>>
curVars   == <<fd, id>>
ghostVars == <<twice, deaf, victims>>
vars == <<at, ownVars, curVars, made, owner, reg, m_state, ghostVars>>

Init ==
  /\ at = [l \in Listeners |-> "socket"]
  /\ lfd = [l \in Listeners |-> None] /\ lid = [l \in Listeners |-> None]
  /\ fd = [l \in Listeners |-> None] /\ id = [l \in Listeners |-> None]
  /\ made = 0
  /\ owner = [f \in Fds |-> None] /\ reg = {} /\ m_state = [f \in Fds |-> None]
  /\ twice = FALSE /\ deaf = {} /\ victims = {}

Goto(l, p) == at' = [at EXCEPT ![l] = p]

\* socket or accept: the lowest number that is free.
Opened(l) ==
  \E f \in Fds :
    /\ owner[f] = None /\ \A g \in Fds : g < f => owner[g] # None
    /\ made < MaxSocks /\ made' = made + 1
    /\ owner' = [owner EXCEPT ![f] = made + 1]
    /\ fd' = [fd EXCEPT ![l] = f] /\ id' = [id EXCEPT ![l] = made + 1]

\* close(f), meant for socket s.
Closed(f, s) ==
  /\ owner' = [owner EXCEPT ![f] = None]
  /\ reg' = reg \ {f}
  /\ victims' = IF owner[f] \in {None, s} THEN victims ELSE victims \union {owner[f]}

-----------------------------------------------------------------------------
(* listen_event, called by main for one gate after the other, before it    *)
(* starts the workers                                                      *)

Serving == \A l \in Listeners : lfd[l] # None

Aborted == \E l \in Listeners : at[l] = "aborted"

Listen(l) ==
  /\ at[l] = "socket" /\ \A k \in Listeners : at[k] \in {"socket", "accept"}
  /\ Opened(l)
  /\ Goto(l, "create")
  /\ UNCHANGED <<ownVars, reg, m_state, ghostVars>>

\* socket, setsockopt, bind or listen fails: main does not catch it.
ListenFails(l) ==
  /\ at[l] = "socket" /\ \A k \in Listeners : at[k] \in {"socket", "accept"}
  /\ Goto(l, "aborted")
  /\ UNCHANGED <<ownVars, curVars, made, owner, reg, m_state, ghostVars>>

-----------------------------------------------------------------------------
(* The accept loop of a listener                                           *)

Accept(l) ==
  /\ at[l] = "accept" /\ Serving
  /\ owner[lfd[l]] = lid[l]
  /\ Opened(l)
  /\ Goto(l, "create")
  /\ UNCHANGED <<ownVars, reg, m_state, ghostVars>>

\* The callback ends the service, and the loop removes the listener.
AcceptFails(l) ==
  /\ at[l] = "accept" /\ Serving
  /\ m_state[lfd[l]] = lid[l]
  /\ m_state' = [m_state EXCEPT ![lfd[l]] = None]
  /\ Closed(lfd[l], lid[l])
  /\ Goto(l, "gone")
  /\ UNCHANGED <<ownVars, curVars, made, twice, deaf>>

-----------------------------------------------------------------------------
(* add_handler<Handler>(fd, ...)                                           *)

Create(l) ==
  /\ at[l] = "create"
  /\ Goto(l, "nonblock")
  /\ UNCHANGED <<ownVars, curVars, made, owner, reg, m_state, ghostVars>>

\* The memory of the handler cannot be allocated.
NewFails(l) ==
  /\ at[l] = "create"
  /\ Goto(l, "catch")
  /\ UNCHANGED <<ownVars, curVars, made, owner, reg, m_state, ghostVars>>

\* A member cannot be constructed, or fcntl fails: the base class wavy::handler
\* is destroyed and closes the descriptor.
HandlerFails(l) ==
  /\ at[l] \in {"create", "nonblock"}
  /\ Closed(fd[l], id[l])
  /\ twice' = TRUE
  /\ Goto(l, "catch")
  /\ UNCHANGED <<ownVars, curVars, made, m_state, deaf>>

Nonblock(l) ==
  /\ at[l] = "nonblock"
  /\ Goto(l, "set")
  /\ UNCHANGED <<ownVars, curVars, made, owner, reg, m_state, ghostVars>>

\* A handler that is still there under this number is destroyed.
SetHandler(l) ==
  /\ at[l] = "set"
  /\ m_state' = [m_state EXCEPT ![fd[l]] = id[l]]
  /\ IF m_state[fd[l]] = None THEN UNCHANGED <<owner, reg, victims>>
                              ELSE Closed(fd[l], m_state[fd[l]])
  /\ Goto(l, "add")
  /\ UNCHANGED <<ownVars, curVars, made, twice, deaf>>

\* The listener has its socket, or accepts the next one.
TakenIn(l) ==
  /\ Goto(l, "accept")
  /\ IF lfd[l] = None
       THEN lfd' = [lfd EXCEPT ![l] = fd[l]] /\ lid' = [lid EXCEPT ![l] = id[l]]
       ELSE UNCHANGED ownVars

\* Nobody looks at the result.
AddFd(l) ==
  /\ at[l] = "add"
  /\ \/ /\ owner[fd[l]] # None
        /\ reg' = reg \union {fd[l]} /\ UNCHANGED deaf
     \/ deaf' = deaf \union {id[l]} /\ UNCHANGED reg
  /\ TakenIn(l)
  /\ UNCHANGED <<curVars, made, owner, m_state, twice, victims>>

\* The catch block swallows the exception without closing the socket.
Catch_Open(l) ==
  /\ at[l] = "catch"
  /\ Goto(l, IF lfd[l] = None THEN "aborted" ELSE "accept")
  /\ UNCHANGED <<ownVars, curVars, made, owner, reg, m_state, ghostVars>>

\* The catch block closes fd(), the socket of the listener.
Catch_Listener(l) ==
  /\ at[l] = "catch"
  /\ Closed(IF lfd[l] = None THEN fd[l] ELSE lfd[l], id[l])
  /\ Goto(l, IF lfd[l] = None THEN "aborted" ELSE "accept")
  /\ UNCHANGED <<ownVars, curVars, made, m_state, twice, deaf>>

\* The catch block closes the socket and goes on; the one of listen_event
\* throws again, and main does not catch it.
Catch(l) ==
  /\ at[l] = "catch"
  /\ Closed(fd[l], id[l])
  /\ Goto(l, IF lfd[l] = None THEN "aborted" ELSE "accept")
  /\ UNCHANGED <<ownVars, curVars, made, m_state, twice, deaf>>

-----------------------------------------------------------------------------

\* The handler of a connection throws (the peer is gone): the loop removes the
\* event and the handler, which closes the descriptor.
HandlerEnds(f) ==
  /\ f \in reg /\ Serving
  /\ m_state[f] \in Socks \ {lid[l] : l \in Listeners}
  /\ m_state' = [m_state EXCEPT ![f] = None]
  /\ Closed(f, m_state[f])
  /\ UNCHANGED <<at, ownVars, curVars, made, twice, deaf>>

\* Every listener waits for a connection, or the process has ended.
Waiting ==
  /\ Aborted \/ \A l \in Listeners : at[l] \in {"accept", "gone"}
  /\ UNCHANGED vars

Next ==
  \/ /\ ~Aborted
     /\ \/ \E l \in Listeners :
             \/ Listen(l) \/ ListenFails(l) \/ Accept(l) \/ AcceptFails(l)
             \/ Create(l) \/ NewFails(l) \/ HandlerFails(l) \/ Nonblock(l)
             \/ SetHandler(l) \/ AddFd(l) \/ Catch(l)
        \/ \E f \in Fds : HandlerEnds(f)
  \/ Waiting

Spec == Init /\ [][Next]_vars

-----------------------------------------------------------------------------
(* Properties                                                              *)

\* The variables stay within their types.
TypeOK ==
  /\ at \in [Listeners -> {"socket", "create", "nonblock", "set", "add", "catch",
                           "accept", "gone", "aborted"}]
  /\ lfd \in [Listeners -> Fds \union {None}] /\ lid \in [Listeners -> Socks \union {None}]
  /\ fd \in [Listeners -> Fds \union {None}] /\ id \in [Listeners -> Socks \union {None}]
  /\ made \in 0..MaxSocks
  /\ owner \in [Fds -> Socks \union {None}] /\ m_state \in [Fds -> Socks \union {None}]
  /\ reg \subseteq Fds
  /\ twice \in BOOLEAN /\ deaf \subseteq Socks /\ victims \subseteq Socks

\* No socket is closed in place of another one, unless a handler was destroyed
\* on the way to the catch block, which then closes the number a second time;
\* from then on the number is lost, since the handler that remains under it
\* closes each successor (wavy_listen.cc:58-62, wavy_base.cc:214).
Unharmed == victims # {} => twice

TakingIn == {id[l] : l \in {k \in Listeners : at[k] \in {"create", "nonblock", "set", "add", "catch"}}}

\* A socket that nobody is taking in is served: it is open, has its own handler
\* and is registered; whatever failed on its way it is not left open without a
\* handler, and no handler stays behind a closed socket.  Excepted are the
\* sockets whose add_fd failed, which nobody notices, and the victims
\* (wavy_listen.cc:58-62, wavy_base.cc:207-218).
Settled ==
  ~Aborted =>
    \A f \in Fds, s \in Socks \ (TakingIn \union victims) :
      (owner[f] = s \/ m_state[f] = s) =>
        owner[f] = s /\ m_state[f] = s /\ (f \in reg \/ s \in deaf)
=============================================================================
