--------------------------- MODULE ServiceSignals ---------------------------
(***************************************************************************)
(* How memxy starts and is told to stop (main.cc, wavy_core.cc and         *)
(* wavy_signal.cc): service::init turns three signals into events of the   *)
(* loop, daemonize forks twice if it is asked to, start creates the        *)
(* workers, which inherit the signal mask, and the handler of a signal     *)
(* calls end().  Signals may be sent at any time.                          *)
(*                                                                         *)
(* The model follows the process that survives the forks.  A signalfd in   *)
(* an epoll set is reported for the signals of the process that put it     *)
(* there, as signalfd(2) says, and read() returns those of the caller.     *)
(* The creation of the workers is a single step here; ServiceStart         *)
(* composes it with ThreadInit.                                            *)
(***************************************************************************)
EXTENDS Naturals, Sequences

CONSTANTS
  Signals,  \* the signals in the order of service::init
  N,        \* the number of workers
  Idle      \* not a signal

Signos  == {Signals[k] : k \in DOMAIN Signals}
Workers == 1..N

VARIABLES
  daemon,    \* the option -d
  main,      \* where main is
  k,         \* the signal that it sets up, the worker that it creates or joins
  proc,      \* number of forks behind the process
  blocked,   \* the signal mask of main
  masks,     \* the mask of each worker, {} before it is created
  pending,   \* signals sent and not yet read
  reg,       \* the registration of each signalfd, one-shot
  regproc,   \* the process that registered it
  pc,        \* where each worker is
  ev,        \* the signal whose event it handles
  m_end_flag,
  dead       \* "killed" by a signal, "failed" with an exception or exit(1)

mainVars   == <<daemon, main, k, proc, blocked>>
workerVars == <<masks, pc, ev>>
epollVars  == <<reg, regproc>>
vars == <<mainVars, workerVars, epollVars, pending, m_end_flag, dead>>

Init ==
  /\ daemon \in BOOLEAN
  /\ main = "create" /\ k = 1 /\ proc = 0 /\ blocked = {}
  /\ masks = [w \in Workers |-> {}]
  /\ pc = [w \in Workers |-> "none"] /\ ev = [w \in Workers |-> Idle]
  /\ reg = [s \in Signos |-> "none"] /\ regproc = [s \in Signos |-> 0]
  /\ pending = {} /\ m_end_flag = FALSE /\ dead = "no"

-----------------------------------------------------------------------------
(* main: service::init, daemonize, start, join                             *)

\* signal_event: the signalfd is created, ...
CreateSignal ==
  /\ main = "create"
  /\ main' = "block"
  /\ UNCHANGED <<daemon, k, proc, blocked, workerVars, epollVars, pending, m_end_flag, dead>>

\* ... the constructor of the handler blocks the signal, ...
BlockSignal ==
  /\ main = "block"
  /\ blocked' = blocked \union {Signals[k]}
  /\ main' = "add"
  /\ UNCHANGED <<daemon, k, proc, workerVars, epollVars, pending, m_end_flag, dead>>

\* ... and the signalfd is put into the loop.
AddSignal ==
  /\ main = "add"
  /\ reg' = [reg EXCEPT ![Signals[k]] = "armed"]
  /\ regproc' = [regproc EXCEPT ![Signals[k]] = proc]
  /\ IF k < Len(Signals)
       THEN main' = "create" /\ k' = k + 1
       ELSE main' = (IF daemon THEN "fork" ELSE "start") /\ k' = 1
  /\ UNCHANGED <<daemon, proc, blocked, workerVars, pending, m_end_flag, dead>>

\* A failure of these, of fork or of the pid file ends the process.
StartFails ==
  /\ main \in {"create", "block", "add", "fork", "pidfile"}
  /\ dead' = "failed"
  /\ UNCHANGED <<mainVars, workerVars, epollVars, pending, m_end_flag>>

\* fork: the child has the mask and the descriptors, but not the pending
\* signals.
Fork ==
  /\ main = "fork"
  /\ proc' = proc + 1
  /\ pending' = {}
  /\ main' = IF proc' = 2 THEN "pidfile" ELSE "fork"
  /\ UNCHANGED <<daemon, k, blocked, workerVars, epollVars, m_end_flag, dead>>

PidFile ==
  /\ main = "pidfile"
  /\ main' = "start"
  /\ UNCHANGED <<daemon, k, proc, blocked, workerVars, epollVars, pending, m_end_flag, dead>>

StartThread_NoMask ==
  /\ main = "start"
  /\ pc' = [pc EXCEPT ![k] = "loop"]
  /\ IF k < N THEN k' = k + 1 /\ UNCHANGED main ELSE k' = 1 /\ main' = "join"
  /\ UNCHANGED <<daemon, proc, blocked, masks, ev, epollVars, pending, m_end_flag, dead>>

StartThread ==
  /\ main = "start"
  /\ pc' = [pc EXCEPT ![k] = "loop"]
  /\ masks' = [masks EXCEPT ![k] = blocked]
  /\ IF k < N THEN k' = k + 1 /\ UNCHANGED main ELSE k' = 1 /\ main' = "join"
  /\ UNCHANGED <<daemon, proc, blocked, ev, epollVars, pending, m_end_flag, dead>>

Join ==
  /\ main = "join" /\ pc[k] = "exit"
  /\ IF k < N THEN k' = k + 1 /\ UNCHANGED main ELSE main' = "exit" /\ UNCHANGED k
  /\ UNCHANGED <<daemon, proc, blocked, workerVars, epollVars, pending, m_end_flag, dead>>

-----------------------------------------------------------------------------
(* A worker                                                                *)

Goto(w, l) == pc' = [pc EXCEPT ![w] = l]

\* The top of the loop: leave it, or poll or wait.
Loop(w) ==
  /\ pc[w] = "loop"
  /\ Goto(w, IF m_end_flag THEN "exit" ELSE "poll")
  /\ UNCHANGED <<mainVars, masks, ev, epollVars, pending, m_end_flag, dead>>

\* The poll times out, or the broadcast of end() wakes the worker.
PollEnds(w) ==
  /\ pc[w] = "poll" /\ m_end_flag
  /\ Goto(w, "exit")
  /\ UNCHANGED <<mainVars, masks, ev, epollVars, pending, m_end_flag, dead>>

Report(w) ==
  /\ pc[w] = "poll"
  /\ \E s \in pending :
       /\ reg[s] = "armed" /\ regproc[s] = proc
       /\ reg' = [reg EXCEPT ![s] = "shot"]
       /\ ev' = [ev EXCEPT ![w] = s]
  /\ Goto(w, "read")
  /\ UNCHANGED <<mainVars, masks, regproc, pending, m_end_flag, dead>>

\* get_signal: nobody looks at what is read.
GetSignal(w) ==
  /\ pc[w] = "read"
  /\ pending' = pending \ {ev[w]}
  /\ Goto(w, "end")
  /\ UNCHANGED <<mainVars, masks, ev, epollVars, m_end_flag, dead>>

End_NotSet(w) ==
  /\ pc[w] = "end"
  /\ Goto(w, "reactivate")
  /\ UNCHANGED <<mainVars, masks, ev, epollVars, pending, m_end_flag, dead>>

\* service::signal_handler: end(), and the handler stays.
End(w) ==
  /\ pc[w] = "end"
  /\ m_end_flag' = TRUE
  /\ Goto(w, "reactivate")
  /\ UNCHANGED <<mainVars, masks, ev, epollVars, pending, dead>>

Reactivate(w) ==
  /\ pc[w] = "reactivate"
  /\ reg' = [reg EXCEPT ![ev[w]] = "armed"]
  /\ ev' = [ev EXCEPT ![w] = Idle]
  /\ Goto(w, "loop")
  /\ UNCHANGED <<mainVars, masks, regproc, pending, m_end_flag, dead>>

-----------------------------------------------------------------------------

\* Somebody sends a signal: it is pending if every thread blocks it.
Kill(s) ==
  /\ main # "exit"
  /\ IF s \in blocked /\ \A w \in Workers : pc[w] \notin {"none", "exit"} => s \in masks[w]
       THEN pending' = pending \union {s} /\ UNCHANGED dead
       ELSE dead' = "killed" /\ UNCHANGED pending
  /\ UNCHANGED <<mainVars, workerVars, epollVars, m_end_flag>>

\* What main does before it starts the workers.
Prepare ==
  CreateSignal \/ BlockSignal \/ AddSignal \/ StartFails \/ Fork \/ PidFile

MainStep == Prepare \/ StartThread \/ Join

WorkerStep(w) == Loop(w) \/ PollEnds(w) \/ Report(w) \/ GetSignal(w) \/ End(w) \/ Reactivate(w)

Running ==
  /\ dead = "no"
  /\ MainStep \/ (\E w \in Workers : WorkerStep(w)) \/ (\E s \in Signos : Kill(s))

Ended == (dead # "no" \/ main = "exit") /\ UNCHANGED vars

Next == Running \/ Ended

Spec == Init /\ [][Next]_vars

-----------------------------------------------------------------------------
(* Properties                                                              *)

\* The variables stay within their types.
TypeOK ==
  /\ daemon \in BOOLEAN /\ m_end_flag \in BOOLEAN /\ dead \in {"no", "killed", "failed"}
  /\ main \in {"create", "block", "add", "fork", "pidfile", "start", "join", "exit"}
  /\ k \in Nat /\ proc \in 0..2
  /\ blocked \subseteq Signos /\ pending \subseteq Signos
  /\ masks \in [Workers -> SUBSET Signos]
  /\ pc \in [Workers -> {"none", "loop", "poll", "read", "end", "reactivate", "exit"}]
  /\ ev \in [Workers -> Signos \union {Idle}]
  /\ reg \in [Signos -> {"none", "armed", "shot"}] /\ regproc \in [Signos -> 0..2]

\* After service::init none of its signals kills the process, in whatever
\* thread it arrives: the workers have the mask of main (wavy_signal.cc:92-97,
\* main.cc:123 and 155).
NeverKilled ==
  dead = "killed" => main \in {"create", "block", "add"}
=============================================================================
