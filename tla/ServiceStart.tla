---------------------------- MODULE ServiceStart ----------------------------
(***************************************************************************)
(* The start and the end of memxy as main.cc runs them: the signals of     *)
(* ServiceSignals and the threads of ThreadInit together.  Main sets the   *)
(* signals up, forks, and creates the workers; each of them runs its init  *)
(* function, reports to main and enters the loop, where it may get a       *)
(* signal and end the service while main still waits for the others; main  *)
(* then joins them.                                                        *)
(***************************************************************************)
EXTENDS ThreadInit, Sequences

CONSTANTS
  Signals,  \* the signals in the order of service::init
  Idle      \* not a signal

ASSUME SignalsAssumption ==
  /\ Signals \in Seq(STRING) \ {<<>>}
  /\ Idle \notin {Signals[s] : s \in DOMAIN Signals}

VARIABLES
  daemon, stage, k, proc, blocked,       \* main, as in ServiceSignals
  masks, at, ev,                         \* the workers in the loop
  reg, regproc,                          \* the signalfds in the epoll set
  pending, m_end_flag, dead

S == INSTANCE ServiceSignals WITH main <- stage, pc <- at

sigVars == <<daemon, stage, k, proc, blocked, masks, at, ev, reg, regproc,
             pending, m_end_flag, dead>>

allVars == <<vars, sigVars>>

StartInit == Init /\ S!Init

-----------------------------------------------------------------------------

\* service::init and daemonize come before the first thread.
Prepare == S!Prepare /\ UNCHANGED vars

\* pthread_create: the thread has the mask of main from its first instruction.
CreateThread == Create /\ S!StartThread

CreateThreadFails == stage = "start" /\ CreateFails /\ UNCHANGED sigVars

\* The steps of add_thread behind the creation.
WaitStep == (Created \/ WaitCheck \/ Reset) /\ UNCHANGED sigVars

JoinThread == Join /\ S!Join

\* A worker is in the loop of the core after its init function, and leaves the
\* thread with it.
LoopStep(t) ==
  /\ pc[t] = "run"
  /\ S!WorkerStep(t)
  /\ IF at'[t] = "exit" THEN Exit(t) ELSE UNCHANGED vars

Kill(s) == S!Kill(s) /\ UNCHANGED vars

Lives == ~aborted /\ dead = "no"

MainProceeds ==
  Lives /\ (Prepare \/ CreateThread \/ CreateThreadFails \/ WaitStep \/ JoinThread)

ThreadProceeds(t) == Lives /\ ((ThreadStep(t) /\ UNCHANGED sigVars) \/ LoopStep(t))

\* The steps that wait for start_mutex.
MainLocks == Lives /\ WaitLock /\ UNCHANGED sigVars
ThreadLocks(t) == Lives /\ StartedLock(t) /\ UNCHANGED sigVars

Environment ==
  Lives /\ ((SpuriousWakeup /\ UNCHANGED sigVars) \/ \E s \in S!Signos : Kill(s))

Over == (~Lives \/ main = "done") /\ UNCHANGED allVars

StartNext ==
  \/ MainProceeds \/ MainLocks \/ Environment \/ Over
  \/ \E t \in Threads : ThreadProceeds(t) \/ ThreadLocks(t)

StartSpec == StartInit /\ [][StartNext]_allVars

\* The scheduler runs everybody, and a thread that waits for a mutex is not
\* passed over for ever.
FairStartSpec ==
  /\ StartSpec
  /\ WF_allVars(MainProceeds) /\ SF_allVars(MainLocks)
  /\ \A t \in Threads : WF_allVars(ThreadProceeds(t)) /\ SF_allVars(ThreadLocks(t))

-----------------------------------------------------------------------------
(* Properties                                                              *)

\* After service::init none of its signals kills the process, in whatever
\* thread it arrives, one that still runs its init function included
\* (wavy_signal.cc:92-97, main.cc:123 and 155).
NeverKilled == S!NeverKilled

\* add_thread returns, or the process ends: no broadcast is lost, also when a
\* worker that has started ends the service while main waits for another one
\* (wavy_base.cc:118-163).
StartsUp == <>(~Lives \/ main \in {"join", "done"})

\* A signal that is pending ends the service, also one that came between the
\* mask and the loop or before the last worker has started (wavy_core.cc:28-45).
\* The exception is a daemon: it was the parent that registered the descriptors
\* (main.cc:123 and 152).
Stops ==
  \A s \in S!Signos : s \in pending /\ ~daemon ~> main = "done" \/ ~Lives
=============================================================================
