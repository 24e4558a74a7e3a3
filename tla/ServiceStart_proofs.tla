------------------------- MODULE ServiceStart_proofs -------------------------
(***************************************************************************)
(* The start-up of any number of threads is safe: the invariants of        *)
(* ThreadInit for every N.  The inductive invariant ties the place of main *)
(* and of each thread to the pack, the flag and the mutex between them.    *)
(* ServiceStart, for any number of workers and any list of signals,        *)
(* implements ThreadInit, whose invariants it therefore has, and none of   *)
(* its signals kills the process.                                          *)
(***************************************************************************)
EXTENDS ServiceStart, TLAPS

-----------------------------------------------------------------------------
(* add_thread                                                              *)

\* A thread is behind started() when it no longer looks at its pack.
Behind == {"run", "throw", "exit"}

\* What main has created and destroyed so far.
Progress ==
  /\ main = "create" =>
       \A t \in Threads : IF t < i THEN pack[t] = "live" /\ pc[t] # "none"
                                   ELSE pack[t] = "none" /\ pc[t] = "none"
  /\ main \in MainUses =>
       /\ i \in Threads
       /\ \A t \in Threads : IF t < i THEN pack[t] = "gone" /\ pc[t] \in Behind
                                      ELSE pack[t] = "live" /\ pc[t] # "none"
  /\ main \in {"join", "done"} =>
       i \in Threads /\ \A t \in Threads : pack[t] = "gone" /\ pc[t] \in Behind

\* Who holds start_mutex, and when the flag under it is set.
Handshake ==
  /\ \A t \in Threads : lock[t] = "thread" <=> pc[t] \in {"set", "broadcast", "unlock"}
  /\ \A t \in Threads : lock[t] = "main" <=> main = "check" /\ i = t
  /\ \A t \in Threads : started[t] <=> pc[t] \in {"broadcast", "unlock"} \union Behind
  /\ main = "reset" => pc[i] \in Behind

\* A thread that runs the loop has run its init function.
Outcome == \A t \in Threads : pc[t] \in {"impl", "run", "exit"} => t \in inited

\* The inductive invariant.
IInv == TypeOK /\ Progress /\ Handshake /\ Outcome

USE DEF Threads, MainUses, ThreadUses, Behind

LEMMA InitIInv == Init => IInv
<1> SUFFICES ASSUME Init PROVE IInv
  OBVIOUS
<1> USE ThreadsAssumption DEF Init
<1>1. TypeOK
  <2>1. started \in [Threads -> BOOLEAN] /\ aborted \in BOOLEAN
    BY Zenon
  <2>2. main = "create" /\ i \in 1..(N + 1) /\ inited \subseteq Threads
    OBVIOUS
  <2>3. /\ pc \in [Threads -> {"none"}]
        /\ pack \in [Threads -> {"none"}]
        /\ lock \in [Threads -> {"free"}]
    OBVIOUS
  <2>q. QED BY <2>1, <2>2, <2>3 DEF TypeOK
<1>2. Progress
  BY DEF Progress
<1>3. Handshake
  BY DEF Handshake
<1>4. Outcome
  BY DEF Outcome
<1>q. QED BY <1>1, <1>2, <1>3, <1>4 DEF IInv

LEMMA MainInductive ==
  ASSUME IInv, MainStep \/ WaitLock \/ SpuriousWakeup
  PROVE  IInv'
<1> USE ThreadsAssumption DEF IInv
<1>1. CASE Create
  BY <1>1 DEF Create, Goto, TypeOK, Progress, Handshake, Outcome
<1>2. CASE CreateFails
  BY <1>2 DEF CreateFails, TypeOK, Progress, Handshake, Outcome
<1>3. CASE Created
  BY <1>3 DEF Created, TypeOK, Progress, Handshake, Outcome
<1>4. CASE WaitLock
  BY <1>4 DEF WaitLock, ScopedLock, TypeOK, Progress, Handshake, Outcome
<1>5. CASE WaitCheck
  BY <1>5 DEF WaitCheck, ScopedUnlock, TypeOK, Progress, Handshake, Outcome
<1>6. CASE SpuriousWakeup
  BY <1>6 DEF SpuriousWakeup, TypeOK, Progress, Handshake, Outcome
<1>7. CASE Reset
  BY <1>7 DEF Reset, TypeOK, Progress, Handshake, Outcome
<1>8. CASE Join
  BY <1>8 DEF Join, TypeOK, Progress, Handshake, Outcome
<1>q. QED BY <1>1, <1>2, <1>3, <1>4, <1>5, <1>6, <1>7, <1>8 DEF MainStep

LEMMA ThreadInductive ==
  ASSUME IInv, NEW t \in Threads, ThreadStep(t) \/ StartedLock(t) \/ Exit(t)
  PROVE  IInv'
<1> USE ThreadsAssumption DEF IInv
<1>1. CASE Func(t)
  BY <1>1 DEF Func, Goto, TypeOK, Progress, Handshake, Outcome
<1>2. CASE FuncThrows(t)
  BY <1>2 DEF FuncThrows, Goto, TypeOK, Progress, Handshake, Outcome
<1>3. CASE CopyImpl(t)
  BY <1>3 DEF CopyImpl, Goto, TypeOK, Progress, Handshake, Outcome
<1>4. CASE StartedLock(t)
  BY <1>4 DEF StartedLock, ScopedLock, Goto, TypeOK, Progress, Handshake, Outcome
<1>5. CASE StartedSet(t)
  BY <1>5 DEF StartedSet, Goto, TypeOK, Progress, Handshake, Outcome
<1>6. CASE StartedBroadcast(t)
  BY <1>6 DEF StartedBroadcast, CondBroadcast, Goto, TypeOK, Progress, Handshake, Outcome
<1>7. CASE StartedUnlock(t)
  BY <1>7 DEF StartedUnlock, ScopedUnlock, Goto, TypeOK, Progress, Handshake, Outcome
<1>8. CASE Trampoline(t)
  BY <1>8 DEF Trampoline, TypeOK, Progress, Handshake, Outcome
<1>9. CASE Exit(t)
  BY <1>9 DEF Exit, Goto, TypeOK, Progress, Handshake, Outcome
<1>q. QED
  BY <1>1, <1>2, <1>3, <1>4, <1>5, <1>6, <1>7, <1>8, <1>9 DEF ThreadStep

LEMMA StepIInv == IInv /\ [Next]_vars => IInv'
<1> SUFFICES ASSUME IInv, [Next]_vars PROVE IInv'
  OBVIOUS
<1>1. CASE MainStep \/ WaitLock \/ SpuriousWakeup
  BY <1>1, MainInductive
<1>2. CASE \E t \in Threads : ThreadStep(t) \/ StartedLock(t) \/ Exit(t)
  BY <1>2, ThreadInductive
<1>3. CASE UNCHANGED vars
  BY <1>3 DEF vars, IInv, TypeOK, Progress, Handshake, Outcome
<1>q. QED BY <1>1, <1>2, <1>3 DEF Next, Running, Ended

\* add_thread and the threads it starts keep IInv, for any number of threads.
THEOREM Inductive == Spec => []IInv
  BY InitIInv, StepIInv, PTL DEF Spec

\* The variables of the start-up stay within their types.
THEOREM TypeCorrect == Spec => []TypeOK
<1>1. IInv => TypeOK
  BY DEF IInv
<1>q. QED BY <1>1, Inductive, PTL

\* No thread and no iteration of wait_init uses an init_pack that main has
\* destroyed.
THEOREM PackSafe == Spec => []PackAlive
<1>1. IInv => PackAlive
  BY ThreadsAssumption DEF IInv, TypeOK, Progress, PackAlive
<1>q. QED BY <1>1, Inductive, PTL

\* add_thread returns only after every init function has returned, or with the
\* process about to end.
THEOREM InitFirst == Spec => []InitBeforeStart
<1>1. IInv => InitBeforeStart
  BY DEF IInv, Progress, Outcome, InitBeforeStart
<1>q. QED BY <1>1, Inductive, PTL

-----------------------------------------------------------------------------
(* The composition implements ThreadInit.                                  *)

\* Every step of the service is a step of add_thread or leaves it alone.
LEMMA StepRefines == [StartNext]_allVars => [Next]_vars
<1> SUFFICES ASSUME [StartNext]_allVars PROVE [Next]_vars
  OBVIOUS
<1>1. CASE MainProceeds
  <2>1. CASE Prepare
    BY <2>1 DEF Prepare
  <2>2. CASE CreateThread \/ CreateThreadFails \/ WaitStep \/ JoinThread
    BY <1>1, <2>2 DEF MainProceeds, Lives, CreateThread, CreateThreadFails, WaitStep,
                      JoinThread, Next, Running, MainStep
  <2>q. QED BY <1>1, <2>1, <2>2 DEF MainProceeds
<1>2. CASE MainLocks
  BY <1>2 DEF MainLocks, Lives, Next, Running
<1>3. CASE Environment
  BY <1>3 DEF Environment, Lives, Kill, Next, Running
<1>4. CASE Over \/ UNCHANGED allVars
  BY <1>4 DEF Over, allVars
<1>5. ASSUME NEW t \in Threads, ThreadProceeds(t) PROVE [Next]_vars
  <2>1. CASE ThreadStep(t)
    BY <1>5, <2>1 DEF ThreadProceeds, Lives, Next, Running
  <2>2. CASE LoopStep(t)
    BY <1>5, <2>2 DEF ThreadProceeds, LoopStep, Lives, Next, Running
  <2>q. QED BY <1>5, <2>1, <2>2 DEF ThreadProceeds
<1>6. ASSUME NEW t \in Threads, ThreadLocks(t) PROVE [Next]_vars
  BY <1>6 DEF ThreadLocks, Lives, Next, Running
<1>q. QED BY <1>1, <1>2, <1>3, <1>4, <1>5, <1>6 DEF StartNext

\* The start of the service, with its signals, implements add_thread.
THEOREM ImplementsThreadInit == StartSpec => Spec
<1>1. StartInit => Init
  BY DEF StartInit
<1>q. QED BY <1>1, StepRefines, PTL DEF StartSpec, Spec

\* No init_pack is used after main has destroyed it, whatever signals arrive
\* and whenever they end the service.
THEOREM ServicePackSafe == StartSpec => []PackAlive
  BY ImplementsThreadInit, PackSafe, PTL

\* Every worker of the service is initialised when start returns, or the process
\* is about to end.
THEOREM ServiceInitFirst == StartSpec => []InitBeforeStart
  BY ImplementsThreadInit, InitFirst, PTL

-----------------------------------------------------------------------------
(* No signal of the service kills the process.                             *)

Early == {"create", "block", "add"}

Places == {"none", "loop", "poll", "read", "end", "reactivate", "exit"}

Stages == Early \union {"fork", "pidfile", "start", "join", "exit"}

\* The signals before the one that main sets up are blocked, and all of them
\* once service::init has returned.
MaskOK ==
  /\ stage \in Stages
  /\ stage \in Early => k \in 1..Len(Signals)
  /\ stage \in {"create", "block"} => \A j \in 1..(k - 1) : Signals[j] \in blocked
  /\ stage = "add" => \A j \in 1..k : Signals[j] \in blocked
  /\ stage \notin Early => S!Signos \subseteq blocked

\* A thread that exists blocks them too.
ThreadsMasked ==
  /\ at \in [Threads -> Places] /\ masks \in [Threads -> SUBSET S!Signos]
  /\ stage \in Early \union {"fork", "pidfile"} => \A t \in Threads : at[t] = "none"
  /\ \A t \in Threads : at[t] # "none" => S!Signos \subseteq masks[t]

\* The inductive invariant.
KillInv == MaskOK /\ ThreadsMasked /\ blocked \subseteq S!Signos /\ NeverKilled

USE DEF Threads, Early, Stages, Places, S!Signos, S!Workers
USE SignalsAssumption

LEMMA SignalsType == Len(Signals) \in Nat \ {0} /\ DOMAIN Signals = 1..Len(Signals)
  OBVIOUS

LEMMA KillInit == StartInit => KillInv
  BY SignalsType DEF StartInit, S!Init, KillInv, MaskOK, ThreadsMasked, NeverKilled, S!NeverKilled

\* Setting up the signals and forking.
LEMMA PrepareKill == KillInv /\ Lives /\ Prepare => KillInv'
<1> SUFFICES ASSUME KillInv, Lives, Prepare PROVE KillInv'
  OBVIOUS
<1> USE SignalsType
    DEF KillInv, MaskOK, ThreadsMasked, NeverKilled, S!NeverKilled, Lives
<1>1. CASE S!CreateSignal
  BY <1>1 DEF S!CreateSignal, S!workerVars
<1>2. CASE S!BlockSignal
  BY <1>2 DEF S!BlockSignal, S!workerVars
<1>3. CASE S!AddSignal
  BY <1>3 DEF S!AddSignal, S!workerVars
<1>4. CASE S!StartFails
  BY <1>4 DEF S!StartFails, S!workerVars, S!mainVars
<1>5. CASE S!Fork
  BY <1>5 DEF S!Fork, S!workerVars
<1>6. CASE S!PidFile
  BY <1>6 DEF S!PidFile, S!workerVars
<1>q. QED BY <1>1, <1>2, <1>3, <1>4, <1>5, <1>6 DEF Prepare, S!Prepare

LEMMA StartKill == KillInv /\ Lives /\ (CreateThread \/ JoinThread) => KillInv'
<1> SUFFICES ASSUME KillInv, Lives, CreateThread \/ JoinThread PROVE KillInv'
  OBVIOUS
<1> USE DEF KillInv, MaskOK, ThreadsMasked, NeverKilled, S!NeverKilled, Lives
<1>1. CASE CreateThread
  <2> USE <1>1 DEF CreateThread, S!StartThread
  <2>1. MaskOK' /\ (blocked \subseteq S!Signos)' /\ NeverKilled'
    OBVIOUS
  <2>2. at' \in [Threads -> Places] /\ masks' \in [Threads -> SUBSET S!Signos]
    OBVIOUS
  <2>3. \A t \in Threads : at'[t] # "none" => S!Signos \subseteq masks'[t]
    <3> TAKE t \in Threads
    <3>1. CASE t = k
      BY <3>1
    <3>2. CASE t # k
      BY <3>2
    <3>q. QED BY <3>1, <3>2
  <2>q. QED BY <2>1, <2>2, <2>3
<1>2. CASE JoinThread
  BY <1>2 DEF JoinThread, S!Join, S!workerVars
<1>q. QED BY <1>1, <1>2

\* The loop of a worker changes its place and nothing about masks.
LEMMA LoopKill ==
  ASSUME NEW t \in Threads, KillInv, Lives, LoopStep(t) PROVE KillInv'
<1>1. UNCHANGED <<stage, k, blocked, masks, dead>>
  BY DEF LoopStep, S!WorkerStep, S!Loop, S!PollEnds, S!Report, S!GetSignal, S!End,
         S!Reactivate, S!mainVars
<1>2. at[t] # "none" /\ \E l \in Places : at' = [at EXCEPT ![t] = l]
  <2>1. CASE S!Loop(t)
    BY <2>1 DEF S!Loop, S!Goto
  <2>2. CASE S!PollEnds(t) \/ S!Report(t)
    BY <2>2 DEF S!PollEnds, S!Report, S!Goto
  <2>3. CASE S!GetSignal(t) \/ S!End(t) \/ S!Reactivate(t)
    BY <2>3 DEF S!GetSignal, S!End, S!Reactivate, S!Goto
  <2>q. QED BY <2>1, <2>2, <2>3 DEF LoopStep, S!WorkerStep
<1>q. QED
  BY <1>1, <1>2 DEF KillInv, MaskOK, ThreadsMasked, NeverKilled, S!NeverKilled

\* A signal is pending, or kills a process that is still setting signals up.
LEMMA SignalKill ==
  ASSUME NEW s \in S!Signos, KillInv, Lives, Kill(s) PROVE KillInv'
<1>1. UNCHANGED <<stage, k, blocked, masks, at>>
  BY DEF Kill, S!Kill, S!mainVars, S!workerVars
<1>2. NeverKilled'
  <2>1. CASE stage \in Early
    BY <1>1, <2>1 DEF NeverKilled, S!NeverKilled
  <2>2. CASE stage \notin Early
    <3>1. s \in blocked /\ \A w \in Threads : at[w] # "none" => s \in masks[w]
      BY <2>2 DEF KillInv, MaskOK, ThreadsMasked
    <3>2. dead' = dead
      BY <3>1 DEF Kill, S!Kill
    <3>q. QED BY <3>2 DEF Lives, NeverKilled, S!NeverKilled
  <2>q. QED BY <2>1, <2>2
<1>q. QED BY <1>1, <1>2 DEF KillInv, MaskOK, ThreadsMasked

LEMMA KillStep == KillInv /\ [StartNext]_allVars => KillInv'
<1> SUFFICES ASSUME KillInv, [StartNext]_allVars PROVE KillInv'
  OBVIOUS
<1>1. CASE UNCHANGED sigVars
  BY <1>1 DEF sigVars, KillInv, MaskOK, ThreadsMasked, NeverKilled, S!NeverKilled
<1>2. CASE MainProceeds
  BY <1>1, <1>2, PrepareKill, StartKill DEF MainProceeds, CreateThreadFails, WaitStep
<1>3. CASE MainLocks \/ Over \/ UNCHANGED allVars
  BY <1>1, <1>3 DEF MainLocks, Over, allVars
<1>4. CASE Environment
  BY <1>1, <1>4, SignalKill DEF Environment
<1>5. ASSUME NEW t \in Threads, ThreadProceeds(t) \/ ThreadLocks(t) PROVE KillInv'
  BY <1>1, <1>5, LoopKill DEF ThreadProceeds, ThreadLocks
<1>q. QED BY <1>2, <1>3, <1>4, <1>5 DEF StartNext

\* Once service::init has returned no signal of the service kills the process,
\* with any number of workers and at whatever point of their start it arrives.
THEOREM SignalsSafe == StartSpec => []NeverKilled
<1>1. KillInv => NeverKilled
  BY DEF KillInv
<1>q. QED BY <1>1, KillInit, KillStep, PTL DEF StartSpec
=============================================================================
