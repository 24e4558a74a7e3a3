----------------------------- MODULE ThreadInit -----------------------------
(***************************************************************************)
(* coreimpl::add_thread with an init function (wavy_base.cc), as           *)
(* service::start uses it: main makes an init_pack for each thread, starts *)
(* the thread, and then waits for each pack in turn to say that its thread *)
(* has started, and destroys it.  A thread runs the init function, copies  *)
(* what it still needs out of the pack, and says so.  Last, main joins.    *)
(*                                                                         *)
(* Mutexes and condition variables are those of mp/pthread_impl.h, with    *)
(* waits that may end by themselves.  An exception that leaves a thread,   *)
(* or main, ends the process.                                              *)
(***************************************************************************)
EXTENDS Naturals

CONSTANT N   \* number of threads, 8 in memxy

ASSUME ThreadsAssumption == N \in Nat \ {0}

Threads == 1..N

VARIABLES
  main,     \* where main is
  i,        \* the variable of its loops
  pc,       \* where each thread is
  pack,     \* m_init of each thread
  started,  \* the flag in it
  lock,     \* start_mutex: who holds it
  inited,   \* the threads whose init function returned
  aborted   \* std::terminate was called

vars == <<main, i, pc, pack, started, lock, inited, aborted>>

Init ==
  /\ main = "create" /\ i = 1
  /\ pc = [t \in Threads |-> "none"]
  /\ pack = [t \in Threads |-> "none"]
  /\ started = [t \in Threads |-> FALSE]
  /\ lock = [t \in Threads |-> "free"]
  /\ inited = {} /\ aborted = FALSE

Goto(t, l) == pc' = [pc EXCEPT ![t] = l]

\* A pthread_scoped_lock on start_mutex of thread t, held by x, and its end.
ScopedLock(t, x) == lock[t] = "free" /\ lock' = [lock EXCEPT ![t] = x]

ScopedUnlock(t) == lock' = [lock EXCEPT ![t] = "free"]

\* start_cond of thread t: a broadcast sends main, if it waits there, to take
\* the mutex again.
CondBroadcast(t) == main' = IF main = "asleep" /\ i = t THEN "lock" ELSE main

-----------------------------------------------------------------------------
(* main                                                                    *)

Create ==
  /\ main = "create" /\ i <= N
  /\ pack' = [pack EXCEPT ![i] = "live"]
  /\ Goto(i, "func")
  /\ i' = i + 1
  /\ UNCHANGED <<main, started, lock, inited, aborted>>

\* new or pthread_create fails: nobody catches the exception.
CreateFails ==
  /\ main = "create" /\ i <= N
  /\ aborted' = TRUE
  /\ UNCHANGED <<main, i, pc, pack, started, lock, inited>>

Created ==
  /\ main = "create" /\ i = N + 1
  /\ main' = "lock" /\ i' = 1
  /\ UNCHANGED <<pc, pack, started, lock, inited, aborted>>

WaitLock ==
  /\ main = "lock"
  /\ ScopedLock(i, "main")
  /\ main' = "check"
  /\ UNCHANGED <<i, pc, pack, started, inited, aborted>>

\* The condition of the loop: leave it and unlock, or wait.
WaitCheck ==
  /\ main = "check"
  /\ ScopedUnlock(i)
  /\ main' = IF started[i] THEN "reset" ELSE "asleep"
  /\ UNCHANGED <<i, pc, pack, started, inited, aborted>>

SpuriousWakeup_Once ==
  /\ main = "asleep"
  /\ main' = "reset"
  /\ UNCHANGED <<i, pc, pack, started, lock, inited, aborted>>

\* The wait ends without a broadcast.
SpuriousWakeup ==
  /\ main = "asleep"
  /\ main' = "lock"
  /\ UNCHANGED <<i, pc, pack, started, lock, inited, aborted>>

\* m_init.reset(); behind the last one add_thread returns.
Reset ==
  /\ main = "reset"
  /\ pack' = [pack EXCEPT ![i] = "gone"]
  /\ IF i = N THEN main' = "join" /\ i' = 1 ELSE main' = "lock" /\ i' = i + 1
  /\ UNCHANGED <<pc, started, lock, inited, aborted>>

\* coreimpl::join
Join ==
  /\ main = "join" /\ pc[i] = "exit"
  /\ IF i = N THEN main' = "done" /\ UNCHANGED i ELSE i' = i + 1 /\ UNCHANGED main
  /\ UNCHANGED <<pc, pack, started, lock, inited, aborted>>

-----------------------------------------------------------------------------
(* A thread                                                                *)

Func(t) ==
  /\ pc[t] = "func"
  /\ inited' = inited \union {t}
  /\ Goto(t, "impl")
  /\ UNCHANGED <<main, i, pack, started, lock, aborted>>

\* The init function throws: started(), and the exception goes on.
FuncThrows(t) ==
  /\ pc[t] = "func"
  /\ Goto(t, "lock")
  /\ UNCHANGED <<main, i, pack, started, lock, inited, aborted>>

\* impl is copied out of the pack.
CopyImpl(t) ==
  /\ pc[t] = "impl"
  /\ Goto(t, "lock")
  /\ UNCHANGED <<main, i, pack, started, lock, inited, aborted>>

StartedLock(t) ==
  /\ pc[t] = "lock"
  /\ ScopedLock(t, "thread")
  /\ Goto(t, "set")
  /\ UNCHANGED <<main, i, pack, started, inited, aborted>>

StartedSet(t) ==
  /\ pc[t] = "set"
  /\ started' = [started EXCEPT ![t] = TRUE]
  /\ Goto(t, "broadcast")
  /\ UNCHANGED <<main, i, pack, lock, inited, aborted>>

StartedBroadcast_NotAsleep(t) ==
  /\ pc[t] = "broadcast"
  /\ Goto(t, "unlock")
  /\ UNCHANGED <<main, i, pack, started, lock, inited, aborted>>

StartedBroadcast(t) ==
  /\ pc[t] = "broadcast"
  /\ CondBroadcast(t)
  /\ Goto(t, "unlock")
  /\ UNCHANGED <<i, pack, started, lock, inited, aborted>>

StartedUnlock_Swallows(t) ==
  /\ pc[t] = "unlock"
  /\ ScopedUnlock(t)
  /\ Goto(t, "run")
  /\ UNCHANGED <<main, i, pack, started, inited, aborted>>

\* The end of started(): into the loop of the core, or on with the exception.
StartedUnlock(t) ==
  /\ pc[t] = "unlock"
  /\ ScopedUnlock(t)
  /\ Goto(t, IF t \in inited THEN "run" ELSE "throw")
  /\ UNCHANGED <<main, i, pack, started, inited, aborted>>

\* trampoline rethrows what leaves the thread.
Trampoline(t) ==
  /\ pc[t] = "throw"
  /\ aborted' = TRUE
  /\ UNCHANGED <<main, i, pc, pack, started, lock, inited>>

\* The loop returns after end().
Exit(t) ==
  /\ pc[t] = "run"
  /\ Goto(t, "exit")
  /\ UNCHANGED <<main, i, pack, started, lock, inited, aborted>>

-----------------------------------------------------------------------------

MainStep == Create \/ CreateFails \/ Created \/ WaitCheck \/ Reset \/ Join

ThreadStep(t) ==
  \/ Func(t) \/ FuncThrows(t) \/ CopyImpl(t) \/ StartedSet(t)
  \/ StartedBroadcast(t) \/ StartedUnlock(t) \/ Trampoline(t)

Running ==
  /\ ~aborted
  /\ \/ MainStep \/ WaitLock \/ SpuriousWakeup
     \/ \E t \in Threads : ThreadStep(t) \/ StartedLock(t) \/ Exit(t)

Ended == (main = "done" \/ aborted) /\ UNCHANGED vars

Next == Running \/ Ended

Spec == Init /\ [][Next]_vars

-----------------------------------------------------------------------------
(* Properties                                                              *)

\* The places of main and of a thread at which they use the pack.
MainUses   == {"lock", "check", "asleep", "reset"}
ThreadUses == {"func", "impl", "lock", "set", "broadcast", "unlock"}

\* The variables stay within their types.
TypeOK ==
  /\ main \in {"create", "join", "done"} \union MainUses
  /\ i \in 1..(N + 1)
  /\ pc \in [Threads -> {"none", "run", "throw", "exit"} \union ThreadUses]
  /\ pack \in [Threads -> {"none", "live", "gone"}]
  /\ started \in [Threads -> BOOLEAN]
  /\ lock \in [Threads -> {"free", "main", "thread"}]
  /\ inited \subseteq Threads /\ aborted \in BOOLEAN

\* Nobody uses a pack that is destroyed: main destroys it only after its thread
\* has left started() (wavy_base.cc:145-158).
PackAlive ==
  /\ \A t \in Threads : pc[t] \in ThreadUses => pack[t] = "live"
  /\ main \in MainUses => pack[i] = "live"

\* When add_thread has returned, every init function has returned or its
\* exception is about to end the process (main.cc:155-158 relies on it).
InitBeforeStart ==
  main \in {"join", "done"} =>
    \A t \in Threads : t \in inited \/ pc[t] = "throw"
=============================================================================
