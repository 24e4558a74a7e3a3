---------------------------- MODULE ProxyClient ----------------------------
(***************************************************************************)
(* proxy_client.cc: every worker thread owns one libmemcached client,      *)
(* behind a mutex of its own (mp::exclusive), and all of them are in one   *)
(* list, behind another.  A request uses the client of the worker that     *)
(* runs it; set_servers, called by main for the initial list and by the    *)
(* worker that runs the control gate, walks the list and replaces every    *)
(* client by a new one.                                                    *)
(*                                                                         *)
(* The calls of set_servers are numbered in the order in which they get    *)
(* the list, from 1.  The client a call makes for a worker is named by     *)
(* that number, the one of thread_init_func by 0: there is one client of   *)
(* each number for each worker.                                            *)
(***************************************************************************)
EXTENDS Naturals, Sequences

CONSTANTS
  Workers,   \* the threads of service::start
  Main,      \* the main thread
  NoOne,     \* not a thread
  MaxSets    \* bound of the model: calls of set_servers

ASSUME ThreadAssumption == Main \notin Workers /\ NoOne \notin Workers /\ NoOne # Main
ASSUME MaxSetsAssumption == MaxSets \in Nat

Threads == Workers \union {Main}

VARIABLES
  pc,          \* where each thread is
  list,        \* s_thread_list, the registered workers
  list_lock,   \* who holds its mutex
  lock,        \* who holds the mutex of the client of each worker
  client,      \* tls of each worker: the client its entry points to
  freed,       \* the clients of each worker that were freed
  it,          \* the position of a set_servers in the list
  mc,          \* the number of a set_servers
  calls,       \* calls of set_servers so far
  gen,         \* number of the last one that got the list
  reached,     \* the last one that returned normally, and the length of the
               \* list it walked
  served       \* main has set the initial servers

vars == <<pc, list, list_lock, lock, client, freed, it, mc, calls, gen, reached, served>>

Init ==
  /\ pc = [t \in Threads |-> IF t = Main THEN "starting" ELSE "init"]
  /\ list = <<>>
  /\ list_lock = NoOne
  /\ lock = [w \in Workers |-> NoOne]
  /\ client = [w \in Workers |-> 0]
  /\ freed = [w \in Workers |-> {}]
  /\ it = [t \in Threads |-> 1]
  /\ mc = [t \in Threads |-> 0]
  /\ calls = 0 /\ gen = 0
  /\ reached = [gen |-> 0, len |-> 0]
  /\ served = FALSE

Goto(t, l) == pc' = [pc EXCEPT ![t] = l]

-----------------------------------------------------------------------------
(* Start-up.                                                               *)

\* Mutant: enters itself at the front.
Register_Front(w) ==
  /\ pc[w] = "init" /\ list_lock = NoOne
  /\ list' = <<w>> \o list
  /\ Goto(w, "idle")
  /\ UNCHANGED <<list_lock, lock, client, freed, it, mc, calls, gen, reached, served>>

\* thread_init_func has made the client and gets the list to enter itself;
\* then the worker runs the event loop.  A null pointer from memcached_create,
\* which line 38 does not check, is not modelled.
Register(w) ==
  /\ pc[w] = "init" /\ list_lock = NoOne
  /\ list' = Append(list, w)
  /\ Goto(w, "idle")
  /\ UNCHANGED <<list_lock, lock, client, freed, it, mc, calls, gen, reached, served>>

\* Mutant: main does not wait for the workers.
Started_TooEarly ==
  /\ pc[Main] = "starting"
  /\ Goto(Main, "idle")
  /\ UNCHANGED <<list, list_lock, lock, client, freed, it, mc, calls, gen, reached, served>>

\* add_thread returns to main when every thread_init_func has returned.
Started ==
  /\ pc[Main] = "starting" /\ \A w \in Workers : pc[w] # "init"
  /\ Goto(Main, "idle")
  /\ UNCHANGED <<list, list_lock, lock, client, freed, it, mc, calls, gen, reached, served>>

\* Without the option main goes on to service::join.
NoInitialServers ==
  /\ pc[Main] = "idle"
  /\ Goto(Main, "join")
  /\ UNCHANGED <<list, list_lock, lock, client, freed, it, mc, calls, gen, reached, served>>

-----------------------------------------------------------------------------
(* set_servers.                                                            *)

\* Where an exception takes a thread: the loop of a worker catches it and
\* closes the control connection, main does not and the process ends.
Thrown(t) == IF t = Main THEN "aborted" ELSE "idle"

\* The list of servers is parsed, or is not valid.
SetServers(t) ==
  /\ pc[t] = "idle" /\ calls < MaxSets
  /\ calls' = calls + 1
  /\ \/ Goto(t, "parsed")
     \/ Goto(t, Thrown(t))
  /\ UNCHANGED <<list, list_lock, lock, client, freed, it, mc, gen, reached, served>>

\* Mutant: walks the list without its mutex.
SetLock_Unlocked(t) ==
  /\ pc[t] = "parsed"
  /\ gen' = gen + 1
  /\ mc' = [mc EXCEPT ![t] = gen + 1]
  /\ it' = [it EXCEPT ![t] = 1]
  /\ Goto(t, "walk")
  /\ UNCHANGED <<list, list_lock, lock, client, freed, calls, reached, served>>

SetLock(t) ==
  /\ pc[t] = "parsed" /\ list_lock = NoOne
  /\ list_lock' = t
  /\ gen' = gen + 1
  /\ mc' = [mc EXCEPT ![t] = gen + 1]
  /\ it' = [it EXCEPT ![t] = 1]
  /\ Goto(t, "walk")
  /\ UNCHANGED <<list, lock, client, freed, calls, reached, served>>

\* memcached_create and memcached_server_push for the next worker.
SetCreate(t) ==
  /\ pc[t] = "walk" /\ it[t] <= Len(list)
  /\ Goto(t, "created")
  /\ UNCHANGED <<list, list_lock, lock, client, freed, it, mc, calls, gen, reached, served>>

\* One of them fails: the workers before this one have their new client, the
\* others keep the old one.
SetThrow(t) ==
  /\ pc[t] = "walk" /\ it[t] <= Len(list)
  /\ list_lock' = NoOne
  /\ Goto(t, Thrown(t))
  /\ UNCHANGED <<list, lock, client, freed, it, mc, calls, gen, reached, served>>

\* Mutant: does not wait for the request that uses the client.
SetFree_Unlocked(t) ==
  LET w == list[it[t]]
  IN  /\ pc[t] = "created"
      /\ lock' = [lock EXCEPT ![w] = t]
      /\ freed' = [freed EXCEPT ![w] = @ \union {client[w]}]
      /\ Goto(t, "freed")
      /\ UNCHANGED <<list, list_lock, client, it, mc, calls, gen, reached, served>>

\* ref r(**it), memcached_free(*r) ...
SetFree(t) ==
  LET w == list[it[t]]
  IN  /\ pc[t] = "created" /\ lock[w] = NoOne
      /\ lock' = [lock EXCEPT ![w] = t]
      /\ freed' = [freed EXCEPT ![w] = @ \union {client[w]}]
      /\ Goto(t, "freed")
      /\ UNCHANGED <<list, list_lock, client, it, mc, calls, gen, reached, served>>

\* Mutant: the loop steps over a worker.
SetAssign_SkipsOne(t) ==
  LET w == list[it[t]]
  IN  /\ pc[t] = "freed"
      /\ client' = [client EXCEPT ![w] = mc[t]]
      /\ lock' = [lock EXCEPT ![w] = NoOne]
      /\ it' = [it EXCEPT ![t] = @ + 2]
      /\ Goto(t, "walk")
      /\ UNCHANGED <<list, list_lock, freed, mc, calls, gen, reached, served>>

\* Mutant: stays at the same worker.
SetAssign_NoAdvance(t) ==
  LET w == list[it[t]]
  IN  /\ pc[t] = "freed"
      /\ client' = [client EXCEPT ![w] = mc[t]]
      /\ lock' = [lock EXCEPT ![w] = NoOne]
      /\ Goto(t, "walk")
      /\ UNCHANGED <<list, list_lock, freed, it, mc, calls, gen, reached, served>>

\* ... *r = mc, ++it
SetAssign(t) ==
  LET w == list[it[t]]
  IN  /\ pc[t] = "freed"
      /\ client' = [client EXCEPT ![w] = mc[t]]
      /\ lock' = [lock EXCEPT ![w] = NoOne]
      /\ it' = [it EXCEPT ![t] = @ + 1]
      /\ Goto(t, "walk")
      /\ UNCHANGED <<list, list_lock, freed, mc, calls, gen, reached, served>>

SetDone(t) ==
  /\ pc[t] = "walk" /\ it[t] > Len(list)
  /\ list_lock' = NoOne
  /\ reached' = [gen |-> mc[t], len |-> Len(list)]
  /\ served' = (served \/ t = Main)
  /\ Goto(t, IF t = Main THEN "join" ELSE "idle")
  /\ UNCHANGED <<list, lock, client, freed, it, mc, calls, gen>>

-----------------------------------------------------------------------------
(* Requests: request_get, request_set and request_delete hold the mutex of *)
(* the client of their worker during the calls of libmemcached, and no     *)
(* longer.                                                                 *)

Request(w) ==
  /\ pc[w] = "idle" /\ lock[w] = NoOne
  /\ lock' = [lock EXCEPT ![w] = w]
  /\ Goto(w, "using")
  /\ UNCHANGED <<list, list_lock, client, freed, it, mc, calls, gen, reached, served>>

Answered(w) ==
  /\ pc[w] = "using"
  /\ lock' = [lock EXCEPT ![w] = NoOne]
  /\ Goto(w, "idle")
  /\ UNCHANGED <<list, list_lock, client, freed, it, mc, calls, gen, reached, served>>

-----------------------------------------------------------------------------
Alive == pc[Main] # "aborted"

SetStep(t) ==
  \/ SetLock(t) \/ SetCreate(t) \/ SetThrow(t)
  \/ SetFree(t) \/ SetAssign(t) \/ SetDone(t)

Step ==
  \/ Started \/ NoInitialServers
  \/ \E w \in Workers : Register(w) \/ Request(w) \/ Answered(w)
  \/ \E t \in Threads : SetServers(t) \/ SetStep(t)

\* The process has been aborted.
Aborted == ~Alive /\ UNCHANGED vars

Next == (Alive /\ Step) \/ Aborted

Spec == Init /\ [][Next]_vars

\* A thread goes on; one that waits for a mutex gets it in the end when the
\* mutex is free again and again.
Fairness ==
  /\ \A w \in Workers : SF_vars(Alive /\ Register(w)) /\ WF_vars(Alive /\ Answered(w))
  /\ WF_vars(Alive /\ (Started \/ NoInitialServers))
  /\ \A t \in Threads :
       /\ SF_vars(Alive /\ SetLock(t)) /\ SF_vars(Alive /\ SetFree(t))
       /\ WF_vars(Alive /\ SetStep(t))

FairSpec == Spec /\ Fairness

-----------------------------------------------------------------------------
(* Properties.                                                             *)

Walking == {"walk", "created", "freed"}

\* The variables keep their types, and the iterator of set_servers points into
\* the list where it is dereferenced.
TypeOK ==
  /\ pc \in [Threads -> {"init", "starting", "idle", "join", "using", "parsed", "aborted"}
                          \union Walking]
  /\ list \in Seq(Workers)
  /\ list_lock \in Threads \union {NoOne}
  /\ lock \in [Workers -> Threads \union {NoOne}]
  /\ client \in [Workers -> Nat]
  /\ freed \in [Workers -> SUBSET Nat]
  /\ it \in [Threads -> Nat \ {0}]
  /\ mc \in [Threads -> Nat]
  /\ calls \in 0..MaxSets
  /\ gen \in Nat
  /\ reached \in [gen : Nat, len : Nat]
  /\ served \in BOOLEAN
  /\ \A t \in Threads : pc[t] \in {"created", "freed"} => it[t] <= Len(list)

\* A request works on the client of its worker as long as it holds it: nobody
\* frees or replaces that client meanwhile, and an entry points to a freed
\* client only between memcached_free and the assignment of the thread that
\* replaces it.
NoUseAfterFree ==
  \A w \in Workers :
    /\ pc[w] = "using" => lock[w] = w
    /\ client[w] \in freed[w] =>
         \E t \in Threads :
           pc[t] = "freed" /\ lock[w] = t /\ list[it[t]] = w /\ pc[w] # "using"

\* The calls of set_servers take effect one after another: along the list no
\* worker has a newer client than one before it, even when a call failed half
\* way and another went on over its traces.
NewestFirst ==
  \A i, j \in 1..Len(list) : i < j => client[list[i]] >= client[list[j]]

\* A call that returned normally has reached every worker that was registered
\* when it ran: they all have its servers or newer ones, and exactly its
\* servers when no other call has got the list since.
SetReachesAll ==
  \A i \in 1..reached.len :
    /\ i <= Len(list) /\ client[list[i]] >= reached.gen
    /\ gen = reached.gen => client[list[i]] = gen

\* main sets the initial servers after all workers are registered: once it
\* has, no worker is left without servers.
InitialServersEverywhere == served => \A w \in Workers : client[w] > 0

\* A worker never goes back to an older list of servers.
NeverBackwards == [][\A w \in Workers : client'[w] >= client[w]]_vars

\* set_servers comes to an end, whatever the requests do meanwhile and
\* whichever call fails: no thread waits forever for a mutex.
SetCompletes ==
  \A t \in Threads : (pc[t] \in Walking \union {"parsed"}) ~> (pc[t] \in {"idle", "join"} \/ ~Alive)
=============================================================================
