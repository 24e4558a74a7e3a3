------------------------- MODULE ProxyClient_proofs -------------------------
(***************************************************************************)
(* Proofs of the safety properties of ProxyClient, for any number of       *)
(* workers and of calls of set_servers.                                    *)
(***************************************************************************)
EXTENDS ProxyClient, TLAPS

-----------------------------------------------------------------------------
(* The inductive invariant.                                                *)

\* Which threads can be where: main runs no request, and leaves its start
\* only when every worker is registered.
PlacesOK ==
  /\ pc[Main] \notin {"init", "using"}
  /\ \A w \in Workers : pc[w] \notin {"starting", "join", "aborted"}
  /\ pc[Main] # "starting" => \A w \in Workers : pc[w] # "init"

\* The list holds every worker that has registered, once.
ListOK ==
  /\ \A i, j \in 1..Len(list) : list[i] = list[j] => i = j
  /\ \A i \in 1..Len(list) : pc[list[i]] # "init"
  /\ \A w \in Workers : pc[w] # "init" => \E i \in 1..Len(list) : list[i] = w

\* The mutexes are held exactly by the threads whose place says so.
LocksOK ==
  /\ \A t \in Threads : list_lock = t <=> pc[t] \in Walking
  /\ \A w \in Workers, t \in Threads :
       lock[w] = t <=> \/ t = w /\ pc[t] = "using"
                       \/ pc[t] = "freed" /\ list[it[t]] = w

\* A walk of set_servers has the last number; the workers behind it have its
\* client, those before it an older one.
WalkOK ==
  /\ \A w \in Workers : client[w] <= gen
  /\ \A w \in Workers : pc[w] = "init" => client[w] = 0
  /\ \A t \in Threads :
       pc[t] \in Walking =>
         /\ mc[t] = gen /\ gen > 0 /\ it[t] <= Len(list) + 1
         /\ \A i \in 1..Len(list) : i < it[t] => client[list[i]] = gen
         /\ \A i \in 1..Len(list) : i >= it[t] => client[list[i]] < gen

\* Freed clients are older than the current one, except while it is replaced.
FreedOK ==
  \A w \in Workers : \A n \in freed[w] :
    /\ n <= client[w]
    /\ n = client[w] => \E t \in Threads : pc[t] = "freed" /\ list[it[t]] = w

\* What a call that has returned leaves behind.
ReachedOK ==
  /\ reached.gen <= gen /\ reached.len <= Len(list)
  /\ \A t \in Threads : pc[t] \in Walking => reached.gen < gen
  /\ \A i \in 1..reached.len : client[list[i]] >= reached.gen
  /\ gen = reached.gen => \A i \in 1..reached.len : client[list[i]] = gen

\* The inductive invariant: a type invariant, the facts above on places, list,
\* locks, walk, freed clients and finished calls, and the properties they carry.
IInv ==
  /\ TypeOK /\ PlacesOK /\ ListOK /\ LocksOK /\ WalkOK
  /\ FreedOK /\ ReachedOK /\ NewestFirst /\ InitialServersEverywhere

-----------------------------------------------------------------------------
(* What the actions do to the program counters.                            *)

\* Thread t, and no other, goes from one of the places F to one of T.
Moved(t, F, T) ==
  /\ t \in Threads /\ pc[t] \in F /\ pc'[t] \in T
  /\ \A u \in Threads : u # t => pc'[u] = pc[u]

\* Goto moves one thread.
LEMMA Moves ==
  ASSUME TypeOK, NEW t \in Threads, NEW l, Goto(t, l)
  PROVE  Moved(t, {pc[t]}, {l})
BY DEF TypeOK, Goto, Moved

\* Every action but the initial ones moves the thread that takes it as here.
LEMMA ActionMoves ==
  ASSUME TypeOK, NEW t \in Threads
  PROVE  /\ t \in Workers /\ Register(t) => Moved(t, {"init"}, {"idle"})
         /\ t \in Workers /\ Request(t) => Moved(t, {"idle"}, {"using"})
         /\ t \in Workers /\ Answered(t) => Moved(t, {"using"}, {"idle"})
         /\ SetServers(t) => Moved(t, {"idle"}, {"parsed", Thrown(t)})
         /\ SetLock(t) => Moved(t, {"parsed"}, {"walk"})
         /\ SetCreate(t) => Moved(t, {"walk"}, {"created"})
         /\ SetThrow(t) => Moved(t, {"walk"}, {Thrown(t)})
         /\ SetFree(t) => Moved(t, {"created"}, {"freed"})
         /\ SetAssign(t) => Moved(t, {"freed"}, {"walk"})
         /\ SetDone(t) => Moved(t, {"walk"}, {"join", "idle"})
<1> USE Moves DEF Moved
<1>1. /\ t \in Workers /\ Register(t) => Moved(t, {"init"}, {"idle"})
      /\ t \in Workers /\ Request(t) => Moved(t, {"idle"}, {"using"})
      /\ t \in Workers /\ Answered(t) => Moved(t, {"using"}, {"idle"})
  BY DEF Register, Request, Answered
<1>2. SetServers(t) => Moved(t, {"idle"}, {"parsed", Thrown(t)})
  BY DEF SetServers
<1>3. /\ SetLock(t) => Moved(t, {"parsed"}, {"walk"})
      /\ SetCreate(t) => Moved(t, {"walk"}, {"created"})
      /\ SetThrow(t) => Moved(t, {"walk"}, {Thrown(t)})
  BY DEF SetLock, SetCreate, SetThrow
<1>4. /\ SetFree(t) => Moved(t, {"created"}, {"freed"})
      /\ SetAssign(t) => Moved(t, {"freed"}, {"walk"})
  BY DEF SetFree, SetAssign
<1>5. SetDone(t) => Moved(t, {"walk"}, {"join", "idle"})
  BY DEF SetDone
<1> QED
  BY <1>1, <1>2, <1>3, <1>4, <1>5

\* The two steps of main before it sets the servers or waits.
LEMMA MainMoves ==
  ASSUME TypeOK
  PROVE  /\ Started => Moved(Main, {"starting"}, {"idle"})
         /\ NoInitialServers => Moved(Main, {"idle"}, {"join"})
<1>1. Main \in Threads
  BY DEF Threads
<1> QED
  BY <1>1, Moves DEF Started, NoInitialServers, Moved

\* Where set_servers dereferences its iterator there is a worker.
LEMMA AtIterator ==
  ASSUME TypeOK, NEW t \in Threads, pc[t] \in {"created", "freed"}
  PROVE  it[t] \in 1..Len(list) /\ list[it[t]] \in Workers
<1>1. it[t] \in Nat \ {0} /\ it[t] <= Len(list) /\ list \in Seq(Workers)
  BY DEF TypeOK
<1> QED
  BY <1>1

\* The members of the list are workers.
LEMMA InList ==
  ASSUME TypeOK
  PROVE  Len(list) \in Nat /\ \A i \in 1..Len(list) : list[i] \in Workers
<1>1. list \in Seq(Workers)
  BY DEF TypeOK
<1> QED
  BY <1>1

\* A worker that registers comes to the end of the list.
LEMMA Registered ==
  ASSUME TypeOK, NEW w \in Workers, Register(w)
  PROVE  /\ list' \in Seq(Workers) /\ Len(list') = Len(list) + 1
         /\ list'[Len(list) + 1] = w
         /\ \A i \in 1..Len(list) : list'[i] = list[i]
<1>1. list \in Seq(Workers) /\ list' = Append(list, w)
  BY DEF TypeOK, Register
<1> QED
  BY <1>1

-----------------------------------------------------------------------------
(* The initial state.                                                      *)

\* The invariant holds at the start of the program.
LEMMA InvInit == Init => IInv
<1> SUFFICES ASSUME Init PROVE IInv
  OBVIOUS
<1>1. /\ \A w \in Workers : w \in Threads /\ w # Main /\ pc[w] = "init"
      /\ Main \in Threads /\ pc[Main] = "starting"
      /\ \A t \in Threads : pc[t] \in {"init", "starting"}
  BY ThreadAssumption DEF Init, Threads
<1>2. list = <<>> /\ Len(list) = 0
  BY DEF Init
<1>3. TypeOK
  <2>1. pc \in [Threads -> {"init", "starting", "idle", "join", "using", "parsed", "aborted"}
                             \union Walking]
    BY DEF Init
  <2>2. list \in Seq(Workers)
    BY <1>2
  <2>3. lock \in [Workers -> Threads \union {NoOne}] /\ list_lock \in Threads \union {NoOne}
    BY DEF Init
  <2>4. /\ client \in [Workers -> Nat] /\ freed \in [Workers -> SUBSET Nat]
        /\ it \in [Threads -> Nat \ {0}] /\ mc \in [Threads -> Nat]
    BY DEF Init
  <2>5. calls \in 0..MaxSets /\ gen \in Nat
    BY MaxSetsAssumption DEF Init
  <2>6. reached \in [gen : Nat, len : Nat]
    BY DEF Init
  <2>7. served \in BOOLEAN
    BY DEF Init
  <2> QED
    BY <1>1, <2>1, <2>2, <2>3, <2>4, <2>5, <2>6, <2>7 DEF TypeOK
<1>4. PlacesOK
  BY <1>1 DEF PlacesOK
<1>5. ListOK
  BY <1>1, <1>2 DEF ListOK
<1>6. LocksOK
  <2>1. list_lock = NoOne /\ (\A w \in Workers : lock[w] = NoOne) /\ NoOne \notin Threads
    BY ThreadAssumption DEF Init, Threads
  <2> QED
    BY <1>1, <2>1 DEF LocksOK, Walking
<1>7. WalkOK
  BY <1>1 DEF WalkOK, Walking, Init
<1>8. FreedOK
  BY DEF FreedOK, Init
<1>9. ReachedOK
  BY <1>1, <1>2 DEF ReachedOK, Walking, Init
<1>10. NewestFirst /\ InitialServersEverywhere
  BY <1>2 DEF NewestFirst, InitialServersEverywhere, Init
<1> QED
  BY <1>3, <1>4, <1>5, <1>6, <1>7, <1>8, <1>9, <1>10 DEF IInv

-----------------------------------------------------------------------------
(* Types and places.                                                       *)

\* Every step keeps the types.
LEMMA TypeStep == TypeOK /\ [Next]_vars => TypeOK'
<1> SUFFICES ASSUME TypeOK, [Next]_vars PROVE TypeOK'
  OBVIOUS
<1> USE DEF TypeOK, Threads, Walking, Goto, Thrown
<1>1. ASSUME NEW w \in Workers, Register(w) PROVE TypeOK'
  <2>1. list' \in Seq(Workers) /\ Len(list') = Len(list) + 1 /\ Len(list) \in Nat
    BY <1>1, Registered, InList
  <2> QED
    BY <1>1, <2>1 DEF Register
<1>2. ASSUME Started PROVE TypeOK'
  BY <1>2 DEF Started
<1>3. ASSUME NoInitialServers PROVE TypeOK'
  BY <1>3 DEF NoInitialServers
<1>4. ASSUME NEW t \in Threads, SetServers(t) PROVE TypeOK'
  <2>1. calls' \in 0..MaxSets
    BY <1>4, MaxSetsAssumption DEF SetServers
  <2> QED
    BY <1>4, <2>1 DEF SetServers
<1>5. ASSUME NEW t \in Threads, SetLock(t) PROVE TypeOK'
  BY <1>5 DEF SetLock
<1>6. ASSUME NEW t \in Threads, SetCreate(t) PROVE TypeOK'
  BY <1>6 DEF SetCreate
<1>7. ASSUME NEW t \in Threads, SetThrow(t) PROVE TypeOK'
  BY <1>7 DEF SetThrow
<1>8. ASSUME NEW t \in Threads, SetFree(t) PROVE TypeOK'
  <2>1. list[it[t]] \in Workers /\ it[t] <= Len(list)
    BY <1>8, AtIterator DEF SetFree
  <2>2. lock' \in [Workers -> Threads \union {NoOne}]
    BY <1>8, <2>1 DEF SetFree
  <2>3. freed' \in [Workers -> SUBSET Nat]
    <3> DEFINE x == list[it[t]]
    <3>1. freed' = [freed EXCEPT ![x] = freed[x] \union {client[x]}]
      BY <1>8 DEF SetFree
    <3>2. x \in Workers /\ client[x] \in Nat /\ freed[x] \in SUBSET Nat
      BY <2>1
    <3> HIDE DEF x
    <3> QED
      BY <3>1, <3>2
  <2> QED
    BY <1>8, <2>1, <2>2, <2>3 DEF SetFree
<1>9. ASSUME NEW t \in Threads, SetAssign(t) PROVE TypeOK'
  <2>1. list[it[t]] \in Workers /\ Len(list) \in Nat
    BY <1>9, AtIterator, InList DEF SetAssign
  <2>2. lock' \in [Workers -> Threads \union {NoOne}] /\ client' \in [Workers -> Nat]
    BY <1>9, <2>1 DEF SetAssign
  <2>3. it' \in [Threads -> Nat \ {0}]
    <3>1. it' = [it EXCEPT ![t] = it[t] + 1]
      BY <1>9 DEF SetAssign
    <3>2. it \in [Threads -> Nat \ {0}] /\ it[t] + 1 \in Nat \ {0}
      OBVIOUS
    <3> HIDE DEF TypeOK, Goto
    <3> QED
      BY <3>1, <3>2
  <2>4. \A u \in Threads : pc'[u] \in {"created", "freed"} => it'[u] <= Len(list)
    BY <1>9 DEF SetAssign
  <2> QED
    BY <1>9, <2>1, <2>2, <2>3, <2>4 DEF SetAssign
<1>10. ASSUME NEW t \in Threads, SetDone(t) PROVE TypeOK'
  BY <1>10 DEF SetDone
<1>11. ASSUME NEW w \in Workers, Request(w) PROVE TypeOK'
  BY <1>11 DEF Request
<1>12. ASSUME NEW w \in Workers, Answered(w) PROVE TypeOK'
  BY <1>12 DEF Answered
<1>13. CASE UNCHANGED vars
  BY <1>13 DEF vars, TypeOK
<1> QED
  BY <1>1, <1>2, <1>3, <1>4, <1>5, <1>6, <1>7, <1>8, <1>9, <1>10, <1>11, <1>12, <1>13
     DEF Next, Step, SetStep, Aborted

\* Every step keeps the threads in their places.
LEMMA PlacesStep == TypeOK /\ PlacesOK /\ [Next]_vars => PlacesOK'
<1> SUFFICES ASSUME TypeOK, PlacesOK, [Next]_vars PROVE PlacesOK'
  OBVIOUS
<1> USE ThreadAssumption DEF TypeOK, PlacesOK, Threads, Walking, Goto, Thrown
<1>1. ASSUME NEW w \in Workers, Register(w) PROVE PlacesOK'
  BY <1>1 DEF Register
<1>2. ASSUME Started PROVE PlacesOK'
  BY <1>2 DEF Started
<1>3. ASSUME NoInitialServers PROVE PlacesOK'
  BY <1>3 DEF NoInitialServers
<1>4. ASSUME NEW t \in Threads, SetServers(t) PROVE PlacesOK'
  BY <1>4 DEF SetServers
<1>5. ASSUME NEW t \in Threads, SetLock(t) PROVE PlacesOK'
  BY <1>5 DEF SetLock
<1>6. ASSUME NEW t \in Threads, SetCreate(t) PROVE PlacesOK'
  BY <1>6 DEF SetCreate
<1>7. ASSUME NEW t \in Threads, SetThrow(t) PROVE PlacesOK'
  BY <1>7 DEF SetThrow
<1>8. ASSUME NEW t \in Threads, SetFree(t) PROVE PlacesOK'
  BY <1>8 DEF SetFree
<1>9. ASSUME NEW t \in Threads, SetAssign(t) PROVE PlacesOK'
  BY <1>9 DEF SetAssign
<1>10. ASSUME NEW t \in Threads, SetDone(t) PROVE PlacesOK'
  BY <1>10 DEF SetDone
<1>11. ASSUME NEW w \in Workers, Request(w) PROVE PlacesOK'
  BY <1>11 DEF Request
<1>12. ASSUME NEW w \in Workers, Answered(w) PROVE PlacesOK'
  BY <1>12 DEF Answered
<1>13. CASE UNCHANGED vars
  BY <1>13 DEF vars, PlacesOK
<1> QED
  BY <1>1, <1>2, <1>3, <1>4, <1>5, <1>6, <1>7, <1>8, <1>9, <1>10, <1>11, <1>12, <1>13
     DEF Next, Step, SetStep, Aborted

-----------------------------------------------------------------------------
(* The list and the mutexes.                                               *)

\* The list is fine as long as nobody enters it.
LEMMA ListFrame ==
  ASSUME TypeOK, ListOK, list' = list,
         \A w \in Workers : pc'[w] = "init" <=> pc[w] = "init"
  PROVE  ListOK'
BY InList DEF ListOK

\* Every worker that has registered is in the list once.
LEMMA ListStep == TypeOK /\ PlacesOK /\ ListOK /\ [Next]_vars => ListOK'
<1> SUFFICES ASSUME TypeOK, PlacesOK, ListOK, [Next]_vars PROVE ListOK'
  OBVIOUS
<1> USE DEF Moved
<1>1. ASSUME NEW w \in Workers, Register(w) PROVE ListOK'
  <2>1. Moved(w, {"init"}, {"idle"})
    BY <1>1, ActionMoves DEF Threads
  <2>2. list' \in Seq(Workers) /\ Len(list') = Len(list) + 1 /\ Len(list) \in Nat
    BY <1>1, Registered, InList
  <2>3. list'[Len(list) + 1] = w /\ \A i \in 1..Len(list) : list'[i] = list[i]
    BY <1>1, Registered
  <2>4. \A i \in 1..Len(list) : list[i] \in Threads /\ list[i] # w
    BY <2>1, InList DEF ListOK, Threads
  <2>5. \A i, j \in 1..Len(list') : list'[i] = list'[j] => i = j
    BY <2>2, <2>3, <2>4 DEF ListOK
  <2>6. \A i \in 1..Len(list') : pc'[list'[i]] # "init"
    BY <2>1, <2>2, <2>3, <2>4 DEF ListOK
  <2>7. ASSUME NEW v \in Workers, pc'[v] # "init" PROVE \E i \in 1..Len(list') : list'[i] = v
    <3>1. CASE v = w
      BY <3>1, <2>2, <2>3
    <3>2. CASE v # w
      <4>1. pc[v] # "init"
        BY <3>2, <2>1, <2>7 DEF Threads
      <4>2. PICK i \in 1..Len(list) : list[i] = v
        BY <4>1 DEF ListOK
      <4> QED
        BY <4>2, <2>2, <2>3
    <3> QED
      BY <3>1, <3>2
  <2> QED
    BY <2>5, <2>6, <2>7 DEF ListOK
<1>2. ASSUME Started PROVE ListOK'
  <2>1. Moved(Main, {"starting"}, {"idle"})
    BY <1>2, MainMoves
  <2> QED
    BY <1>2, <2>1, ListFrame, ThreadAssumption DEF Started, Threads, Thrown
<1>3. ASSUME NoInitialServers PROVE ListOK'
  <2>1. Moved(Main, {"idle"}, {"join"})
    BY <1>3, MainMoves
  <2> QED
    BY <1>3, <2>1, ListFrame, ThreadAssumption DEF NoInitialServers, Threads, Thrown
<1>4. ASSUME NEW t \in Threads, SetServers(t) PROVE ListOK'
  <2>1. Moved(t, {"idle"}, {"parsed", Thrown(t)})
    BY <1>4, ActionMoves
  <2> QED
    BY <1>4, <2>1, ListFrame, ThreadAssumption DEF SetServers, Threads, Thrown
<1>5. ASSUME NEW t \in Threads, SetLock(t) PROVE ListOK'
  <2>1. Moved(t, {"parsed"}, {"walk"})
    BY <1>5, ActionMoves
  <2> QED
    BY <1>5, <2>1, ListFrame, ThreadAssumption DEF SetLock, Threads, Thrown
<1>6. ASSUME NEW t \in Threads, SetCreate(t) PROVE ListOK'
  <2>1. Moved(t, {"walk"}, {"created"})
    BY <1>6, ActionMoves
  <2> QED
    BY <1>6, <2>1, ListFrame, ThreadAssumption DEF SetCreate, Threads, Thrown
<1>7. ASSUME NEW t \in Threads, SetThrow(t) PROVE ListOK'
  <2>1. Moved(t, {"walk"}, {Thrown(t)})
    BY <1>7, ActionMoves
  <2> QED
    BY <1>7, <2>1, ListFrame, ThreadAssumption DEF SetThrow, Threads, Thrown
<1>8. ASSUME NEW t \in Threads, SetFree(t) PROVE ListOK'
  <2>1. Moved(t, {"created"}, {"freed"})
    BY <1>8, ActionMoves
  <2> QED
    BY <1>8, <2>1, ListFrame, ThreadAssumption DEF SetFree, Threads, Thrown
<1>9. ASSUME NEW t \in Threads, SetAssign(t) PROVE ListOK'
  <2>1. Moved(t, {"freed"}, {"walk"})
    BY <1>9, ActionMoves
  <2> QED
    BY <1>9, <2>1, ListFrame, ThreadAssumption DEF SetAssign, Threads, Thrown
<1>10. ASSUME NEW t \in Threads, SetDone(t) PROVE ListOK'
  <2>1. Moved(t, {"walk"}, {"join", "idle"})
    BY <1>10, ActionMoves
  <2> QED
    BY <1>10, <2>1, ListFrame, ThreadAssumption DEF SetDone, Threads, Thrown
<1>11. ASSUME NEW w \in Workers, Request(w) PROVE ListOK'
  <2>1. Moved(w, {"idle"}, {"using"})
    BY <1>11, ActionMoves DEF Threads
  <2> QED
    BY <1>11, <2>1, ListFrame, ThreadAssumption DEF Request, Threads, Thrown
<1>12. ASSUME NEW w \in Workers, Answered(w) PROVE ListOK'
  <2>1. Moved(w, {"using"}, {"idle"})
    BY <1>12, ActionMoves DEF Threads
  <2> QED
    BY <1>12, <2>1, ListFrame, ThreadAssumption DEF Answered, Threads, Thrown
<1>13. CASE UNCHANGED vars
  BY <1>13 DEF vars, ListOK
<1> QED
  BY <1>1, <1>2, <1>3, <1>4, <1>5, <1>6, <1>7, <1>8, <1>9, <1>10, <1>11, <1>12, <1>13
     DEF Next, Step, SetStep, Aborted

\* The mutexes are fine as long as nobody takes or leaves one.
LEMMA LocksFrame ==
  ASSUME LocksOK, UNCHANGED <<list_lock, lock, it>>,
         \A t \in Threads : pc'[t] \in Walking <=> pc[t] \in Walking,
         \A t \in Threads : pc'[t] = "using" <=> pc[t] = "using",
         \A t \in Threads : pc'[t] = "freed" <=> pc[t] = "freed",
         \A t \in Threads : pc[t] = "freed" => list'[it[t]] = list[it[t]]
  PROVE  LocksOK'
BY DEF LocksOK

\* Only one thread walks through the list.
LEMMA OneWalker ==
  ASSUME LocksOK, NEW t \in Threads, NEW u \in Threads, pc[t] \in Walking, pc[u] \in Walking
  PROVE  t = u
BY DEF LocksOK

\* Nobody walks through a list that is not locked.
LEMMA NoWalker ==
  ASSUME LocksOK, list_lock = NoOne
  PROVE  \A t \in Threads : pc[t] \notin Walking
BY ThreadAssumption DEF LocksOK, Threads

\* Every mutex is held by the thread whose place says so.
LEMMA LocksStep == TypeOK /\ PlacesOK /\ ListOK /\ LocksOK /\ [Next]_vars => LocksOK'
<1> SUFFICES ASSUME TypeOK, PlacesOK, ListOK, LocksOK, [Next]_vars PROVE LocksOK'
  OBVIOUS
<1> USE DEF Moved
<1>1. ASSUME NEW w \in Workers, Register(w) PROVE LocksOK'
  <2>1. Moved(w, {"init"}, {"idle"})
    BY <1>1, ActionMoves DEF Threads
  <2>2. \A t \in Threads : pc[t] \notin Walking
    BY <1>1, NoWalker DEF Register
  <2> QED
    BY <1>1, <2>1, <2>2, LocksFrame DEF Register, Walking
<1>2. ASSUME Started PROVE LocksOK'
  <2>1. Moved(Main, {"starting"}, {"idle"})
    BY <1>2, MainMoves
  <2> QED
    BY <1>2, <2>1, LocksFrame, ThreadAssumption DEF Started, Walking, Thrown
<1>3. ASSUME NoInitialServers PROVE LocksOK'
  <2>1. Moved(Main, {"idle"}, {"join"})
    BY <1>3, MainMoves
  <2> QED
    BY <1>3, <2>1, LocksFrame, ThreadAssumption DEF NoInitialServers, Walking, Thrown
<1>4. ASSUME NEW t \in Threads, SetServers(t) PROVE LocksOK'
  <2>1. Moved(t, {"idle"}, {"parsed", Thrown(t)})
    BY <1>4, ActionMoves
  <2> QED
    BY <1>4, <2>1, LocksFrame, ThreadAssumption DEF SetServers, Walking, Thrown
<1>5. ASSUME NEW t \in Threads, SetLock(t) PROVE LocksOK'
  <2>1. Moved(t, {"parsed"}, {"walk"})
    BY <1>5, ActionMoves
  <2>2. \A u \in Threads : list_lock' = u <=> pc'[u] \in Walking
    BY <1>5, <2>1, OneWalker, NoWalker, ThreadAssumption DEF SetLock, LocksOK, Walking, Threads, Thrown
  <2>3. \A v \in Workers, u \in Threads :
          lock'[v] = u <=> \/ u = v /\ pc'[u] = "using"
                           \/ pc'[u] = "freed" /\ list'[it'[u]] = v
    <3>1. pc'[t] \notin {"using", "freed"}
      BY <2>1 DEF Thrown
    <3>2. UNCHANGED <<list, lock>> /\ \A u \in Threads : u # t => it'[u] = it[u]
      BY <1>5 DEF SetLock, TypeOK
    <3> QED
      BY <2>1, <3>1, <3>2 DEF LocksOK
  <2> QED
    BY <2>2, <2>3 DEF LocksOK
<1>6. ASSUME NEW t \in Threads, SetCreate(t) PROVE LocksOK'
  <2>1. Moved(t, {"walk"}, {"created"})
    BY <1>6, ActionMoves
  <2> QED
    BY <1>6, <2>1, LocksFrame, ThreadAssumption DEF SetCreate, Walking, Thrown
<1>7. ASSUME NEW t \in Threads, SetThrow(t) PROVE LocksOK'
  <2>1. Moved(t, {"walk"}, {Thrown(t)})
    BY <1>7, ActionMoves
  <2>2. \A u \in Threads : list_lock' = u <=> pc'[u] \in Walking
    BY <1>7, <2>1, OneWalker, NoWalker, ThreadAssumption DEF SetThrow, LocksOK, Walking, Threads, Thrown
  <2>3. \A v \in Workers, u \in Threads :
          lock'[v] = u <=> \/ u = v /\ pc'[u] = "using"
                           \/ pc'[u] = "freed" /\ list'[it'[u]] = v
    <3>1. pc'[t] \notin {"using", "freed"}
      BY <2>1 DEF Thrown
    <3>2. UNCHANGED <<list, lock>> /\ \A u \in Threads : u # t => it'[u] = it[u]
      BY <1>7 DEF SetThrow, TypeOK
    <3> QED
      BY <2>1, <3>1, <3>2 DEF LocksOK
  <2> QED
    BY <2>2, <2>3 DEF LocksOK
<1>8. ASSUME NEW t \in Threads, SetFree(t) PROVE LocksOK'
  <2>1. Moved(t, {"created"}, {"freed"})
    BY <1>8, ActionMoves
  <2> DEFINE x == list[it[t]]
  <2>2. x \in Workers /\ lock[x] = NoOne /\ lock'[x] = t
        /\ \A v \in Workers : v # x => lock'[v] = lock[v]
    BY <1>8, AtIterator DEF SetFree, TypeOK
  <2>3. UNCHANGED <<list, list_lock, it>>
    BY <1>8 DEF SetFree
  <2>4. \A u \in Threads : ~(u = x /\ pc[u] = "using") /\ ~(pc[u] = "freed" /\ list[it[u]] = x)
    BY <2>2, ThreadAssumption DEF LocksOK, Threads
  <2>5. \A u \in Threads : list_lock' = u <=> pc'[u] \in Walking
    BY <2>1, <2>3 DEF LocksOK, Walking
  <2>6. ASSUME NEW v \in Workers, NEW u \in Threads
        PROVE  lock'[v] = u <=> \/ u = v /\ pc'[u] = "using"
                                \/ pc'[u] = "freed" /\ list'[it'[u]] = v
    <3>1. CASE v = x
      BY <3>1, <2>1, <2>2, <2>3, <2>4
    <3>2. CASE v # x /\ u = t
      BY <3>2, <2>1, <2>2, <2>3 DEF LocksOK
    <3>3. CASE v # x /\ u # t
      BY <3>3, <2>1, <2>2, <2>3 DEF LocksOK
    <3> QED
      BY <3>1, <3>2, <3>3
  <2> QED
    BY <2>5, <2>6 DEF LocksOK
<1>9. ASSUME NEW t \in Threads, SetAssign(t) PROVE LocksOK'
  <2>1. Moved(t, {"freed"}, {"walk"})
    BY <1>9, ActionMoves
  <2> DEFINE x == list[it[t]]
  <2>2. x \in Workers /\ lock'[x] = NoOne /\ \A v \in Workers : v # x => lock'[v] = lock[v]
    BY <1>9, AtIterator DEF SetAssign, TypeOK
  <2>3. UNCHANGED <<list, list_lock>> /\ \A u \in Threads : u # t => it'[u] = it[u]
    BY <1>9 DEF SetAssign, TypeOK
  <2>4. lock[x] = t /\ \A u \in Threads : pc[u] \in Walking => u = t
    BY <2>1, <2>2, OneWalker DEF LocksOK, Walking
  <2>5. \A u \in Threads : list_lock' = u <=> pc'[u] \in Walking
    BY <2>1, <2>3 DEF LocksOK, Walking
  <2>6. ASSUME NEW v \in Workers, NEW u \in Threads
        PROVE  lock'[v] = u <=> \/ u = v /\ pc'[u] = "using"
                                \/ pc'[u] = "freed" /\ list'[it'[u]] = v
    <3>1. CASE v = x
      <4>1. ~(u = v /\ pc'[u] = "using")
        BY <3>1, <2>1, <2>4 DEF LocksOK
      <4>2. pc'[u] # "freed" /\ u # NoOne
        BY <2>1, <2>4, ThreadAssumption DEF Walking, Threads
      <4> QED
        BY <3>1, <2>2, <4>1, <4>2
    <3>2. CASE v # x /\ u = t
      BY <3>2, <2>1, <2>2, <2>3 DEF LocksOK
    <3>3. CASE v # x /\ u # t
      BY <3>3, <2>1, <2>2, <2>3 DEF LocksOK
    <3> QED
      BY <3>1, <3>2, <3>3
  <2> QED
    BY <2>5, <2>6 DEF LocksOK
<1>10. ASSUME NEW t \in Threads, SetDone(t) PROVE LocksOK'
  <2>1. Moved(t, {"walk"}, {"join", "idle"})
    BY <1>10, ActionMoves
  <2>2. \A u \in Threads : list_lock' = u <=> pc'[u] \in Walking
    BY <1>10, <2>1, OneWalker, NoWalker, ThreadAssumption DEF SetDone, LocksOK, Walking, Threads, Thrown
  <2>3. \A v \in Workers, u \in Threads :
          lock'[v] = u <=> \/ u = v /\ pc'[u] = "using"
                           \/ pc'[u] = "freed" /\ list'[it'[u]] = v
    <3>1. pc'[t] \notin {"using", "freed"}
      BY <2>1 DEF Thrown
    <3>2. UNCHANGED <<list, lock>> /\ \A u \in Threads : u # t => it'[u] = it[u]
      BY <1>10 DEF SetDone, TypeOK
    <3> QED
      BY <2>1, <3>1, <3>2 DEF LocksOK
  <2> QED
    BY <2>2, <2>3 DEF LocksOK
<1>11. ASSUME NEW w \in Workers, Request(w) PROVE LocksOK'
  <2>1. Moved(w, {"idle"}, {"using"})
    BY <1>11, ActionMoves DEF Threads
  <2>2. lock'[w] = w /\ (\A v \in Workers : v # w => lock'[v] = lock[v]) /\ lock[w] = NoOne
    BY <1>11 DEF Request, TypeOK, LocksOK, Threads
  <2>3. UNCHANGED <<list, list_lock, it>>
    BY <1>11 DEF Request
  <2>4. \A u \in Threads : list_lock' = u <=> pc'[u] \in Walking
    BY <2>1, <2>3 DEF LocksOK, Walking
  <2>5. ASSUME NEW v \in Workers, NEW u \in Threads
        PROVE  lock'[v] = u <=> \/ u = v /\ pc'[u] = "using"
                                \/ pc'[u] = "freed" /\ list'[it'[u]] = v
    <3>1. CASE v = w
      <4>1. pc'[u] = "freed" => list'[it'[u]] # v
        BY <3>1, <2>1, <2>2, <2>3, ThreadAssumption DEF LocksOK, Threads
      <4> QED
        BY <3>1, <4>1, <2>1, <2>2, ThreadAssumption DEF Threads
    <3>2. CASE v # w
      BY <3>2, <2>1, <2>2, <2>3 DEF LocksOK
    <3> QED
      BY <3>1, <3>2
  <2> QED
    BY <2>4, <2>5 DEF LocksOK
<1>12. ASSUME NEW w \in Workers, Answered(w) PROVE LocksOK'
  <2>1. Moved(w, {"using"}, {"idle"})
    BY <1>12, ActionMoves DEF Threads
  <2>2. lock'[w] = NoOne /\ (\A v \in Workers : v # w => lock'[v] = lock[v]) /\ lock[w] = w
    BY <1>12 DEF Answered, TypeOK, LocksOK, Threads
  <2>3. UNCHANGED <<list, list_lock, it>>
    BY <1>12 DEF Answered
  <2>4. \A u \in Threads : list_lock' = u <=> pc'[u] \in Walking
    BY <2>1, <2>3 DEF LocksOK, Walking
  <2>5. ASSUME NEW v \in Workers, NEW u \in Threads
        PROVE  lock'[v] = u <=> \/ u = v /\ pc'[u] = "using"
                                \/ pc'[u] = "freed" /\ list'[it'[u]] = v
    <3>1. CASE v = w
      <4>1. pc'[u] = "freed" => list'[it'[u]] # v
        BY <3>1, <2>1, <2>2, <2>3, ThreadAssumption DEF LocksOK, Threads
      <4> QED
        BY <3>1, <4>1, <2>1, <2>2, ThreadAssumption DEF Threads
    <3>2. CASE v # w
      BY <3>2, <2>1, <2>2, <2>3 DEF LocksOK
    <3> QED
      BY <3>1, <3>2
  <2> QED
    BY <2>4, <2>5 DEF LocksOK
<1>13. CASE UNCHANGED vars
  BY <1>13 DEF vars, LocksOK
<1> QED
  BY <1>1, <1>2, <1>3, <1>4, <1>5, <1>6, <1>7, <1>8, <1>9, <1>10, <1>11, <1>12, <1>13
     DEF Next, Step, SetStep, Aborted

-----------------------------------------------------------------------------
(* The clients.                                                            *)

\* Nothing changes for a walk as long as clients, list and numbers stay.
LEMMA WalkFrame ==
  ASSUME WalkOK, UNCHANGED <<list, client, gen, mc, it>>,
         \A w \in Workers : pc'[w] = "init" => pc[w] = "init",
         \A t \in Threads : pc'[t] \in Walking => pc[t] \in Walking
  PROVE  WalkOK'
BY DEF WalkOK

\* What SetAssign does: it replaces an older client by the one of its number.
LEMMA Assigned ==
  ASSUME TypeOK, WalkOK, NEW t \in Threads, SetAssign(t)
  PROVE  /\ it[t] \in 1..Len(list) /\ list[it[t]] \in Workers
         /\ client'[list[it[t]]] = gen /\ client[list[it[t]]] < gen /\ gen \in Nat
         /\ \A v \in Workers : v # list[it[t]] => client'[v] = client[v]
         /\ it'[t] = it[t] + 1 /\ mc[t] = gen
         /\ UNCHANGED <<list, gen, mc, freed, reached, served>>
         /\ Len(list) \in Nat /\ \A i \in 1..Len(list) : list[i] \in Workers
         /\ \A v \in Workers : client[v] \in Nat
<1> DEFINE x == list[it[t]]
<1>1. pc[t] = "freed"
  BY DEF SetAssign
<1>2. it[t] \in 1..Len(list) /\ x \in Workers
  BY <1>1, AtIterator
<1>3. /\ client'[x] = mc[t] /\ \A v \in Workers : v # x => client'[v] = client[v]
      /\ it'[t] = it[t] + 1
  BY <1>2 DEF SetAssign, TypeOK
<1>4. UNCHANGED <<list, gen, mc, freed, reached, served>>
  BY DEF SetAssign
<1>5. /\ gen \in Nat /\ mc[t] = gen /\ client[x] < gen
      /\ \A v \in Workers : client[v] \in Nat
  BY <1>1, <1>2 DEF WalkOK, Walking, TypeOK
<1> QED
  BY <1>2, <1>3, <1>4, <1>5, InList

\* A walk goes through the list in order, alone.
LEMMA WalkStep ==
  TypeOK /\ PlacesOK /\ ListOK /\ LocksOK /\ WalkOK /\ [Next]_vars => WalkOK'
<1> SUFFICES ASSUME TypeOK, PlacesOK, ListOK, LocksOK, WalkOK, [Next]_vars PROVE WalkOK'
  OBVIOUS
<1> USE DEF Moved
<1>1. ASSUME NEW w \in Workers, Register(w) PROVE WalkOK'
  <2>1. Moved(w, {"init"}, {"idle"})
    BY <1>1, ActionMoves DEF Threads
  <2>2. \A t \in Threads : pc'[t] \notin Walking
    BY <1>1, <2>1, NoWalker DEF Register, Walking
  <2>3. UNCHANGED <<client, gen>> /\ \A v \in Workers : pc'[v] = "init" => pc[v] = "init"
    BY <1>1, <2>1 DEF Register, Threads
  <2> QED
    BY <2>2, <2>3 DEF WalkOK
<1>2. ASSUME Started PROVE WalkOK'
  <2>1. Moved(Main, {"starting"}, {"idle"})
    BY <1>2, MainMoves
  <2> QED
    BY <1>2, <2>1, WalkFrame, ThreadAssumption DEF Started, Walking, Thrown, Threads
<1>3. ASSUME NoInitialServers PROVE WalkOK'
  <2>1. Moved(Main, {"idle"}, {"join"})
    BY <1>3, MainMoves
  <2> QED
    BY <1>3, <2>1, WalkFrame, ThreadAssumption DEF NoInitialServers, Walking, Thrown, Threads
<1>4. ASSUME NEW t \in Threads, SetServers(t) PROVE WalkOK'
  <2>1. Moved(t, {"idle"}, {"parsed", Thrown(t)})
    BY <1>4, ActionMoves
  <2> QED
    BY <1>4, <2>1, WalkFrame, ThreadAssumption DEF SetServers, Walking, Thrown, Threads
<1>5. ASSUME NEW t \in Threads, SetLock(t) PROVE WalkOK'
  <2>1. Moved(t, {"parsed"}, {"walk"})
    BY <1>5, ActionMoves
  <2>2. \A u \in Threads : u # t => pc'[u] \notin Walking
    BY <1>5, <2>1, NoWalker DEF SetLock
  <2>3. /\ gen \in Nat /\ gen' = gen + 1 /\ mc'[t] = gen' /\ it'[t] = 1
        /\ UNCHANGED <<client, list>>
    BY <1>5 DEF SetLock, TypeOK
  <2>4. Len(list) \in Nat /\ \A i \in 1..Len(list) : list[i] \in Workers
    BY InList
  <2>5. \A w \in Workers : client[w] \in Nat /\ client[w] < gen'
    BY <2>3 DEF WalkOK, TypeOK
  <2>6. \A w \in Workers : pc'[w] = "init" => client[w] = 0
    BY <2>1 DEF WalkOK, Threads
  <2> QED
    BY <2>1, <2>2, <2>3, <2>4, <2>5, <2>6 DEF WalkOK
<1>6. ASSUME NEW t \in Threads, SetCreate(t) PROVE WalkOK'
  <2>1. Moved(t, {"walk"}, {"created"})
    BY <1>6, ActionMoves
  <2> QED
    BY <1>6, <2>1, WalkFrame, ThreadAssumption DEF SetCreate, Walking, Thrown, Threads
<1>7. ASSUME NEW t \in Threads, SetThrow(t) PROVE WalkOK'
  <2>1. Moved(t, {"walk"}, {Thrown(t)})
    BY <1>7, ActionMoves
  <2> QED
    BY <1>7, <2>1, WalkFrame, ThreadAssumption DEF SetThrow, Walking, Thrown, Threads
<1>8. ASSUME NEW t \in Threads, SetFree(t) PROVE WalkOK'
  <2>1. Moved(t, {"created"}, {"freed"})
    BY <1>8, ActionMoves
  <2> QED
    BY <1>8, <2>1, WalkFrame, ThreadAssumption DEF SetFree, Walking, Thrown, Threads
<1>9. ASSUME NEW t \in Threads, SetAssign(t) PROVE WalkOK'
  <2>1. Moved(t, {"freed"}, {"walk"})
    BY <1>9, ActionMoves
  <2> DEFINE x == list[it[t]]
  <2>2. it[t] \in 1..Len(list) /\ x \in Workers
    BY <1>9, Assigned
  <2>3. client'[x] = gen /\ it'[t] = it[t] + 1 /\ \A v \in Workers : v # x => client'[v] = client[v]
    BY <1>9, Assigned
  <2>4. UNCHANGED <<list, gen, mc, freed, reached, served>>
    BY <1>9, Assigned
  <2>5. gen \in Nat /\ mc[t] = gen /\ client[x] < gen /\ \A v \in Workers : client[v] \in Nat
    BY <1>9, Assigned
  <2>6. Len(list) \in Nat /\ \A i \in 1..Len(list) : list[i] \in Workers
    BY InList
  <2>7. \A v \in Workers : client'[v] <= gen /\ (pc'[v] = "init" => client'[v] = 0)
    <3>1. pc[x] # "init" /\ x \in Threads
      BY <2>2 DEF ListOK, Threads
    <3> QED
      BY <2>1, <2>2, <2>3, <2>5, <3>1 DEF WalkOK, Threads
  <2>8. \A u \in Threads : pc'[u] \in Walking => u = t
    BY <2>1, OneWalker DEF Walking
  <2>9. \A i \in 1..Len(list) : i # it[t] => client'[list[i]] = client[list[i]]
    BY <2>2, <2>3, <2>6 DEF ListOK
  <2>10. pc[t] \in Walking
    BY <2>1 DEF Walking
  <2>11. \A i \in 1..Len(list) : i < it'[t] => client'[list[i]] = gen
    BY <2>2, <2>3, <2>5, <2>6, <2>9, <2>10 DEF WalkOK
  <2>12. \A i \in 1..Len(list) : i >= it'[t] => client'[list[i]] < gen
    BY <2>2, <2>3, <2>5, <2>6, <2>9, <2>10 DEF WalkOK
  <2>13. it'[t] <= Len(list) + 1 /\ gen > 0
    BY <2>2, <2>3, <2>6, <2>10 DEF WalkOK
  <2> QED
    BY <2>4, <2>5, <2>7, <2>8, <2>11, <2>12, <2>13 DEF WalkOK
<1>10. ASSUME NEW t \in Threads, SetDone(t) PROVE WalkOK'
  <2>1. Moved(t, {"walk"}, {"join", "idle"})
    BY <1>10, ActionMoves
  <2> QED
    BY <1>10, <2>1, WalkFrame, ThreadAssumption DEF SetDone, Walking, Thrown, Threads
<1>11. ASSUME NEW w \in Workers, Request(w) PROVE WalkOK'
  <2>1. Moved(w, {"idle"}, {"using"})
    BY <1>11, ActionMoves DEF Threads
  <2> QED
    BY <1>11, <2>1, WalkFrame, ThreadAssumption DEF Request, Walking, Thrown, Threads
<1>12. ASSUME NEW w \in Workers, Answered(w) PROVE WalkOK'
  <2>1. Moved(w, {"using"}, {"idle"})
    BY <1>12, ActionMoves DEF Threads
  <2> QED
    BY <1>12, <2>1, WalkFrame, ThreadAssumption DEF Answered, Walking, Thrown, Threads
<1>13. CASE UNCHANGED vars
  BY <1>13 DEF vars, WalkOK
<1> QED
  BY <1>1, <1>2, <1>3, <1>4, <1>5, <1>6, <1>7, <1>8, <1>9, <1>10, <1>11, <1>12, <1>13
     DEF Next, Step, SetStep, Aborted

\* Nothing changes for the freed clients as long as none is freed or replaced.
LEMMA FreedFrame ==
  ASSUME FreedOK, UNCHANGED <<client, freed>>,
         \A t \in Threads :
           pc[t] = "freed" => pc'[t] = "freed" /\ list'[it'[t]] = list[it[t]]
  PROVE  FreedOK'
BY DEF FreedOK

\* A freed client is never current again.
LEMMA FreedStep == TypeOK /\ LocksOK /\ WalkOK /\ FreedOK /\ [Next]_vars => FreedOK'
<1> SUFFICES ASSUME TypeOK, LocksOK, WalkOK, FreedOK, [Next]_vars PROVE FreedOK'
  OBVIOUS
<1> USE DEF Moved
<1>1. ASSUME NEW w \in Workers, Register(w) PROVE FreedOK'
  <2>1. Moved(w, {"init"}, {"idle"})
    BY <1>1, ActionMoves DEF Threads
  <2>2. \A u \in Threads : pc[u] # "freed"
    BY <1>1, NoWalker DEF Register, Walking
  <2> QED
    BY <1>1, <2>1, <2>2, FreedFrame DEF Register
<1>2. ASSUME Started PROVE FreedOK'
  <2>1. Moved(Main, {"starting"}, {"idle"})
    BY <1>2, MainMoves
  <2> QED
    BY <1>2, <2>1, FreedFrame DEF Started
<1>3. ASSUME NoInitialServers PROVE FreedOK'
  <2>1. Moved(Main, {"idle"}, {"join"})
    BY <1>3, MainMoves
  <2> QED
    BY <1>3, <2>1, FreedFrame DEF NoInitialServers
<1>4. ASSUME NEW t \in Threads, SetServers(t) PROVE FreedOK'
  <2>1. Moved(t, {"idle"}, {"parsed", Thrown(t)})
    BY <1>4, ActionMoves
  <2> QED
    BY <1>4, <2>1, FreedFrame DEF SetServers
<1>5. ASSUME NEW t \in Threads, SetLock(t) PROVE FreedOK'
  <2>1. Moved(t, {"parsed"}, {"walk"})
    BY <1>5, ActionMoves
  <2>2. \A u \in Threads : pc[u] # "freed"
    BY <1>5, NoWalker DEF SetLock, Walking
  <2> QED
    BY <1>5, <2>1, <2>2, FreedFrame DEF SetLock
<1>6. ASSUME NEW t \in Threads, SetCreate(t) PROVE FreedOK'
  <2>1. Moved(t, {"walk"}, {"created"})
    BY <1>6, ActionMoves
  <2> QED
    BY <1>6, <2>1, FreedFrame DEF SetCreate
<1>7. ASSUME NEW t \in Threads, SetThrow(t) PROVE FreedOK'
  <2>1. Moved(t, {"walk"}, {Thrown(t)})
    BY <1>7, ActionMoves
  <2> QED
    BY <1>7, <2>1, FreedFrame DEF SetThrow
<1>8. ASSUME NEW t \in Threads, SetFree(t) PROVE FreedOK'
  <2>1. Moved(t, {"created"}, {"freed"})
    BY <1>8, ActionMoves
  <2> DEFINE x == list[it[t]]
  <2>2. x \in Workers /\ freed'[x] = freed[x] \union {client[x]}
        /\ \A v \in Workers : v # x => freed'[v] = freed[v]
    BY <1>8, AtIterator DEF SetFree, TypeOK
  <2>3. UNCHANGED <<list, it, client>>
    BY <1>8 DEF SetFree
  <2>4. \A v \in Workers : client[v] \in Nat
    BY DEF TypeOK
  <2>5. \A u \in Threads : pc[u] = "freed" => pc'[u] = "freed"
    BY <2>1
  <2>6. ASSUME NEW v \in Workers, NEW n \in freed'[v]
        PROVE  n <= client[v] /\ (n = client[v] => \E u \in Threads : pc'[u] = "freed" /\ list[it[u]] = v)
    <3>1. CASE v = x
      BY <3>1, <2>1, <2>2, <2>4, <2>6 DEF FreedOK
    <3>2. CASE v # x
      BY <3>2, <2>2, <2>5, <2>6 DEF FreedOK
    <3> QED
      BY <3>1, <3>2
  <2> QED
    BY <2>3, <2>6 DEF FreedOK
<1>9. ASSUME NEW t \in Threads, SetAssign(t) PROVE FreedOK'
  <2>1. Moved(t, {"freed"}, {"walk"})
    BY <1>9, ActionMoves
  <2> DEFINE x == list[it[t]]
  <2>2. it[t] \in 1..Len(list) /\ x \in Workers
    BY <1>9, Assigned
  <2>3. client'[x] = gen /\ it'[t] = it[t] + 1 /\ \A v \in Workers : v # x => client'[v] = client[v]
    BY <1>9, Assigned
  <2>4. UNCHANGED <<list, gen, mc, freed, reached, served>>
    BY <1>9, Assigned
  <2>5. gen \in Nat /\ mc[t] = gen /\ client[x] < gen /\ \A v \in Workers : client[v] \in Nat
    BY <1>9, Assigned
  <2>6. Len(list) \in Nat /\ \A i \in 1..Len(list) : list[i] \in Workers
    BY InList
  <2>7. \A u \in Threads : pc[u] = "freed" => u = t
    BY <2>1, OneWalker DEF Walking
  <2>8. ASSUME NEW v \in Workers, NEW n \in freed[v]
        PROVE  n <= client'[v] /\ n # client'[v]
    <3>1. n \in Nat /\ n <= client[v]
      BY <2>8 DEF FreedOK, TypeOK
    <3>2. CASE v = x
      BY <3>1, <3>2, <2>3, <2>5
    <3>3. CASE v # x
      <4>1. n # client[v]
        BY <2>7, <2>8, <3>3 DEF FreedOK
      <4> QED
        BY <3>1, <3>3, <4>1, <2>3
    <3> QED
      BY <3>2, <3>3
  <2> QED
    BY <2>4, <2>8 DEF FreedOK
<1>10. ASSUME NEW t \in Threads, SetDone(t) PROVE FreedOK'
  <2>1. Moved(t, {"walk"}, {"join", "idle"})
    BY <1>10, ActionMoves
  <2> QED
    BY <1>10, <2>1, FreedFrame DEF SetDone
<1>11. ASSUME NEW w \in Workers, Request(w) PROVE FreedOK'
  <2>1. Moved(w, {"idle"}, {"using"})
    BY <1>11, ActionMoves DEF Threads
  <2> QED
    BY <1>11, <2>1, FreedFrame DEF Request
<1>12. ASSUME NEW w \in Workers, Answered(w) PROVE FreedOK'
  <2>1. Moved(w, {"using"}, {"idle"})
    BY <1>12, ActionMoves DEF Threads
  <2> QED
    BY <1>12, <2>1, FreedFrame DEF Answered
<1>13. CASE UNCHANGED vars
  BY <1>13 DEF vars, FreedOK
<1> QED
  BY <1>1, <1>2, <1>3, <1>4, <1>5, <1>6, <1>7, <1>8, <1>9, <1>10, <1>11, <1>12, <1>13
     DEF Next, Step, SetStep, Aborted

\* The newest clients are in front.
LEMMA NewestStep ==
  TypeOK /\ ListOK /\ LocksOK /\ WalkOK /\ NewestFirst /\ [Next]_vars => NewestFirst'
<1> SUFFICES ASSUME TypeOK, ListOK, LocksOK, WalkOK, NewestFirst, [Next]_vars PROVE NewestFirst'
  OBVIOUS
<1> USE DEF Moved
<1>1. ASSUME NEW w \in Workers, Register(w) PROVE NewestFirst'
  <2>1. Len(list') = Len(list) + 1 /\ Len(list) \in Nat /\ client' = client
    BY <1>1, Registered, InList DEF Register
  <2>2. list'[Len(list) + 1] = w /\ \A i \in 1..Len(list) : list'[i] = list[i] /\ list[i] \in Workers
    BY <1>1, Registered, InList
  <2>3. client[w] = 0 /\ \A v \in Workers : client[v] \in Nat
    BY <1>1 DEF Register, WalkOK, TypeOK
  <2> QED
    BY <2>1, <2>2, <2>3 DEF NewestFirst
<1>2. ASSUME Started PROVE NewestFirst'
  BY <1>2 DEF Started, NewestFirst
<1>3. ASSUME NoInitialServers PROVE NewestFirst'
  BY <1>3 DEF NoInitialServers, NewestFirst
<1>4. ASSUME NEW t \in Threads, SetServers(t) PROVE NewestFirst'
  BY <1>4 DEF SetServers, NewestFirst
<1>5. ASSUME NEW t \in Threads, SetLock(t) PROVE NewestFirst'
  BY <1>5 DEF SetLock, NewestFirst
<1>6. ASSUME NEW t \in Threads, SetCreate(t) PROVE NewestFirst'
  BY <1>6 DEF SetCreate, NewestFirst
<1>7. ASSUME NEW t \in Threads, SetThrow(t) PROVE NewestFirst'
  BY <1>7 DEF SetThrow, NewestFirst
<1>8. ASSUME NEW t \in Threads, SetFree(t) PROVE NewestFirst'
  BY <1>8 DEF SetFree, NewestFirst
<1>9. ASSUME NEW t \in Threads, SetAssign(t) PROVE NewestFirst'
  <2>1. Moved(t, {"freed"}, {"walk"})
    BY <1>9, ActionMoves
  <2> DEFINE x == list[it[t]]
  <2>2. it[t] \in 1..Len(list) /\ x \in Workers
    BY <1>9, Assigned
  <2>3. client'[x] = gen /\ it'[t] = it[t] + 1 /\ \A v \in Workers : v # x => client'[v] = client[v]
    BY <1>9, Assigned
  <2>4. UNCHANGED <<list, gen, mc, freed, reached, served>>
    BY <1>9, Assigned
  <2>5. gen \in Nat /\ mc[t] = gen /\ client[x] < gen /\ \A v \in Workers : client[v] \in Nat
    BY <1>9, Assigned
  <2>6. Len(list) \in Nat /\ \A i \in 1..Len(list) : list[i] \in Workers
    BY InList
  <2>7. \A i \in 1..Len(list) : i # it[t] => client'[list[i]] = client[list[i]]
    BY <2>2, <2>3, <2>6 DEF ListOK
  <2>8. pc[t] \in Walking
    BY <2>1 DEF Walking
  <2>9. \A i \in 1..Len(list) : i <= it[t] => client'[list[i]] = gen
    BY <2>2, <2>3, <2>5, <2>7, <2>8 DEF WalkOK
  <2>10. \A i \in 1..Len(list) : client'[list[i]] <= gen /\ client'[list[i]] \in Nat
    BY <2>2, <2>3, <2>5, <2>6, <2>7 DEF WalkOK
  <2>11. ASSUME NEW i \in 1..Len(list), NEW j \in 1..Len(list), i < j
         PROVE  client'[list[i]] >= client'[list[j]]
    <3>1. CASE i <= it[t]
      BY <3>1, <2>5, <2>9, <2>10
    <3>2. CASE ~(i <= it[t])
      BY <3>2, <2>2, <2>7, <2>11 DEF NewestFirst
    <3> QED
      BY <3>1, <3>2
  <2> QED
    BY <2>4, <2>11 DEF NewestFirst
<1>10. ASSUME NEW t \in Threads, SetDone(t) PROVE NewestFirst'
  BY <1>10 DEF SetDone, NewestFirst
<1>11. ASSUME NEW w \in Workers, Request(w) PROVE NewestFirst'
  BY <1>11 DEF Request, NewestFirst
<1>12. ASSUME NEW w \in Workers, Answered(w) PROVE NewestFirst'
  BY <1>12 DEF Answered, NewestFirst
<1>13. CASE UNCHANGED vars
  BY <1>13 DEF vars, NewestFirst
<1> QED
  BY <1>1, <1>2, <1>3, <1>4, <1>5, <1>6, <1>7, <1>8, <1>9, <1>10, <1>11, <1>12, <1>13
     DEF Next, Step, SetStep, Aborted

\* What was reached stays reached while clients and numbers stay.
LEMMA ReachedFrame ==
  ASSUME ReachedOK, UNCHANGED <<list, client, gen, reached>>,
         \A t \in Threads : pc'[t] \in Walking => pc[t] \in Walking
  PROVE  ReachedOK'
BY DEF ReachedOK

\* What a finished call has reached stays reached.
LEMMA ReachedStep ==
  TypeOK /\ ListOK /\ LocksOK /\ WalkOK /\ ReachedOK /\ [Next]_vars => ReachedOK'
<1> SUFFICES ASSUME TypeOK, ListOK, LocksOK, WalkOK, ReachedOK, [Next]_vars PROVE ReachedOK'
  OBVIOUS
<1> USE DEF Moved
<1>1. ASSUME NEW w \in Workers, Register(w) PROVE ReachedOK'
  <2>1. Moved(w, {"init"}, {"idle"})
    BY <1>1, ActionMoves DEF Threads
  <2>2. Len(list') = Len(list) + 1 /\ Len(list) \in Nat /\ UNCHANGED <<client, gen, reached>>
    BY <1>1, Registered, InList DEF Register
  <2>3. \A i \in 1..Len(list) : list'[i] = list[i]
    BY <1>1, Registered
  <2>4. reached.len \in Nat /\ reached.len <= Len(list) /\ \A i \in 1..reached.len : i \in 1..Len(list)
    BY <2>2 DEF ReachedOK, TypeOK
  <2>5. \A t \in Threads : pc'[t] \in Walking => pc[t] \in Walking
    BY <2>1 DEF Walking
  <2> QED
    BY <2>2, <2>3, <2>4, <2>5 DEF ReachedOK
<1>2. ASSUME Started PROVE ReachedOK'
  <2>1. Moved(Main, {"starting"}, {"idle"})
    BY <1>2, MainMoves
  <2> QED
    BY <1>2, <2>1, ReachedFrame DEF Started, Walking, Thrown
<1>3. ASSUME NoInitialServers PROVE ReachedOK'
  <2>1. Moved(Main, {"idle"}, {"join"})
    BY <1>3, MainMoves
  <2> QED
    BY <1>3, <2>1, ReachedFrame DEF NoInitialServers, Walking, Thrown
<1>4. ASSUME NEW t \in Threads, SetServers(t) PROVE ReachedOK'
  <2>1. Moved(t, {"idle"}, {"parsed", Thrown(t)})
    BY <1>4, ActionMoves
  <2> QED
    BY <1>4, <2>1, ReachedFrame DEF SetServers, Walking, Thrown
<1>5. ASSUME NEW t \in Threads, SetLock(t) PROVE ReachedOK'
  <2>1. gen \in Nat /\ gen' = gen + 1 /\ UNCHANGED <<list, client, reached>> /\ reached.gen \in Nat
    BY <1>5 DEF SetLock, TypeOK
  <2> QED
    BY <2>1 DEF ReachedOK
<1>6. ASSUME NEW t \in Threads, SetCreate(t) PROVE ReachedOK'
  <2>1. Moved(t, {"walk"}, {"created"})
    BY <1>6, ActionMoves
  <2> QED
    BY <1>6, <2>1, ReachedFrame DEF SetCreate, Walking, Thrown
<1>7. ASSUME NEW t \in Threads, SetThrow(t) PROVE ReachedOK'
  <2>1. Moved(t, {"walk"}, {Thrown(t)})
    BY <1>7, ActionMoves
  <2> QED
    BY <1>7, <2>1, ReachedFrame DEF SetThrow, Walking, Thrown
<1>8. ASSUME NEW t \in Threads, SetFree(t) PROVE ReachedOK'
  <2>1. Moved(t, {"created"}, {"freed"})
    BY <1>8, ActionMoves
  <2> QED
    BY <1>8, <2>1, ReachedFrame DEF SetFree, Walking, Thrown
<1>9. ASSUME NEW t \in Threads, SetAssign(t) PROVE ReachedOK'
  <2>1. Moved(t, {"freed"}, {"walk"})
    BY <1>9, ActionMoves
  <2> DEFINE x == list[it[t]]
  <2>2. it[t] \in 1..Len(list) /\ x \in Workers
    BY <1>9, Assigned
  <2>3. client'[x] = gen /\ it'[t] = it[t] + 1 /\ \A v \in Workers : v # x => client'[v] = client[v]
    BY <1>9, Assigned
  <2>4. UNCHANGED <<list, gen, mc, freed, reached, served>>
    BY <1>9, Assigned
  <2>5. gen \in Nat /\ mc[t] = gen /\ client[x] < gen /\ \A v \in Workers : client[v] \in Nat
    BY <1>9, Assigned
  <2>6. Len(list) \in Nat /\ \A i \in 1..Len(list) : list[i] \in Workers
    BY InList
  <2>7. reached.gen \in Nat /\ reached.len \in Nat /\ reached.len <= Len(list) /\ reached.gen < gen
    BY <2>1 DEF ReachedOK, TypeOK, Walking
  <2>8. \A i \in 1..reached.len : i \in 1..Len(list)
    BY <2>6, <2>7
  <2>9. \A i \in 1..reached.len : client'[list[i]] >= reached.gen
    BY <2>3, <2>5, <2>6, <2>7, <2>8 DEF ReachedOK
  <2>10. \A u \in Threads : pc'[u] \in Walking => reached.gen < gen
    BY <2>7
  <2> QED
    BY <2>4, <2>5, <2>7, <2>9, <2>10 DEF ReachedOK
<1>10. ASSUME NEW t \in Threads, SetDone(t) PROVE ReachedOK'
  <2>1. Moved(t, {"walk"}, {"join", "idle"})
    BY <1>10, ActionMoves
  <2>2. reached'.gen = mc[t] /\ reached'.len = Len(list) /\ UNCHANGED <<list, client, gen>>
    BY <1>10 DEF SetDone
  <2>3. gen \in Nat /\ mc[t] = gen /\ Len(list) \in Nat /\ it[t] \in Nat /\ it[t] > Len(list)
    BY <1>10, <2>1, InList DEF WalkOK, Walking, SetDone, TypeOK
  <2>4. \A i \in 1..Len(list) : client[list[i]] = gen
    BY <2>1, <2>3 DEF WalkOK, Walking
  <2>5. \A u \in Threads : pc'[u] \notin Walking
    BY <2>1, OneWalker DEF Walking
  <2> QED
    BY <2>2, <2>3, <2>4, <2>5 DEF ReachedOK
<1>11. ASSUME NEW w \in Workers, Request(w) PROVE ReachedOK'
  <2>1. Moved(w, {"idle"}, {"using"})
    BY <1>11, ActionMoves DEF Threads
  <2> QED
    BY <1>11, <2>1, ReachedFrame DEF Request, Walking, Thrown
<1>12. ASSUME NEW w \in Workers, Answered(w) PROVE ReachedOK'
  <2>1. Moved(w, {"using"}, {"idle"})
    BY <1>12, ActionMoves DEF Threads
  <2> QED
    BY <1>12, <2>1, ReachedFrame DEF Answered, Walking, Thrown
<1>13. CASE UNCHANGED vars
  BY <1>13 DEF vars, ReachedOK
<1> QED
  BY <1>1, <1>2, <1>3, <1>4, <1>5, <1>6, <1>7, <1>8, <1>9, <1>10, <1>11, <1>12, <1>13
     DEF Next, Step, SetStep, Aborted

\* Once main has set the servers every worker has some.
LEMMA InitialStep ==
  TypeOK /\ PlacesOK /\ ListOK /\ WalkOK /\ InitialServersEverywhere /\ [Next]_vars => InitialServersEverywhere'
<1> SUFFICES ASSUME TypeOK, PlacesOK, ListOK, WalkOK, InitialServersEverywhere, [Next]_vars
              PROVE  InitialServersEverywhere'
  OBVIOUS
<1> USE DEF Moved
<1>1. ASSUME NEW w \in Workers, Register(w) PROVE InitialServersEverywhere'
  BY <1>1 DEF Register, InitialServersEverywhere
<1>2. ASSUME Started PROVE InitialServersEverywhere'
  BY <1>2 DEF Started, InitialServersEverywhere
<1>3. ASSUME NoInitialServers PROVE InitialServersEverywhere'
  BY <1>3 DEF NoInitialServers, InitialServersEverywhere
<1>4. ASSUME NEW t \in Threads, SetServers(t) PROVE InitialServersEverywhere'
  BY <1>4 DEF SetServers, InitialServersEverywhere
<1>5. ASSUME NEW t \in Threads, SetLock(t) PROVE InitialServersEverywhere'
  BY <1>5 DEF SetLock, InitialServersEverywhere
<1>6. ASSUME NEW t \in Threads, SetCreate(t) PROVE InitialServersEverywhere'
  BY <1>6 DEF SetCreate, InitialServersEverywhere
<1>7. ASSUME NEW t \in Threads, SetThrow(t) PROVE InitialServersEverywhere'
  BY <1>7 DEF SetThrow, InitialServersEverywhere
<1>8. ASSUME NEW t \in Threads, SetFree(t) PROVE InitialServersEverywhere'
  BY <1>8 DEF SetFree, InitialServersEverywhere
<1>9. ASSUME NEW t \in Threads, SetAssign(t) PROVE InitialServersEverywhere'
  <2>1. Moved(t, {"freed"}, {"walk"})
    BY <1>9, ActionMoves
  <2> DEFINE x == list[it[t]]
  <2>2. it[t] \in 1..Len(list) /\ x \in Workers
    BY <1>9, Assigned
  <2>3. client'[x] = gen /\ it'[t] = it[t] + 1 /\ \A v \in Workers : v # x => client'[v] = client[v]
    BY <1>9, Assigned
  <2>4. UNCHANGED <<list, gen, mc, freed, reached, served>>
    BY <1>9, Assigned
  <2>5. gen \in Nat /\ mc[t] = gen /\ client[x] < gen /\ \A v \in Workers : client[v] \in Nat
    BY <1>9, Assigned
  <2>6. Len(list) \in Nat /\ \A i \in 1..Len(list) : list[i] \in Workers
    BY InList
  <2> QED
    BY <2>3, <2>4, <2>5 DEF InitialServersEverywhere
<1>10. ASSUME NEW t \in Threads, SetDone(t) PROVE InitialServersEverywhere'
  <2>1. UNCHANGED <<client, list, gen>> /\ served' = (served \/ t = Main) /\ pc[t] = "walk" /\ it[t] > Len(list)
    BY <1>10 DEF SetDone
  <2>2. ASSUME t = Main, NEW w \in Workers PROVE client[w] > 0
    <3>1. PICK i \in 1..Len(list) : list[i] = w
      BY <2>1, <2>2 DEF PlacesOK, ListOK
    <3>2. i < it[t]
      BY <2>1, InList DEF TypeOK
    <3>3. client[w] = gen /\ gen > 0
      BY <2>1, <3>1, <3>2 DEF WalkOK, Walking
    <3> QED
      BY <3>3
  <2> QED
    BY <2>1, <2>2 DEF InitialServersEverywhere
<1>11. ASSUME NEW w \in Workers, Request(w) PROVE InitialServersEverywhere'
  BY <1>11 DEF Request, InitialServersEverywhere
<1>12. ASSUME NEW w \in Workers, Answered(w) PROVE InitialServersEverywhere'
  BY <1>12 DEF Answered, InitialServersEverywhere
<1>13. CASE UNCHANGED vars
  BY <1>13 DEF vars, InitialServersEverywhere
<1> QED
  BY <1>1, <1>2, <1>3, <1>4, <1>5, <1>6, <1>7, <1>8, <1>9, <1>10, <1>11, <1>12, <1>13
     DEF Next, Step, SetStep, Aborted

-----------------------------------------------------------------------------
(* Theorems.                                                               *)

\* The inductive invariant of the clients, their list and their mutexes holds
\* in every reachable state of thread_init_func, set_servers and the requests.
THEOREM Invariance == Spec => []IInv
<1>1. IInv /\ [Next]_vars => IInv'
  <2> SUFFICES ASSUME IInv, [Next]_vars PROVE IInv'
    OBVIOUS
  <2>1. TypeOK' /\ PlacesOK' /\ ListOK' /\ LocksOK' /\ WalkOK'
    BY TypeStep, PlacesStep, ListStep, LocksStep, WalkStep DEF IInv
  <2>2. FreedOK' /\ ReachedOK' /\ NewestFirst' /\ InitialServersEverywhere'
    BY FreedStep, ReachedStep, NewestStep, InitialStep DEF IInv
  <2> QED
    BY <2>1, <2>2 DEF IInv
<1> QED
  BY InvInit, <1>1, PTL DEF Spec

\* The variables of the proxy client keep their types, and the iterator of
\* set_servers is dereferenced only inside the list.
THEOREM TypeCorrect == Spec => []TypeOK
<1>1. IInv => TypeOK
  BY DEF IInv
<1> QED
  BY Invariance, <1>1, PTL

\* set_servers never frees or replaces the client of a running request.
THEOREM ClientsSafe == Spec => []NoUseAfterFree
<1>1. IInv => NoUseAfterFree
  <2> SUFFICES ASSUME IInv, NEW w \in Workers
               PROVE  /\ pc[w] = "using" => lock[w] = w
                      /\ client[w] \in freed[w] =>
                           \E t \in Threads :
                             /\ pc[t] = "freed" /\ lock[w] = t
                             /\ list[it[t]] = w /\ pc[w] # "using"
    BY DEF NoUseAfterFree
  <2>1. w \in Threads
    BY DEF Threads
  <2>2. pc[w] = "using" => lock[w] = w
    BY <2>1 DEF IInv, LocksOK
  <2>3. ASSUME client[w] \in freed[w]
        PROVE  \E t \in Threads :
                 pc[t] = "freed" /\ lock[w] = t /\ list[it[t]] = w /\ pc[w] # "using"
    <3>1. PICK t \in Threads : pc[t] = "freed" /\ list[it[t]] = w
      BY <2>3 DEF IInv, FreedOK
    <3>2. lock[w] = t
      BY <3>1 DEF IInv, LocksOK
    <3> QED
      BY <2>2, <3>1, <3>2
  <2> QED
    BY <2>2, <2>3
<1> QED
  BY Invariance, <1>1, PTL

\* Calls of set_servers take effect one after another along the list.
THEOREM UpdatesOrdered == Spec => []NewestFirst
<1>1. IInv => NewestFirst
  BY DEF IInv
<1> QED
  BY Invariance, <1>1, PTL

\* A call of set_servers that returned has reached every registered worker.
THEOREM UpdatesComplete == Spec => []SetReachesAll
<1>1. IInv => SetReachesAll
  BY DEF IInv, TypeOK, ReachedOK, SetReachesAll
<1> QED
  BY Invariance, <1>1, PTL

\* The initial call of main leaves no worker without servers.
THEOREM InitialComplete == Spec => []InitialServersEverywhere
<1>1. IInv => InitialServersEverywhere
  BY DEF IInv
<1> QED
  BY Invariance, <1>1, PTL

\* No step of set_servers gives a worker an older list of servers.
THEOREM UpdatesMonotone == Spec => NeverBackwards
<1>1. IInv /\ [Next]_vars => [\A w \in Workers : client'[w] >= client[w]]_vars
  <2> SUFFICES ASSUME IInv, Next, NEW w \in Workers PROVE client'[w] >= client[w]
    BY DEF vars
  <2>1. client[w] \in Nat
    BY DEF IInv, TypeOK
  <2>2. ASSUME NEW t \in Threads, SetAssign(t) PROVE client'[w] >= client[w]
    BY <2>1, <2>2, AtIterator DEF SetAssign, IInv, TypeOK, WalkOK, Walking
  <2>3. ASSUME client' = client PROVE client'[w] >= client[w]
    BY <2>1, <2>3
  <2> QED
    BY <2>2, <2>3 DEF Next, Step, SetStep, Aborted, vars, Register, Started, NoInitialServers,
      Request, Answered, SetServers, SetLock, SetCreate, SetThrow, SetFree, SetDone
<1> QED
  BY Invariance, <1>1, PTL DEF Spec, NeverBackwards
=============================================================================
