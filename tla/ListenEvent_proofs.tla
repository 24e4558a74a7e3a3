------------------------ MODULE ListenEvent_proofs -------------------------
(***************************************************************************)
(* ListenEvent for any number of listeners, descriptors and sockets: who   *)
(* may be closed in place of another, and what is left when the steps of   *)
(* taking a socket in fail.                                                *)
(***************************************************************************)
EXTENDS ListenEvent, TLAPS

Places == {"socket", "create", "nonblock", "set", "add", "catch", "accept", "gone", "aborted"}

\* Listener l is taking a socket in.
Takes(l) == at[l] \in {"create", "nonblock", "set", "add", "catch"}

\* Sockets are numbered in the order of creation.
FreshInv ==
  /\ \A f \in Fds : owner[f] <= made /\ m_state[f] <= made
  /\ \A l \in Listeners : id[l] <= made /\ lid[l] <= made
  /\ \A s \in victims : s <= made

\* The socket a listener is taking in is nobody else's; its number is its own
\* as long as no other socket's close has hit it.
TakeOK(l) ==
  /\ lfd[l] # None => lid[l] # None
  /\ Takes(l) =>
       /\ fd[l] \in Fds /\ id[l] # None
       /\ \A k \in Listeners : (Takes(k) /\ id[k] = id[l] => k = l) /\ lid[k] # id[l]
       /\ at[l] \in {"create", "nonblock", "set"} /\ id[l] \notin victims => owner[fd[l]] = id[l]
       /\ ~twice => owner[fd[l]] = id[l] /\ fd[l] \notin reg

\* An open socket is served or on its way to be; a handler is that of the
\* socket behind its number, which is not taken in any more, or almost.
FdOK(f) ==
  /\ owner[f] # None /\ owner[f] \notin victims =>
       \/ m_state[f] = owner[f] /\ (f \in reg \/ owner[f] \in deaf)
       \/ \E l \in Listeners : /\ Takes(l) /\ id[l] = owner[f] /\ fd[l] = f
                               /\ at[l] = "add" => m_state[f] = owner[f]
  /\ m_state[f] # None /\ m_state[f] \notin victims =>
       /\ owner[f] = m_state[f]
       /\ \A l \in Listeners : Takes(l) /\ id[l] = m_state[f] => at[l] = "add"
  /\ f \in reg => owner[f] # None

IInv ==
  /\ TypeOK /\ FreshInv /\ Unharmed
  /\ \A l \in Listeners : TakeOK(l)
  /\ \A f \in Fds : FdOK(f)

-----------------------------------------------------------------------------

\* None is no descriptor and no socket.
LEMMA NoneIsNothing == None \notin Fds /\ None \notin Socks /\ Socks \subseteq Nat /\ Fds \subseteq Nat
BY NumberAssumption DEF None, Fds, Socks

\* Nothing is open.
LEMMA InvInit == Init => IInv
<1> SUFFICES ASSUME Init PROVE IInv
  OBVIOUS
<1>1. twice \in BOOLEAN /\ deaf \subseteq Socks /\ victims \subseteq Socks /\ reg \subseteq Fds
  BY Zenon DEF Init
<1>2. TypeOK
  BY <1>1, NumberAssumption DEF Init, TypeOK, None
<1>3. \A l \in Listeners : TakeOK(l)
  BY DEF Init, TakeOK, Takes
<1>4. \A f \in Fds : FdOK(f)
  BY DEF Init, FdOK
<1> QED
  BY <1>2, <1>3, <1>4 DEF IInv, Init, FreshInv, Unharmed, None

\* What close() does: the number is free, and whoever else was behind it is a
\* victim.
LEMMA ClosedEffect ==
  ASSUME TypeOK, NEW f \in Fds, NEW s, Closed(f, s)
  PROVE  /\ owner' \in [Fds -> Socks \union {None}] /\ reg' \subseteq Fds /\ victims' \subseteq Socks
         /\ \A g \in Fds : owner'[g] = IF g = f THEN None ELSE owner[g]
         /\ reg' = reg \ {f}
         /\ victims' = victims \/ victims' = victims \union {owner[f]}
         /\ owner[f] # None /\ owner[f] # s => owner[f] \in victims'
         /\ owner[f] = None \/ owner[f] = s => victims' = victims
<1>1. owner \in [Fds -> Socks \union {None}] /\ reg \subseteq Fds /\ victims \subseteq Socks
  BY DEF TypeOK
<1> QED
  BY <1>1 DEF Closed

\* What socket() and accept() do.
LEMMA OpenedEffect ==
  ASSUME TypeOK, NEW l \in Listeners, Opened(l)
  PROVE  \E f \in Fds :
           /\ owner[f] = None /\ made' = made + 1 /\ made' \in 1..MaxSocks
           /\ owner' \in [Fds -> Socks \union {None}]
           /\ fd' \in [Listeners -> Fds \union {None}] /\ id' \in [Listeners -> Socks \union {None}]
           /\ \A g \in Fds : owner'[g] = IF g = f THEN made + 1 ELSE owner[g]
           /\ \A k \in Listeners : fd'[k] = IF k = l THEN f ELSE fd[k]
           /\ \A k \in Listeners : id'[k] = IF k = l THEN made + 1 ELSE id[k]
<1>1. PICK f \in Fds :
        /\ owner[f] = None
        /\ made < MaxSocks /\ made' = made + 1
        /\ owner' = [owner EXCEPT ![f] = made + 1]
        /\ fd' = [fd EXCEPT ![l] = f] /\ id' = [id EXCEPT ![l] = made + 1]
  BY DEF Opened
<1>2. made + 1 \in 1..MaxSocks /\ made + 1 \in Socks
  BY <1>1, NumberAssumption DEF TypeOK, Socks
<1> QED
  BY <1>1, <1>2 DEF TypeOK

\* A step that changes nothing keeps it.
LEMMA IInvFrame ==
  ASSUME IInv, UNCHANGED <<at, lfd, lid, fd, id, made, owner, reg, m_state, twice, deaf, victims>>
  PROVE  IInv'
<1>1. TypeOK' /\ FreshInv' /\ Unharmed'
  BY DEF IInv, TypeOK, FreshInv, Unharmed
<1>2. \A l \in Listeners : TakeOK(l)'
  BY DEF IInv, TakeOK, Takes
<1>3. \A f \in Fds : FdOK(f)'
  BY DEF IInv, FdOK, Takes
<1> QED
  BY <1>1, <1>2, <1>3 DEF IInv

\* Every step keeps the invariant.
LEMMA InvStep == IInv /\ [Next]_vars => IInv'
<1> SUFFICES ASSUME IInv, [Next]_vars PROVE IInv'
  OBVIOUS
<1> USE DEF Goto, ownVars, curVars, ghostVars
<1>a. /\ at \in [Listeners -> Places] /\ made \in Nat /\ made <= MaxSocks
      /\ lfd \in [Listeners -> Fds \union {None}] /\ lid \in [Listeners -> Socks \union {None}]
      /\ fd \in [Listeners -> Fds \union {None}] /\ id \in [Listeners -> Socks \union {None}]
      /\ owner \in [Fds -> Socks \union {None}] /\ m_state \in [Fds -> Socks \union {None}]
      /\ reg \subseteq Fds /\ victims \subseteq Socks /\ deaf \subseteq Socks
  BY NumberAssumption DEF IInv, TypeOK, Places
<1>b. None \notin Fds /\ None \notin Socks /\ Socks \subseteq Nat /\ None = 0
  BY NoneIsNothing DEF None
<1>c. TypeOK /\ FreshInv /\ Unharmed /\ (\A l \in Listeners : TakeOK(l)) /\ (\A f \in Fds : FdOK(f))
  BY DEF IInv
<1>d. twice \in BOOLEAN
  BY DEF IInv, TypeOK
<1>1. ASSUME NEW l \in Listeners, Listen(l) PROVE IInv'
  <2>a. PICK f \in Fds :
          /\ owner[f] = None /\ made' = made + 1 /\ made' \in 1..MaxSocks
          /\ owner' \in [Fds -> Socks \union {None}]
          /\ fd' \in [Listeners -> Fds \union {None}] /\ id' \in [Listeners -> Socks \union {None}]
          /\ \A g \in Fds : owner'[g] = IF g = f THEN made + 1 ELSE owner[g]
          /\ \A k \in Listeners : fd'[k] = IF k = l THEN f ELSE fd[k]
          /\ \A k \in Listeners : id'[k] = IF k = l THEN made + 1 ELSE id[k]
    BY <1>c, <1>1, OpenedEffect DEF Listen
  <2>1. /\ at[l] = "socket"
        /\ \A k \in Listeners : at'[k] = IF k = l THEN "create" ELSE at[k]
        /\ UNCHANGED <<lfd, lid, reg, m_state, twice, deaf, victims>>
    BY <1>1, <1>a, <1>c DEF Listen
  <2>2. TypeOK'
    BY <1>c, <1>1, <1>a, <1>b, <2>1, <2>a DEF Listen, TypeOK, Places
  <2>3. FreshInv'
    <3>1. FreshInv
      BY <1>c
    <3>2. made' = made + 1 /\ \A k \in Socks \union {None} : k <= made => k <= made'
      <4>1. \A k \in Socks \union {None} : k \in Nat
        BY <1>b
      <4>2. made \in Nat /\ made' = made + 1
        BY <1>a, <2>a
      <4>3. \A k \in Nat : k <= made => k <= made + 1
        BY <4>2
      <4> QED
        BY <4>1, <4>2, <4>3
    <3>3. \A g \in Fds : owner'[g] <= made' /\ m_state'[g] <= made'
      BY <1>a, <2>a, <2>1, <3>1, <3>2 DEF FreshInv
    <3>4. \A k \in Listeners : id'[k] <= made' /\ lid'[k] <= made'
      BY <1>a, <2>a, <2>1, <3>1, <3>2 DEF FreshInv
    <3>5. \A s \in victims' : s <= made'
      BY <1>a, <2>1, <3>1, <3>2 DEF FreshInv
    <3> QED
      BY <3>3, <3>4, <3>5 DEF FreshInv
  <2>4. Unharmed'
    BY <1>c, <1>a, <1>b, <2>1, <2>a DEF Unharmed
  <2>5. ASSUME NEW j \in Listeners PROVE TakeOK(j)'
    <3>1. TakeOK(j) /\ TakeOK(l) /\ FdOK(f) /\ FreshInv /\ Unharmed
      BY <1>c, <1>a, <1>b, <2>1, <2>a
    <3> QED
      BY <1>a, <1>b, <2>1, <2>a, <3>1 DEF TakeOK, FdOK, Takes, FreshInv, Unharmed
  <2>6. ASSUME NEW h \in Fds PROVE FdOK(h)'
    <3>1. FdOK(h) /\ TakeOK(l) /\ FdOK(f) /\ FreshInv /\ Unharmed
      BY <1>c, <1>a, <1>b, <2>1, <2>a
    <3> QED
      BY <1>a, <1>b, <2>1, <2>a, <3>1 DEF TakeOK, FdOK, Takes, FreshInv, Unharmed
  <2> QED
    BY <2>2, <2>3, <2>4, <2>5, <2>6 DEF IInv
<1>2. ASSUME NEW l \in Listeners, Accept(l) PROVE IInv'
  <2>a. PICK f \in Fds :
          /\ owner[f] = None /\ made' = made + 1 /\ made' \in 1..MaxSocks
          /\ owner' \in [Fds -> Socks \union {None}]
          /\ fd' \in [Listeners -> Fds \union {None}] /\ id' \in [Listeners -> Socks \union {None}]
          /\ \A g \in Fds : owner'[g] = IF g = f THEN made + 1 ELSE owner[g]
          /\ \A k \in Listeners : fd'[k] = IF k = l THEN f ELSE fd[k]
          /\ \A k \in Listeners : id'[k] = IF k = l THEN made + 1 ELSE id[k]
    BY <1>c, <1>2, OpenedEffect DEF Accept
  <2>1. /\ at[l] = "accept"
        /\ \A k \in Listeners : at'[k] = IF k = l THEN "create" ELSE at[k]
        /\ UNCHANGED <<lfd, lid, reg, m_state, twice, deaf, victims>>
    BY <1>2, <1>a, <1>c DEF Accept
  <2>2. TypeOK'
    BY <1>c, <1>2, <1>a, <1>b, <2>1, <2>a DEF Accept, TypeOK, Places
  <2>3. FreshInv'
    <3>1. FreshInv
      BY <1>c
    <3>2. made' = made + 1 /\ \A k \in Socks \union {None} : k <= made => k <= made'
      <4>1. \A k \in Socks \union {None} : k \in Nat
        BY <1>b
      <4>2. made \in Nat /\ made' = made + 1
        BY <1>a, <2>a
      <4>3. \A k \in Nat : k <= made => k <= made + 1
        BY <4>2
      <4> QED
        BY <4>1, <4>2, <4>3
    <3>3. \A g \in Fds : owner'[g] <= made' /\ m_state'[g] <= made'
      BY <1>a, <2>a, <2>1, <3>1, <3>2 DEF FreshInv
    <3>4. \A k \in Listeners : id'[k] <= made' /\ lid'[k] <= made'
      BY <1>a, <2>a, <2>1, <3>1, <3>2 DEF FreshInv
    <3>5. \A s \in victims' : s <= made'
      BY <1>a, <2>1, <3>1, <3>2 DEF FreshInv
    <3> QED
      BY <3>3, <3>4, <3>5 DEF FreshInv
  <2>4. Unharmed'
    BY <1>c, <1>a, <1>b, <2>1, <2>a DEF Unharmed
  <2>5. ASSUME NEW j \in Listeners PROVE TakeOK(j)'
    <3>1. TakeOK(j) /\ TakeOK(l) /\ FdOK(f) /\ FreshInv /\ Unharmed
      BY <1>c, <1>a, <1>b, <2>1, <2>a
    <3> QED
      BY <1>a, <1>b, <2>1, <2>a, <3>1 DEF TakeOK, FdOK, Takes, FreshInv, Unharmed
  <2>6. ASSUME NEW h \in Fds PROVE FdOK(h)'
    <3>1. FdOK(h) /\ TakeOK(l) /\ FdOK(f) /\ FreshInv /\ Unharmed
      BY <1>c, <1>a, <1>b, <2>1, <2>a
    <3> QED
      BY <1>a, <1>b, <2>1, <2>a, <3>1 DEF TakeOK, FdOK, Takes, FreshInv, Unharmed
  <2> QED
    BY <2>2, <2>3, <2>4, <2>5, <2>6 DEF IInv
<1>3. ASSUME NEW l \in Listeners, ListenFails(l) PROVE IInv'
  <2>1. /\ at[l] = "socket"
        /\ \A k \in Listeners : at'[k] = IF k = l THEN "aborted" ELSE at[k]
        /\ UNCHANGED <<lfd, lid, fd, id, made, owner, reg, m_state, twice, deaf, victims>>
    BY <1>3, <1>a, <1>c DEF ListenFails
  <2>2. TypeOK'
    BY <1>c, <1>3, <1>a, <1>b, <2>1 DEF ListenFails, TypeOK, Places
  <2>3. FreshInv'
    BY <1>c, <1>a, <1>b, <2>1 DEF FreshInv
  <2>4. Unharmed'
    BY <1>c, <1>a, <1>b, <2>1 DEF Unharmed
  <2>5. ASSUME NEW j \in Listeners PROVE TakeOK(j)'
    <3>1. TakeOK(j) /\ TakeOK(l) /\ FreshInv /\ Unharmed
      BY <1>c, <1>a, <1>b, <2>1
    <3> QED
      BY <1>a, <1>b, <2>1, <3>1 DEF TakeOK, FdOK, Takes, FreshInv, Unharmed
  <2>6. ASSUME NEW h \in Fds PROVE FdOK(h)'
    <3>1. FdOK(h) /\ TakeOK(l) /\ FreshInv /\ Unharmed
      BY <1>c, <1>a, <1>b, <2>1
    <3> QED
      BY <1>a, <1>b, <2>1, <3>1 DEF TakeOK, FdOK, Takes, FreshInv, Unharmed
  <2> QED
    BY <2>2, <2>3, <2>4, <2>5, <2>6 DEF IInv
<1>4. ASSUME NEW l \in Listeners, Create(l) PROVE IInv'
  <2>1. /\ at[l] = "create"
        /\ \A k \in Listeners : at'[k] = IF k = l THEN "nonblock" ELSE at[k]
        /\ UNCHANGED <<lfd, lid, fd, id, made, owner, reg, m_state, twice, deaf, victims>>
    BY <1>4, <1>a, <1>c DEF Create
  <2>2. TypeOK'
    BY <1>c, <1>4, <1>a, <1>b, <2>1 DEF Create, TypeOK, Places
  <2>3. FreshInv'
    BY <1>c, <1>a, <1>b, <2>1 DEF FreshInv
  <2>4. Unharmed'
    BY <1>c, <1>a, <1>b, <2>1 DEF Unharmed
  <2>5. ASSUME NEW j \in Listeners PROVE TakeOK(j)'
    <3>1. TakeOK(j) /\ TakeOK(l) /\ FreshInv /\ Unharmed
      BY <1>c, <1>a, <1>b, <2>1
    <3> QED
      BY <1>a, <1>b, <2>1, <3>1 DEF TakeOK, FdOK, Takes, FreshInv, Unharmed
  <2>6. ASSUME NEW h \in Fds PROVE FdOK(h)'
    <3>1. FdOK(h) /\ TakeOK(l) /\ FreshInv /\ Unharmed
      BY <1>c, <1>a, <1>b, <2>1
    <3> QED
      BY <1>a, <1>b, <2>1, <3>1 DEF TakeOK, FdOK, Takes, FreshInv, Unharmed
  <2> QED
    BY <2>2, <2>3, <2>4, <2>5, <2>6 DEF IInv
<1>5. ASSUME NEW l \in Listeners, NewFails(l) PROVE IInv'
  <2>1. /\ at[l] = "create"
        /\ \A k \in Listeners : at'[k] = IF k = l THEN "catch" ELSE at[k]
        /\ UNCHANGED <<lfd, lid, fd, id, made, owner, reg, m_state, twice, deaf, victims>>
    BY <1>5, <1>a, <1>c DEF NewFails
  <2>2. TypeOK'
    BY <1>c, <1>5, <1>a, <1>b, <2>1 DEF NewFails, TypeOK, Places
  <2>3. FreshInv'
    BY <1>c, <1>a, <1>b, <2>1 DEF FreshInv
  <2>4. Unharmed'
    BY <1>c, <1>a, <1>b, <2>1 DEF Unharmed
  <2>5. ASSUME NEW j \in Listeners PROVE TakeOK(j)'
    <3>1. TakeOK(j) /\ TakeOK(l) /\ FreshInv /\ Unharmed
      BY <1>c, <1>a, <1>b, <2>1
    <3> QED
      BY <1>a, <1>b, <2>1, <3>1 DEF TakeOK, FdOK, Takes, FreshInv, Unharmed
  <2>6. ASSUME NEW h \in Fds PROVE FdOK(h)'
    <3>1. FdOK(h) /\ TakeOK(l) /\ FreshInv /\ Unharmed
      BY <1>c, <1>a, <1>b, <2>1
    <3> QED
      BY <1>a, <1>b, <2>1, <3>1 DEF TakeOK, FdOK, Takes, FreshInv, Unharmed
  <2> QED
    BY <2>2, <2>3, <2>4, <2>5, <2>6 DEF IInv
<1>6. ASSUME NEW l \in Listeners, Nonblock(l) PROVE IInv'
  <2>1. /\ at[l] = "nonblock"
        /\ \A k \in Listeners : at'[k] = IF k = l THEN "set" ELSE at[k]
        /\ UNCHANGED <<lfd, lid, fd, id, made, owner, reg, m_state, twice, deaf, victims>>
    BY <1>6, <1>a, <1>c DEF Nonblock
  <2>2. TypeOK'
    BY <1>c, <1>6, <1>a, <1>b, <2>1 DEF Nonblock, TypeOK, Places
  <2>3. FreshInv'
    BY <1>c, <1>a, <1>b, <2>1 DEF FreshInv
  <2>4. Unharmed'
    BY <1>c, <1>a, <1>b, <2>1 DEF Unharmed
  <2>5. ASSUME NEW j \in Listeners PROVE TakeOK(j)'
    <3>1. TakeOK(j) /\ TakeOK(l) /\ FreshInv /\ Unharmed
      BY <1>c, <1>a, <1>b, <2>1
    <3> QED
      BY <1>a, <1>b, <2>1, <3>1 DEF TakeOK, FdOK, Takes, FreshInv, Unharmed
  <2>6. ASSUME NEW h \in Fds PROVE FdOK(h)'
    <3>1. FdOK(h) /\ TakeOK(l) /\ FreshInv /\ Unharmed
      BY <1>c, <1>a, <1>b, <2>1
    <3> QED
      BY <1>a, <1>b, <2>1, <3>1 DEF TakeOK, FdOK, Takes, FreshInv, Unharmed
  <2> QED
    BY <2>2, <2>3, <2>4, <2>5, <2>6 DEF IInv
<1>7. ASSUME NEW l \in Listeners, AcceptFails(l) PROVE IInv'
  <2>a. PICK f \in Fds, s \in Socks \union {None} : f = lfd[l] /\ s = lid[l]
    BY <1>7, <1>a, <1>b, <1>c DEF AcceptFails, Serving
  <2>b. Closed(f, s)
    BY <1>7, <2>a DEF AcceptFails
  <2>c. s # None
    BY <1>7, <1>b, <1>c, <2>a DEF AcceptFails, Serving, TakeOK
  <2>1. /\ at[l] = "accept"
        /\ m_state[f] = s
        /\ s = lid[l]
        /\ s # None
        /\ \A k \in Listeners : at'[k] = IF k = l THEN "gone" ELSE at[k]
        /\ \A g \in Fds : m_state'[g] = IF g = f THEN None ELSE m_state[g]
        /\ \A g \in Fds : owner'[g] = IF g = f THEN None ELSE owner[g]
        /\ reg' = reg \ {f}
        /\ victims' = victims \/ victims' = victims \union {owner[f]}
        /\ owner[f] # None /\ owner[f] # s => owner[f] \in victims'
        /\ owner[f] = None \/ owner[f] = s => victims' = victims
        /\ UNCHANGED <<lfd, lid, fd, id, made, twice, deaf>>
    BY <1>7, <1>a, <1>c, <1>b, <2>a, <2>c, <2>b, ClosedEffect DEF AcceptFails
  <2>2. TypeOK'
    BY <1>c, <1>7, <1>a, <1>b, <2>1, <2>a, <2>b, ClosedEffect DEF AcceptFails, TypeOK, Places
  <2>3. FreshInv'
    BY <1>c, <1>a, <1>b, <2>1, <2>a DEF FreshInv
  <2>4. Unharmed'
    <3>1. ~twice => victims = {} /\ owner[f] = s
      BY <1>c, <2>a, <2>1 DEF Unharmed, FdOK
    <3> QED
      BY <1>c, <2>1, <3>1 DEF Unharmed
  <2>5. ASSUME NEW j \in Listeners PROVE TakeOK(j)'
    <3>1. TakeOK(j) /\ TakeOK(l) /\ FdOK(f) /\ FreshInv /\ Unharmed
      BY <1>c, <1>a, <1>b, <2>1, <2>a
    <3> QED
      BY <1>a, <1>b, <2>1, <2>a, <3>1 DEF TakeOK, FdOK, Takes, FreshInv, Unharmed
  <2>6. ASSUME NEW h \in Fds PROVE FdOK(h)'
    <3>1. FdOK(h) /\ TakeOK(l) /\ FdOK(f) /\ FreshInv /\ Unharmed
      BY <1>c, <1>a, <1>b, <2>1, <2>a
    <3> QED
      BY <1>a, <1>b, <2>1, <2>a, <3>1 DEF TakeOK, FdOK, Takes, FreshInv, Unharmed
  <2> QED
    BY <2>2, <2>3, <2>4, <2>5, <2>6 DEF IInv
<1>8. ASSUME NEW l \in Listeners, HandlerFails(l) PROVE IInv'
  <2>a. PICK f \in Fds, s \in Socks \union {None} : f = fd[l] /\ s = id[l]
    BY <1>8, <1>a, <1>b, <1>c DEF HandlerFails, TakeOK, Takes
  <2>b. Closed(f, s)
    BY <1>8, <2>a DEF HandlerFails
  <2>1. /\ at[l] \in {"create", "nonblock"}
        /\ f = fd[l]
        /\ s = id[l]
        /\ \A k \in Listeners : at'[k] = IF k = l THEN "catch" ELSE at[k]
        /\ twice' = TRUE
        /\ \A g \in Fds : owner'[g] = IF g = f THEN None ELSE owner[g]
        /\ reg' = reg \ {f}
        /\ victims' = victims \/ victims' = victims \union {owner[f]}
        /\ owner[f] # None /\ owner[f] # s => owner[f] \in victims'
        /\ owner[f] = None \/ owner[f] = s => victims' = victims
        /\ UNCHANGED <<lfd, lid, fd, id, made, m_state, deaf>>
    BY <1>8, <1>a, <1>c, <2>a, <2>b, ClosedEffect DEF HandlerFails
  <2>2. TypeOK'
    BY <1>c, <1>8, <1>a, <1>b, <2>1, <2>a, <2>b, ClosedEffect DEF HandlerFails, TypeOK, Places
  <2>3. FreshInv'
    BY <1>c, <1>a, <1>b, <2>1, <2>a DEF FreshInv
  <2>4. Unharmed'
    BY <1>c, <1>a, <1>b, <2>1, <2>a DEF Unharmed
  <2>5. ASSUME NEW j \in Listeners PROVE TakeOK(j)'
    <3>1. TakeOK(j) /\ TakeOK(l) /\ FdOK(f) /\ FreshInv /\ Unharmed
      BY <1>c, <1>a, <1>b, <2>1, <2>a
    <3> QED
      BY <1>a, <1>b, <2>1, <2>a, <3>1 DEF TakeOK, FdOK, Takes, FreshInv, Unharmed
  <2>6. ASSUME NEW h \in Fds PROVE FdOK(h)'
    <3>1. FdOK(h) /\ TakeOK(l) /\ FdOK(f) /\ FreshInv /\ Unharmed
      BY <1>c, <1>a, <1>b, <2>1, <2>a
    <3> QED
      BY <1>a, <1>b, <2>1, <2>a, <3>1 DEF TakeOK, FdOK, Takes, FreshInv, Unharmed
  <2> QED
    BY <2>2, <2>3, <2>4, <2>5, <2>6 DEF IInv
<1>9. ASSUME NEW l \in Listeners, Catch(l) PROVE IInv'
  <2>a. PICK f \in Fds, s \in Socks \union {None} : f = fd[l] /\ s = id[l]
    BY <1>9, <1>a, <1>b, <1>c DEF Catch, TakeOK, Takes
  <2>b. Closed(f, s)
    BY <1>9, <2>a DEF Catch
  <2>1. /\ at[l] = "catch"
        /\ f = fd[l]
        /\ s = id[l]
        /\ \A k \in Listeners : k # l => at'[k] = at[k]
        /\ at'[l] \in {"aborted", "accept"}
        /\ \A g \in Fds : owner'[g] = IF g = f THEN None ELSE owner[g]
        /\ reg' = reg \ {f}
        /\ victims' = victims \/ victims' = victims \union {owner[f]}
        /\ owner[f] # None /\ owner[f] # s => owner[f] \in victims'
        /\ owner[f] = None \/ owner[f] = s => victims' = victims
        /\ UNCHANGED <<lfd, lid, fd, id, made, m_state, twice, deaf>>
    BY <1>9, <1>a, <1>c, <2>a, <2>b, ClosedEffect DEF Catch
  <2>2. TypeOK'
    BY <1>c, <1>9, <1>a, <1>b, <2>1, <2>a, <2>b, ClosedEffect DEF Catch, TypeOK, Places
  <2>3. FreshInv'
    <3>1. \A v \in victims' : v <= made
      BY <1>c, <2>a, <2>1 DEF FreshInv
    <3>2. \A g \in Fds : owner'[g] <= made
      BY <1>a, <1>b, <1>c, <2>1 DEF FreshInv
    <3> QED
      BY <1>a, <1>b, <1>c, <2>1, <3>1, <3>2 DEF FreshInv
  <2>4. Unharmed'
    <3>1. ~twice => victims = {} /\ owner[f] = s
      BY <1>c, <2>a, <2>1 DEF Unharmed, TakeOK, Takes
    <3> QED
      BY <1>c, <2>1, <3>1 DEF Unharmed
  <2>5. ASSUME NEW j \in Listeners PROVE TakeOK(j)'
    <3>1. TakeOK(j) /\ TakeOK(l) /\ FdOK(f) /\ FreshInv /\ Unharmed
      BY <1>c, <1>a, <1>b, <2>1, <2>a
    <3> QED
      BY <1>a, <1>b, <2>1, <2>a, <3>1 DEF TakeOK, FdOK, Takes, FreshInv, Unharmed
  <2>6. ASSUME NEW h \in Fds PROVE FdOK(h)'
    <3>1. FdOK(h) /\ TakeOK(l) /\ FdOK(f) /\ FreshInv /\ Unharmed
      BY <1>c, <1>a, <1>b, <2>1, <2>a
    <3> QED
      BY <1>a, <1>b, <2>1, <2>a, <3>1 DEF TakeOK, FdOK, Takes, FreshInv, Unharmed
  <2> QED
    BY <2>2, <2>3, <2>4, <2>5, <2>6 DEF IInv
<1>10. ASSUME NEW f \in Fds, HandlerEnds(f) PROVE IInv'
  <2>a. PICK s \in Socks : s = m_state[f]
    BY <1>10 DEF HandlerEnds
  <2>b. Closed(f, s)
    BY <1>10, <2>a DEF HandlerEnds
  <2>1. /\ f \in reg
        /\ m_state[f] = s
        /\ s # None
        /\ \A g \in Fds : m_state'[g] = IF g = f THEN None ELSE m_state[g]
        /\ \A g \in Fds : owner'[g] = IF g = f THEN None ELSE owner[g]
        /\ reg' = reg \ {f}
        /\ victims' = victims \/ victims' = victims \union {owner[f]}
        /\ owner[f] # None /\ owner[f] # s => owner[f] \in victims'
        /\ owner[f] = None \/ owner[f] = s => victims' = victims
        /\ UNCHANGED <<at, lfd, lid, fd, id, made, twice, deaf>>
    BY <1>10, <1>a, <1>c, <1>b, <2>a, <2>b, ClosedEffect DEF HandlerEnds
  <2>2. TypeOK'
    BY <1>c, <1>10, <1>a, <1>b, <2>1, <2>a, <2>b, ClosedEffect DEF HandlerEnds, TypeOK, Places
  <2>3. FreshInv'
    <3>1. \A v \in victims' : v <= made
      BY <1>c, <2>a, <2>1 DEF FreshInv
    <3>2. \A g \in Fds : owner'[g] <= made
      BY <1>a, <1>b, <1>c, <2>1 DEF FreshInv
    <3> QED
      BY <1>a, <1>b, <1>c, <2>1, <3>1, <3>2 DEF FreshInv
  <2>4. Unharmed'
    <3>1. ~twice => victims = {} /\ owner[f] = s
      BY <1>c, <2>a, <2>1 DEF Unharmed, FdOK
    <3> QED
      BY <1>c, <2>1, <3>1 DEF Unharmed
  <2>5. ASSUME NEW j \in Listeners PROVE TakeOK(j)'
    <3>1. TakeOK(j) /\ FdOK(f) /\ FreshInv /\ Unharmed
      BY <1>c, <1>a, <1>b, <2>1, <2>a
    <3> QED
      BY <1>a, <1>b, <2>1, <2>a, <3>1 DEF TakeOK, FdOK, Takes, FreshInv, Unharmed
  <2>6. ASSUME NEW h \in Fds PROVE FdOK(h)'
    <3>1. FdOK(h) /\ FdOK(f) /\ FreshInv /\ Unharmed
      BY <1>c, <1>a, <1>b, <2>1, <2>a
    <3> QED
      BY <1>a, <1>b, <2>1, <2>a, <3>1 DEF TakeOK, FdOK, Takes, FreshInv, Unharmed
  <2> QED
    BY <2>2, <2>3, <2>4, <2>5, <2>6 DEF IInv
<1>11. ASSUME NEW l \in Listeners, SetHandler(l) PROVE IInv'
  <2>a. PICK f \in Fds, s \in Socks \union {None} : f = fd[l] /\ s = m_state[f]
    BY <1>11, <1>a, <1>c DEF SetHandler, TakeOK, Takes
  <2>b. IF s = None THEN UNCHANGED <<owner, reg, victims>> ELSE Closed(f, s)
    BY <1>11, <2>a DEF SetHandler
  <2>1. /\ at[l] = "set"
        /\ f = fd[l]
        /\ s = m_state[f]
        /\ \A k \in Listeners : at'[k] = IF k = l THEN "add" ELSE at[k]
        /\ \A g \in Fds : m_state'[g] = IF g = f THEN id[l] ELSE m_state[g]
        /\ s = None => UNCHANGED <<owner, reg, victims>>
        /\ s # None =>
             /\ \A g \in Fds : owner'[g] = IF g = f THEN None ELSE owner[g]
             /\ reg' = reg \ {f}
             /\ victims' = victims \/ victims' = victims \union {owner[f]}
             /\ owner[f] # None /\ owner[f] # s => owner[f] \in victims'
             /\ owner[f] = None \/ owner[f] = s => victims' = victims
        /\ UNCHANGED <<lfd, lid, fd, id, made, twice, deaf>>
    BY <1>11, <1>a, <1>c, <2>a, <2>b, ClosedEffect DEF SetHandler
  <2>2. TypeOK'
    BY <1>c, <1>11, <1>a, <1>b, <2>1, <2>a, <2>b, ClosedEffect DEF SetHandler, TypeOK, Places
  <2>3. FreshInv'
    <3>1. CASE s = None
      BY <1>a, <1>c, <2>1, <3>1 DEF FreshInv
    <3>2. CASE s # None
      <4>1. \A v \in victims' : v <= made
        BY <1>c, <2>a, <2>1, <3>2 DEF FreshInv
      <4>2. \A g \in Fds : owner'[g] <= made
        BY <1>a, <1>b, <1>c, <2>1, <3>2 DEF FreshInv
      <4> QED
        BY <1>a, <1>b, <1>c, <2>1, <4>1, <4>2 DEF FreshInv
    <3> QED
      BY <3>1, <3>2
  <2>4. Unharmed'
    <3>1. ~twice => victims = {} /\ owner[f] = id[l]
      BY <1>c, <2>a, <2>1 DEF Unharmed, TakeOK, Takes
    <3>2. ~twice /\ s # None => s = id[l] /\ at[l] = "add"
      BY <1>c, <2>a, <2>1, <3>1 DEF FdOK, Takes
    <3> QED
      BY <1>c, <2>1, <3>1, <3>2 DEF Unharmed
  <2>5. ASSUME NEW j \in Listeners PROVE TakeOK(j)'
    <3>1. TakeOK(j) /\ TakeOK(l) /\ FdOK(f) /\ FdOK(fd[l]) /\ FreshInv /\ Unharmed
      BY <1>c, <1>a, <1>b, <2>1, <2>a
    <3> QED
      BY <1>a, <1>b, <2>1, <2>a, <3>1 DEF TakeOK, FdOK, Takes, FreshInv, Unharmed
  <2>6. ASSUME NEW h \in Fds PROVE FdOK(h)'
    <3>1. FdOK(h) /\ TakeOK(l) /\ FdOK(f) /\ FdOK(fd[l]) /\ FreshInv /\ Unharmed
      BY <1>c, <1>a, <1>b, <2>1, <2>a
    <3> QED
      BY <1>a, <1>b, <2>1, <2>a, <3>1 DEF TakeOK, FdOK, Takes, FreshInv, Unharmed
  <2> QED
    BY <2>2, <2>3, <2>4, <2>5, <2>6 DEF IInv
<1>12. ASSUME NEW l \in Listeners, AddFd(l) PROVE IInv'
  <2>a. PICK f \in Fds : f = fd[l]
    BY <1>12, <1>a, <1>c DEF AddFd, TakeOK, Takes
  <2>1. /\ at[l] = "add"
        /\ f = fd[l]
        /\ \A k \in Listeners : at'[k] = IF k = l THEN "accept" ELSE at[k]
        /\ \/ owner[f] # None /\ reg' = reg \union {f} /\ deaf' = deaf
           \/ reg' = reg /\ deaf' = deaf \union {id[l]}
        /\ \A k \in Listeners : (lfd'[k] = lfd[k] /\ lid'[k] = lid[k]) \/ (k = l /\ lid'[k] = id[l])
        /\ UNCHANGED <<fd, id, made, owner, m_state, twice, victims>>
    BY <1>12, <1>a, <1>c, <2>a DEF AddFd, TakenIn
  <2>2. TypeOK'
    <3>1. reg' \subseteq Fds /\ deaf' \subseteq Socks
      BY <1>a, <1>b, <1>c, <2>a, <2>1 DEF TakeOK, Takes
    <3>2. lfd' \in [Listeners -> Fds \union {None}] /\ lid' \in [Listeners -> Socks \union {None}]
      BY <1>12, <1>a DEF AddFd, TakenIn
    <3>3. at' \in [Listeners -> Places]
      BY <1>12, <1>a DEF AddFd, TakenIn, Places
    <3> QED
      BY <1>c, <2>1, <3>1, <3>2, <3>3 DEF TypeOK, Places
  <2>3. FreshInv'
    BY <1>c, <1>a, <1>b, <2>1, <2>a DEF FreshInv
  <2>4. Unharmed'
    BY <1>c, <1>a, <1>b, <2>1, <2>a DEF Unharmed
  <2>5. ASSUME NEW j \in Listeners PROVE TakeOK(j)'
    <3>1. TakeOK(j) /\ TakeOK(l) /\ FdOK(f) /\ FdOK(fd[l]) /\ FreshInv /\ Unharmed
      BY <1>c, <1>a, <1>b, <2>1, <2>a
    <3> QED
      BY <1>a, <1>b, <2>1, <2>a, <3>1 DEF TakeOK, FdOK, Takes, FreshInv, Unharmed
  <2>6. ASSUME NEW h \in Fds PROVE FdOK(h)'
    <3>1. FdOK(h) /\ TakeOK(l) /\ FdOK(f) /\ FdOK(fd[l]) /\ FreshInv /\ Unharmed
      BY <1>c, <1>a, <1>b, <2>1, <2>a
    <3> QED
      BY <1>a, <1>b, <2>1, <2>a, <3>1 DEF TakeOK, FdOK, Takes, FreshInv, Unharmed
  <2> QED
    BY <2>2, <2>3, <2>4, <2>5, <2>6 DEF IInv
<1>13. CASE UNCHANGED vars
  BY <1>13, IInvFrame DEF vars
<1> QED
  BY <1>1, <1>2, <1>3, <1>4, <1>5, <1>6, <1>7, <1>8, <1>9, <1>10, <1>11, <1>12, <1>13
     DEF Next, Waiting

\* The inductive invariant: types, numbering, whose each descriptor is, and
\* what a listener that takes a socket in may rely on.
THEOREM Invariance == Spec => []IInv
<1>1. Init => IInv
  BY InvInit
<1>2. IInv /\ [Next]_vars => IInv'
  BY InvStep
<1> QED
  BY <1>1, <1>2, PTL DEF Spec

\* The variables of the listeners keep their types.
THEOREM TypeCorrect == Spec => []TypeOK
<1>1. IInv => TypeOK
  BY DEF IInv
<1> QED
  BY <1>1, Invariance, PTL

\* No socket is closed in place of another one, unless a handler was destroyed
\* on the way to the catch block, which closes its number a second time
\* (wavy_listen.cc:58-62, wavy_base.cc:214).
THEOREM NobodyHarmed == Spec => []Unharmed
<1>1. IInv => Unharmed
  BY DEF IInv
<1> QED
  BY <1>1, Invariance, PTL

\* Whatever failed on its way, a socket that nobody is taking in is open, has
\* its own handler and is registered, or is gone altogether; excepted are the
\* ones whose add_fd failed and the victims (wavy_listen.cc:58-62,
\* wavy_base.cc:207-218).
THEOREM SocketsSettled == Spec => []Settled
<1>1. ASSUME IInv PROVE Settled
  <2> SUFFICES ASSUME NEW f \in Fds, NEW s \in Socks \ (TakingIn \union victims),
                      owner[f] = s \/ m_state[f] = s
               PROVE  owner[f] = s /\ m_state[f] = s /\ (f \in reg \/ s \in deaf)
    BY DEF Settled
  <2>1. FdOK(f) /\ s # None /\ s \notin victims
    BY <1>1, NoneIsNothing DEF IInv
  <2>2. \A l \in Listeners : Takes(l) => id[l] # s
    BY DEF TakingIn, Takes
  <2>3. owner[f] = s
    BY <2>1 DEF FdOK
  <2> QED
    BY <2>1, <2>2, <2>3 DEF FdOK
<1> QED
  BY <1>1, Invariance, PTL
=============================================================================
