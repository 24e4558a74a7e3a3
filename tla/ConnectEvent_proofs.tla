------------------------ MODULE ConnectEvent_proofs ------------------------
(***************************************************************************)
(* ConnectEvent for any number of calls, descriptors and workers: a        *)
(* callback is called at most once, and the descriptor it is given is the  *)
(* connected socket of its call and stays with it.                         *)
(***************************************************************************)
EXTENDS ConnectEvent, TLAPS

-----------------------------------------------------------------------------
(* Types.                                                                  *)

Places == {"idle", "failed", "connected", "handler", "addfd", "timer",
           "settimer", "addtimer", "untimed", "queued", "returned"}

Owners == {None} \union ({"sock", "timer", "user"} \X Calls)

Jobs == [at : {"poll", "call", "getsockopt", "remove", "reset"}, fd : Fds, c : Calls]

\* The initial state is well typed.
LEMMA TypeInit == Init => TypeOK
<1> SUFFICES ASSUME Init PROVE TypeOK
  OBVIOUS
<1>1. /\ at \in [Calls -> Places] /\ m_done \in [Calls -> BOOLEAN] /\ cb \in [Calls -> Seq(BOOLEAN)]
      /\ peer \in [Calls -> {"pending", "established", "data", "refused"}]
      /\ sock \in [Calls -> Fds \union {0}] /\ tfd \in [Calls -> Fds \union {0}]
  BY DEF Init, Places
<1>2. /\ owner \in [Fds -> Owners] /\ reg \in [Fds -> {"none", "armed", "shot"}]
      /\ m_state \in [Fds -> {None} \union ({"connect", "timeout"} \X Calls)]
  BY DEF Init, Owners
<1>3. work \in [Workers -> {Idle} \union Jobs]
  BY DEF Init
<1>4. expired \subseteq Calls /\ hit \subseteq Calls /\ crashed \in BOOLEAN
  BY Zenon DEF Init
<1> QED
  BY <1>1, <1>2, <1>3, <1>4 DEF TypeOK, Places, Owners, Jobs

\* close() leaves well-typed tables.
LEMMA ClosedType ==
  ASSUME TypeOK, NEW f, Closed(f)
  PROVE  owner' \in [Fds -> Owners] /\ reg' \in [Fds -> {"none", "armed", "shot"}]
BY DEF TypeOK, Closed, Owners

\* So does giving a descriptor to the owner of the callback.
LEMMA CallbackType ==
  ASSUME TypeOK, NEW c \in Calls, NEW given \in BOOLEAN, Callback(c, given)
  PROVE  cb' \in [Calls -> Seq(BOOLEAN)] /\ cb' = [cb EXCEPT ![c] = Append(cb[c], given)]
BY DEF TypeOK, Callback

\* A callback with a descriptor is a callback, and makes it the user's.
LEMMA CallbackFdType ==
  ASSUME TypeOK, NEW c \in Calls, NEW f, CallbackFd(c, f)
  PROVE  /\ cb' \in [Calls -> Seq(BOOLEAN)] /\ cb' = [cb EXCEPT ![c] = Append(cb[c], TRUE)]
         /\ owner' \in [Fds -> Owners] /\ reg' \in [Fds -> {"none", "armed", "shot"}]
<1>1. Callback(c, TRUE) /\ owner' = [owner EXCEPT ![f] = <<"user", c>>] /\ reg' = reg
  BY DEF CallbackFd
<1>2. <<"user", c>> \in Owners /\ owner \in [Fds -> Owners]
  BY DEF Owners, TypeOK
<1>3. owner' \in [Fds -> Owners]
  BY <1>1, <1>2
<1> QED
  BY <1>1, <1>3, CallbackType DEF TypeOK

\* Settle closes the descriptor or gives it away, and calls back once.
LEMMA SettleType ==
  ASSUME TypeOK, NEW c \in Calls, NEW f, Settle(c, f)
  PROVE  /\ cb' \in [Calls -> Seq(BOOLEAN)]
         /\ \E given \in BOOLEAN : cb' = [cb EXCEPT ![c] = Append(cb[c], given)]
         /\ owner' \in [Fds -> Owners] /\ reg' \in [Fds -> {"none", "armed", "shot"}]
<1>1. CASE peer[c] = "refused"
  BY <1>1, ClosedType, CallbackType DEF Settle
<1>2. CASE peer[c] # "refused"
  BY <1>2, CallbackFdType DEF Settle
<1> QED
  BY <1>1, <1>2

\* A worker at work is working on a job.
LEMMA AtWork ==
  ASSUME TypeOK, NEW w \in Workers, work[w].at # "idle"
  PROVE  work[w] \in Jobs /\ work[w].fd \in Fds /\ work[w].c \in Calls
<1>1. work[w] \in {Idle} \union Jobs
  BY DEF TypeOK, Jobs
<1>2. Idle.at = "idle"
  BY DEF Idle
<1> QED
  BY <1>1, <1>2 DEF Jobs

\* What the next stage of a job looks like.
LEMMA StageType ==
  ASSUME TypeOK, NEW w \in Workers, work[w].at # "idle",
         NEW l \in {"poll", "call", "getsockopt", "remove", "reset"}, Stage(w, l)
  PROVE  /\ work' \in [Workers -> {Idle} \union Jobs]
         /\ work'[w].at = l /\ work'[w].fd = work[w].fd /\ work'[w].c = work[w].c
         /\ \A v \in Workers : v # w => work'[v] = work[v]
<1>1. work[w] \in Jobs
  BY AtWork
<1>2. work' = [work EXCEPT ![w] = [work[w] EXCEPT !.at = l]]
  BY DEF Stage
<1>3. /\ [work[w] EXCEPT !.at = l] \in Jobs
      /\ [work[w] EXCEPT !.at = l].at = l
      /\ [work[w] EXCEPT !.at = l].fd = work[w].fd
      /\ [work[w] EXCEPT !.at = l].c = work[w].c
  BY <1>1 DEF Jobs
<1>4. work \in [Workers -> {Idle} \union Jobs]
  BY DEF TypeOK, Jobs
<1> QED
  BY <1>2, <1>3, <1>4

\* A worker that is done is idle again.
LEMMA IdleType ==
  ASSUME TypeOK, NEW w \in Workers, work' = [work EXCEPT ![w] = Idle]
  PROVE  /\ work' \in [Workers -> {Idle} \union Jobs]
         /\ work'[w].at = "idle" /\ \A v \in Workers : v # w => work'[v] = work[v]
<1>1. work \in [Workers -> {Idle} \union Jobs] /\ Idle.at = "idle"
  BY DEF TypeOK, Jobs, Idle
<1> QED
  BY <1>1

\* The variables keep their types.
LEMMA TypeStep == TypeOK /\ [Next]_vars => TypeOK'
<1> SUFFICES ASSUME TypeOK, [Next]_vars PROVE TypeOK'
  OBVIOUS
<1> USE DEF TypeOK, Goto, callVars, worldVars, kernelVars, ghostVars
<1>1. ASSUME NEW c \in Calls, ConnectFails(c) PROVE TypeOK'
  BY <1>1 DEF ConnectFails
<1>2. ASSUME NEW c \in Calls, ConnectThread(c) PROVE TypeOK'
  BY <1>2 DEF ConnectThread
<1>3. ASSUME NEW c \in Calls, SetHandler(c) PROVE TypeOK'
  BY <1>3 DEF SetHandler
<1>4. ASSUME NEW c \in Calls, SetHandlerFails(c) PROVE TypeOK'
  BY <1>4 DEF SetHandlerFails, Closed
<1>5. ASSUME NEW c \in Calls, AddFd(c) PROVE TypeOK'
  <2>1. PICK r \in {"armed", "none"} : reg' = [reg EXCEPT ![sock[c]] = r]
    BY <1>5 DEF AddFd
  <2>2. reg' \in [Fds -> {"none", "armed", "shot"}]
    BY <2>1
  <2> QED
    BY <2>2, <1>5 DEF AddFd
<1>6. ASSUME NEW c \in Calls, CreateTimerFails(c) PROVE TypeOK'
  BY <1>6 DEF CreateTimerFails
<1>7. ASSUME NEW c \in Calls, SetTimerHandler(c) PROVE TypeOK'
  BY <1>7 DEF SetTimerHandler
<1>8. ASSUME NEW c \in Calls, AddTimer(c) PROVE TypeOK'
  BY <1>8 DEF AddTimer
<1>9. ASSUME NEW c \in Calls, AddTimerFails(c) PROVE TypeOK'
  BY <1>9 DEF AddTimerFails, Closed
<1>10. ASSUME NEW c \in Calls, NEW f \in Fds, Connect(c, f) PROVE TypeOK'
  <2>1. owner' \in [Fds -> Owners]
    BY <1>10 DEF Connect, Opened, Owners
  <2>2. sock' \in [Calls -> Fds \union {0}]
    BY <1>10 DEF Connect
  <2>3. peer' \in [Calls -> {"pending", "established", "data", "refused"}]
    BY <1>10 DEF Connect
  <2>4. at' \in [Calls -> Places]
    <3>1. PICK l \in {"connected", "handler"} : at' = [at EXCEPT ![c] = l]
      BY <1>10 DEF Connect
    <3> QED
      BY <3>1 DEF Places
  <2> QED
    BY <2>1, <2>2, <2>3, <2>4, <1>10 DEF Connect, Opened, Owners, Places
<1>11. ASSUME NEW c \in Calls, NEW f \in Fds, CreateTimer(c, f) PROVE TypeOK'
  BY <1>11 DEF CreateTimer, Opened
<1>12. ASSUME NEW w \in Workers, NEW c \in Calls, RunTask(w, c) PROVE TypeOK'
  <2>1. /\ cb' \in [Calls -> Seq(BOOLEAN)]
        /\ owner' \in [Fds -> Owners] /\ reg' \in [Fds -> {"none", "armed", "shot"}]
    <3>1. CASE at[c] = "connected"
      BY <1>12, <3>1, CallbackFdType DEF RunTask
    <3>2. CASE at[c] # "connected"
      BY <1>12, <3>2, CallbackType DEF RunTask, Owners
    <3> QED
      BY <3>1, <3>2
  <2> QED
    BY <2>1, <1>12 DEF RunTask, Owners
<1>13. ASSUME NEW w \in Workers, NEW c \in Calls, TaskFails(w, c) PROVE TypeOK'
  BY <1>13 DEF TaskFails, Callback
<1>14. ASSUME NEW w \in Workers, NEW c \in Calls, NEW f \in Fds, TaskConnect(w, c, f) PROVE TypeOK'
  BY <1>14 DEF TaskConnect, Opened
<1>15. ASSUME NEW w \in Workers, TaskPolled(w) PROVE TypeOK'
  <2>1. work[w].c \in Calls
    BY <1>15, AtWork DEF TaskPolled
  <2>2. /\ cb' \in [Calls -> Seq(BOOLEAN)]
        /\ owner' \in [Fds -> Owners] /\ reg' \in [Fds -> {"none", "armed", "shot"}]
    BY <1>15, <2>1, SettleType DEF TaskPolled
  <2>3. work' \in [Workers -> {Idle} \union Jobs]
    BY <1>15, IdleType DEF TaskPolled
  <2> QED
    BY <2>2, <2>3, <1>15 DEF TaskPolled, Owners, Jobs
<1>16. ASSUME NEW w \in Workers, TaskTimeout(w) PROVE TypeOK'
  <2>1. work[w].c \in Calls
    BY <1>16, AtWork DEF TaskTimeout
  <2>2. owner' \in [Fds -> Owners] /\ reg' \in [Fds -> {"none", "armed", "shot"}]
    BY <1>16, ClosedType DEF TaskTimeout
  <2>3. cb' \in [Calls -> Seq(BOOLEAN)]
    BY <1>16, <2>1, CallbackType DEF TaskTimeout
  <2>4. work' \in [Workers -> {Idle} \union Jobs]
    BY <1>16, IdleType DEF TaskTimeout
  <2> QED
    BY <2>2, <2>3, <2>4, <1>16 DEF TaskTimeout, Owners, Jobs
<1>17. ASSUME NEW w \in Workers, Report(w) PROVE TypeOK'
  <2>1. PICK f \in Fds :
          /\ reg' = [reg EXCEPT ![f] = "shot"] /\ Ready(f)
          /\ work' = [work EXCEPT ![w] = [at |-> "call", fd |-> f, c |-> owner[f][2]]]
    BY <1>17 DEF Report
  <2>2. owner[f][2] \in Calls
    BY <2>1 DEF Ready
  <2>3. [at |-> "call", fd |-> f, c |-> owner[f][2]] \in Jobs
    BY <2>2 DEF Jobs
  <2>4. work' \in [Workers -> {Idle} \union Jobs] /\ reg' \in [Fds -> {"none", "armed", "shot"}]
    BY <2>1, <2>3 DEF Jobs
  <2> QED
    BY <2>4, <1>17 DEF Report, Jobs
<1>18. ASSUME NEW w \in Workers, ConnectHandler(w) PROVE TypeOK'
  <2>1. /\ work' \in [Workers -> {Idle} \union Jobs]
        /\ owner' \in [Fds -> Owners] /\ reg' \in [Fds -> {"none", "armed", "shot"}]
    <3>1. CASE m_done[work[w].c]
      BY <1>18, <3>1, ClosedType, StageType DEF ConnectHandler
    <3>2. CASE ~m_done[work[w].c]
      BY <1>18, <3>2, StageType DEF ConnectHandler, Owners
    <3> QED
      BY <3>1, <3>2
  <2>2. m_done' \in [Calls -> BOOLEAN]
    BY <1>18 DEF ConnectHandler
  <2> QED
    BY <2>1, <2>2, <1>18 DEF ConnectHandler, Owners, Jobs
<1>19. ASSUME NEW w \in Workers, ConnectResult(w) PROVE TypeOK'
  <2>1. work[w].c \in Calls
    BY <1>19, AtWork DEF ConnectResult
  <2>2. /\ cb' \in [Calls -> Seq(BOOLEAN)]
        /\ owner' \in [Fds -> Owners] /\ reg' \in [Fds -> {"none", "armed", "shot"}]
    BY <1>19, <2>1, SettleType DEF ConnectResult
  <2>3. work' \in [Workers -> {Idle} \union Jobs]
    BY <1>19, StageType DEF ConnectResult
  <2> QED
    BY <2>2, <2>3, <1>19 DEF ConnectResult, Owners, Jobs
<1>20. ASSUME NEW w \in Workers, TimeoutHandler(w) PROVE TypeOK'
  <2>1. work[w].c \in Calls
    BY <1>20, AtWork DEF TimeoutHandler
  <2>2. cb' \in [Calls -> Seq(BOOLEAN)]
    BY <1>20, <2>1, CallbackType DEF TimeoutHandler
  <2>3. work' \in [Workers -> {Idle} \union Jobs]
    BY <1>20, StageType DEF TimeoutHandler
  <2>4. m_done' \in [Calls -> BOOLEAN]
    BY <1>20 DEF TimeoutHandler
  <2> QED
    BY <2>2, <2>3, <2>4, <1>20 DEF TimeoutHandler, Jobs
<1>21. ASSUME NEW w \in Workers, Crash(w) PROVE TypeOK'
  <2>1. crashed' \in BOOLEAN
    BY <1>21, Zenon DEF Crash
  <2> QED
    BY <2>1, <1>21 DEF Crash
<1>22. ASSUME NEW w \in Workers, ShotRemove(w) PROVE TypeOK'
  <2>1. hit' \subseteq Calls
    BY <1>22 DEF ShotRemove, Others
  <2>2. work' \in [Workers -> {Idle} \union Jobs]
    BY <1>22, StageType DEF ShotRemove
  <2>3. reg' \in [Fds -> {"none", "armed", "shot"}]
    BY <1>22 DEF ShotRemove
  <2> QED
    BY <2>1, <2>2, <2>3, <1>22 DEF ShotRemove, Jobs
<1>23. ASSUME NEW w \in Workers, ResetHandler(w) PROVE TypeOK'
  <2>1. hit' \subseteq Calls
    BY <1>23 DEF ResetHandler, Others
  <2>2. work' \in [Workers -> {Idle} \union Jobs]
    BY <1>23, IdleType DEF ResetHandler
  <2>3. m_state' \in [Fds -> {None} \union ({"connect", "timeout"} \X Calls)]
    BY <1>23 DEF ResetHandler
  <2> QED
    BY <2>1, <2>2, <2>3, <1>23 DEF ResetHandler, Jobs
<1>24. ASSUME NEW c \in Calls, Peer(c) PROVE TypeOK'
  <2>1. peer' \in [Calls -> {"pending", "established", "data", "refused"}]
    BY <1>24 DEF Peer
  <2> QED
    BY <2>1, <1>24 DEF Peer
<1>25. ASSUME NEW c \in Calls, Expire(c) PROVE TypeOK'
  BY <1>25 DEF Expire
<1>26. ASSUME NEW f \in Fds, UserCloses(f) PROVE TypeOK'
  BY <1>26 DEF UserCloses, Closed
<1>27. CASE UNCHANGED vars
  BY <1>27 DEF vars
<1> QED
  BY <1>1, <1>2, <1>3, <1>4, <1>5, <1>6, <1>7, <1>8, <1>9, <1>10,
     <1>11, <1>12, <1>13, <1>14, <1>15, <1>16, <1>17, <1>18, <1>19, <1>20,
     <1>21, <1>22, <1>23, <1>24, <1>25, <1>26, <1>27
     DEF Next, Running, Ended, CallStep, WorkerStep

\* A free slot holds nothing of a call.
LEMMA NoneIsNobody == \A k, c : None # <<k, c>>
BY DEF None

-----------------------------------------------------------------------------
(* Callbacks.                                                              *)

Early == {"idle", "failed", "connected", "handler", "queued"}

Setting == {"addfd", "timer", "settimer", "addtimer"}

\* Worker w is about to call back for call c.
Answers(w, c) == work[w].at \in {"poll", "getsockopt"} /\ work[w].c = c

Handled(c) == \E f \in Fds : m_state[f] = <<"connect", c>> \/ m_state[f] = <<"timeout", c>>

\* Who may still call back for a call: the set-up, whose failure is a task, a
\* worker that polls for it, or whichever of its two handlers sets m_done.
OnceAt(c) ==
  /\ Len(cb[c]) <= 1
  /\ at[c] \in Early =>
       cb[c] = <<>> /\ ~m_done[c] /\ ~Handled(c) /\ \A w \in Workers : ~Answers(w, c)
  /\ at[c] \in Setting \/ Handled(c) =>
       /\ m_done[c] \/ cb[c] = <<>>
       /\ \A w \in Workers : work[w].c = c => work[w].at # "poll"
  /\ \A w \in Workers : Answers(w, c) =>
       /\ cb[c] = <<>>
       /\ work[w].at = "getsockopt" => m_done[c]
       /\ \A v \in Workers : Answers(v, c) => v = w

OnceInv == \A c \in Calls : OnceAt(c)

\* No call has begun.
LEMMA OnceInit == Init => OnceInv
<1> SUFFICES ASSUME Init, NEW c \in Calls PROVE OnceAt(c)
  BY DEF OnceInv
<1>1. \A w \in Workers : work[w].at = "idle"
  BY DEF Init, Idle
<1>2. \A f \in Fds : m_state[f] = None
  BY DEF Init
<1>3. ~Handled(c)
  BY <1>2, NoneIsNobody DEF Handled
<1>4. at[c] = "idle" /\ cb[c] = <<>> /\ ~m_done[c] /\ Len(<<>>) = 0
  BY DEF Init
<1> QED
  BY <1>1, <1>3, <1>4 DEF OnceAt, Answers, Early, Setting

\* At most one of them does.
LEMMA OnceStep == TypeOK /\ OnceInv /\ [Next]_vars => OnceInv'
<1> SUFFICES ASSUME TypeOK, OnceInv, [Next]_vars, NEW d \in Calls PROVE OnceAt(d)'
  BY DEF OnceInv
<1> USE DEF Goto, callVars, worldVars, kernelVars, ghostVars, OnceAt, Answers, Handled, Early, Setting
<1>a. OnceAt(d)
  BY DEF OnceInv
<1>b. /\ at \in [Calls -> Places] /\ cb \in [Calls -> Seq(BOOLEAN)] /\ m_done \in [Calls -> BOOLEAN]
      /\ DOMAIN m_state = Fds /\ work \in [Workers -> {Idle} \union Jobs]
  BY DEF TypeOK, Places, Jobs
<1>1. ASSUME NEW c \in Calls, ConnectFails(c) PROVE OnceAt(d)'
  BY <1>a, <1>b, <1>1 DEF ConnectFails
<1>2. ASSUME NEW c \in Calls, ConnectThread(c) PROVE OnceAt(d)'
  BY <1>a, <1>b, <1>2 DEF ConnectThread
<1>3. ASSUME NEW c \in Calls, SetHandler(c) PROVE OnceAt(d)'
  BY <1>a, <1>b, <1>3 DEF SetHandler
<1>4. ASSUME NEW c \in Calls, SetHandlerFails(c) PROVE OnceAt(d)'
  BY <1>a, <1>b, <1>4 DEF SetHandlerFails, Closed
<1>5. ASSUME NEW c \in Calls, AddFd(c) PROVE OnceAt(d)'
  BY <1>a, <1>b, <1>5 DEF AddFd
<1>6. ASSUME NEW c \in Calls, CreateTimerFails(c) PROVE OnceAt(d)'
  BY <1>a, <1>b, <1>6 DEF CreateTimerFails
<1>7. ASSUME NEW c \in Calls, SetTimerHandler(c) PROVE OnceAt(d)'
  BY <1>a, <1>b, <1>7 DEF SetTimerHandler
<1>8. ASSUME NEW c \in Calls, AddTimer(c) PROVE OnceAt(d)'
  BY <1>a, <1>b, <1>8 DEF AddTimer
<1>9. ASSUME NEW c \in Calls, AddTimerFails(c) PROVE OnceAt(d)'
  <2>1. \A f \in Fds : m_state'[f] = IF f = tfd[c] THEN None ELSE m_state[f]
    BY <1>9, <1>b DEF AddTimerFails
  <2>2. Handled(d)' => Handled(d)
    BY <2>1, NoneIsNobody
  <2>3. UNCHANGED <<cb, m_done, work>> /\ at[c] = "addtimer" /\ at'[c] = "untimed"
        /\ \A e \in Calls : e # c => at'[e] = at[e]
    BY <1>9, <1>b DEF AddTimerFails
  <2> HIDE DEF Handled
  <2> QED
    BY <1>a, <2>2, <2>3
<1>10. ASSUME NEW c \in Calls, NEW f \in Fds, Connect(c, f) PROVE OnceAt(d)'
  BY <1>a, <1>b, <1>10 DEF Connect, Opened
<1>11. ASSUME NEW c \in Calls, NEW f \in Fds, CreateTimer(c, f) PROVE OnceAt(d)'
  BY <1>a, <1>b, <1>11 DEF CreateTimer, Opened
<1>12. ASSUME NEW w \in Workers, NEW c \in Calls, RunTask(w, c) PROVE OnceAt(d)'
  <2>1. PICK given \in BOOLEAN : cb' = [cb EXCEPT ![c] = Append(cb[c], given)]
    BY <1>12, CallbackType, CallbackFdType DEF RunTask
  <2>2. UNCHANGED <<m_state, m_done, work>> /\ at[c] \in Early /\ at'[c] = "returned"
        /\ \A e \in Calls : e # c => at'[e] = at[e]
    BY <1>12, <1>b DEF RunTask
  <2>3. (Handled(d)' <=> Handled(d)) /\ \A v \in Workers : Answers(v, d)' <=> Answers(v, d)
    BY <2>2
  <2>4. CASE d # c
    <3>1. cb'[d] = cb[d] /\ at'[d] = at[d]
      BY <2>1, <2>2, <2>4, <1>b
    <3> QED
      BY <1>a, <2>2, <3>1
  <2>5. CASE d = c
    <3>1. cb[d] = <<>> /\ Len(cb'[d]) = 1
      BY <1>a, <1>b, <2>1, <2>2, <2>5
    <3> HIDE DEF Handled, Answers
    <3> QED
      BY <1>a, <2>2, <2>3, <2>5, <3>1
  <2> QED
    BY <2>4, <2>5
<1>13. ASSUME NEW w \in Workers, NEW c \in Calls, TaskFails(w, c) PROVE OnceAt(d)'
  <2>1. PICK given \in BOOLEAN : cb' = [cb EXCEPT ![c] = Append(cb[c], given)]
    BY <1>13, CallbackType DEF TaskFails
  <2>2. UNCHANGED <<m_state, m_done, work>> /\ at[c] \in Early /\ at'[c] = "returned"
        /\ \A e \in Calls : e # c => at'[e] = at[e]
    BY <1>13, <1>b DEF TaskFails
  <2>3. (Handled(d)' <=> Handled(d)) /\ \A v \in Workers : Answers(v, d)' <=> Answers(v, d)
    BY <2>2
  <2>4. CASE d # c
    <3>1. cb'[d] = cb[d] /\ at'[d] = at[d]
      BY <2>1, <2>2, <2>4, <1>b
    <3> QED
      BY <1>a, <2>2, <3>1
  <2>5. CASE d = c
    <3>1. cb[d] = <<>> /\ Len(cb'[d]) = 1
      BY <1>a, <1>b, <2>1, <2>2, <2>5
    <3> HIDE DEF Handled, Answers
    <3> QED
      BY <1>a, <2>2, <2>3, <2>5, <3>1
  <2> QED
    BY <2>4, <2>5
<1>14. ASSUME NEW w \in Workers, NEW c \in Calls, NEW f \in Fds, TaskConnect(w, c, f) PROVE OnceAt(d)'
  BY <1>a, <1>b, <1>14 DEF TaskConnect, Opened
<1>15. ASSUME NEW w \in Workers, TaskPolled(w) PROVE OnceAt(d)'
  <2>0. PICK c \in Calls : c = work[w].c
    BY <1>15, AtWork DEF TaskPolled
  <2>1. PICK given \in BOOLEAN : cb' = [cb EXCEPT ![c] = Append(cb[c], given)]
    BY <1>15, <2>0, SettleType DEF TaskPolled
  <2>2. UNCHANGED <<at, m_state, m_done>> /\ Answers(w, c)
    BY <1>15, <2>0 DEF TaskPolled
  <2>3. work'[w].at \notin {"poll", "getsockopt"} /\ \A v \in Workers : v # w => work'[v] = work[v]
    BY <1>15, IdleType DEF TaskPolled
  <2>4. CASE d # c
    <3>1. cb'[d] = cb[d]
      BY <2>1, <2>4, <1>b
    <3> QED
      BY <1>a, <2>2, <2>3, <3>1
  <2>5. CASE d = c
    <3>1. cb[d] = <<>> /\ Len(cb'[d]) = 1
      BY <1>a, <1>b, <2>1, <2>2, <2>5
    <3>2. /\ at[d] \notin Early
          /\ (at[d] \in Setting \/ Handled(d)) => work[w].at = "getsockopt"
          /\ work[w].at = "getsockopt" => m_done[d]
      BY <1>a, <2>2, <2>5
    <3>3. \A v \in Workers : ~Answers(v, d)'
      BY <1>a, <2>2, <2>3, <2>5
    <3>4. \A v \in Workers : work'[v].c = d => work'[v].at # "poll"
      BY <3>3
    <3>5. Handled(d)' <=> Handled(d)
      BY <2>2
    <3> HIDE DEF Handled, Answers
    <3> QED
      BY <2>2, <3>1, <3>2, <3>3, <3>4, <3>5
  <2> QED
    BY <2>4, <2>5
<1>16. ASSUME NEW w \in Workers, TaskTimeout(w) PROVE OnceAt(d)'
  <2>0. PICK c \in Calls : c = work[w].c
    BY <1>16, AtWork DEF TaskTimeout
  <2>1. PICK given \in BOOLEAN : cb' = [cb EXCEPT ![c] = Append(cb[c], given)]
    BY <1>16, <2>0, CallbackType DEF TaskTimeout
  <2>2. UNCHANGED <<at, m_state, m_done>> /\ Answers(w, c)
    BY <1>16, <2>0 DEF TaskTimeout
  <2>3. work'[w].at \notin {"poll", "getsockopt"} /\ \A v \in Workers : v # w => work'[v] = work[v]
    BY <1>16, IdleType DEF TaskTimeout
  <2>4. CASE d # c
    <3>1. cb'[d] = cb[d]
      BY <2>1, <2>4, <1>b
    <3> QED
      BY <1>a, <2>2, <2>3, <3>1
  <2>5. CASE d = c
    <3>1. cb[d] = <<>> /\ Len(cb'[d]) = 1
      BY <1>a, <1>b, <2>1, <2>2, <2>5
    <3>2. /\ at[d] \notin Early
          /\ (at[d] \in Setting \/ Handled(d)) => work[w].at = "getsockopt"
          /\ work[w].at = "getsockopt" => m_done[d]
      BY <1>a, <2>2, <2>5
    <3>3. \A v \in Workers : ~Answers(v, d)'
      BY <1>a, <2>2, <2>3, <2>5
    <3>4. \A v \in Workers : work'[v].c = d => work'[v].at # "poll"
      BY <3>3
    <3>5. Handled(d)' <=> Handled(d)
      BY <2>2
    <3> HIDE DEF Handled, Answers
    <3> QED
      BY <2>2, <3>1, <3>2, <3>3, <3>4, <3>5
  <2> QED
    BY <2>4, <2>5
<1>17. ASSUME NEW w \in Workers, Report(w) PROVE OnceAt(d)'
  BY <1>a, <1>b, <1>17 DEF Report, Ready
<1>18. ASSUME NEW w \in Workers, ConnectHandler(w) PROVE OnceAt(d)'
  <2>0. PICK c \in Calls : c = work[w].c
    BY <1>18, AtWork DEF ConnectHandler
  <2>1. UNCHANGED <<at, m_state, cb>> /\ Handled(c) /\ work[w].at = "call"
    BY <1>18, <2>0, AtWork DEF ConnectHandler
  <2>2. m_done' = [m_done EXCEPT ![c] = TRUE]
    BY <1>18, <2>0 DEF ConnectHandler
  <2>3. /\ work'[w].at \in {"remove", "getsockopt"} /\ work'[w].c = c
        /\ work'[w].at = "getsockopt" => ~m_done[c]
        /\ \A v \in Workers : v # w => work'[v] = work[v]
    BY <1>18, <2>0, StageType DEF ConnectHandler
  <2>4. Handled(d)' <=> Handled(d)
    BY <2>1
  <2>5. CASE d # c
    <3>1. m_done'[d] = m_done[d]
      BY <2>2, <2>5, <1>b
    <3> QED
      BY <1>a, <2>1, <2>3, <2>5, <3>1
  <2>6. CASE d = c
    <3>1. m_done'[d] /\ at[d] \notin Early
      BY <1>a, <1>b, <2>1, <2>2, <2>6
    <3>2. \A v \in Workers : work[v].c = d => work[v].at # "poll"
      BY <1>a, <2>1, <2>6
    <3>3. \A v \in Workers : work'[v].c = d => work'[v].at # "poll"
      BY <2>3, <3>2
    <3>4. work'[w].at = "getsockopt" => \A v \in Workers : v # w => ~Answers(v, d)'
      BY <1>a, <2>3, <2>6, <3>2
    <3>5. work'[w].at = "getsockopt" => cb[d] = <<>>
      BY <1>a, <2>1, <2>3, <2>6
    <3>6. \A v \in Workers : Answers(v, d)' => v = w \/ Answers(v, d)
      BY <2>3
    <3>7. Answers(w, d)' => work'[w].at = "getsockopt"
      BY <2>3
    <3> HIDE DEF Handled, Answers
    <3> QED
      BY <1>a, <2>1, <2>4, <3>1, <3>3, <3>4, <3>5, <3>6, <3>7
  <2> QED
    BY <2>5, <2>6
<1>19. ASSUME NEW w \in Workers, ConnectResult(w) PROVE OnceAt(d)'
  <2>0. PICK c \in Calls : c = work[w].c
    BY <1>19, AtWork DEF ConnectResult
  <2>1. PICK given \in BOOLEAN : cb' = [cb EXCEPT ![c] = Append(cb[c], given)]
    BY <1>19, <2>0, SettleType DEF ConnectResult
  <2>2. UNCHANGED <<at, m_state, m_done>> /\ Answers(w, c)
    BY <1>19, <2>0 DEF ConnectResult
  <2>3. work'[w].at \notin {"poll", "getsockopt"} /\ \A v \in Workers : v # w => work'[v] = work[v]
    BY <1>19, StageType DEF ConnectResult
  <2>4. CASE d # c
    <3>1. cb'[d] = cb[d]
      BY <2>1, <2>4, <1>b
    <3> QED
      BY <1>a, <2>2, <2>3, <3>1
  <2>5. CASE d = c
    <3>1. cb[d] = <<>> /\ Len(cb'[d]) = 1
      BY <1>a, <1>b, <2>1, <2>2, <2>5
    <3>2. /\ at[d] \notin Early
          /\ (at[d] \in Setting \/ Handled(d)) => work[w].at = "getsockopt"
          /\ work[w].at = "getsockopt" => m_done[d]
      BY <1>a, <2>2, <2>5
    <3>3. \A v \in Workers : ~Answers(v, d)'
      BY <1>a, <2>2, <2>3, <2>5
    <3>4. \A v \in Workers : work'[v].c = d => work'[v].at # "poll"
      BY <3>3
    <3>5. Handled(d)' <=> Handled(d)
      BY <2>2
    <3> HIDE DEF Handled, Answers
    <3> QED
      BY <2>2, <3>1, <3>2, <3>3, <3>4, <3>5
  <2> QED
    BY <2>4, <2>5
<1>20. ASSUME NEW w \in Workers, TimeoutHandler(w) PROVE OnceAt(d)'
  <2>0. PICK c \in Calls : c = work[w].c
    BY <1>20, AtWork DEF TimeoutHandler
  <2>1. UNCHANGED <<at, m_state>> /\ Handled(c) /\ work[w].at = "call"
    BY <1>20, <2>0, AtWork DEF TimeoutHandler
  <2>2. m_done' = [m_done EXCEPT ![c] = TRUE]
    BY <1>20, <2>0 DEF TimeoutHandler
  <2>3. work'[w].at = "remove" /\ \A v \in Workers : v # w => work'[v] = work[v]
    BY <1>20, StageType DEF TimeoutHandler
  <2>4. cb' = cb \/ (~m_done[c] /\ cb' = [cb EXCEPT ![c] = Append(cb[c], FALSE)])
    BY <1>20, <2>0, CallbackType DEF TimeoutHandler
  <2>5. Handled(d)' <=> Handled(d)
    BY <2>1
  <2>6. \A v \in Workers : Answers(v, d)' => v # w /\ Answers(v, d) /\ work'[v].at = work[v].at
    BY <2>3
  <2>7. CASE d # c
    <3>1. m_done'[d] = m_done[d] /\ cb'[d] = cb[d]
      BY <2>2, <2>4, <2>7, <1>b
    <3> QED
      BY <1>a, <2>1, <2>3, <3>1
  <2>8. CASE d = c
    <3>1. /\ m_done'[d] /\ at[d] \notin Early
          /\ \A v \in Workers : work[v].c = d => work[v].at # "poll"
      BY <1>a, <1>b, <2>1, <2>2, <2>8
    <3>2. \A v \in Workers : work'[v].c = d => work'[v].at # "poll"
      BY <2>3, <3>1
    <3>3. CASE cb' = cb
      <4> HIDE DEF Handled
      <4> QED
        BY <1>a, <2>1, <2>5, <2>6, <3>1, <3>2, <3>3
    <3>4. CASE ~m_done[c] /\ cb' = [cb EXCEPT ![c] = Append(cb[c], FALSE)]
      <4>0. cb[d] = <<>>
        BY <1>a, <2>1, <2>8, <3>4
      <4>1. Len(cb'[d]) = 1
        BY <1>b, <2>8, <3>4, <4>0
      <4>2. \A v \in Workers : ~Answers(v, d)
        BY <1>a, <2>8, <3>1, <3>4
      <4> HIDE DEF Handled, Answers
      <4> QED
        BY <2>1, <2>5, <2>6, <3>1, <3>2, <4>1, <4>2
    <3> QED
      BY <2>4, <3>3, <3>4
  <2> QED
    BY <2>7, <2>8
<1>21. ASSUME NEW w \in Workers, Crash(w) PROVE OnceAt(d)'
  BY <1>a, <1>b, <1>21 DEF Crash
<1>22. ASSUME NEW w \in Workers, ShotRemove(w) PROVE OnceAt(d)'
  <2>1. work'[w].at = "reset" /\ \A v \in Workers : v # w => work'[v] = work[v]
    BY <1>22, StageType DEF ShotRemove
  <2>2. UNCHANGED <<at, m_state, m_done, cb>>
    BY <1>22 DEF ShotRemove
  <2> QED
    BY <1>a, <2>1, <2>2
<1>23. ASSUME NEW w \in Workers, ResetHandler(w) PROVE OnceAt(d)'
  <2>1. work'[w].at = "idle" /\ \A v \in Workers : v # w => work'[v] = work[v]
    BY <1>23, IdleType DEF ResetHandler
  <2>2. \A f \in Fds : m_state'[f] = IF f = work[w].fd THEN None ELSE m_state[f]
    BY <1>23, <1>b DEF ResetHandler
  <2>3. Handled(d)' => Handled(d)
    BY <2>2, NoneIsNobody
  <2>4. UNCHANGED <<at, m_done, cb>>
    BY <1>23 DEF ResetHandler
  <2> HIDE DEF Handled
  <2> QED
    BY <1>a, <2>1, <2>3, <2>4
<1>24. ASSUME NEW c \in Calls, Peer(c) PROVE OnceAt(d)'
  BY <1>a, <1>b, <1>24 DEF Peer
<1>25. ASSUME NEW c \in Calls, Expire(c) PROVE OnceAt(d)'
  BY <1>a, <1>b, <1>25 DEF Expire
<1>26. ASSUME NEW f \in Fds, UserCloses(f) PROVE OnceAt(d)'
  BY <1>a, <1>b, <1>26 DEF UserCloses, Closed
<1>27. CASE UNCHANGED vars
  BY <1>a, <1>27 DEF vars
<1> QED
  BY <1>1, <1>2, <1>3, <1>4, <1>5, <1>6, <1>7, <1>8, <1>9, <1>10,
     <1>11, <1>12, <1>13, <1>14, <1>15, <1>16, <1>17, <1>18, <1>19, <1>20,
     <1>21, <1>22, <1>23, <1>24, <1>25, <1>26, <1>27
     DEF Next, Running, Ended, CallStep, WorkerStep

-----------------------------------------------------------------------------
(* Descriptors.                                                            *)

\* Worker w relies on descriptor f being the one of its call.
Uses(w, f) == work[w].at \in {"poll", "call", "getsockopt"} /\ work[w].fd = f

\* Whose a descriptor is, and which handler a report of it finds.
FdOK(f) ==
  /\ owner[f] = None => reg[f] = "none"
  /\ \A c \in Calls :
       /\ owner[f] = <<"sock", c>> =>
            /\ sock[c] = f /\ at[c] \notin {"idle", "failed", "queued"}
            /\ reg[f] = "armed" => m_state[f] = None \/ m_state[f] = <<"connect", c>>
       /\ owner[f] = <<"timer", c>> =>
            /\ tfd[c] = f /\ at[c] \in {"settimer", "addtimer", "returned"}
            /\ reg[f] = "armed" => m_state[f] = None \/ m_state[f] = <<"timeout", c>>
       /\ owner[f] = <<"user", c>> => reg[f] # "armed"

\* The descriptors of a call during its set-up: its own, and known to nobody.
CallOK(c) ==
  /\ at[c] \in {"connected", "handler", "addfd"} =>
       /\ sock[c] \in Fds /\ owner[sock[c]] = <<"sock", c>> /\ reg[sock[c]] # "armed"
       /\ \A w \in Workers : ~Uses(w, sock[c])
  /\ at[c] = "connected" => peer[c] \in {"established", "data"}
  /\ at[c] = "addfd" => m_state[sock[c]] = None \/ m_state[sock[c]] = <<"connect", c>>
  /\ at[c] \in {"settimer", "addtimer"} =>
       /\ tfd[c] \in Fds /\ owner[tfd[c]] = <<"timer", c>> /\ reg[tfd[c]] # "armed"
       /\ \A w \in Workers : ~Uses(w, tfd[c])
  /\ at[c] = "addtimer" => m_state[tfd[c]] = None \/ m_state[tfd[c]] = <<"timeout", c>>

\* The descriptor a worker works on, until its handler closes it.
WorkOK(w) ==
  /\ \A v \in Workers : Uses(w, work[w].fd) /\ Uses(v, work[w].fd) => v = w
  /\ Uses(w, work[w].fd) => reg[work[w].fd] # "armed"
  /\ work[w].at \in {"poll", "getsockopt"} => owner[work[w].fd] = <<"sock", work[w].c>>
  /\ work[w].at = "getsockopt" => peer[work[w].c] # "pending"
  /\ work[w].at = "call" =>
       \/ /\ owner[work[w].fd] = <<"sock", work[w].c>> /\ peer[work[w].c] # "pending"
          /\ m_state[work[w].fd] = None \/ m_state[work[w].fd] = <<"connect", work[w].c>>
       \/ /\ owner[work[w].fd] = <<"timer", work[w].c>>
          /\ m_state[work[w].fd] = None \/ m_state[work[w].fd] = <<"timeout", work[w].c>>

OwnInv ==
  /\ \A f \in Fds : FdOK(f)
  /\ \A c \in Calls : CallOK(c)
  /\ \A w \in Workers : WorkOK(w)
\* OwnInv is about these variables.
LEMMA OwnFrame ==
  ASSUME OwnInv, UNCHANGED <<at, sock, tfd, peer, owner, reg, m_state, work>>
  PROVE  OwnInv'
<1>1. ASSUME NEW f \in Fds PROVE FdOK(f)'
  <2>1. FdOK(f)
    BY DEF OwnInv
  <2> QED
    BY <2>1 DEF FdOK
<1>2. ASSUME NEW c \in Calls PROVE CallOK(c)'
  <2>1. CallOK(c)
    BY DEF OwnInv
  <2> QED
    BY <2>1 DEF CallOK, Uses
<1>3. ASSUME NEW w \in Workers PROVE WorkOK(w)'
  <2>1. WorkOK(w)
    BY DEF OwnInv
  <2> QED
    BY <2>1 DEF WorkOK, Uses
<1> QED
  BY <1>1, <1>2, <1>3 DEF OwnInv


\* Nothing is open.
LEMMA OwnInit == Init => OwnInv
<1> SUFFICES ASSUME Init PROVE OwnInv
  OBVIOUS
<1>1. \A f \in Fds : owner[f] = None /\ reg[f] = "none"
  BY DEF Init
<1>2. \A w \in Workers : work[w].at = "idle"
  BY DEF Init, Idle
<1>3. \A c \in Calls : at[c] = "idle"
  BY DEF Init
<1>4. \A f \in Fds : FdOK(f)
  BY <1>1, NoneIsNobody DEF FdOK
<1> QED
  BY <1>2, <1>3, <1>4 DEF OwnInv, CallOK, WorkOK, Uses

\* Every step keeps the descriptors with their owners.
LEMMA OwnStep == TypeOK /\ OwnInv /\ [Next]_vars => OwnInv'
<1> SUFFICES ASSUME TypeOK, OwnInv, [Next]_vars PROVE OwnInv'
  OBVIOUS
<1> USE DEF Goto, callVars, worldVars, kernelVars, ghostVars
<1>b. /\ at \in [Calls -> Places] /\ sock \in [Calls -> Fds \union {0}] /\ tfd \in [Calls -> Fds \union {0}]
      /\ peer \in [Calls -> {"pending", "established", "data", "refused"}]
      /\ DOMAIN m_state = Fds /\ DOMAIN owner = Fds /\ DOMAIN reg = Fds
      /\ work \in [Workers -> {Idle} \union Jobs]
  BY DEF TypeOK, Places, Jobs
<1>a. /\ \A k, c : None # <<k, c>>
      /\ \A k, l, c, e : <<k, c>> = <<l, e>> => k = l /\ c = e
  BY NoneIsNobody
<1>c. (\A f \in Fds : FdOK(f)) /\ (\A c \in Calls : CallOK(c)) /\ (\A w \in Workers : WorkOK(w))
  BY DEF OwnInv
<1>e. \A u \in Workers : work[u].at # "idle" => work[u].fd \in Fds /\ work[u].c \in Calls
  BY AtWork
<1>d. \A u \in Workers, h \in Fds : Uses(u, h) =>
        /\ reg[h] # "armed"
        /\ \E e \in Calls : owner[h] = <<"sock", e>> \/ owner[h] = <<"timer", e>>
  BY <1>c, AtWork DEF WorkOK, Uses
<1>1. ASSUME NEW c \in Calls, ConnectFails(c) PROVE OwnInv'
  <2>1. /\ at[c] = "idle"
        /\ \A e \in Calls : at'[e] = IF e = c THEN "failed" ELSE at[e]
        /\ UNCHANGED <<sock, tfd, peer, owner, reg, m_state, work>>
    BY <1>1, <1>b DEF ConnectFails
  <2>2. ASSUME NEW g \in Fds PROVE FdOK(g)'
    <3>1. FdOK(g) /\ CallOK(c)
      BY <1>c
    <3> QED
      BY <1>a, <1>b, <2>1, <3>1 DEF CallOK, FdOK, Uses
  <2>3. ASSUME NEW d \in Calls PROVE CallOK(d)'
    <3>1. CallOK(d) /\ CallOK(c)
      BY <1>c
    <3> QED
      BY <1>a, <1>b, <2>1, <3>1 DEF CallOK, Uses
  <2>4. ASSUME NEW v \in Workers PROVE WorkOK(v)'
    <3>1. WorkOK(v) /\ CallOK(c)
      BY <1>c
    <3> QED
      BY <1>a, <1>b, <2>1, <3>1, <1>e DEF CallOK, WorkOK, Uses
  <2> QED
    BY <2>2, <2>3, <2>4 DEF OwnInv
<1>2. ASSUME NEW c \in Calls, ConnectThread(c) PROVE OwnInv'
  <2>1. /\ at[c] = "idle"
        /\ \A e \in Calls : at'[e] = IF e = c THEN "queued" ELSE at[e]
        /\ UNCHANGED <<sock, tfd, peer, owner, reg, m_state, work>>
    BY <1>2, <1>b DEF ConnectThread
  <2>2. ASSUME NEW g \in Fds PROVE FdOK(g)'
    <3>1. FdOK(g) /\ CallOK(c)
      BY <1>c
    <3> QED
      BY <1>a, <1>b, <2>1, <3>1 DEF CallOK, FdOK, Uses
  <2>3. ASSUME NEW d \in Calls PROVE CallOK(d)'
    <3>1. CallOK(d) /\ CallOK(c)
      BY <1>c
    <3> QED
      BY <1>a, <1>b, <2>1, <3>1 DEF CallOK, Uses
  <2>4. ASSUME NEW v \in Workers PROVE WorkOK(v)'
    <3>1. WorkOK(v) /\ CallOK(c)
      BY <1>c
    <3> QED
      BY <1>a, <1>b, <2>1, <3>1, <1>e DEF CallOK, WorkOK, Uses
  <2> QED
    BY <2>2, <2>3, <2>4 DEF OwnInv
<1>3. ASSUME NEW c \in Calls, SetHandler(c) PROVE OwnInv'
  <2>1. /\ at[c] = "handler"
        /\ \A e \in Calls : at'[e] = IF e = c THEN "addfd" ELSE at[e]
        /\ \A h \in Fds : m_state'[h] = IF h = sock[c] THEN <<"connect", c>> ELSE m_state[h]
        /\ UNCHANGED <<sock, tfd, peer, owner, reg, work>>
    BY <1>3, <1>b DEF SetHandler
  <2>2. ASSUME NEW g \in Fds PROVE FdOK(g)'
    <3>1. FdOK(g) /\ CallOK(c)
      BY <1>c
    <3> QED
      BY <1>a, <1>b, <2>1, <3>1, <1>d DEF CallOK, FdOK, Uses
  <2>3. ASSUME NEW d \in Calls PROVE CallOK(d)'
    <3>1. CallOK(d) /\ CallOK(c)
      BY <1>c
    <3> QED
      BY <1>a, <1>b, <2>1, <3>1, <1>d DEF CallOK, Uses
  <2>4. ASSUME NEW v \in Workers PROVE WorkOK(v)'
    <3>1. WorkOK(v) /\ CallOK(c)
      BY <1>c
    <3> QED
      BY <1>a, <1>b, <2>1, <3>1, <1>d, <1>e DEF CallOK, WorkOK, Uses
  <2> QED
    BY <2>2, <2>3, <2>4 DEF OwnInv
<1>4. ASSUME NEW c \in Calls, SetHandlerFails(c) PROVE OwnInv'
  <2>1. /\ at[c] = "handler"
        /\ \A e \in Calls : at'[e] = IF e = c THEN "failed" ELSE at[e]
        /\ \A h \in Fds : owner'[h] = IF h = sock[c] THEN None ELSE owner[h]
        /\ \A h \in Fds : reg'[h] = IF h = sock[c] THEN "none" ELSE reg[h]
        /\ UNCHANGED <<sock, tfd, peer, m_state, work>>
    BY <1>4, <1>b DEF SetHandlerFails, Closed
  <2>2. ASSUME NEW g \in Fds PROVE FdOK(g)'
    <3>1. FdOK(g) /\ CallOK(c)
      BY <1>c
    <3>2. CASE g = sock[c]
      <4>1. owner'[g] = None /\ reg'[g] = "none"
        BY <2>1, <3>2
      <4> QED
        BY <1>a, <4>1 DEF FdOK
    <3>3. CASE g # sock[c]
      <4>1. owner'[g] = owner[g] /\ reg'[g] = reg[g] /\ m_state'[g] = m_state[g]
        BY <2>1, <3>3
      <4> QED
        BY <1>a, <1>b, <2>1, <3>1, <3>3, <4>1 DEF CallOK, FdOK, Uses
    <3> QED
      BY <3>2, <3>3
  <2>3. ASSUME NEW d \in Calls PROVE CallOK(d)'
    <3>1. CallOK(d) /\ CallOK(c)
      BY <1>c
    <3> QED
      BY <1>a, <1>b, <2>1, <3>1 DEF CallOK, Uses
  <2>4. ASSUME NEW v \in Workers PROVE WorkOK(v)'
    <3>1. WorkOK(v) /\ CallOK(c)
      BY <1>c
    <3> QED
      BY <1>a, <1>b, <2>1, <3>1, <1>e DEF CallOK, WorkOK, Uses
  <2> QED
    BY <2>2, <2>3, <2>4 DEF OwnInv
<1>5. ASSUME NEW c \in Calls, AddFd(c) PROVE OwnInv'
  <2>0. sock[c] \in Fds
    BY <1>5, <1>c DEF AddFd, CallOK
  <2>1. /\ at[c] = "addfd"
        /\ \A e \in Calls : at'[e] = IF e = c THEN "timer" ELSE at[e]
        /\ \A h \in Fds : h # sock[c] => reg'[h] = reg[h]
        /\ reg'[sock[c]] \in {"armed", "none"}
        /\ UNCHANGED <<sock, tfd, peer, owner, m_state, work>>
    BY <1>5, <1>b, <2>0 DEF AddFd
  <2>2. ASSUME NEW g \in Fds PROVE FdOK(g)'
    <3>1. FdOK(g) /\ CallOK(c)
      BY <1>c
    <3>2. CASE g = sock[c]
      <4>1. /\ owner[g] = <<"sock", c>> /\ owner'[g] = <<"sock", c>> /\ reg'[g] \in {"armed", "none"}
            /\ m_state'[g] = None \/ m_state'[g] = <<"connect", c>>
        BY <2>1, <3>1, <3>2 DEF CallOK
      <4>2. sock'[c] = g /\ at'[c] = "timer"
        BY <2>1, <3>2
      <4> QED
        BY <1>a, <4>1, <4>2 DEF FdOK
    <3>3. CASE g # sock[c]
      <4>1. owner'[g] = owner[g] /\ reg'[g] = reg[g] /\ m_state'[g] = m_state[g]
        BY <2>1, <3>3
      <4> QED
        BY <1>a, <1>b, <2>1, <3>1, <3>3, <4>1 DEF CallOK, FdOK, Uses
    <3> QED
      BY <3>2, <3>3
  <2>3. ASSUME NEW d \in Calls PROVE CallOK(d)'
    <3>1. CallOK(d) /\ CallOK(c)
      BY <1>c
    <3> QED
      BY <1>a, <1>b, <2>1, <3>1 DEF CallOK, Uses
  <2>4. ASSUME NEW v \in Workers PROVE WorkOK(v)'
    <3>1. WorkOK(v) /\ CallOK(c)
      BY <1>c
    <3> QED
      BY <1>a, <1>b, <2>1, <3>1, <1>e DEF CallOK, WorkOK, Uses
  <2> QED
    BY <2>2, <2>3, <2>4 DEF OwnInv
<1>6. ASSUME NEW c \in Calls, CreateTimerFails(c) PROVE OwnInv'
  <2>1. /\ at[c] = "timer"
        /\ \A e \in Calls : at'[e] = IF e = c THEN "untimed" ELSE at[e]
        /\ UNCHANGED <<sock, tfd, peer, owner, reg, m_state, work>>
    BY <1>6, <1>b DEF CreateTimerFails
  <2>2. ASSUME NEW g \in Fds PROVE FdOK(g)'
    <3>1. FdOK(g) /\ CallOK(c)
      BY <1>c
    <3> QED
      BY <1>a, <1>b, <2>1, <3>1 DEF CallOK, FdOK, Uses
  <2>3. ASSUME NEW d \in Calls PROVE CallOK(d)'
    <3>1. CallOK(d) /\ CallOK(c)
      BY <1>c
    <3> QED
      BY <1>a, <1>b, <2>1, <3>1 DEF CallOK, Uses
  <2>4. ASSUME NEW v \in Workers PROVE WorkOK(v)'
    <3>1. WorkOK(v) /\ CallOK(c)
      BY <1>c
    <3> QED
      BY <1>a, <1>b, <2>1, <3>1, <1>e DEF CallOK, WorkOK, Uses
  <2> QED
    BY <2>2, <2>3, <2>4 DEF OwnInv
<1>7. ASSUME NEW c \in Calls, SetTimerHandler(c) PROVE OwnInv'
  <2>1. /\ at[c] = "settimer"
        /\ \A e \in Calls : at'[e] = IF e = c THEN "addtimer" ELSE at[e]
        /\ \A h \in Fds : m_state'[h] = IF h = tfd[c] THEN <<"timeout", c>> ELSE m_state[h]
        /\ UNCHANGED <<sock, tfd, peer, owner, reg, work>>
    BY <1>7, <1>b DEF SetTimerHandler
  <2>2. ASSUME NEW g \in Fds PROVE FdOK(g)'
    <3>1. FdOK(g) /\ CallOK(c)
      BY <1>c
    <3> QED
      BY <1>a, <1>b, <2>1, <3>1, <1>d DEF CallOK, FdOK, Uses
  <2>3. ASSUME NEW d \in Calls PROVE CallOK(d)'
    <3>1. CallOK(d) /\ CallOK(c)
      BY <1>c
    <3> QED
      BY <1>a, <1>b, <2>1, <3>1, <1>d DEF CallOK, Uses
  <2>4. ASSUME NEW v \in Workers PROVE WorkOK(v)'
    <3>1. WorkOK(v) /\ CallOK(c)
      BY <1>c
    <3> QED
      BY <1>a, <1>b, <2>1, <3>1, <1>d, <1>e DEF CallOK, WorkOK, Uses
  <2> QED
    BY <2>2, <2>3, <2>4 DEF OwnInv
<1>8. ASSUME NEW c \in Calls, AddTimer(c) PROVE OwnInv'
  <2>1. /\ at[c] = "addtimer"
        /\ \A e \in Calls : at'[e] = IF e = c THEN "returned" ELSE at[e]
        /\ \A h \in Fds : reg'[h] = IF h = tfd[c] THEN "armed" ELSE reg[h]
        /\ UNCHANGED <<sock, tfd, peer, owner, m_state, work>>
    BY <1>8, <1>b DEF AddTimer
  <2>2. ASSUME NEW g \in Fds PROVE FdOK(g)'
    <3>1. FdOK(g) /\ CallOK(c)
      BY <1>c
    <3>2. CASE g = tfd[c]
      <4>1. /\ owner[g] = <<"timer", c>> /\ owner'[g] = <<"timer", c>> /\ reg'[g] = "armed"
            /\ m_state'[g] = None \/ m_state'[g] = <<"timeout", c>>
        BY <2>1, <3>1, <3>2 DEF CallOK
      <4>2. tfd'[c] = g /\ at'[c] = "returned"
        BY <2>1, <3>2
      <4> QED
        BY <1>a, <4>1, <4>2 DEF FdOK
    <3>3. CASE g # tfd[c]
      <4>1. owner'[g] = owner[g] /\ reg'[g] = reg[g] /\ m_state'[g] = m_state[g]
        BY <2>1, <3>3
      <4> QED
        BY <1>a, <1>b, <2>1, <3>1, <3>3, <4>1 DEF CallOK, FdOK, Uses
    <3> QED
      BY <3>2, <3>3
  <2>3. ASSUME NEW d \in Calls PROVE CallOK(d)'
    <3>1. CallOK(d) /\ CallOK(c)
      BY <1>c
    <3> QED
      BY <1>a, <1>b, <2>1, <3>1 DEF CallOK, Uses
  <2>4. ASSUME NEW v \in Workers PROVE WorkOK(v)'
    <3>1. WorkOK(v) /\ CallOK(c)
      BY <1>c
    <3> QED
      BY <1>a, <1>b, <2>1, <3>1, <1>e DEF CallOK, WorkOK, Uses
  <2> QED
    BY <2>2, <2>3, <2>4 DEF OwnInv
<1>9. ASSUME NEW c \in Calls, AddTimerFails(c) PROVE OwnInv'
  <2>1. /\ at[c] = "addtimer"
        /\ \A e \in Calls : at'[e] = IF e = c THEN "untimed" ELSE at[e]
        /\ \A h \in Fds : m_state'[h] = IF h = tfd[c] THEN None ELSE m_state[h]
        /\ \A h \in Fds : owner'[h] = IF h = tfd[c] THEN None ELSE owner[h]
        /\ \A h \in Fds : reg'[h] = IF h = tfd[c] THEN "none" ELSE reg[h]
        /\ UNCHANGED <<sock, tfd, peer, work>>
    BY <1>9, <1>b DEF AddTimerFails, Closed
  <2>2. ASSUME NEW g \in Fds PROVE FdOK(g)'
    <3>1. FdOK(g) /\ CallOK(c)
      BY <1>c
    <3>2. CASE g = tfd[c]
      <4>1. owner'[g] = None /\ reg'[g] = "none"
        BY <2>1, <3>2
      <4> QED
        BY <1>a, <4>1 DEF FdOK
    <3>3. CASE g # tfd[c]
      <4>1. owner'[g] = owner[g] /\ reg'[g] = reg[g] /\ m_state'[g] = m_state[g]
        BY <2>1, <3>3
      <4> QED
        BY <1>a, <1>b, <2>1, <3>1, <3>3, <4>1 DEF CallOK, FdOK, Uses
    <3> QED
      BY <3>2, <3>3
  <2>3. ASSUME NEW d \in Calls PROVE CallOK(d)'
    <3>1. CallOK(d) /\ CallOK(c)
      BY <1>c
    <3> QED
      BY <1>a, <1>b, <2>1, <3>1 DEF CallOK, Uses
  <2>4. ASSUME NEW v \in Workers PROVE WorkOK(v)'
    <3>1. WorkOK(v) /\ CallOK(c)
      BY <1>c
    <3> QED
      BY <1>a, <1>b, <2>1, <3>1, <1>e DEF CallOK, WorkOK, Uses
  <2> QED
    BY <2>2, <2>3, <2>4 DEF OwnInv
<1>10. ASSUME NEW c \in Calls, NEW f \in Fds, Connect(c, f) PROVE OwnInv'
  <2>1. /\ at[c] = "idle"
        /\ owner[f] = None
        /\ \A e \in Calls : e # c => at'[e] = at[e] /\ peer'[e] = peer[e]
        /\ \/ at'[c] = "connected" /\ peer'[c] = "established"
           \/ at'[c] = "handler" /\ peer'[c] = peer[c]
        /\ \A e \in Calls : sock'[e] = IF e = c THEN f ELSE sock[e]
        /\ \A h \in Fds : owner'[h] = IF h = f THEN <<"sock", c>> ELSE owner[h]
        /\ UNCHANGED <<tfd, reg, m_state, work>>
    BY <1>10, <1>b DEF Connect, Opened
  <2>2. ASSUME NEW g \in Fds PROVE FdOK(g)'
    <3>1. FdOK(g) /\ CallOK(c) /\ FdOK(f)
      BY <1>c
    <3> QED
      BY <1>a, <1>b, <2>1, <3>1, <1>d DEF CallOK, FdOK, Uses
  <2>3. ASSUME NEW d \in Calls PROVE CallOK(d)'
    <3>1. CallOK(d) /\ CallOK(c) /\ FdOK(f)
      BY <1>c
    <3>2. (\A u \in Workers : ~Uses(u, f)) /\ reg[f] = "none"
      BY <1>a, <1>d, <2>1, <3>1 DEF FdOK
    <3>3. \A u \in Workers, h \in Fds : Uses(u, h)' <=> Uses(u, h)
      BY <2>1 DEF Uses
    <3>4. CASE d = c
      <4>1. sock'[d] = f /\ owner'[f] = <<"sock", d>> /\ reg'[f] = "none"
        BY <2>1, <3>2, <3>4
      <4> QED
        BY <2>1, <3>2, <3>3, <3>4, <4>1 DEF CallOK
    <3>5. CASE d # c
      <4>1. at'[d] = at[d] /\ sock'[d] = sock[d] /\ tfd'[d] = tfd[d] /\ peer'[d] = peer[d]
        BY <2>1, <3>5
      <4>2. \A h \in Fds : owner[h] # None => owner'[h] = owner[h]
        BY <2>1
      <4> QED
        BY <1>a, <2>1, <3>1, <3>3, <4>1, <4>2 DEF CallOK
    <3> QED
      BY <3>4, <3>5
  <2>4. ASSUME NEW v \in Workers PROVE WorkOK(v)'
    <3>1. WorkOK(v) /\ CallOK(c) /\ FdOK(f)
      BY <1>c
    <3>2. \A h \in Fds : owner[h] # None => owner'[h] = owner[h]
      BY <2>1
    <3>3. \A e \in Calls : peer[e] # "pending" => peer'[e] # "pending"
      BY <2>1
    <3>4. work'[v] = work[v] /\ \A u \in Workers : \A h : Uses(u, h)' <=> Uses(u, h)
      BY <2>1 DEF Uses
    <3> QED
      BY <1>a, <1>e, <2>1, <3>1, <3>2, <3>3, <3>4 DEF WorkOK, Uses
  <2> QED
    BY <2>2, <2>3, <2>4 DEF OwnInv
<1>11. ASSUME NEW c \in Calls, NEW f \in Fds, CreateTimer(c, f) PROVE OwnInv'
  <2>1. /\ at[c] = "timer"
        /\ owner[f] = None
        /\ \A e \in Calls : at'[e] = IF e = c THEN "settimer" ELSE at[e]
        /\ \A e \in Calls : tfd'[e] = IF e = c THEN f ELSE tfd[e]
        /\ \A h \in Fds : owner'[h] = IF h = f THEN <<"timer", c>> ELSE owner[h]
        /\ UNCHANGED <<sock, peer, reg, m_state, work>>
    BY <1>11, <1>b DEF CreateTimer, Opened
  <2>2. ASSUME NEW g \in Fds PROVE FdOK(g)'
    <3>1. FdOK(g) /\ CallOK(c) /\ FdOK(f)
      BY <1>c
    <3> QED
      BY <1>a, <1>b, <2>1, <3>1, <1>d DEF CallOK, FdOK, Uses
  <2>3. ASSUME NEW d \in Calls PROVE CallOK(d)'
    <3>1. CallOK(d) /\ CallOK(c) /\ FdOK(f)
      BY <1>c
    <3>2. (\A u \in Workers : ~Uses(u, f)) /\ reg[f] = "none"
      BY <1>a, <1>d, <2>1, <3>1 DEF FdOK
    <3>3. \A u \in Workers, h \in Fds : Uses(u, h)' <=> Uses(u, h)
      BY <2>1 DEF Uses
    <3>4. CASE d = c
      <4>1. tfd'[d] = f /\ owner'[f] = <<"timer", d>> /\ reg'[f] = "none"
        BY <2>1, <3>2, <3>4
      <4> QED
        BY <2>1, <3>2, <3>3, <3>4, <4>1 DEF CallOK
    <3>5. CASE d # c
      <4>1. at'[d] = at[d] /\ sock'[d] = sock[d] /\ tfd'[d] = tfd[d] /\ peer'[d] = peer[d]
        BY <2>1, <3>5
      <4>2. \A h \in Fds : owner[h] # None => owner'[h] = owner[h]
        BY <2>1
      <4> QED
        BY <1>a, <2>1, <3>1, <3>3, <4>1, <4>2 DEF CallOK
    <3> QED
      BY <3>4, <3>5
  <2>4. ASSUME NEW v \in Workers PROVE WorkOK(v)'
    <3>1. WorkOK(v) /\ CallOK(c) /\ FdOK(f)
      BY <1>c
    <3> QED
      BY <1>a, <1>b, <2>1, <3>1, <1>d, <1>e DEF CallOK, FdOK, WorkOK, Uses
  <2> QED
    BY <2>2, <2>3, <2>4 DEF OwnInv
<1>12. ASSUME NEW w \in Workers, NEW c \in Calls, RunTask(w, c) PROVE OwnInv'
  <2>1. /\ at[c] \in {"failed", "connected"}
        /\ \A e \in Calls : at'[e] = IF e = c THEN "returned" ELSE at[e]
        /\ at[c] = "failed" => owner' = owner
        /\ at[c] = "connected" =>
             \A h \in Fds : owner'[h] = IF h = sock[c] THEN <<"user", c>> ELSE owner[h]
        /\ UNCHANGED <<sock, tfd, peer, reg, m_state, work>>
    BY <1>12, <1>b DEF RunTask, Callback, CallbackFd
  <2>2. ASSUME NEW g \in Fds PROVE FdOK(g)'
    <3>1. FdOK(g) /\ CallOK(c)
      BY <1>c
    <3> QED
      BY <1>a, <1>b, <2>1, <3>1 DEF CallOK, FdOK, Uses
  <2>3. ASSUME NEW d \in Calls PROVE CallOK(d)'
    <3>1. CallOK(d) /\ CallOK(c)
      BY <1>c
    <3> QED
      BY <1>a, <1>b, <2>1, <3>1 DEF CallOK, Uses
  <2>4. ASSUME NEW v \in Workers PROVE WorkOK(v)'
    <3>1. WorkOK(v) /\ CallOK(c)
      BY <1>c
    <3> QED
      BY <1>a, <1>b, <2>1, <3>1, <1>e DEF CallOK, WorkOK, Uses
  <2> QED
    BY <2>2, <2>3, <2>4 DEF OwnInv
<1>13. ASSUME NEW w \in Workers, NEW c \in Calls, TaskFails(w, c) PROVE OwnInv'
  <2>1. /\ at[c] = "queued"
        /\ \A e \in Calls : at'[e] = IF e = c THEN "returned" ELSE at[e]
        /\ UNCHANGED <<sock, tfd, peer, owner, reg, m_state, work>>
    BY <1>13, <1>b DEF TaskFails, Callback
  <2>2. ASSUME NEW g \in Fds PROVE FdOK(g)'
    <3>1. FdOK(g) /\ CallOK(c)
      BY <1>c
    <3> QED
      BY <1>a, <1>b, <2>1, <3>1 DEF CallOK, FdOK, Uses
  <2>3. ASSUME NEW d \in Calls PROVE CallOK(d)'
    <3>1. CallOK(d) /\ CallOK(c)
      BY <1>c
    <3> QED
      BY <1>a, <1>b, <2>1, <3>1 DEF CallOK, Uses
  <2>4. ASSUME NEW v \in Workers PROVE WorkOK(v)'
    <3>1. WorkOK(v) /\ CallOK(c)
      BY <1>c
    <3> QED
      BY <1>a, <1>b, <2>1, <3>1, <1>e DEF CallOK, WorkOK, Uses
  <2> QED
    BY <2>2, <2>3, <2>4 DEF OwnInv
<1>14. ASSUME NEW w \in Workers, NEW c \in Calls, NEW f \in Fds, TaskConnect(w, c, f) PROVE OwnInv'
  <2>1. /\ at[c] = "queued"
        /\ owner[f] = None
        /\ \A e \in Calls : at'[e] = IF e = c THEN "returned" ELSE at[e]
        /\ \A e \in Calls : sock'[e] = IF e = c THEN f ELSE sock[e]
        /\ \A h \in Fds : owner'[h] = IF h = f THEN <<"sock", c>> ELSE owner[h]
        /\ work'[w].at = "poll" /\ work'[w].fd = f /\ work'[w].c = c
        /\ \A u \in Workers : u # w => work'[u] = work[u]
        /\ UNCHANGED <<tfd, peer, reg, m_state>>
    BY <1>14, <1>b DEF TaskConnect, Opened
  <2>2. ASSUME NEW g \in Fds PROVE FdOK(g)'
    <3>1. FdOK(g) /\ CallOK(c) /\ WorkOK(w) /\ FdOK(f)
      BY <1>c
    <3> QED
      BY <1>a, <1>b, <2>1, <3>1, <1>d DEF CallOK, FdOK, WorkOK, Uses
  <2>3. ASSUME NEW d \in Calls PROVE CallOK(d)'
    <3>1. CallOK(d) /\ CallOK(c) /\ WorkOK(w) /\ FdOK(f)
      BY <1>c
    <3> QED
      BY <1>a, <1>b, <2>1, <3>1, <1>d DEF CallOK, FdOK, WorkOK, Uses
  <2>4. ASSUME NEW v \in Workers PROVE WorkOK(v)'
    <3>1. WorkOK(v) /\ CallOK(c) /\ WorkOK(w) /\ FdOK(f)
      BY <1>c
    <3>2. (\A u \in Workers : ~Uses(u, f)) /\ reg[f] = "none"
      BY <1>a, <1>d, <2>1, <3>1 DEF FdOK
    <3>3. \A h \in Fds : owner[h] # None => owner'[h] = owner[h]
      BY <2>1
    <3>4. CASE v = w
      BY <2>1, <3>2, <3>4 DEF WorkOK, Uses
    <3>5. CASE v # w
      <4>1. work'[v] = work[v] /\ (Uses(v, work[v].fd) => work[v].fd # f)
        BY <2>1, <3>2, <3>5
      <4> QED
        BY <1>a, <1>e, <2>1, <3>1, <3>3, <3>5, <4>1 DEF WorkOK, Uses
    <3> QED
      BY <3>4, <3>5
  <2> QED
    BY <2>2, <2>3, <2>4 DEF OwnInv
<1>15. ASSUME NEW w \in Workers, TaskPolled(w) PROVE OwnInv'
  <2>0. PICK f \in Fds, c \in Calls : f = work[w].fd /\ c = work[w].c
    BY <1>15, AtWork DEF TaskPolled
  <2>1. /\ work[w].at = "poll"
        /\ peer[c] # "pending"
        /\ peer[c] = "refused" =>
             (\A h \in Fds : owner'[h] = (IF h = f THEN None ELSE owner[h]) /\ reg'[h] = (IF h = f THEN "none" ELSE reg[h]))
        /\ peer[c] # "refused" =>
             reg' = reg /\ \A h \in Fds : owner'[h] = IF h = f THEN <<"user", c>> ELSE owner[h]
        /\ work'[w].at = "idle"
        /\ \A u \in Workers : u # w => work'[u] = work[u]
        /\ UNCHANGED <<at, sock, tfd, peer, m_state>>
    <3>1. /\ work[w].at = "poll" /\ peer[c] # "pending" /\ Settle(c, f)
          /\ UNCHANGED <<at, sock, tfd, peer, m_state>>
      BY <1>15, <2>0 DEF TaskPolled
    <3>2. work'[w].at = "idle" /\ \A u \in Workers : u # w => work'[u] = work[u]
      BY <1>15, IdleType DEF TaskPolled
    <3> QED
      BY <1>b, <3>1, <3>2 DEF Settle, Closed, CallbackFd
  <2>2. ASSUME NEW g \in Fds PROVE FdOK(g)'
    <3>1. FdOK(g) /\ WorkOK(w)
      BY <1>c
    <3> QED
      BY <1>a, <1>b, <2>1, <3>1, <2>0 DEF FdOK, WorkOK, Uses
  <2>3. ASSUME NEW d \in Calls PROVE CallOK(d)'
    <3>1. CallOK(d) /\ WorkOK(w)
      BY <1>c
    <3> QED
      BY <1>a, <1>b, <2>1, <3>1, <2>0 DEF CallOK, WorkOK, Uses
  <2>4. ASSUME NEW v \in Workers PROVE WorkOK(v)'
    <3>1. WorkOK(v) /\ WorkOK(w)
      BY <1>c
    <3> QED
      BY <1>a, <1>b, <2>1, <3>1, <1>e, <2>0 DEF WorkOK, Uses
  <2> QED
    BY <2>2, <2>3, <2>4 DEF OwnInv
<1>16. ASSUME NEW w \in Workers, TaskTimeout(w) PROVE OwnInv'
  <2>0. PICK f \in Fds, c \in Calls : f = work[w].fd /\ c = work[w].c
    BY <1>16, AtWork DEF TaskTimeout
  <2>1. /\ work[w].at = "poll"
        /\ \A h \in Fds : owner'[h] = IF h = f THEN None ELSE owner[h]
        /\ \A h \in Fds : reg'[h] = IF h = f THEN "none" ELSE reg[h]
        /\ work'[w].at = "idle"
        /\ \A u \in Workers : u # w => work'[u] = work[u]
        /\ UNCHANGED <<at, sock, tfd, peer, m_state>>
    BY <1>16, <1>b, <2>0, IdleType DEF TaskTimeout, Closed
  <2>2. ASSUME NEW g \in Fds PROVE FdOK(g)'
    <3>1. FdOK(g) /\ WorkOK(w)
      BY <1>c
    <3>2. CASE g = f
      <4>1. owner'[g] = None /\ reg'[g] = "none"
        BY <2>1, <3>2
      <4> QED
        BY <1>a, <4>1 DEF FdOK
    <3>3. CASE g # f
      <4>1. owner'[g] = owner[g] /\ reg'[g] = reg[g] /\ m_state'[g] = m_state[g]
        BY <2>1, <3>3
      <4> QED
        BY <1>a, <1>b, <2>1, <3>1, <3>3, <4>1, <2>0 DEF FdOK, WorkOK, Uses
    <3> QED
      BY <3>2, <3>3
  <2>3. ASSUME NEW d \in Calls PROVE CallOK(d)'
    <3>1. CallOK(d) /\ WorkOK(w)
      BY <1>c
    <3> QED
      BY <1>a, <1>b, <2>1, <3>1, <2>0 DEF CallOK, WorkOK, Uses
  <2>4. ASSUME NEW v \in Workers PROVE WorkOK(v)'
    <3>1. WorkOK(v) /\ WorkOK(w)
      BY <1>c
    <3> QED
      BY <1>a, <1>b, <2>1, <3>1, <1>e, <2>0 DEF WorkOK, Uses
  <2> QED
    BY <2>2, <2>3, <2>4 DEF OwnInv
<1>17. ASSUME NEW w \in Workers, Report(w) PROVE OwnInv'
  <2>01. PICK f \in Fds : /\ reg[f] = "armed" /\ Ready(f) /\ reg' = [reg EXCEPT ![f] = "shot"]
             /\ work' = [work EXCEPT ![w] = [at |-> "call", fd |-> f, c |-> owner[f][2]]]
    BY <1>17 DEF Report
  <2>02. PICK c \in Calls :
             \/ owner[f] = <<"sock", c>> /\ peer[c] \in {"data", "refused"}
             \/ owner[f] = <<"timer", c>> /\ c \in expired
    BY <2>01 DEF Ready
  <2>03. owner[f][2] = c /\ Idle.at = "idle"
    BY <2>02 DEF Idle
  <2>1. /\ work[w].at = "idle"
        /\ reg[f] = "armed"
        /\ \/ owner[f] = <<"sock", c>> /\ peer[c] \in {"data", "refused"}
           \/ owner[f] = <<"timer", c>>
        /\ \A h \in Fds : reg'[h] = IF h = f THEN "shot" ELSE reg[h]
        /\ work'[w].at = "call" /\ work'[w].fd = f /\ work'[w].c = c
        /\ \A u \in Workers : u # w => work'[u] = work[u]
        /\ UNCHANGED <<at, sock, tfd, peer, owner, m_state>>
    BY <1>17, <1>b, <2>01, <2>02, <2>03 DEF Report
  <2>2. ASSUME NEW g \in Fds PROVE FdOK(g)'
    <3>1. FdOK(g) /\ WorkOK(w) /\ FdOK(f)
      BY <1>c
    <3> QED
      BY <1>a, <1>b, <2>1, <3>1, <1>d DEF FdOK, WorkOK, Uses
  <2>3. ASSUME NEW d \in Calls PROVE CallOK(d)'
    <3>1. CallOK(d) /\ WorkOK(w) /\ FdOK(f)
      BY <1>c
    <3> QED
      BY <1>a, <1>b, <2>1, <3>1, <1>d DEF CallOK, FdOK, WorkOK, Uses
  <2>4. ASSUME NEW v \in Workers PROVE WorkOK(v)'
    <3>1. WorkOK(v) /\ WorkOK(w) /\ FdOK(f)
      BY <1>c
    <3> QED
      BY <1>a, <1>b, <2>1, <3>1, <1>d, <1>e DEF FdOK, WorkOK, Uses
  <2> QED
    BY <2>2, <2>3, <2>4 DEF OwnInv
<1>18. ASSUME NEW w \in Workers, ConnectHandler(w) PROVE OwnInv'
  <2>0. PICK f \in Fds, c \in Calls : f = work[w].fd /\ c = work[w].c
    BY <1>18, AtWork DEF ConnectHandler
  <2>1. /\ work[w].at = "call"
        /\ m_state[f] = <<"connect", c>>
        /\ \/ (\A h \in Fds : owner'[h] = (IF h = f THEN None ELSE owner[h]) /\ reg'[h] = (IF h = f THEN "none" ELSE reg[h]))
              /\ work'[w].at = "remove"
           \/ owner' = owner /\ reg' = reg /\ work'[w].at = "getsockopt"
        /\ work'[w].fd = f /\ work'[w].c = c
        /\ \A u \in Workers : u # w => work'[u] = work[u]
        /\ UNCHANGED <<at, sock, tfd, peer, m_state>>
    BY <1>18, <1>b, <2>0, StageType DEF ConnectHandler, Closed
  <2>2. ASSUME NEW g \in Fds PROVE FdOK(g)'
    <3>1. FdOK(g) /\ WorkOK(w)
      BY <1>c
    <3>2. CASE g = f
      <4>1. CASE owner'[g] = None /\ reg'[g] = "none"
        BY <1>a, <4>1 DEF FdOK
      <4>2. CASE owner' = owner /\ reg' = reg
        BY <2>1, <3>1, <4>2 DEF FdOK
      <4> QED
        BY <2>1, <3>2, <4>1, <4>2
    <3>3. CASE g # f
      <4>1. owner'[g] = owner[g] /\ reg'[g] = reg[g] /\ m_state'[g] = m_state[g]
        BY <2>1, <3>3
      <4> QED
        BY <1>a, <1>b, <2>1, <3>1, <3>3, <4>1, <2>0 DEF FdOK, WorkOK, Uses
    <3> QED
      BY <3>2, <3>3
  <2>3. ASSUME NEW d \in Calls PROVE CallOK(d)'
    <3>1. CallOK(d) /\ WorkOK(w)
      BY <1>c
    <3> QED
      BY <1>a, <1>b, <2>1, <3>1, <2>0 DEF CallOK, WorkOK, Uses
  <2>4. ASSUME NEW v \in Workers PROVE WorkOK(v)'
    <3>1. WorkOK(v) /\ WorkOK(w)
      BY <1>c
    <3>2. owner[f] = <<"sock", c>> /\ peer[c] # "pending" /\ reg[f] # "armed"
      BY <1>a, <2>0, <2>1, <3>1 DEF WorkOK, Uses
    <3>3. CASE v = w
      BY <2>0, <2>1, <3>1, <3>2, <3>3 DEF WorkOK, Uses
    <3>4. CASE v # w
      <4>1. work'[v] = work[v] /\ (Uses(v, work[v].fd) => work[v].fd # f)
        BY <2>0, <2>1, <3>1, <3>4 DEF WorkOK, Uses
      <4>2. \A h \in Fds : h # f => owner'[h] = owner[h] /\ reg'[h] = reg[h]
        BY <2>1
      <4> QED
        BY <1>e, <2>0, <2>1, <3>1, <3>4, <4>1, <4>2 DEF WorkOK, Uses
    <3> QED
      BY <3>3, <3>4
  <2> QED
    BY <2>2, <2>3, <2>4 DEF OwnInv
<1>19. ASSUME NEW w \in Workers, ConnectResult(w) PROVE OwnInv'
  <2>0. PICK f \in Fds, c \in Calls : f = work[w].fd /\ c = work[w].c
    BY <1>19, AtWork DEF ConnectResult
  <2>1. /\ work[w].at = "getsockopt"
        /\ peer[c] = "refused" =>
             (\A h \in Fds : owner'[h] = (IF h = f THEN None ELSE owner[h]) /\ reg'[h] = (IF h = f THEN "none" ELSE reg[h]))
        /\ peer[c] # "refused" =>
             reg' = reg /\ \A h \in Fds : owner'[h] = IF h = f THEN <<"user", c>> ELSE owner[h]
        /\ work'[w].at = "remove" /\ work'[w].fd = f /\ work'[w].c = c
        /\ \A u \in Workers : u # w => work'[u] = work[u]
        /\ UNCHANGED <<at, sock, tfd, peer, m_state>>
    BY <1>19, <1>b, <2>0, StageType DEF ConnectResult, Settle, Closed, CallbackFd
  <2>2. ASSUME NEW g \in Fds PROVE FdOK(g)'
    <3>1. FdOK(g) /\ WorkOK(w)
      BY <1>c
    <3> QED
      BY <1>a, <1>b, <2>1, <3>1, <2>0 DEF FdOK, WorkOK, Uses
  <2>3. ASSUME NEW d \in Calls PROVE CallOK(d)'
    <3>1. CallOK(d) /\ WorkOK(w)
      BY <1>c
    <3> QED
      BY <1>a, <1>b, <2>1, <3>1, <2>0 DEF CallOK, WorkOK, Uses
  <2>4. ASSUME NEW v \in Workers PROVE WorkOK(v)'
    <3>1. WorkOK(v) /\ WorkOK(w)
      BY <1>c
    <3> QED
      BY <1>a, <1>b, <2>1, <3>1, <1>e, <2>0 DEF WorkOK, Uses
  <2> QED
    BY <2>2, <2>3, <2>4 DEF OwnInv
<1>20. ASSUME NEW w \in Workers, TimeoutHandler(w) PROVE OwnInv'
  <2>0. PICK f \in Fds, c \in Calls : f = work[w].fd /\ c = work[w].c
    BY <1>20, AtWork DEF TimeoutHandler
  <2>1. /\ work[w].at = "call"
        /\ work'[w].at = "remove" /\ work'[w].fd = f /\ work'[w].c = c
        /\ \A u \in Workers : u # w => work'[u] = work[u]
        /\ UNCHANGED <<at, sock, tfd, peer, owner, reg, m_state>>
    BY <1>20, <1>b, <2>0, StageType DEF TimeoutHandler
  <2>2. ASSUME NEW g \in Fds PROVE FdOK(g)'
    <3>1. FdOK(g) /\ WorkOK(w)
      BY <1>c
    <3> QED
      BY <1>a, <1>b, <2>1, <3>1, <2>0 DEF FdOK, WorkOK, Uses
  <2>3. ASSUME NEW d \in Calls PROVE CallOK(d)'
    <3>1. CallOK(d) /\ WorkOK(w)
      BY <1>c
    <3> QED
      BY <1>a, <1>b, <2>1, <3>1, <2>0 DEF CallOK, WorkOK, Uses
  <2>4. ASSUME NEW v \in Workers PROVE WorkOK(v)'
    <3>1. WorkOK(v) /\ WorkOK(w)
      BY <1>c
    <3> QED
      BY <1>a, <1>b, <2>1, <3>1, <1>e, <2>0 DEF WorkOK, Uses
  <2> QED
    BY <2>2, <2>3, <2>4 DEF OwnInv
<1>21. ASSUME NEW w \in Workers, Crash(w) PROVE OwnInv'
  BY <1>21, OwnFrame DEF Crash
<1>22. ASSUME NEW w \in Workers, ShotRemove(w) PROVE OwnInv'
  <2>0. PICK f \in Fds, c \in Calls : f = work[w].fd /\ c = work[w].c
    BY <1>22, AtWork DEF ShotRemove
  <2>1. /\ work[w].at = "remove"
        /\ \A h \in Fds : reg'[h] = IF h = f THEN "none" ELSE reg[h]
        /\ work'[w].at = "reset" /\ work'[w].fd = f /\ work'[w].c = c
        /\ \A u \in Workers : u # w => work'[u] = work[u]
        /\ UNCHANGED <<at, sock, tfd, peer, owner, m_state>>
    BY <1>22, <1>b, <2>0, StageType DEF ShotRemove
  <2>2. ASSUME NEW g \in Fds PROVE FdOK(g)'
    <3>1. FdOK(g) /\ WorkOK(w)
      BY <1>c
    <3> QED
      BY <1>a, <1>b, <2>1, <3>1, <2>0 DEF FdOK, WorkOK, Uses
  <2>3. ASSUME NEW d \in Calls PROVE CallOK(d)'
    <3>1. CallOK(d) /\ WorkOK(w)
      BY <1>c
    <3> QED
      BY <1>a, <1>b, <2>1, <3>1, <2>0 DEF CallOK, WorkOK, Uses
  <2>4. ASSUME NEW v \in Workers PROVE WorkOK(v)'
    <3>1. WorkOK(v) /\ WorkOK(w)
      BY <1>c
    <3> QED
      BY <1>a, <1>b, <2>1, <3>1, <1>e, <2>0 DEF WorkOK, Uses
  <2> QED
    BY <2>2, <2>3, <2>4 DEF OwnInv
<1>23. ASSUME NEW w \in Workers, ResetHandler(w) PROVE OwnInv'
  <2>0. PICK f \in Fds, c \in Calls : f = work[w].fd /\ c = work[w].c
    BY <1>23, AtWork DEF ResetHandler
  <2>1. /\ work[w].at = "reset"
        /\ \A h \in Fds : m_state'[h] = IF h = f THEN None ELSE m_state[h]
        /\ work'[w].at = "idle"
        /\ \A u \in Workers : u # w => work'[u] = work[u]
        /\ UNCHANGED <<at, sock, tfd, peer, owner, reg>>
    BY <1>23, <1>b, <2>0, IdleType DEF ResetHandler
  <2>2. ASSUME NEW g \in Fds PROVE FdOK(g)'
    <3>1. FdOK(g) /\ WorkOK(w)
      BY <1>c
    <3> QED
      BY <1>a, <1>b, <2>1, <3>1, <2>0 DEF FdOK, WorkOK, Uses
  <2>3. ASSUME NEW d \in Calls PROVE CallOK(d)'
    <3>1. CallOK(d) /\ WorkOK(w)
      BY <1>c
    <3> QED
      BY <1>a, <1>b, <2>1, <3>1, <2>0 DEF CallOK, WorkOK, Uses
  <2>4. ASSUME NEW v \in Workers PROVE WorkOK(v)'
    <3>1. WorkOK(v) /\ WorkOK(w)
      BY <1>c
    <3> QED
      BY <1>a, <1>b, <2>1, <3>1, <1>e, <2>0 DEF WorkOK, Uses
  <2> QED
    BY <2>2, <2>3, <2>4 DEF OwnInv
<1>24. ASSUME NEW c \in Calls, Peer(c) PROVE OwnInv'
  <2>1. /\ sock[c] # 0
        /\ \A e \in Calls : e # c => peer'[e] = peer[e]
        /\ peer[c] \in {"pending", "established"}
        /\ peer'[c] \in {"established", "refused", "data"}
        /\ peer[c] = "established" => peer'[c] = "data"
        /\ UNCHANGED <<at, sock, tfd, owner, reg, m_state, work>>
    BY <1>24, <1>b DEF Peer
  <2>2. ASSUME NEW g \in Fds PROVE FdOK(g)'
    <3>1. FdOK(g)
      BY <1>c
    <3> QED
      BY <1>a, <1>b, <2>1, <3>1 DEF FdOK, Uses
  <2>3. ASSUME NEW d \in Calls PROVE CallOK(d)'
    <3>1. CallOK(d)
      BY <1>c
    <3> QED
      BY <1>a, <1>b, <2>1, <3>1 DEF CallOK, Uses
  <2>4. ASSUME NEW v \in Workers PROVE WorkOK(v)'
    <3>1. WorkOK(v)
      BY <1>c
    <3> QED
      BY <1>a, <1>b, <2>1, <3>1, <1>e DEF WorkOK, Uses
  <2> QED
    BY <2>2, <2>3, <2>4 DEF OwnInv
<1>25. ASSUME NEW c \in Calls, Expire(c) PROVE OwnInv'
  BY <1>25, OwnFrame DEF Expire
<1>26. ASSUME NEW f \in Fds, UserCloses(f) PROVE OwnInv'
  <2>1. /\ \E c \in Calls : owner[f] = <<"user", c>>
        /\ \A h \in Fds : owner'[h] = IF h = f THEN None ELSE owner[h]
        /\ \A h \in Fds : reg'[h] = IF h = f THEN "none" ELSE reg[h]
        /\ UNCHANGED <<at, sock, tfd, peer, m_state, work>>
    BY <1>26, <1>b DEF UserCloses, Closed
  <2>2. ASSUME NEW g \in Fds PROVE FdOK(g)'
    <3>1. FdOK(g) /\ FdOK(f)
      BY <1>c
    <3>2. CASE g = f
      <4>1. owner'[g] = None /\ reg'[g] = "none"
        BY <2>1, <3>2
      <4> QED
        BY <1>a, <4>1 DEF FdOK
    <3>3. CASE g # f
      <4>1. owner'[g] = owner[g] /\ reg'[g] = reg[g] /\ m_state'[g] = m_state[g]
        BY <2>1, <3>3
      <4> QED
        BY <1>a, <1>b, <2>1, <3>1, <3>3, <4>1, <1>d DEF FdOK, Uses
    <3> QED
      BY <3>2, <3>3
  <2>3. ASSUME NEW d \in Calls PROVE CallOK(d)'
    <3>1. CallOK(d) /\ FdOK(f)
      BY <1>c
    <3> QED
      BY <1>a, <1>b, <2>1, <3>1, <1>d DEF CallOK, FdOK, Uses
  <2>4. ASSUME NEW v \in Workers PROVE WorkOK(v)'
    <3>1. WorkOK(v) /\ FdOK(f)
      BY <1>c
    <3> QED
      BY <1>a, <1>b, <2>1, <3>1, <1>d, <1>e DEF FdOK, WorkOK, Uses
  <2> QED
    BY <2>2, <2>3, <2>4 DEF OwnInv
<1>27. CASE UNCHANGED vars
  BY <1>27, OwnFrame DEF vars
<1> QED
  BY <1>1, <1>2, <1>3, <1>4, <1>5, <1>6, <1>7, <1>8, <1>9, <1>10,
     <1>11, <1>12, <1>13, <1>14, <1>15, <1>16, <1>17, <1>18, <1>19, <1>20,
     <1>21, <1>22, <1>23, <1>24, <1>25, <1>26, <1>27
     DEF Next, Running, Ended, CallStep, WorkerStep

-----------------------------------------------------------------------------
(* What a callback is given.                                               *)

\* What a step calls back with a descriptor, and what it takes away.
Gives == \A c \in Calls : cb'[c] # cb[c] /\ cb'[c][Len(cb'[c])] =>
           owner'[sock'[c]] = <<"user", c>> /\ peer[c] \in {"established", "data"}

Leaves == \A f \in Fds : owner[f] # None /\ owner[f][1] = "user" /\ owner'[f] # owner[f] =>
            UserCloses(f)

\* A step that changes the owner of one descriptor, which nobody was given.
LEMMA LeavesOthers ==
  ASSUME NEW f, owner[f] = None \/ owner[f][1] # "user",
         \A h \in Fds : h # f => owner'[h] = owner[h]
  PROVE  Leaves
BY DEF Leaves

\* A callback without a descriptor.
LEMMA GivesNothing ==
  ASSUME TypeOK, NEW c \in Calls, cb' = [cb EXCEPT ![c] = Append(cb[c], FALSE)]
  PROVE  Gives
<1>1. cb \in [Calls -> Seq(BOOLEAN)]
  BY DEF TypeOK
<1>2. \A d \in Calls : d # c => cb'[d] = cb[d]
  BY <1>1
<1>3. cb'[c][Len(cb'[c])] = FALSE
  BY <1>1
<1> QED
  BY <1>2, <1>3 DEF Gives

\* A callback with the connected socket of its call.
LEMMA GivesSocket ==
  ASSUME TypeOK, NEW c \in Calls, NEW f \in Fds, CallbackFd(c, f), sock' = sock,
         sock[c] = f, peer[c] \in {"established", "data"}
  PROVE  Gives
<1>1. cb \in [Calls -> Seq(BOOLEAN)] /\ cb' = [cb EXCEPT ![c] = Append(cb[c], TRUE)]
  BY CallbackFdType DEF TypeOK
<1>2. \A d \in Calls : d # c => cb'[d] = cb[d]
  BY <1>1
<1>3. owner'[f] = <<"user", c>>
  BY DEF CallbackFd, TypeOK
<1> QED
  BY <1>2, <1>3 DEF Gives

\* What Settle does with the socket of the call it settles.
LEMMA SettleKeeps ==
  ASSUME TypeOK, NEW c \in Calls, NEW f \in Fds, Settle(c, f), sock' = sock,
         owner[f] = <<"sock", c>>, sock[c] = f, peer[c] # "pending"
  PROVE  Gives /\ Leaves
<1>1. owner \in [Fds -> Owners] /\ peer[c] \in {"pending", "established", "data", "refused"}
  BY DEF TypeOK, Owners
<1>2. \A h \in Fds : h # f => owner'[h] = owner[h]
  BY <1>1 DEF Settle, Closed, CallbackFd
<1>3. Leaves
  BY <1>2, LeavesOthers
<1>4. CASE peer[c] = "refused"
  BY <1>3, <1>4, CallbackType, GivesNothing DEF Settle
<1>5. CASE peer[c] # "refused"
  <2>1. CallbackFd(c, f)
    BY <1>5 DEF Settle
  <2> QED
    BY <1>1, <1>3, <1>5, <2>1, GivesSocket
<1> QED
  BY <1>4, <1>5

\* A step that neither calls back nor changes an owner.
LEMMA QuietKeeps ==
  ASSUME UNCHANGED <<cb, owner>>
  PROVE  Gives /\ Leaves
BY DEF Gives, Leaves

\* Every step gives only connected sockets, and takes none back.
LEMMA KeepStep == TypeOK /\ OwnInv /\ [Next]_vars => UNCHANGED vars \/ (Gives /\ Leaves)
<1> SUFFICES ASSUME TypeOK, OwnInv, [Next]_vars PROVE UNCHANGED vars \/ (Gives /\ Leaves)
  OBVIOUS
<1> USE DEF Goto, callVars, worldVars, kernelVars, ghostVars
<1>b. DOMAIN owner = Fds /\ cb \in [Calls -> Seq(BOOLEAN)]
  BY DEF TypeOK
<1>c. (\A f \in Fds : FdOK(f)) /\ (\A c \in Calls : CallOK(c)) /\ (\A w \in Workers : WorkOK(w))
  BY DEF OwnInv
<1>1. ASSUME NEW c \in Calls, ConnectFails(c) PROVE Gives /\ Leaves
  BY <1>1, QuietKeeps DEF ConnectFails
<1>2. ASSUME NEW c \in Calls, ConnectThread(c) PROVE Gives /\ Leaves
  BY <1>2, QuietKeeps DEF ConnectThread
<1>3. ASSUME NEW c \in Calls, SetHandler(c) PROVE Gives /\ Leaves
  BY <1>3, QuietKeeps DEF SetHandler
<1>4. ASSUME NEW c \in Calls, SetHandlerFails(c) PROVE Gives /\ Leaves
  <2>1. owner[sock[c]] = <<"sock", c>>
    BY <1>4, <1>c DEF SetHandlerFails, CallOK
  <2>2. cb' = cb /\ \A h \in Fds : h # sock[c] => owner'[h] = owner[h]
    BY <1>4, <1>b DEF SetHandlerFails, Closed
  <2> QED
    BY <2>1, <2>2, LeavesOthers DEF Gives
<1>5. ASSUME NEW c \in Calls, AddFd(c) PROVE Gives /\ Leaves
  BY <1>5, QuietKeeps DEF AddFd
<1>6. ASSUME NEW c \in Calls, CreateTimerFails(c) PROVE Gives /\ Leaves
  BY <1>6, QuietKeeps DEF CreateTimerFails
<1>7. ASSUME NEW c \in Calls, SetTimerHandler(c) PROVE Gives /\ Leaves
  BY <1>7, QuietKeeps DEF SetTimerHandler
<1>8. ASSUME NEW c \in Calls, AddTimer(c) PROVE Gives /\ Leaves
  BY <1>8, QuietKeeps DEF AddTimer
<1>9. ASSUME NEW c \in Calls, AddTimerFails(c) PROVE Gives /\ Leaves
  <2>1. owner[tfd[c]] = <<"timer", c>>
    BY <1>9, <1>c DEF AddTimerFails, CallOK
  <2>2. cb' = cb /\ \A h \in Fds : h # tfd[c] => owner'[h] = owner[h]
    BY <1>9, <1>b DEF AddTimerFails, Closed
  <2> QED
    BY <2>1, <2>2, LeavesOthers DEF Gives
<1>10. ASSUME NEW c \in Calls, NEW f \in Fds, Connect(c, f) PROVE Gives /\ Leaves
  <2>1. owner[f] = None
    BY <1>10 DEF Connect, Opened
  <2>2. cb' = cb /\ \A h \in Fds : h # f => owner'[h] = owner[h]
    BY <1>10, <1>b DEF Connect, Opened
  <2> QED
    BY <2>1, <2>2, LeavesOthers DEF Gives
<1>11. ASSUME NEW c \in Calls, NEW f \in Fds, CreateTimer(c, f) PROVE Gives /\ Leaves
  <2>1. owner[f] = None
    BY <1>11 DEF CreateTimer, Opened
  <2>2. cb' = cb /\ \A h \in Fds : h # f => owner'[h] = owner[h]
    BY <1>11, <1>b DEF CreateTimer, Opened
  <2> QED
    BY <2>1, <2>2, LeavesOthers DEF Gives
<1>12. ASSUME NEW w \in Workers, NEW c \in Calls, RunTask(w, c) PROVE Gives /\ Leaves
  <2>1. CASE at[c] = "connected"
    <3>1. sock[c] \in Fds /\ owner[sock[c]] = <<"sock", c>> /\ peer[c] \in {"established", "data"}
      BY <1>c, <2>1 DEF CallOK
    <3>2. CallbackFd(c, sock[c]) /\ sock' = sock
      BY <1>12, <2>1 DEF RunTask
    <3>3. Gives
      BY <3>1, <3>2, GivesSocket
    <3>4. \A h \in Fds : h # sock[c] => owner'[h] = owner[h]
      BY <1>b, <3>2 DEF CallbackFd
    <3> QED
      BY <3>1, <3>3, <3>4, LeavesOthers
  <2>2. CASE at[c] # "connected"
    <3>1. Callback(c, FALSE) /\ owner' = owner
      BY <1>12, <2>2 DEF RunTask
    <3> QED
      BY <3>1, CallbackType, GivesNothing DEF Leaves
  <2> QED
    BY <2>1, <2>2
<1>13. ASSUME NEW w \in Workers, NEW c \in Calls, TaskFails(w, c) PROVE Gives /\ Leaves
  BY <1>13, CallbackType, GivesNothing DEF TaskFails, Leaves
<1>14. ASSUME NEW w \in Workers, NEW c \in Calls, NEW f \in Fds, TaskConnect(w, c, f) PROVE Gives /\ Leaves
  <2>1. owner[f] = None
    BY <1>14 DEF TaskConnect, Opened
  <2>2. cb' = cb /\ \A h \in Fds : h # f => owner'[h] = owner[h]
    BY <1>14, <1>b DEF TaskConnect, Opened
  <2> QED
    BY <2>1, <2>2, LeavesOthers DEF Gives
<1>15. ASSUME NEW w \in Workers, TaskPolled(w) PROVE Gives /\ Leaves
  <2>1. PICK f \in Fds, c \in Calls : f = work[w].fd /\ c = work[w].c
    BY <1>15, AtWork DEF TaskPolled
  <2>2. owner[f] = <<"sock", c>> /\ peer[c] # "pending"
    BY <1>15, <1>c, <2>1 DEF TaskPolled, WorkOK
  <2>3. sock[c] = f
    BY <1>c, <2>2 DEF FdOK
  <2>4. Settle(c, f) /\ sock' = sock
    BY <1>15, <2>1 DEF TaskPolled
  <2> QED
    BY <2>2, <2>3, <2>4, SettleKeeps
<1>16. ASSUME NEW w \in Workers, TaskTimeout(w) PROVE Gives /\ Leaves
  <2>1. work[w].fd \in Fds /\ work[w].c \in Calls
    BY <1>16, AtWork DEF TaskTimeout
  <2>2. owner[work[w].fd] = <<"sock", work[w].c>>
    BY <1>16, <1>c DEF TaskTimeout, WorkOK
  <2>3. \A h \in Fds : h # work[w].fd => owner'[h] = owner[h]
    BY <1>16, <1>b DEF TaskTimeout, Closed
  <2>4. Leaves
    BY <2>2, <2>3, LeavesOthers
  <2> QED
    BY <1>16, <2>1, <2>4, CallbackType, GivesNothing DEF TaskTimeout
<1>17. ASSUME NEW w \in Workers, Report(w) PROVE Gives /\ Leaves
  BY <1>17, QuietKeeps DEF Report
<1>18. ASSUME NEW w \in Workers, ConnectHandler(w) PROVE Gives /\ Leaves
  <2>0. /\ work[w].at = "call" /\ m_state[work[w].fd] = <<"connect", work[w].c>>
        /\ m_state[work[w].fd] # None /\ m_state[work[w].fd] # <<"timeout", work[w].c>>
    BY <1>18, NoneIsNobody DEF ConnectHandler
  <2>1. owner[work[w].fd] = <<"sock", work[w].c>>
    BY <1>c, <2>0 DEF WorkOK
  <2>2. cb' = cb /\ \A h \in Fds : h # work[w].fd => owner'[h] = owner[h]
    BY <1>18, <1>b DEF ConnectHandler, Closed
  <2> QED
    BY <2>1, <2>2, LeavesOthers DEF Gives
<1>19. ASSUME NEW w \in Workers, ConnectResult(w) PROVE Gives /\ Leaves
  <2>1. PICK f \in Fds, c \in Calls : f = work[w].fd /\ c = work[w].c
    BY <1>19, AtWork DEF ConnectResult
  <2>2. owner[f] = <<"sock", c>> /\ peer[c] # "pending"
    BY <1>19, <1>c, <2>1 DEF ConnectResult, WorkOK
  <2>3. sock[c] = f
    BY <1>c, <2>2 DEF FdOK
  <2>4. Settle(c, f) /\ sock' = sock
    BY <1>19, <2>1 DEF ConnectResult
  <2> QED
    BY <2>2, <2>3, <2>4, SettleKeeps
<1>20. ASSUME NEW w \in Workers, TimeoutHandler(w) PROVE Gives /\ Leaves
  <2>1. work[w].c \in Calls /\ owner' = owner
    BY <1>20, AtWork DEF TimeoutHandler
  <2>2. cb' = cb \/ Callback(work[w].c, FALSE)
    BY <1>20 DEF TimeoutHandler
  <2>3. Leaves
    BY <2>1 DEF Leaves
  <2> QED
    BY <2>1, <2>2, <2>3, CallbackType, GivesNothing DEF Gives
<1>21. ASSUME NEW w \in Workers, Crash(w) PROVE Gives /\ Leaves
  BY <1>21, QuietKeeps DEF Crash
<1>22. ASSUME NEW w \in Workers, ShotRemove(w) PROVE Gives /\ Leaves
  BY <1>22, QuietKeeps DEF ShotRemove
<1>23. ASSUME NEW w \in Workers, ResetHandler(w) PROVE Gives /\ Leaves
  BY <1>23, QuietKeeps DEF ResetHandler
<1>24. ASSUME NEW c \in Calls, Peer(c) PROVE Gives /\ Leaves
  BY <1>24, QuietKeeps DEF Peer
<1>25. ASSUME NEW c \in Calls, Expire(c) PROVE Gives /\ Leaves
  BY <1>25, QuietKeeps DEF Expire
<1>26. ASSUME NEW f \in Fds, UserCloses(f) PROVE Gives /\ Leaves
  <2>1. cb' = cb /\ \A h \in Fds : h # f => owner'[h] = owner[h]
    BY <1>26, <1>b DEF UserCloses, Closed
  <2> QED
    BY <1>26, <2>1 DEF Gives, Leaves
<1>27. CASE UNCHANGED vars
  BY <1>27
<1> QED
  BY <1>1, <1>2, <1>3, <1>4, <1>5, <1>6, <1>7, <1>8, <1>9, <1>10,
     <1>11, <1>12, <1>13, <1>14, <1>15, <1>16, <1>17, <1>18, <1>19, <1>20,
     <1>21, <1>22, <1>23, <1>24, <1>25, <1>26, <1>27
     DEF Next, Running, Ended, CallStep, WorkerStep

-----------------------------------------------------------------------------

IInv == TypeOK /\ OnceInv /\ OwnInv

\* The inductive invariant: types, who may still call back, and whose each
\* descriptor is.
THEOREM Invariance == Spec => []IInv
<1>1. Init => IInv
  BY TypeInit, OnceInit, OwnInit DEF IInv
<1>2. IInv /\ [Next]_vars => IInv'
  BY TypeStep, OnceStep, OwnStep DEF IInv
<1> QED
  BY <1>1, <1>2, PTL DEF Spec

\* The variables of connect_event and connect_thread keep their types.
THEOREM TypeCorrect == Spec => []TypeOK
<1>1. IInv => TypeOK
  BY DEF IInv
<1> QED
  BY <1>1, Invariance, PTL

\* A callback is called at most once, whatever the socket, the timer and the
\* failures of the set-up do (wavy_connect.cc:144 and 180).
THEOREM CalledBackOnce == Spec => []CallbackOnce
<1>1. IInv => CallbackOnce
  BY DEF IInv, OnceInv, OnceAt, CallbackOnce
<1> QED
  BY <1>1, Invariance, PTL

\* The descriptor a callback is given is the connected socket of its call, and
\* nobody else closes it: the numbers the handlers and the timer close are
\* never those of a user (wavy_connect.cc:144-146 and 169-174).
THEOREM GivenDescriptorsKept == Spec => GivenKept
<1>1. IInv /\ [Next]_vars =>
        [/\ \A c \in Calls :
              cb'[c] # cb[c] /\ cb'[c][Len(cb'[c])] =>
                owner'[sock'[c]] = <<"user", c>> /\ peer[c] \in {"established", "data"}
         /\ \A f \in Fds : owner[f] # None /\ owner[f][1] = "user" /\ owner'[f] # owner[f] =>
              UserCloses(f)]_vars
  BY KeepStep DEF IInv, Gives, Leaves
<1> QED
  BY <1>1, Invariance, PTL DEF Spec, GivenKept
=============================================================================
