------------------------------ MODULE WavyOut ------------------------------
(***************************************************************************)
(* The output side of mp::wavy (mpsrc/wavy_out.cc): every descriptor has a *)
(* transfer context, a queue of data and finalizers behind a mutex.  A     *)
(* commit writes directly when the context is empty and queues what the    *)
(* socket does not take; the out port then reports when the socket is      *)
(* writable and a worker goes on in write_event.                           *)
(*                                                                         *)
(* The bytes of a descriptor are numbered in the order of the commits, so  *)
(* an item of data is the interval lo..hi it still has to write.  Each     *)
(* writev, sendfile or finalizer of xferimpl::execute is a step, as the    *)
(* peer, the poller and the handler that closes the descriptor go on       *)
(* meanwhile; the context mutex is held from the first to the last.  The    *)
(* descriptor may be closed and its number used again at any of them.      *)
(***************************************************************************)
EXTENDS Naturals, Sequences, FiniteSets

CONSTANTS
  Threads,      \* the workers
  Fds,          \* descriptors of connections
  NoThread,     \* not a worker
  NoFd,         \* not a descriptor
  Calls,        \* the calls that are made: [op, ends], see Items
  Room,         \* capacity of a socket buffer, in bytes
  BacklogSize,  \* MP_WAVY_PORT_BACKLOG_SIZE
  MaxBytes,     \* bound of the model: bytes committed to one descriptor
  MaxCommits    \* bound of the model: finalizers committed to one descriptor

ASSUME ThreadAssumption == NoThread \notin Threads /\ NoFd \notin Fds
ASSUME RoomAssumption ==
  /\ Room \in Nat \ {0} /\ BacklogSize \in Nat \ {0}
  /\ MaxBytes \in Nat /\ MaxCommits \in Nat
ASSUME CallAssumption ==
  /\ Calls \subseteq [op : {"raw", "xfer", "write"}, ends : Seq(Nat \ {0})]
  /\ \A c \in Calls : \A i, j \in 1..Len(c.ends) : i < j => c.ends[i] < c.ends[j]

VARIABLES
  ctx,        \* the transfer context of each descriptor
  lock,       \* who holds the mutex of the context
  pc,         \* where each worker is
  op,         \* the operation it executes
  target,     \* its descriptor
  buf,        \* what is left of the items it executes
  result,     \* what execute returned: "again" is true, the others false
  oreg,       \* registration of each descriptor in the out port
  out_queue,  \* out::m_queue
  open,       \* the descriptor is open
  room,       \* free space in its socket buffer
  broken,     \* its connection is reset by the peer: every write fails
  shut,       \* shutdown(fd, SHUT_RD) was called
  commits,    \* number of commits with a finalizer so far
  committed,  \* number of the last byte committed
  delivered,  \* number of the last byte written to the socket
  freed,      \* commits whose finalizer has run
  leaked,     \* commits whose finalizer was dropped
  stale,      \* the descriptor was closed while output was pending
  unwatched   \* the out port refused to register it while output was pending

threadVars == <<pc, op, target, buf, result>>
portVars   == <<oreg, out_queue>>
sockVars   == <<open, room, broken, shut>>
histVars   == <<commits, committed, delivered, freed, leaked, stale, unwatched>>
vars       == <<ctx, lock, threadVars, portVars, sockVars, histVars>>

\* The bytes lo..hi, in memory that finalizer no frees (0: nobody does), and
\* that finalizer.
Data(lo, hi, no) == [type |-> "data", lo |-> lo, hi |-> hi, no |-> no]
Fin(no) == [type |-> "fin", lo |-> 0, hi |-> 0, no |-> no]

Init ==
  /\ ctx = [f \in Fds |-> <<>>]
  /\ lock = [f \in Fds |-> NoThread]
  /\ pc = [t \in Threads |-> "idle"]
  /\ op = [t \in Threads |-> "none"]
  /\ target = [t \in Threads |-> NoFd]
  /\ buf = [t \in Threads |-> <<>>]
  /\ result = [t \in Threads |-> "none"]
  /\ oreg = [f \in Fds |-> "none"]
  /\ out_queue = <<>>
  /\ open = [f \in Fds |-> TRUE]
  /\ room = [f \in Fds |-> Room]
  /\ broken = [f \in Fds |-> FALSE]
  /\ shut = [f \in Fds |-> FALSE]
  /\ commits = [f \in Fds |-> 0]
  /\ committed = [f \in Fds |-> 0]
  /\ delivered = [f \in Fds |-> 0]
  /\ freed = [f \in Fds |-> {}]
  /\ leaked = [f \in Fds |-> {}]
  /\ stale = [f \in Fds |-> FALSE]
  /\ unwatched = [f \in Fds |-> FALSE]

-----------------------------------------------------------------------------
(* Commits.                                                                *)

\* Where the i-th extent of a call ends, counted from the first byte of the
\* call, and how many bytes it has in all.
End(c, i) == IF i = 0 THEN 0 ELSE c.ends[i]
Total(c) == End(c, Len(c.ends))

\* The data items of a call, one per extent: write and writev have one,
\* hsendfile has two.
Extents(c, base, no) ==
  [i \in 1..Len(c.ends) |-> Data(base + End(c, i - 1) + 1, base + End(c, i), no)]

\* Mutant: the finalizer is put before the data.
Items_FinalizerFirst(c, base, no) ==
  IF c.op = "write" THEN Extents(c, base, 0) ELSE <<Fin(no)>> \o Extents(c, base, no)

\* The items of a call: the data, then the finalizer; out::write has none.
Items(c, base, no) ==
  IF c.op = "write" THEN Extents(c, base, 0) ELSE Extents(c, base, no) \o <<Fin(no)>>

\* The call a worker may make now, by the model's bound.
Within(f, c) ==
  committed[f] + Total(c) <= MaxBytes /\ (c.op = "write" \/ commits[f] < MaxCommits)

Numbered(f, c) ==
  /\ commits' = [commits EXCEPT ![f] = IF c.op = "write" THEN @ ELSE @ + 1]
  /\ committed' = [committed EXCEPT ![f] = @ + Total(c)]

\* commit_raw, commit and write when the context is not empty: the items are
\* queued behind what is there.  (One that throws, as there is no memory, leaves
\* everything as it was.)
CommitQueued(t, f, c) ==
  /\ pc[t] = "idle" /\ open[f] /\ lock[f] = NoThread /\ Within(f, c)
  /\ ctx[f] # <<>>
  /\ ctx' = [ctx EXCEPT ![f] = @ \o Items(c, committed[f], commits[f] + 1)]
  /\ Numbered(f, c)
  /\ UNCHANGED <<lock, threadVars, portVars, sockVars, delivered, freed, leaked, stale, unwatched>>

\* Mutant: writes directly although output is queued.
CommitDirect_Overtakes(t, f, c) ==
  /\ pc[t] = "idle" /\ open[f] /\ lock[f] = NoThread /\ Within(f, c)
  /\ lock' = [lock EXCEPT ![f] = t]
  /\ pc' = [pc EXCEPT ![t] = "exec"]
  /\ op' = [op EXCEPT ![t] = c.op]
  /\ target' = [target EXCEPT ![t] = f]
  /\ buf' = [buf EXCEPT ![t] = Items(c, committed[f], commits[f] + 1)]
  /\ Numbered(f, c)
  /\ UNCHANGED <<ctx, result, portVars, sockVars, delivered, freed, leaked, stale, unwatched>>

\* The same when it is empty: the items are executed at once.
CommitDirect(t, f, c) ==
  /\ pc[t] = "idle" /\ open[f] /\ lock[f] = NoThread /\ Within(f, c)
  /\ ctx[f] = <<>>
  /\ lock' = [lock EXCEPT ![f] = t]
  /\ pc' = [pc EXCEPT ![t] = "exec"]
  /\ op' = [op EXCEPT ![t] = c.op]
  /\ target' = [target EXCEPT ![t] = f]
  /\ buf' = [buf EXCEPT ![t] = Items(c, committed[f], commits[f] + 1)]
  /\ Numbered(f, c)
  /\ UNCHANGED <<ctx, result, portVars, sockVars, delivered, freed, leaked, stale, unwatched>>

-----------------------------------------------------------------------------
(* xferimpl::execute.                                                      *)

Return(t, r) ==
  /\ result' = [result EXCEPT ![t] = r]
  /\ pc' = [pc EXCEPT ![t] = "settle"]

\* Every item is executed.
ExecDone(t) ==
  /\ pc[t] = "exec" /\ buf[t] = <<>>
  /\ Return(t, "done")
  /\ UNCHANGED <<ctx, lock, op, target, buf, portVars, sockVars, histVars>>

\* XF_FINALIZE
ExecFinalize(t) ==
  /\ pc[t] = "exec" /\ buf[t] # <<>> /\ Head(buf[t]).type = "fin"
  /\ freed' = [freed EXCEPT ![target[t]] = @ \union {Head(buf[t]).no}]
  /\ buf' = [buf EXCEPT ![t] = Tail(@)]
  /\ UNCHANGED <<ctx, lock, pc, op, target, result, portVars, sockVars,
                 commits, committed, delivered, leaked, stale, unwatched>>

\* XF_IOVEC and XF_SENDFILE: the socket takes n bytes, all of the item (go on
\* with the next one) or a part of it (return true).
ExecWrite(t) ==
  LET f == target[t]
      d == Head(buf[t])
  IN  /\ pc[t] = "exec" /\ buf[t] # <<>> /\ d.type = "data"
      /\ open[f] /\ ~broken[f]
      /\ \E n \in 1..room[f] :
           /\ d.lo + n <= d.hi + 1
           /\ delivered' = [delivered EXCEPT ![f] = IF stale[f] THEN @ ELSE @ + n]
           /\ room' = [room EXCEPT ![f] = @ - n]
           /\ IF d.lo + n = d.hi + 1
              THEN /\ buf' = [buf EXCEPT ![t] = Tail(@)]
                   /\ UNCHANGED <<pc, result>>
              ELSE /\ buf' = [buf EXCEPT ![t] = <<Data(d.lo + n, d.hi, d.no)>> \o Tail(@)]
                   /\ Return(t, "again")
      /\ UNCHANGED <<ctx, lock, op, target, portVars, open, broken, shut,
                     commits, committed, freed, leaked, stale, unwatched>>

\* EAGAIN, the socket buffer is full, or EINTR, which may happen at any time.
ExecBlocks(t) ==
  /\ pc[t] = "exec" /\ buf[t] # <<>> /\ Head(buf[t]).type = "data"
  /\ open[target[t]] /\ ~broken[target[t]]
  /\ Return(t, "again")
  /\ UNCHANGED <<ctx, lock, op, target, buf, portVars, sockVars, histVars>>

\* Any other error: the peer has reset the connection, or the descriptor was
\* closed while its write event was in flight.
ExecFails(t) ==
  /\ pc[t] = "exec" /\ buf[t] # <<>> /\ Head(buf[t]).type = "data"
  /\ broken[target[t]] \/ ~open[target[t]]
  /\ Return(t, "fail")
  /\ UNCHANGED <<ctx, lock, op, target, buf, portVars, sockVars, histVars>>

-----------------------------------------------------------------------------
(* What the callers of execute do with the result.                         *)

Finalizers(s) == {s[i].no : i \in {j \in 1..Len(s) : s[j].type = "fin"}}

Idle(t) ==
  /\ pc' = [pc EXCEPT ![t] = "idle"]
  /\ op' = [op EXCEPT ![t] = "none"]
  /\ target' = [target EXCEPT ![t] = NoFd]
  /\ buf' = [buf EXCEPT ![t] = <<>>]
  /\ result' = [result EXCEPT ![t] = "none"]
  /\ lock' = [lock EXCEPT ![target[t]] = NoThread]

\* The rest of a commit goes to the context and the out port watches the
\* descriptor; EPOLL_CTL_ADD has no effect on one that is registered.
SettleWatch(t) ==
  /\ pc[t] = "settle" /\ op[t] # "event" /\ result[t] = "again"
  /\ ctx' = [ctx EXCEPT ![target[t]] = buf[t]]
  /\ oreg' = [oreg EXCEPT ![target[t]] = IF @ = "none" THEN "armed" ELSE @]
  /\ Idle(t)
  /\ UNCHANGED <<out_queue, sockVars, histVars>>

\* The same when add_fd fails: watch does not look at its result, and nobody
\* waits for the socket.
SettleUnwatched(t) ==
  /\ pc[t] = "settle" /\ op[t] # "event" /\ result[t] = "again"
  /\ ctx' = [ctx EXCEPT ![target[t]] = buf[t]]
  /\ unwatched' = [unwatched EXCEPT ![target[t]] = TRUE]
  /\ Idle(t)
  /\ UNCHANGED <<portVars, sockVars, commits, committed, delivered, freed, leaked, stale>>

\* push_xfraw, migrate or push_write throws: the rest is lost and the commit was
\* one of the bytes that are written.  The owner of the xfer or of the auto_ptr
\* frees the memory, while the plain finalizer of a commit_raw is dropped.
SettleThrows(t) ==
  LET f == target[t]
  IN  /\ pc[t] = "settle" /\ op[t] # "event" /\ result[t] = "again"
      /\ committed' = [committed EXCEPT ![f] = Head(buf[t]).lo - 1]
      /\ \/ /\ freed' = [freed EXCEPT ![f] = @ \union Finalizers(buf[t])]
            /\ UNCHANGED leaked
         \/ /\ op[t] = "raw"
            /\ leaked' = [leaked EXCEPT ![f] = @ \union Finalizers(buf[t])]
            /\ UNCHANGED freed
      /\ Idle(t)
      /\ UNCHANGED <<ctx, portVars, sockVars, commits, delivered, stale, unwatched>>

SettleDone(t) ==
  /\ pc[t] = "settle" /\ op[t] # "event" /\ result[t] = "done"
  /\ Idle(t)
  /\ UNCHANGED <<ctx, portVars, sockVars, histVars>>

\* A failed commit.  commit_raw drops the rest with its finalizer and leaves
\* the socket alone; commit and write shut the reading side down, so that the
\* handler of the descriptor sees its end, and the owner of the xfer runs the
\* finalizer when it destroys it.
SettleFail(t) ==
  LET f == target[t]
  IN  /\ pc[t] = "settle" /\ op[t] # "event" /\ result[t] = "fail"
      /\ IF op[t] = "raw"
         THEN /\ leaked' = [leaked EXCEPT ![f] = @ \union Finalizers(buf[t])]
              /\ UNCHANGED <<freed, shut>>
         ELSE /\ shut' = [shut EXCEPT ![f] = TRUE]
              /\ freed' = [freed EXCEPT ![f] = @ \union Finalizers(buf[t])]
              /\ UNCHANGED leaked
      /\ Idle(t)
      /\ UNCHANGED <<ctx, portVars, open, room, broken, commits, committed, delivered, stale, unwatched>>

\* Mutant: the finished context is not removed from the out port.
EventDone_StaysWatched(t) ==
  LET f == target[t]
  IN  /\ pc[t] = "settle" /\ op[t] = "event" /\ result[t] # "again"
      /\ shut' = [shut EXCEPT ![f] = @ \/ (result[t] = "fail" /\ open[f])]
      /\ freed' = [freed EXCEPT ![f] = @ \union Finalizers(buf[t])]
      /\ ctx' = [ctx EXCEPT ![f] = <<>>]
      /\ Idle(t)
      /\ UNCHANGED <<oreg, out_queue, open, room, broken, commits, committed, delivered, leaked, stale, unwatched>>

\* write_event, execute returned false: an error shuts the socket down; the
\* registration is removed and the context reset, running the finalizers that
\* are left in it.
EventDone(t) ==
  LET f == target[t]
  IN  /\ pc[t] = "settle" /\ op[t] = "event" /\ result[t] # "again"
      /\ shut' = [shut EXCEPT ![f] = @ \/ (result[t] = "fail" /\ open[f])]
      /\ oreg' = [oreg EXCEPT ![f] = "none"]
      /\ freed' = [freed EXCEPT ![f] = @ \union Finalizers(buf[t])]
      /\ ctx' = [ctx EXCEPT ![f] = <<>>]
      /\ Idle(t)
      /\ UNCHANGED <<out_queue, open, room, broken, commits, committed, delivered, leaked, stale, unwatched>>

\* Mutant: the rest stays in the context, but nobody waits for the socket.
EventMore_NotReactivated(t) ==
  /\ pc[t] = "settle" /\ op[t] = "event" /\ result[t] = "again"
  /\ ctx' = [ctx EXCEPT ![target[t]] = buf[t]]
  /\ Idle(t)
  /\ UNCHANGED <<portVars, sockVars, histVars>>

\* write_event, the socket would block: re-arm.  EPOLL_CTL_MOD has no effect
\* on a descriptor that was closed in the meantime.
EventMore(t) ==
  /\ pc[t] = "settle" /\ op[t] = "event" /\ result[t] = "again"
  /\ ctx' = [ctx EXCEPT ![target[t]] = buf[t]]
  /\ oreg' = [oreg EXCEPT ![target[t]] = IF @ = "none" THEN "none" ELSE "armed"]
  /\ Idle(t)
  /\ UNCHANGED <<out_queue, sockVars, histVars>>

-----------------------------------------------------------------------------
(* The out port.                                                           *)

Writable(f) == oreg[f] = "armed" /\ (room[f] > 0 \/ broken[f])

\* poll_event: the out port reports writable or broken descriptors, each once.
PollEvent ==
  \E n \in 1..BacklogSize : \E s \in [1..n -> {f \in Fds : Writable(f)}] :
    /\ \A j, k \in 1..n : s[j] = s[k] => j = k
    /\ out_queue' = out_queue \o s
    /\ oreg' = [f \in Fds |-> IF \E k \in 1..n : s[k] = f THEN "fired" ELSE oreg[f]]
    /\ UNCHANGED <<ctx, lock, threadVars, sockVars, histVars>>

\* next(): a worker takes a write event ...
NextEvent(t) ==
  /\ pc[t] = "idle" /\ out_queue # <<>>
  /\ target' = [target EXCEPT ![t] = Head(out_queue)]
  /\ out_queue' = Tail(out_queue)
  /\ op' = [op EXCEPT ![t] = "event"]
  /\ pc' = [pc EXCEPT ![t] = "event"]
  /\ UNCHANGED <<ctx, lock, buf, result, oreg, sockVars, histVars>>

\* ... and enters write_event.
WriteEvent(t) ==
  /\ pc[t] = "event" /\ lock[target[t]] = NoThread
  /\ lock' = [lock EXCEPT ![target[t]] = t]
  /\ buf' = [buf EXCEPT ![t] = ctx[target[t]]]
  /\ pc' = [pc EXCEPT ![t] = "exec"]
  /\ UNCHANGED <<ctx, op, target, result, portVars, sockVars, histVars>>

-----------------------------------------------------------------------------
(* The life of the connection.                                             *)

\* What is committed and not yet executed: in the hands of the worker that
\* holds the mutex, or in the context.
Pending(f) == IF lock[f] = NoThread THEN ctx[f] ELSE buf[lock[f]]

\* The write events of a descriptor that are on their way.
InFlight(f) ==
  \/ \E k \in 1..Len(out_queue) : out_queue[k] = f
  \/ \E t \in Threads : op[t] = "event" /\ target[t] = f

PeerReads(f) ==
  /\ open[f] /\ ~broken[f] /\ room[f] < Room
  /\ room' = [room EXCEPT ![f] = Room]
  /\ UNCHANGED <<ctx, lock, threadVars, portVars, open, broken, shut, histVars>>

PeerResets(f) ==
  /\ open[f] /\ ~broken[f]
  /\ broken' = [broken EXCEPT ![f] = TRUE]
  /\ UNCHANGED <<ctx, lock, threadVars, portVars, open, room, shut, histVars>>

\* The worker that runs the handler closes the descriptor (it is not inside a
\* commit then).  The kernel forgets the registration; the context keeps what
\* it has.
Close(f) ==
  /\ open[f] /\ \A t \in Threads : target[t] = f => op[t] = "event"
  /\ open' = [open EXCEPT ![f] = FALSE]
  /\ oreg' = [oreg EXCEPT ![f] = "none"]
  /\ stale' = [stale EXCEPT ![f] = @ \/ ctx[f] # <<>> \/ InFlight(f)]
  /\ UNCHANGED <<ctx, lock, threadVars, out_queue, room, broken, shut,
                 commits, committed, delivered, freed, leaked, unwatched>>

\* The number is used again, for a new connection with a stream of its own.
Reopen(f) ==
  /\ ~open[f]
  /\ open' = [open EXCEPT ![f] = TRUE]
  /\ room' = [room EXCEPT ![f] = Room]
  /\ broken' = [broken EXCEPT ![f] = FALSE]
  /\ shut' = [shut EXCEPT ![f] = FALSE]
  /\ delivered' = [delivered EXCEPT ![f] = committed[f]]
  /\ UNCHANGED <<ctx, lock, threadVars, portVars, commits, committed, freed, leaked, stale, unwatched>>

-----------------------------------------------------------------------------
Commit(t) == \E f \in Fds, c \in Calls : CommitQueued(t, f, c) \/ CommitDirect(t, f, c)

Execute(t) ==
  ExecDone(t) \/ ExecFinalize(t) \/ ExecWrite(t) \/ ExecBlocks(t) \/ ExecFails(t)

Settle(t) ==
  \/ SettleWatch(t) \/ SettleUnwatched(t) \/ SettleThrows(t)
  \/ SettleDone(t) \/ SettleFail(t) \/ EventDone(t) \/ EventMore(t)

Next ==
  \/ \E t \in Threads : Commit(t) \/ Execute(t) \/ Settle(t) \/ NextEvent(t) \/ WriteEvent(t)
  \/ PollEvent
  \/ \E f \in Fds : PeerReads(f) \/ PeerResets(f) \/ Close(f) \/ Reopen(f)

Spec == Init /\ [][Next]_vars

\* Workers go on with what they have taken up and poll the out port, a write is
\* not interrupted forever, a worker that waits for a mutex gets it in the end,
\* and a peer that has not reset its connection reads what it is sent.  That a
\* queued event is taken is not assumed: the loop takes one only while another
\* worker polls (wavy_base.cc:252-254).
Fairness ==
  /\ \A t \in Threads : WF_vars(Execute(t) \/ Settle(t))
  /\ \A t \in Threads : SF_vars(WriteEvent(t)) /\ SF_vars(ExecWrite(t))
  /\ WF_vars(PollEvent)
  /\ \A f \in Fds : WF_vars(PeerReads(f))

FairSpec == Spec /\ Fairness

-----------------------------------------------------------------------------
(* Properties.                                                             *)

Item == [type : {"data", "fin"}, lo : Nat, hi : Nat, no : Nat]

\* The variables keep their types, and a worker that executes or settles holds
\* the mutex of the context it works on.
TypeOK ==
  /\ ctx \in [Fds -> Seq(Item)]
  /\ lock \in [Fds -> Threads \union {NoThread}]
  /\ pc \in [Threads -> {"idle", "event", "exec", "settle"}]
  /\ op \in [Threads -> {"none", "raw", "xfer", "write", "event"}]
  /\ target \in [Threads -> Fds \union {NoFd}]
  /\ buf \in [Threads -> Seq(Item)]
  /\ result \in [Threads -> {"none", "again", "done", "fail"}]
  /\ oreg \in [Fds -> {"none", "armed", "fired"}]
  /\ out_queue \in Seq(Fds)
  /\ open \in [Fds -> BOOLEAN] /\ broken \in [Fds -> BOOLEAN]
  /\ shut \in [Fds -> BOOLEAN] /\ stale \in [Fds -> BOOLEAN] /\ unwatched \in [Fds -> BOOLEAN]
  /\ room \in [Fds -> 0..Room]
  /\ commits \in [Fds -> Nat]
  /\ committed \in [Fds -> Nat] /\ delivered \in [Fds -> Nat]
  /\ freed \in [Fds -> SUBSET Nat] /\ leaked \in [Fds -> SUBSET Nat]
  /\ \A t \in Threads, f \in Fds :
       lock[f] = t <=> pc[t] \in {"exec", "settle"} /\ target[t] = f

\* The number of write events and armed registrations of a descriptor.
Tokens(f) ==
  (IF oreg[f] = "armed" THEN 1 ELSE 0)
    + Cardinality({k \in 1..Len(out_queue) : out_queue[k] = f})
    + Cardinality({t \in Threads : op[t] = "event" /\ target[t] = f})

\* Queued output is always on its way: while a context is not empty exactly
\* one of these exists for it - an armed registration, a queued write event, a
\* worker in write_event - and none while it is empty, so that the next commit
\* may register the descriptor.  Two write events never exist, whatever
\* happens; the first half ends with a close in the middle of the output.  When
\* watch could not register the descriptor (wavy_out.cc:440) it is otherwise:
\* the context is never empty again and nothing is on its way, for this
\* connection and every later one of that number.
WatchedWhilePending ==
  \A f \in Fds :
    /\ Tokens(f) <= 1
    /\ ctx[f] = <<>> => Tokens(f) = 0 /\ oreg[f] = "none"
    /\ ctx[f] # <<>> /\ ~stale[f] /\ ~unwatched[f] => Tokens(f) = 1 /\ oreg[f] # "none"
    /\ unwatched[f] => ctx[f] # <<>> /\ Tokens(f) = 0

\* The places of the data in a sequence of items.
DataIn(s) == {i \in 1..Len(s) : s[i].type = "data"}

\* The peer gets the bytes in the order of the commits, none twice and none
\* left out: what is pending goes on without a gap through the queued commits,
\* and unless the connection is broken it starts right after the last byte
\* that was delivered and ends with the last one that was committed.
StreamIntact ==
  \A f \in Fds :
    LET s == Pending(f)
        D == DataIn(s)
    IN  /\ \A i \in D : s[i].lo <= s[i].hi
        /\ \A i, j \in D : i < j /\ (\A k \in D : ~(i < k /\ k < j)) => s[i].hi + 1 = s[j].lo
        /\ open[f] /\ ~stale[f] /\ ~broken[f] =>
             /\ D = {} => delivered[f] = committed[f]
             /\ \A i \in D : (\A k \in D : i <= k) => s[i].lo = delivered[f] + 1
             /\ \A i \in D : (\A k \in D : k <= i) => s[i].hi = committed[f]

\* A finalizer frees the memory its data points to, so it runs at most once
\* and never before that data is written or given up: each commit's finalizer
\* is pending, has run or was dropped (commit_raw on a broken connection or
\* without memory), exactly one of them, and no pending data points to memory that is freed.
FinalizedOnce ==
  \A f \in Fds :
    LET s       == Pending(f)
        waiting == Finalizers(s)
    IN  /\ waiting \union freed[f] \union leaked[f] = 1..commits[f]
        /\ waiting \cap freed[f] = {} /\ waiting \cap leaked[f] = {}
        /\ freed[f] \cap leaked[f] = {}
        /\ \A i, j \in 1..Len(s) :
             i < j /\ s[i].type = "fin" => s[j].no # s[i].no
        /\ \A i \in 1..Len(s) : s[i].no \notin freed[f]

\* What was committed reaches a peer that keeps reading, unless the connection
\* breaks or is closed, the out port refused to watch it (wavy_out.cc:440), or
\* its write event is left in out::m_queue for ever (wavy_base.cc:252-254; when
\* it is taken is what QueuesServed of WavyCore says).
EventuallyDelivered ==
  \A f \in Fds :
    (open[f] /\ delivered[f] < committed[f])
      ~> \/ delivered[f] = committed[f] \/ broken[f] \/ ~open[f] \/ stale[f] \/ unwatched[f]
         \/ [](\E k \in 1..Len(out_queue) : out_queue[k] = f)
=============================================================================
