----------------------------- MODULE XferBuffer -----------------------------
(***************************************************************************)
(* The memory of a transfer buffer (core::xfer and xferimpl in             *)
(* wavy_out.cc): items of different sizes one behind the other, written    *)
(* by the fill functions, grown by reserve, copied by migrate and          *)
(* push_xfraw, and cut in place by execute when the kernel takes a part.   *)
(*                                                                         *)
(* Memory is counted in cells of sizeof(xfer_type), 4 bytes.  A value of n *)
(* cells is n cells that name it and their place in it, so that a value    *)
(* that is torn or overwritten is seen.  An iovec is the numbers of the    *)
(* bytes it stands for.                                                    *)
(*                                                                         *)
(* The names are other than those of WavyOut, so that one module of proofs *)
(* can extend both.                                                        *)
(***************************************************************************)
EXTENDS Integers, Sequences, FiniteSetsExt, SequencesExt

CONSTANTS
  Copies,     \* the directions in which memcpy may copy
  Lengths,    \* the vectors that are written: the length of each iovec
  Files,      \* the lengths of the files that are sent
  MaxCells,   \* bound of the model: cells used in a buffer
  MaxNumber   \* ... bytes and finalizers pushed

ASSUME CopiesAssumption == Copies \subseteq {"up", "down"} /\ Copies # {}
ASSUME LengthsAssumption == Lengths \subseteq Seq(Nat) \ {<<>>} /\ Files \subseteq Nat

\* "xf" is the caller's, "raw" the array on the stack of core::writev and the
\* like, "ctx" the context of the descriptor.
Xfers == {"xf", "raw", "ctx"}

VARIABLES
  mem,     \* the cells between m_head and m_tail
  m_free,
  cap,     \* what is allocated, 0 while m_head is NULL
  exec,    \* the buffer that is executed, and the place p in it
  next, sent, called, lost   \* as in XferQueue

numberVars == <<next, sent, called, lost>>
xferVars == <<mem, m_free, cap, exec, numberVars>>

Nobody == [x |-> "none", p |-> 0]

XferInit ==
  /\ mem = [x \in Xfers |-> <<>>]
  /\ m_free = [x \in Xfers |-> 0] /\ cap = [x \in Xfers |-> 0]
  /\ exec = Nobody
  /\ next = 1 /\ sent = {} /\ called = {} /\ lost = {}

-----------------------------------------------------------------------------
(* Items                                                                   *)

Value(kind, a, b, n) == [i \in 1..n |-> [kind |-> kind, a |-> a, b |-> b, i |-> i]]

Type(t) == Value("type", t, 0, 1)
XF_SENDFILE == 1
XF_FINALIZE == 3

Iovec(lo, len) == Value("iovec", lo, len, 4)

\* fill_mem, fill_iovec, fill_sendfile, fill_finalize
FillIovec(vec) ==
  Type(2 * Len(vec)) \o [c \in 1..(4 * Len(vec)) |->
                           LET v == vec[(c + 3) \div 4] IN Iovec(v[1], v[2])[((c - 1) % 4) + 1]]
FillSendfile(off, len) == Type(XF_SENDFILE) \o Value("sendfile", off, len, 6)
FillFinalize(user) == Type(XF_FINALIZE) \o Value("finalize", user, 0, 4)

\* sizeof_mem, sizeof_iovec, sizeof_sendfile, sizeof_finalize, by type
SizeOf(type) ==
  CASE type = XF_SENDFILE -> 7 [] type = XF_FINALIZE -> 5 [] OTHER -> 1 + 4 * (type \div 2)

-----------------------------------------------------------------------------
(* The reading of a buffer, for the refinement and for reset               *)

\* The value of n cells at place i, if it is whole.
Whole(m, i, n) ==
  i + n - 1 <= Len(m) /\ \A k \in 1..n : m[i + k - 1] = [m[i] EXCEPT !.i = k]

Bytes(lo, len) == [k \in 1..len |-> <<"byte", lo + k - 1>>]
Corrupt == <<<<"corrupt", 0>>>>

\* The bytes of the n iovecs from place i on.
Vectors(m, i, n) ==
  LET From[k \in 0..n] ==
        LET c == m[i + 4 * k] IN
        IF k = n THEN <<>>
        ELSE IF ~Whole(m, i + 4 * k, 4) \/ c.kind # "iovec" THEN Corrupt
        ELSE Bytes(c.a, c.b) \o From[k + 1]
  IN From[0]

\* The item at place i.
ItemAt(m, i) ==
  CASE ~Whole(m, i, 1) \/ m[i].kind # "type" -> Corrupt
    [] m[i].a = XF_SENDFILE -> IF Whole(m, i + 1, 6) THEN Bytes(m[i + 1].a, m[i + 1].b) ELSE Corrupt
    [] m[i].a = XF_FINALIZE -> IF Whole(m, i + 1, 4) THEN <<<<"fin", m[i + 1].a>>>> ELSE Corrupt
    [] OTHER -> Vectors(m, i + 1, m[i].a \div 2)

\* The items from the first place on.
Read(m) ==
  LET From[i \in 1..(Len(m) + 1)] ==
        IF i > Len(m) THEN <<>>
        ELSE IF m[i].kind # "type" \/ i + SizeOf(m[i].a) > Len(m) + 1 THEN Corrupt
        ELSE ItemAt(m, i) \o From[i + SizeOf(m[i].a)]
  IN From[1]

-----------------------------------------------------------------------------
(* Filling                                                                 *)

\* The smallest of start, 2 * start, ... that is not less than need, as a set of
\* one: the loop doubles only what is less than need.
Doubled(start, need) ==
  {n \in need..(start + 2 * need) :
     (n = start \/ n < 2 * need) /\ \E k \in 0..need : 2^k <= n /\ n = start * 2^k}

\* The capacity and m_free before n more cells are filled: what there is if that
\* is enough, or what reserve makes of it.
Reserve(x, n) ==
  IF m_free[x] >= n THEN {[size |-> cap[x], free |-> m_free[x]]}
  ELSE {[size |-> c, free |-> c - Len(mem[x])] :
          c \in Doubled((Len(mem[x]) + m_free[x]) * 2 + 18, Len(mem[x]) + n)}

\* The push functions: the cells s are filled, sz cells are accounted for.
PushItem(x, sz, s) ==
  /\ Len(mem[x]) + Len(s) <= MaxCells
  /\ mem' = [mem EXCEPT ![x] = @ \o s]
  /\ \E r \in Reserve(x, sz) :
       /\ cap' = [cap EXCEPT ![x] = r.size]
       /\ m_free' = [m_free EXCEPT ![x] = r.free - sz]

\* A vector of the bytes that come next.
TotalOf(ls) == FoldLeft(LAMBDA a, b : a + b, 0, ls)
NumberedVec(ls) == [k \in 1..Len(ls) |-> <<next + TotalOf(SubSeq(ls, 1, k - 1)), ls[k]>>]

Advance(n) ==
  /\ next + n <= MaxNumber + 1
  /\ next' = next + n
  /\ UNCHANGED <<sent, called, lost>>

\* push_write is push_writev of one vector; out::write pushes into the context.
PushWritev(x, ls) ==
  /\ exec = Nobody
  /\ Advance(TotalOf(ls))
  /\ PushItem(x, SizeOf(2 * Len(ls)), FillIovec(NumberedVec(ls)))
  /\ UNCHANGED exec

PushSendfile(x, len) ==
  /\ exec = Nobody
  /\ Advance(len)
  /\ PushItem(x, SizeOf(XF_SENDFILE), FillSendfile(next, len))
  /\ UNCHANGED exec

PushFinalize(x) ==
  /\ exec = Nobody
  /\ Advance(1)
  /\ PushItem(x, SizeOf(XF_FINALIZE), FillFinalize(next))
  /\ UNCHANGED exec

\* core::writev: an array of the right size, with data and a finalizer.
BuildRaw(ls) ==
  LET s == FillIovec(NumberedVec(ls)) \o FillFinalize(next + TotalOf(ls)) IN
  /\ exec = Nobody /\ mem["raw"] = <<>>
  /\ Advance(TotalOf(ls) + 1)
  /\ mem' = [mem EXCEPT !["raw"] = s]
  /\ cap' = [cap EXCEPT !["raw"] = SizeOf(2 * Len(ls)) + SizeOf(XF_FINALIZE)]
  /\ m_free' = [m_free EXCEPT !["raw"] = 0]
  /\ UNCHANGED exec

\* push_xfraw: what is left of the array goes into the context; the array ends.
PushXfraw ==
  /\ exec = Nobody /\ mem["raw"] # <<>> /\ Len(mem["ctx"] \o mem["raw"]) <= MaxCells
  /\ mem' = [mem EXCEPT !["ctx"] = @ \o mem["raw"], !["raw"] = <<>>]
  /\ \E r \in Reserve("ctx", Len(mem["raw"])) :
       /\ cap' = [cap EXCEPT !["ctx"] = r.size, !["raw"] = 0]
       /\ m_free' = [m_free EXCEPT !["ctx"] = r.free - Len(mem["raw"]), !["raw"] = 0]
  /\ UNCHANGED <<exec, numberVars>>

Migrate_KeepsFree ==
  /\ exec = Nobody /\ mem["xf"] # <<>> /\ Len(mem["ctx"] \o mem["xf"]) <= MaxCells
  /\ mem' = [mem EXCEPT !["ctx"] = @ \o mem["xf"], !["xf"] = <<>>]
  /\ IF cap["ctx"] = 0
       THEN /\ cap' = [cap EXCEPT !["ctx"] = cap["xf"], !["xf"] = 0]
            /\ m_free' = [m_free EXCEPT !["ctx"] = m_free["xf"], !["xf"] = 0]
       ELSE \E r \in Reserve("ctx", Len(mem["xf"])) :
              /\ cap' = [cap EXCEPT !["ctx"] = r.size]
              /\ m_free' = [m_free EXCEPT !["ctx"] = r.free - Len(mem["xf"])]
  /\ UNCHANGED <<exec, numberVars>>

\* migrate: the memory itself is handed over if the context has none.
Migrate ==
  /\ exec = Nobody /\ mem["xf"] # <<>> /\ Len(mem["ctx"] \o mem["xf"]) <= MaxCells
  /\ mem' = [mem EXCEPT !["ctx"] = @ \o mem["xf"], !["xf"] = <<>>]
  /\ IF cap["ctx"] = 0
       THEN /\ cap' = [cap EXCEPT !["ctx"] = cap["xf"], !["xf"] = 0]
            /\ m_free' = [m_free EXCEPT !["ctx"] = m_free["xf"], !["xf"] = 0]
       ELSE \E r \in Reserve("ctx", Len(mem["xf"])) :
              /\ cap' = [cap EXCEPT !["ctx"] = r.size]
              /\ m_free' = [m_free EXCEPT !["ctx"] = r.free - Len(mem["xf"]),
                                          !["xf"] = @ + Len(mem["xf"])]
  /\ UNCHANGED <<exec, numberVars>>

\* reset: the finalizers are called, the data is dropped, the memory stays.
Reset(x) ==
  LET s == ToSet(Read(mem[x])) IN
  /\ exec = Nobody /\ mem[x] # <<>>
  /\ called' = called \union {e[2] : e \in {d \in s : d[1] = "fin"}}
  /\ lost' = lost \union {e[2] : e \in {d \in s : d[1] = "byte"}}
  /\ mem' = [mem EXCEPT ![x] = <<>>]
  /\ m_free' = [m_free EXCEPT ![x] = @ + Len(mem[x])]
  /\ UNCHANGED <<cap, exec, next, sent>>

-----------------------------------------------------------------------------
(* execute                                                                 *)

M == mem[exec.x]
P == exec.p
At == M[P + 1].a   \* the type at p

\* memcpy within a buffer, in the direction the library chooses: the cells that
\* it writes, where it may read what it has written, and the buffer after it.
Copied(m, dst, src, n, way) ==
  LET d == src - dst
      f[k \in 0..(n - 1)] ==
        IF (way = "up" /\ d < 0 /\ k + d >= 0) \/ (way = "down" /\ d > 0 /\ k + d < n)
          THEN f[k + d] ELSE m[src + k]
  IN f
Memcpy(m, dst, src, n, way) ==
  LET f == Copied(m, dst, src, n, way)
  IN [j \in 1..Len(m) |-> IF j \in dst..(dst + n - 1) THEN f[j - dst] ELSE m[j]]

\* MP_WAVY_XFER_CONSUMED
Consumed(m) == SubSeq(m, P + 1, Len(m))

\* execute ends with m in the buffer; try_write corrects m_free.
ReturnWith(m) ==
  /\ mem' = [mem EXCEPT ![exec.x] = m]
  /\ m_free' = [m_free EXCEPT ![exec.x] = cap[exec.x] - Len(m)]
  /\ exec' = Nobody
  /\ UNCHANGED cap

Skip(n) == exec' = [exec EXCEPT !.p = P + n] /\ UNCHANGED <<mem, m_free, cap>>

StartExecute(x) ==
  /\ exec = Nobody /\ mem[x] # <<>>
  /\ exec' = [x |-> x, p |-> 0]
  /\ UNCHANGED <<mem, m_free, cap, numberVars>>

\* writev or sendfile fails, would block, or has nothing to send.
TakesNothing ==
  /\ exec # Nobody /\ P < Len(M) /\ At # XF_FINALIZE
  /\ ReturnWith(Consumed(M))
  /\ UNCHANGED numberVars

Takes(lo, n) == sent' = sent \union (lo..(lo + n - 1)) /\ UNCHANGED <<next, called, lost>>

Sendfile(n) ==
  LET lo == M[P + 2].a  len == M[P + 2].b IN
  /\ exec # Nobody /\ P < Len(M) /\ At = XF_SENDFILE
  /\ n \in 1..len
  /\ Takes(lo, n)
  /\ IF n < len
       THEN ReturnWith(FillSendfile(lo + n, len - n) \o SubSeq(M, P + 8, Len(M)))
       ELSE Skip(SizeOf(At))

Finalize ==
  /\ exec # Nobody /\ P < Len(M) /\ At = XF_FINALIZE
  /\ called' = called \union {M[P + 2].a}
  /\ Skip(SizeOf(At))
  /\ UNCHANGED <<next, sent, lost>>

\* The iovecs of the item at p.
Vec == [k \in 1..(At \div 2) |-> <<M[P + 4 * k - 2].a, M[P + 4 * k - 2].b>>]

\* The number of bytes in front of iovec k.
Before(k) == TotalOf([j \in 1..(k - 1) |-> Vec[j][2]])

\* iovec i, of which the kernel took n - Before(i) bytes, is shortened where it
\* is.  If it is the first, the items in front of it go; if not, a new item is
\* made at the head from it and the ones behind it, over what was there.
Cut_WholeVec(i, n, way) ==
  LET t   == n - Before(i)
      at  == P + 4 * i - 2
      new == Iovec(Vec[i][1] + t, Vec[i][2] - t)
      m   == [j \in 1..Len(M) |-> IF j \in at..(at + 3) THEN new[j - at + 1] ELSE M[j]]
      k   == Len(Vec) - i + 1
      h   == Memcpy([m EXCEPT ![1] = Type(2 * Len(Vec))[1]], 2, at, 4 * k, way)
  IN IF i = 1 THEN Consumed(m)
     ELSE SubSeq(h, 1, 1 + 4 * k) \o SubSeq(h, P + SizeOf(At) + 1, Len(h))

Cut(i, n, way) ==
  LET t   == n - Before(i)
      at  == P + 4 * i - 2
      new == Iovec(Vec[i][1] + t, Vec[i][2] - t)
      m   == [j \in 1..Len(M) |-> IF j \in at..(at + 3) THEN new[j - at + 1] ELSE M[j]]
      k   == Len(Vec) - i + 1
      h   == Memcpy([m EXCEPT ![1] = Type(2 * k)[1]], 2, at, 4 * k, way)
  IN IF i = 1 THEN Consumed(m)
     ELSE SubSeq(h, 1, 1 + 4 * k) \o SubSeq(h, P + SizeOf(At) + 1, Len(h))

Writev(n) ==
  /\ exec # Nobody /\ P < Len(M) /\ At \notin {XF_SENDFILE, XF_FINALIZE}
  /\ n \in 1..Before(Len(Vec) + 1)
  /\ Takes(Vec[1][1], n)
  /\ LET left == {k \in 1..Len(Vec) : n < Before(k + 1)} IN
     IF left = {} THEN Skip(SizeOf(At))
                  ELSE \E way \in Copies : ReturnWith(Cut(Min(left), n, way))

AllDone ==
  /\ exec # Nobody /\ P = Len(M)
  /\ ReturnWith(<<>>)
  /\ UNCHANGED numberVars

-----------------------------------------------------------------------------

\* Nobody calls; execute itself always goes on.
Unused == exec = Nobody /\ UNCHANGED xferVars

XferNext ==
  \/ \E ls \in Lengths : PushWritev("xf", ls) \/ BuildRaw(ls)
  \/ \E len \in Files : PushSendfile("xf", len)
  \/ PushFinalize("xf")
  \/ PushWritev("ctx", <<1>>)
  \/ \E x \in {"xf", "ctx"} : Reset(x)
  \/ PushXfraw \/ Migrate
  \/ \E x \in Xfers : StartExecute(x)
  \/ \E n \in 1..MaxNumber : Writev(n) \/ Sendfile(n)
  \/ TakesNothing \/ Finalize \/ AllDone
  \/ Unused

XferSpec == XferInit /\ [][XferNext]_xferVars

-----------------------------------------------------------------------------
(* Properties                                                              *)

\* m_free is what is left of the allocation, and nothing is written behind it
\* (wavy_out.cc:181-262 and 404).
FreeExact ==
  \A x \in Xfers : m_free[x] >= 0 /\ Len(mem[x]) + m_free[x] = cap[x]

Queue == INSTANCE XferQueue WITH
  todo <- [x \in Xfers |->
             Read(IF exec.x = x THEN SubSeq(mem[x], exec.p + 1, Len(mem[x])) ELSE mem[x])]

\* The cells are a queue: cutting an item in place, moving and copying neither
\* lose nor repeat nor alter a byte or a finalizer (wavy_out.cc:241-262 and 304-397).
ImplementsQueue == Queue!Spec
=============================================================================
