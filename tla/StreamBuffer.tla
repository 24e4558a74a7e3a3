---------------------------- MODULE StreamBuffer ----------------------------
(***************************************************************************)
(* mp::stream_buffer (mp/stream_buffer_impl.h): the buffer that a handler  *)
(* reads into.  The current chunk begins with a reference count; behind it *)
(* are used bytes up to m_off, data up to m_used and m_free free bytes.    *)
(* References, which other threads drop, keep chunks alive.                *)
(*                                                                         *)
(* A chunk is a number; a freed number may be given out again by any later *)
(* malloc.  A byte is its number in the stream, 0 what malloc leaves.      *)
(***************************************************************************)
EXTENDS Integers, Sequences, FiniteSets

CONSTANTS
  Refs,      \* the references that release() may make
  Sizeof,    \* sizeof(count_t)
  InitSize,  \* initial_buffer_size
  Lens,      \* the sizes that reserve_buffer is asked for
  MaxChunk,  \* bound of the model: chunks that malloc can give at a time
  MaxBytes   \* bound of the model: bytes that arrive

ASSUME SizeAssumption ==
  /\ Sizeof \in Nat \ {0} /\ InitSize \in Nat \ {0}
  /\ Lens \subseteq Nat \ {0}
  /\ MaxChunk \in Nat \ {0} /\ MaxBytes \in Nat
  /\ IsFiniteSet(Refs)

Chunks == 1..MaxChunk

VARIABLES
  heap,      \* each chunk: its count and its memory
  m_buffer, m_used, m_free, m_off, m_ref,
  refs,      \* each reference: its array, and the runs its owner looks at
  given,     \* runs that data_used gave to the owner since the last release
  next,      \* number of the next byte
  alive,     \* the stream_buffer is not destroyed
  abandoned, \* chunks that expand_buffer left without giving up its own count
  early,     \* history: some release found nothing used in the current chunk
  torn       \* history: realloc moved a chunk that a reference counts

vars == <<heap, m_buffer, m_used, m_free, m_off, m_ref, refs, given, next, alive, abandoned,
          early, torn>>

Free == [count |-> 0, mem |-> <<>>]
Fresh(mem) == [count |-> 1, mem |-> mem]
NoRef == [array |-> {}, runs |-> {}]

Room == {c \in Chunks : heap[c].count = 0}

\* A run is a part of a chunk; the bytes that one finds there.
Run(c, from, to) == [chunk |-> c, from |-> from, to |-> to]
Bytes(run) == SubSeq(heap[run.chunk].mem, run.from + 1, run.to)

Blank(size) == [i \in 1..size |-> 0]

InitCapacity == IF InitSize > Sizeof THEN InitSize ELSE Sizeof

Init ==
  /\ heap = [c \in Chunks |-> IF c = 1 THEN Fresh(Blank(InitCapacity)) ELSE Free]
  /\ m_buffer = 1
  /\ m_used = Sizeof /\ m_free = InitCapacity - Sizeof /\ m_off = Sizeof
  /\ m_ref = {}
  /\ refs = [r \in Refs |-> NoRef]
  /\ given = {} /\ next = 1 /\ alive = TRUE /\ abandoned = {}
  /\ early = FALSE /\ torn = FALSE

-----------------------------------------------------------------------------
(* Counts                                                                  *)

incr_count(h, c) == [h EXCEPT ![c].count = @ + 1]

\* The chunk is freed with its last count.  (Count 0, after a torn realloc: the
\* decrement falls on memory that nobody has.)
decr_count(h, c) ==
  [h EXCEPT ![c] = IF @.count <= 1 THEN Free ELSE [count |-> @.count - 1, mem |-> @.mem]]

-----------------------------------------------------------------------------
(* Input and output of bytes                                               *)

\* read(fd, buffer(), buffer_capacity()) and buffer_consumed
Receive(n) ==
  /\ alive /\ n <= m_free /\ next + n <= MaxBytes + 1
  /\ heap' = [heap EXCEPT ![m_buffer].mem =
                [i \in DOMAIN @ |-> IF i - m_used \in 1..n THEN next + i - m_used - 1 ELSE @[i]]]
  /\ m_used' = m_used + n /\ m_free' = m_free - n
  /\ next' = next + n
  /\ UNCHANGED <<m_buffer, m_off, m_ref, refs, given, alive, abandoned, early, torn>>

\* The owner looks at the data and calls data_used.
data_used(n) ==
  /\ alive /\ n <= m_used - m_off
  /\ m_off' = m_off + n
  /\ given' = given \union {Run(m_buffer, m_off, m_off + n)}
  /\ UNCHANGED <<heap, m_buffer, m_used, m_free, m_ref, refs, next, alive, abandoned, early, torn>>

-----------------------------------------------------------------------------
(* reserve_buffer                                                          *)

\* The smallest of start, 2 * start, ... that is not less than need: the loop
\* doubles only what is less than need.
Doubled(start, need) ==
  {n \in need..(start + 2 * need) :
     (n = start \/ n < 2 * need) /\ \E k \in 0..need : n = start * 2^k}

Rewinds == m_used = m_off /\ heap[m_buffer].count = 1

Used == IF Rewinds THEN Sizeof ELSE m_used
Off  == IF Rewinds THEN Sizeof ELSE m_off
Available == IF Rewinds THEN m_free + m_used - Sizeof ELSE m_free

\* Rewinding, the owner loses what it used and did not release.
Kept == IF Rewinds THEN {run \in given : run.chunk # m_buffer} ELSE given

\* What realloc and malloc with memcpy leave in a new chunk.
Resized(mem, size) == [i \in 1..size |-> IF i \in DOMAIN mem THEN mem[i] ELSE 0]
Copied(mem, off, n, size) ==
  [i \in 1..size |-> IF i - Sizeof \in 1..n /\ i - Sizeof + off \in DOMAIN mem
                     THEN mem[i - Sizeof + off] ELSE 0]

\* Nothing to expand, or malloc, realloc or the vector of references fails.
reserve_only ==
  /\ alive
  /\ m_used' = Used /\ m_off' = Off /\ m_free' = Available /\ given' = Kept
  /\ UNCHANGED <<heap, m_buffer, m_ref, refs, next, alive, abandoned, early, torn>>

\* expand_buffer, first branch: realloc, in place or to a new chunk, whatever
\* the count is: a reference may be left with a chunk that is freed, and the
\* new chunk with a count that nobody gives up.
expand_realloc(len) ==
  /\ alive /\ Available < len /\ Off = Sizeof
  /\ \E size \in Doubled((Used + Available) * 2, len + Used), c \in {m_buffer} \union Room :
       /\ m_buffer' = c
       /\ heap' = [heap EXCEPT ![m_buffer] = Free,
                               ![c] = [count |-> heap[m_buffer].count,
                                       mem   |-> Resized(heap[m_buffer].mem, size)]]
       /\ m_used' = Used /\ m_off' = Off /\ m_free' = size - Used
       /\ torn' = (torn \/ (c # m_buffer /\ heap[m_buffer].count > 1))
  /\ given' = Kept
  /\ UNCHANGED <<m_ref, refs, next, alive, abandoned, early>>

expand_malloc_CopiesAll(len) ==
  /\ alive /\ Available < len /\ Off # Sizeof
  /\ LET not_used == Used - Off
     IN \E size \in Doubled(InitCapacity, len + not_used + Sizeof), c \in Room :
          /\ heap' = incr_count([heap EXCEPT ![c] = Fresh(Copied(heap[m_buffer].mem, Sizeof, not_used, size))],
                                m_buffer)
          /\ m_buffer' = c
          /\ m_used' = not_used + Sizeof /\ m_off' = Sizeof /\ m_free' = size - not_used - Sizeof
  /\ m_ref' = m_ref \union {m_buffer}
  /\ abandoned' = abandoned \union {m_buffer}
  /\ UNCHANGED <<given, refs, next, alive, early, torn>>

\* Second branch: a new chunk for the data that is left, the old one for m_ref.
\* (Off differs from Sizeof, so that nothing was rewound.)
expand_malloc(len) ==
  /\ alive /\ Available < len /\ Off # Sizeof
  /\ LET not_used == Used - Off
     IN \E size \in Doubled(InitCapacity, len + not_used + Sizeof), c \in Room :
          /\ heap' = incr_count([heap EXCEPT ![c] = Fresh(Copied(heap[m_buffer].mem, Off, not_used, size))],
                                m_buffer)
          /\ m_buffer' = c
          /\ m_used' = not_used + Sizeof /\ m_off' = Sizeof /\ m_free' = size - not_used - Sizeof
  /\ m_ref' = m_ref \union {m_buffer}
  /\ abandoned' = abandoned \union {m_buffer}
  /\ UNCHANGED <<given, refs, next, alive, early, torn>>

reserve_buffer(len) == reserve_only \/ expand_realloc(len) \/ expand_malloc(len)

-----------------------------------------------------------------------------
(* References                                                              *)

release_NoCount(r) ==
  /\ alive /\ refs[r] = NoRef
  /\ refs' = [refs EXCEPT ![r] = [array |-> m_ref \union {m_buffer}, runs |-> given]]
  /\ m_ref' = {} /\ given' = {}
  /\ early' = (early \/ m_off = Sizeof)
  /\ UNCHANGED <<heap, m_buffer, m_used, m_free, m_off, next, alive, abandoned, torn>>

\* release and release_to: the owner keeps what it used, be it nothing of the
\* current chunk.
release(r) ==
  /\ alive /\ refs[r] = NoRef
  /\ refs' = [refs EXCEPT ![r] = [array |-> m_ref \union {m_buffer}, runs |-> given]]
  /\ heap' = incr_count(heap, m_buffer)
  /\ m_ref' = {} /\ given' = {}
  /\ early' = (early \/ m_off = Sizeof)
  /\ UNCHANGED <<m_buffer, m_used, m_free, m_off, next, alive, abandoned, torn>>

\* reference::clear, in any thread: one count after another.
clear(r, c) ==
  /\ c \in refs[r].array
  /\ refs' = [refs EXCEPT ![r] = [array |-> @.array \ {c}, runs |-> {}]]
  /\ heap' = decr_count(heap, c)
  /\ UNCHANGED <<m_buffer, m_used, m_free, m_off, m_ref, given, next, alive, abandoned, early, torn>>

\* ~stream_buffer, then the destructor of m_ref
destroy ==
  /\ alive /\ alive' = FALSE
  /\ heap' = LET h == decr_count(heap, m_buffer)
             IN [c \in Chunks |-> IF c \in m_ref THEN decr_count(h, c)[c] ELSE h[c]]
  /\ m_ref' = {} /\ given' = {} /\ m_used' = Sizeof /\ m_off' = Sizeof
  /\ UNCHANGED <<m_buffer, m_free, refs, next, abandoned, early, torn>>

Done == ~alive /\ (\A r \in Refs : refs[r] = NoRef) /\ UNCHANGED vars

Next ==
  \/ \E n \in 1..MaxBytes : Receive(n) \/ data_used(n)
  \/ \E len \in Lens : reserve_buffer(len)
  \/ \E r \in Refs : release(r) \/ \E c \in Chunks : clear(r, c)
  \/ destroy \/ Done

Spec == Init /\ [][Next]_vars

-----------------------------------------------------------------------------
(* Properties                                                              *)

\* Until realloc tears a chunk from a reference, the variables stay within their
\* types, and the three parts of the current chunk fill its memory exactly.
TypeOK ==
  ~torn =>
    /\ m_buffer \in Chunks /\ m_ref \subseteq Chunks /\ alive \in BOOLEAN
    /\ \A c \in Chunks : heap[c].count \in 0..(Cardinality(Refs) + 2)
    /\ Sizeof <= m_off /\ m_off <= m_used
    /\ alive => m_used + m_free = Len(heap[m_buffer].mem)

\* The references that count for a chunk: those of other threads, m_ref, the
\* buffer itself, and the count that expand_buffer did not give up.
Owners(c) ==
  Cardinality({r \in Refs : c \in refs[r].array})
  + (IF c \in m_ref THEN 1 ELSE 0)
  + (IF alive /\ c = m_buffer THEN 1 ELSE 0)
  + (IF c \in abandoned THEN 1 ELSE 0)

Counted == \A c \in Chunks : heap[c].count = Owners(c)

\* Every chunk has exactly the count of its owners: none is freed twice or
\* under a reference, and every chunk that expand_buffer did not abandon is
\* freed with its last owner (stream_buffer_impl.h:32-38, 74-89, 151-164).  The
\* exception is a realloc that moves a chunk which a reference counts (line
\* 185); it takes a release() with nothing used in the current chunk.
CountsExact == IF torn THEN early ELSE Counted

HeldBy(S) == {Bytes(run) : run \in S}

Stream == INSTANCE ByteStream WITH
  data  <- IF alive THEN SubSeq(heap[m_buffer].mem, m_off + 1, m_used) ELSE <<>>,
  given <- HeldBy(given),
  held  <- [r \in Refs |-> HeldBy(refs[r].runs)],
  void  <- torn

\* The buffer is a stream: rewinding, moving and replacing chunks neither lose
\* nor repeat nor alter a byte, and what a reference protects stays as it is,
\* whenever other threads drop theirs (stream_buffer_impl.h:166-213).  A realloc
\* that moves a counted chunk still keeps every byte, but ends the promise.
ImplementsStream == Stream!Spec
=============================================================================
