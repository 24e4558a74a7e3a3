------------------------ MODULE StreamBuffer_proofs ------------------------
(***************************************************************************)
(* Proofs about StreamBuffer, for any references, chunks, sizes and bytes: *)
(* counts are exact, and the buffer implements ByteStream.                 *)
(*                                                                         *)
(* Exact counts say when a chunk is freed; that no run of a reference is   *)
(* overwritten needs in addition where runs lie (RunsOK: in a chunk that   *)
(* is counted for them, in front of m_off in the current one), and that a  *)
(* current chunk of which nothing was used is shared only after an early   *)
(* release (BufferOwned), as realloc and rewinding take the whole chunk    *)
(* for the buffer.  All of it ends where realloc moves a counted chunk.    *)
(***************************************************************************)
EXTENDS StreamBuffer, FiniteSetTheorems, SequenceTheorems, TLAPS

-----------------------------------------------------------------------------
(* Parts of a sequence.                                                    *)

\* A part of a sequence, place by place.
LEMMA SubSeqAt ==
  ASSUME NEW s \in Seq(Nat), NEW a \in Nat, NEW b \in Nat, a <= b, b <= Len(s)
  PROVE  /\ SubSeq(s, a + 1, b) \in Seq(Nat) /\ Len(SubSeq(s, a + 1, b)) = b - a
         /\ \A i \in 1..(b - a) : SubSeq(s, a + 1, b)[i] = s[a + i]
OBVIOUS

\* Sequences that agree up to b have the same parts there.
LEMMA SamePart ==
  ASSUME NEW p \in Seq(Nat), NEW q \in Seq(Nat), NEW a \in Nat, NEW b \in Nat, a <= b,
         b <= Len(p), b <= Len(q), \A i \in 1..b : p[i] = q[i]
  PROVE  SubSeq(p, a + 1, b) = SubSeq(q, a + 1, b)
<1>1. /\ SubSeq(p, a + 1, b) \in Seq(Nat) /\ Len(SubSeq(p, a + 1, b)) = b - a
      /\ \A i \in 1..(b - a) : SubSeq(p, a + 1, b)[i] = p[a + i]
  BY SubSeqAt
<1>2. /\ SubSeq(q, a + 1, b) \in Seq(Nat) /\ Len(SubSeq(q, a + 1, b)) = b - a
      /\ \A i \in 1..(b - a) : SubSeq(q, a + 1, b)[i] = q[a + i]
  BY SubSeqAt
<1>3. \A i \in 1..(b - a) : p[a + i] = q[a + i]
  OBVIOUS
<1> QED
  BY <1>1, <1>2, <1>3, SeqEqual

\* One sequence behind another, place by place.
LEMMA Behind ==
  ASSUME NEW p \in Seq(Nat), NEW q \in Seq(Nat)
  PROVE  /\ p \o q \in Seq(Nat) /\ Len(p \o q) = Len(p) + Len(q)
         /\ \A k \in 1..(Len(p) + Len(q)) : (p \o q)[k] = IF k <= Len(p) THEN p[k] ELSE q[k - Len(p)]
OBVIOUS

\* z is s with q written behind place used.
Writes(s, z, q, used, n) ==
  /\ s \in Seq(Nat) /\ z \in Seq(Nat) /\ q \in Seq(Nat) /\ used \in Nat /\ n \in Nat
  /\ used <= Len(s) /\ used + n <= Len(z) /\ Len(q) = n
  /\ \A i \in 1..used : z[i] = s[i]
  /\ \A i \in 1..n : z[used + i] = q[i]

\* The part behind off is now longer by q.
Lengthens(s, z, q, off, used, n) ==
  SubSeq(z, off + 1, used + n) = SubSeq(s, off + 1, used) \o q

\* Then the part that ends there gets longer.
LEMMA Longer ==
  ASSUME NEW s, NEW z, NEW q, NEW off \in Nat, NEW used, NEW n,
         Writes(s, z, q, used, n), off <= used
  PROVE  Lengthens(s, z, q, off, used, n)
<1> USE DEF Writes
<1> DEFINE p == SubSeq(s, off + 1, used)
           w == SubSeq(z, off + 1, used + n)
<1>1. /\ p \in Seq(Nat) /\ Len(p) = used - off
      /\ \A i \in 1..(used - off) : p[i] = s[off + i]
  BY SubSeqAt
<1>2. used + n \in Nat /\ off <= used + n /\ used + n <= Len(z)
  OBVIOUS
<1>3. /\ w \in Seq(Nat) /\ Len(w) = (used + n) - off
      /\ \A i \in 1..((used + n) - off) : w[i] = z[off + i]
  BY <1>2, SubSeqAt
<1> HIDE DEF p, w
<1>5. /\ p \o q \in Seq(Nat) /\ Len(p \o q) = Len(p) + Len(q)
      /\ \A k \in 1..(Len(p) + Len(q)) : (p \o q)[k] = IF k <= Len(p) THEN p[k] ELSE q[k - Len(p)]
  BY <1>1, Behind
<1>6. Len(w) = Len(p \o q) /\ Len(w) = Len(p) + Len(q)
  BY <1>1, <1>3, <1>5
<1>7. ASSUME NEW i \in 1..Len(w) PROVE w[i] = (p \o q)[i]
  <2>1. i \in Nat /\ i >= 1 /\ i <= (used + n) - off
    BY <1>1, <1>3, <1>6
  <2>2. w[i] = z[off + i]
    BY <1>3, <2>1
  <2>3. CASE i <= used - off
    <3>1. off + i \in 1..used /\ i \in 1..(used - off)
      BY <2>1, <2>3
    <3>2. z[off + i] = s[off + i] /\ p[i] = s[off + i]
      BY <1>1, <3>1
    <3>3. (p \o q)[i] = p[i]
      BY <1>1, <1>5, <2>1, <2>3
    <3> QED
      BY <2>2, <3>2, <3>3
  <2>4. CASE ~(i <= used - off)
    <3>1. i - (used - off) \in 1..n /\ used + (i - (used - off)) = off + i
      BY <2>1, <2>4
    <3>2. z[off + i] = q[i - (used - off)]
      BY <3>1
    <3>3. (p \o q)[i] = q[i - (used - off)]
      <4>1. i \in 1..(Len(p) + Len(q)) /\ ~(i <= Len(p))
        BY <1>1, <1>6, <1>7, <2>4
      <4> QED
        BY <1>1, <1>5, <4>1
    <3> QED
      BY <2>2, <3>2, <3>3
  <2> QED
    BY <2>3, <2>4
<1>8. w = p \o q
  BY <1>3, <1>5, <1>6, <1>7, SeqEqual
<1> QED
  BY <1>8 DEF p, w, Lengthens

\* Both halves of a part.
LEMMA Halves ==
  ASSUME NEW s \in Seq(Nat), NEW a \in Nat, NEW b \in Nat, NEW n \in Nat,
         b <= Len(s), a + n <= b
  PROVE  /\ Len(SubSeq(s, a + 1, b)) = b - a
         /\ SubSeq(SubSeq(s, a + 1, b), 1, n) = SubSeq(s, a + 1, a + n)
         /\ SubSeq(SubSeq(s, a + 1, b), n + 1, b - a) = SubSeq(s, (a + n) + 1, b)
<1> DEFINE p == SubSeq(s, a + 1, b)
<1>1. /\ p \in Seq(Nat) /\ Len(p) = b - a
      /\ \A i \in 1..(b - a) : p[i] = s[a + i]
  BY SubSeqAt
<1> HIDE DEF p
<1>2. SubSeq(p, 1, n) = SubSeq(s, a + 1, a + n)
  <2> DEFINE x == SubSeq(p, 0 + 1, n)
             y == SubSeq(s, a + 1, a + n)
  <2>1. x \in Seq(Nat) /\ Len(x) = n - 0 /\ \A i \in 1..(n - 0) : x[i] = p[0 + i]
    <3>1. 0 \in Nat /\ 0 <= n /\ n <= Len(p)
      BY <1>1
    <3> QED
      BY <1>1, <3>1, SubSeqAt
  <2>2. y \in Seq(Nat) /\ Len(y) = (a + n) - a /\ \A i \in 1..((a + n) - a) : y[i] = s[a + i]
    <3>1. a + n \in Nat /\ a <= a + n /\ a + n <= Len(s)
      OBVIOUS
    <3> QED
      BY <3>1, SubSeqAt
  <2> HIDE DEF x, y
  <2>3. Len(x) = n /\ Len(y) = n
    BY <2>1, <2>2
  <2>5. ASSUME NEW i \in 1..Len(x) PROVE x[i] = y[i]
    <3>1. i \in 1..(n - 0) /\ i \in 1..((a + n) - a) /\ i \in 1..(b - a) /\ 0 + i = i
      BY <2>3
    <3> QED
      BY <1>1, <2>1, <2>2, <3>1
  <2>4. x = y
    BY <2>1, <2>2, <2>3, <2>5, SeqEqual
  <2> QED
    BY <2>4 DEF x, y
<1>3. SubSeq(p, n + 1, b - a) = SubSeq(s, (a + n) + 1, b)
  <2> DEFINE x == SubSeq(p, n + 1, b - a)
             y == SubSeq(s, (a + n) + 1, b)
  <2>1. x \in Seq(Nat) /\ Len(x) = (b - a) - n /\ \A i \in 1..((b - a) - n) : x[i] = p[n + i]
    <3>1. b - a \in Nat /\ n <= b - a /\ b - a <= Len(p)
      BY <1>1
    <3> QED
      BY <1>1, <3>1, SubSeqAt
  <2>2. y \in Seq(Nat) /\ Len(y) = b - (a + n) /\ \A i \in 1..(b - (a + n)) : y[i] = s[(a + n) + i]
    <3>1. a + n \in Nat /\ a + n <= b /\ b <= Len(s)
      OBVIOUS
    <3> QED
      BY <3>1, SubSeqAt
  <2> HIDE DEF x, y
  <2>3. Len(x) = Len(y)
    BY <2>1, <2>2
  <2>4. ASSUME NEW i \in 1..Len(x) PROVE x[i] = y[i]
    <3>1. n + i \in 1..(b - a) /\ a + (n + i) = (a + n) + i /\ i \in 1..((b - a) - n) /\ i \in 1..(b - (a + n))
      BY <2>1
    <3> QED
      BY <1>1, <2>1, <2>2, <3>1
  <2>5. x = y
    BY <2>1, <2>2, <2>3, <2>4, SeqEqual
  <2> QED
    BY <2>5 DEF x, y
<1> QED
  BY <1>1, <1>2, <1>3 DEF p

-----------------------------------------------------------------------------
(* The inductive invariant.                                                *)

RunSet == [chunk : Chunks, from : Nat, to : Nat]

Types ==
  /\ heap \in [Chunks -> [count : Nat, mem : Seq(Nat)]]
  /\ m_buffer \in Chunks /\ m_ref \subseteq Chunks /\ alive \in BOOLEAN /\ torn \in BOOLEAN
  /\ abandoned \subseteq Chunks
  /\ m_used \in Nat /\ m_off \in Nat /\ m_free \in Nat /\ next \in Nat \ {0}
  /\ refs \in [Refs -> [array : SUBSET Chunks, runs : SUBSET RunSet]]
  /\ given \subseteq RunSet

\* The three parts of the current chunk.
Parts ==
  /\ Sizeof <= m_off /\ m_off <= m_used
  /\ alive => m_used + m_free = Len(heap[m_buffer].mem)

\* Without an early release the current chunk is the owner's alone until some
\* of it was used.
BufferOwned ==
  /\ m_buffer \notin m_ref
  /\ alive => m_buffer \notin abandoned
  /\ ~early /\ alive /\ m_off = Sizeof => heap[m_buffer].count = 1
  /\ ~alive => m_ref = {} /\ given = {}

\* What was used is in a chunk that m_ref or the buffer keeps, or the array of
\* the reference, and in front of m_off.
GivenOK(run) ==
  /\ run.chunk \in m_ref \union {m_buffer}
  /\ run.from <= run.to /\ run.to <= Len(heap[run.chunk].mem)
  /\ run.chunk = m_buffer => Sizeof < run.to /\ run.to <= m_off

HeldOK(r, run) ==
  /\ run.chunk \in refs[r].array
  /\ run.from <= run.to /\ run.to <= Len(heap[run.chunk].mem)
  /\ alive /\ run.chunk = m_buffer => Sizeof < run.to /\ run.to <= m_off

RunsOK ==
  /\ \A run \in given : GivenOK(run)
  /\ \A r \in Refs : \A run \in refs[r].runs : HeldOK(r, run)

Sound == Types /\ Parts /\ Counted /\ BufferOwned /\ RunsOK

\* All of this holds until realloc moves a counted chunk, and that takes an early
\* release.
IInv == IF torn THEN early ELSE Sound

\* The references to a chunk.
Holders(c) == {r \in Refs : c \in refs[r].array}

\* The owners that are not references.
Others(c) ==
  (IF c \in m_ref THEN 1 ELSE 0)
  + (IF alive /\ c = m_buffer THEN 1 ELSE 0)
  + (IF c \in abandoned THEN 1 ELSE 0)

\* Owners, split.
LEMMA OwnersAre ==
  ASSUME NEW c
  PROVE  /\ IsFiniteSet(Holders(c)) /\ Cardinality(Holders(c)) \in Nat
         /\ Cardinality(Holders(c)) <= Cardinality(Refs) /\ Cardinality(Refs) \in Nat
         /\ Others(c) \in 0..3
         /\ Owners(c) = Cardinality(Holders(c)) + Others(c)
         /\ Cardinality(Holders(c)) = 0 => Holders(c) = {}
<1>1. IsFiniteSet(Refs) /\ Cardinality(Refs) \in Nat
  BY SizeAssumption, FS_CardinalityType
<1>2. Holders(c) \in SUBSET Refs
  BY DEF Holders
<1>3. IsFiniteSet(Holders(c)) /\ Cardinality(Holders(c)) <= Cardinality(Refs)
  BY <1>1, <1>2, FS_Subset
<1>4. Cardinality(Holders(c)) \in Nat /\ (Cardinality(Holders(c)) = 0 => Holders(c) = {})
  BY <1>3, FS_CardinalityType, FS_EmptySet
<1>5. Others(c) \in 0..3
  BY DEF Others
<1>6. Owners(c) = Cardinality(Holders(c)) + Others(c)
  <2>1. Owners(c) = Cardinality(Holders(c)) + (IF c \in m_ref THEN 1 ELSE 0)
                    + (IF alive /\ c = m_buffer THEN 1 ELSE 0) + (IF c \in abandoned THEN 1 ELSE 0)
    BY DEF Owners, Holders
  <2> QED
    BY <1>4, <2>1 DEF Others
<1> QED
  BY <1>1, <1>3, <1>4, <1>5, <1>6

\* A free chunk belongs to nobody.
LEMMA FreeChunk ==
  ASSUME Counted, NEW c \in Chunks, heap[c].count = 0
  PROVE  /\ \A r \in Refs : c \notin refs[r].array
         /\ c \notin m_ref /\ c \notin abandoned /\ ~(alive /\ c = m_buffer)
<1>1. Cardinality(Holders(c)) + Others(c) = 0 /\ Cardinality(Holders(c)) \in Nat /\ Others(c) \in 0..3
  BY OwnersAre DEF Counted
<1>2. Cardinality(Holders(c)) = 0 /\ Others(c) = 0
  BY <1>1
<1>3. Holders(c) = {}
  BY <1>2, OwnersAre
<1> QED
  BY <1>2, <1>3 DEF Holders, Others

\* With a single count, the current chunk has no reference.
LEMMA BufferAlone ==
  ASSUME Counted, m_buffer \in Chunks, alive, heap[m_buffer].count = 1
  PROVE  \A r \in Refs : m_buffer \notin refs[r].array
<1>1. /\ Cardinality(Holders(m_buffer)) + Others(m_buffer) = 1
      /\ Cardinality(Holders(m_buffer)) \in Nat /\ Others(m_buffer) \in 0..3
  BY OwnersAre DEF Counted
<1>2. Others(m_buffer) >= 1
  BY DEF Others
<1>3. Holders(m_buffer) = {}
  BY <1>1, <1>2, OwnersAre
<1> QED
  BY <1>3 DEF Holders

\* A reference counts, and the last one is alone.
LEMMA LastReference ==
  ASSUME Counted, NEW c \in Chunks, NEW r \in Refs, c \in refs[r].array
  PROVE  /\ heap[c].count \in Nat \ {0}
         /\ heap[c].count = 1 =>
              /\ c \notin m_ref /\ c \notin abandoned /\ ~(alive /\ c = m_buffer)
              /\ \A q \in Refs : c \in refs[q].array => q = r
<1>1. /\ heap[c].count = Cardinality(Holders(c)) + Others(c) /\ Cardinality(Holders(c)) \in Nat
      /\ Others(c) \in 0..3 /\ IsFiniteSet(Holders(c)) /\ r \in Holders(c)
  BY OwnersAre DEF Counted, Holders
<1>2. Cardinality(Holders(c)) # 0
  BY <1>1, OwnersAre
<1>3. ASSUME heap[c].count = 1
      PROVE  /\ c \notin m_ref /\ c \notin abandoned /\ ~(alive /\ c = m_buffer)
             /\ \A q \in Refs : c \in refs[q].array => q = r
  <2>1. Cardinality(Holders(c)) = 1 /\ Others(c) = 0
    BY <1>1, <1>2, <1>3
  <2>2. PICK x : Holders(c) = {x}
    BY <1>1, <2>1, FS_Singleton
  <2>3. \A q \in Refs : c \in refs[q].array => q = r
    BY <1>1, <2>2 DEF Holders
  <2>4. c \notin m_ref /\ c \notin abandoned /\ ~(alive /\ c = m_buffer)
    BY <2>1 DEF Others
  <2> QED
    BY <2>3, <2>4
<1> QED
  BY <1>1, <1>2, <1>3

\* The buffer is created with one chunk.
LEMMA SoundInit == Init => Sound
<1> SUFFICES ASSUME Init PROVE Sound
  OBVIOUS
<1>1. InitCapacity \in Nat /\ InitCapacity >= Sizeof /\ Sizeof \in Nat /\ 1 \in Chunks
  BY SizeAssumption DEF InitCapacity, Chunks
<1>2. Blank(InitCapacity) \in Seq(Nat) /\ Len(Blank(InitCapacity)) = InitCapacity
  BY <1>1 DEF Blank
<1>3. heap \in [Chunks -> [count : Nat, mem : Seq(Nat)]]
  BY <1>2 DEF Init, Fresh, Free
<1>4. /\ heap[1].count = 1 /\ heap[1].mem = Blank(InitCapacity)
      /\ \A c \in Chunks : c # 1 => heap[c].count = 0
  BY <1>1 DEF Init, Fresh, Free
<1>5. Types
  <2>1. torn \in BOOLEAN
    BY DEF Init
  <2>2. alive \in BOOLEAN
    BY DEF Init
  <2>3. /\ m_buffer \in Chunks /\ m_ref \subseteq Chunks /\ abandoned \subseteq Chunks
        /\ m_used \in Nat /\ m_off \in Nat /\ m_free \in Nat /\ next \in Nat \ {0}
        /\ given \subseteq RunSet
    BY <1>1 DEF Init
  <2>4. refs \in [Refs -> [array : SUBSET Chunks, runs : SUBSET RunSet]]
    BY DEF Init, NoRef
  <2> QED
    BY <1>3, <2>1, <2>2, <2>3, <2>4 DEF Types
<1>6. Parts
  BY <1>1, <1>2, <1>4 DEF Init, Parts
<1>7. Counted
  <2> SUFFICES ASSUME NEW c \in Chunks PROVE heap[c].count = Owners(c)
    BY DEF Counted
  <2>1. Holders(c) = {}
    BY DEF Init, NoRef, Holders
  <2>2. Cardinality(Holders(c)) = 0
    BY <2>1, FS_EmptySet
  <2>3. Others(c) = IF c = 1 THEN 1 ELSE 0
    BY DEF Init, Others
  <2> QED
    BY <1>4, <2>2, <2>3, OwnersAre
<1>8. BufferOwned /\ RunsOK
  BY <1>4 DEF Init, NoRef, BufferOwned, RunsOK
<1> QED
  BY <1>5, <1>6, <1>7, <1>8 DEF Sound

-----------------------------------------------------------------------------
(* The abstract stream.                                                    *)

\* What is read and not used, and what the references hold.
Current == IF alive THEN SubSeq(heap[m_buffer].mem, m_off + 1, m_used) ELSE <<>>
Held == [r \in Refs |-> HeldBy(refs[r].runs)]

\* A step that keeps the memory of a run keeps its bytes.
LEMMA SameBytes ==
  ASSUME NEW run, heap'[run.chunk].mem = heap[run.chunk].mem
  PROVE  Bytes(run)' = Bytes(run)
BY DEF Bytes

\* A step that keeps the runs of the references, and their bytes.
LEMMA SameHeld ==
  ASSUME refs' = refs, \A r \in Refs : \A run \in refs[r].runs : Bytes(run)' = Bytes(run)
  PROVE  Held' = Held
<1>1. \A r \in Refs : HeldBy(refs[r].runs)' = HeldBy(refs[r].runs)
  BY DEF HeldBy
<1> QED
  BY <1>1 DEF Held

\* The owner's runs.
LEMMA SameGiven ==
  ASSUME \A run \in given' : run \in given /\ Bytes(run)' = Bytes(run)
  PROVE  HeldBy(given)' \in SUBSET HeldBy(given)
BY DEF HeldBy

\* Owners, split, after a step.
LEMMA OwnersNext ==
  ASSUME NEW c
  PROVE  /\ Owners(c)' = Cardinality(Holders(c)') + Others(c)'
         /\ IsFiniteSet(Holders(c)') /\ Cardinality(Holders(c)') \in Nat /\ Others(c)' \in 0..3
<1>1. \A x : /\ Owners(x) = Cardinality(Holders(x)) + Others(x)
             /\ IsFiniteSet(Holders(x)) /\ Cardinality(Holders(x)) \in Nat /\ Others(x) \in 0..3
  BY OwnersAre
<1>2. (\A x : /\ Owners(x) = Cardinality(Holders(x)) + Others(x)
              /\ IsFiniteSet(Holders(x)) /\ Cardinality(Holders(x)) \in Nat /\ Others(x) \in 0..3)'
  BY <1>1, PTL
<1> QED
  BY <1>2

\* The same count of a chunk.
LEMMA SameOwners ==
  ASSUME NEW c \in Chunks, Counted, heap'[c].count = heap[c].count, refs' = refs,
         Others(c)' = Others(c)
  PROVE  heap'[c].count = Owners(c)'
<1>1. Holders(c)' = Holders(c)
  BY DEF Holders
<1>2. Owners(c) = Cardinality(Holders(c)) + Others(c)
  BY OwnersAre
<1>3. Owners(c)' = Cardinality(Holders(c)') + Others(c)'
  BY OwnersNext
<1> QED
  BY <1>1, <1>2, <1>3 DEF Counted

-----------------------------------------------------------------------------
(* The actions: each keeps the invariant and is a step of the stream.      *)

\* Bytes arrive behind the data.
LEMMA ReceiveStep ==
  ASSUME Sound, NEW n \in 1..MaxBytes, Receive(n)
  PROVE  Sound' /\ Stream!Receive(n)
<1> USE DEF Sound
<1> DEFINE s == heap[m_buffer].mem
           z == heap'[m_buffer].mem
<1>0. n \in Nat /\ n > 0 /\ m_used \in Nat /\ m_off \in Nat /\ m_free \in Nat /\ next \in Nat
      /\ alive /\ n <= m_free /\ Sizeof \in Nat /\ s \in Seq(Nat)
  BY SizeAssumption DEF Receive, Types
<1>1. z = [i \in DOMAIN s |-> IF i - m_used \in 1..n THEN next + i - m_used - 1 ELSE s[i]]
  BY DEF Receive, Types
<1>a. m_used + n <= Len(s) /\ m_off <= m_used
  BY <1>0 DEF Parts
<1>b. z \in Seq(Nat) /\ Len(z) = Len(s)
  <2>1. ASSUME NEW i \in 1..Len(s)
        PROVE  (IF i - m_used \in 1..n THEN next + i - m_used - 1 ELSE s[i]) \in Nat
    <3>1. s[i] \in Nat /\ i \in Nat
      BY <1>0
    <3> HIDE DEF s
    <3> QED
      BY <1>0, <3>1
  <2>2. DOMAIN s = 1..Len(s) /\ Len(s) \in Nat
    BY <1>0
  <2> HIDE DEF s, z
  <2> QED
    BY <1>1, <2>1, <2>2
<1>2. z \in Seq(Nat) /\ Len(z) = Len(s) /\ m_used + n <= Len(s) /\ m_off <= m_used
  BY <1>a, <1>b
<1>3. \A i \in 1..Len(s) : z[i] = IF i - m_used \in 1..n THEN next + i - m_used - 1 ELSE s[i]
  BY <1>0, <1>1
<1>4. /\ \A c \in Chunks : heap'[c].count = heap[c].count /\ (c # m_buffer => heap'[c].mem = heap[c].mem)
      /\ m_used' = m_used + n /\ m_free' = m_free - n /\ next' = next + n
      /\ UNCHANGED <<m_buffer, m_off, m_ref, refs, given, alive, abandoned, early, torn>>
  BY DEF Receive, Types
<1>5. heap' \in [Chunks -> [count : Nat, mem : Seq(Nat)]]
  BY <1>2 DEF Receive, Types
<1> HIDE DEF s, z
<1>6. Types' /\ Parts'
  <2>1. Types'
    BY <1>0, <1>4, <1>5 DEF Types
  <2>2. m_used' + m_free' = m_used + m_free /\ m_used <= m_used'
    BY <1>0, <1>4
  <2>3. m_used + m_free = Len(s) /\ Sizeof <= m_off /\ m_off <= m_used
    BY <1>0 DEF Parts, s
  <2>4. z = (heap[m_buffer].mem)'
    BY <1>4 DEF z
  <2>5. Sizeof <= m_off' /\ m_off' <= m_used'
    BY <1>0, <1>4, <2>2, <2>3
  <2> QED
    BY <1>2, <2>1, <2>2, <2>3, <2>4, <2>5 DEF Parts
<1>7. Counted'
  <2> SUFFICES ASSUME NEW c \in Chunks PROVE heap'[c].count = Owners(c)'
    BY DEF Counted
  <2>1. Others(c)' = Others(c)
    BY <1>4 DEF Others
  <2> QED
    BY <1>4, <2>1, SameOwners
<1>8. BufferOwned'
  BY <1>0, <1>4 DEF BufferOwned, Types
<1>9. \A c \in Chunks : Len(heap'[c].mem) = Len(heap[c].mem)
  BY <1>2, <1>4 DEF s, z
<1>10. RunsOK'
  BY <1>4, <1>9 DEF RunsOK, GivenOK, HeldOK, Types, RunSet
<1>11. ASSUME NEW run \in RunSet, run.from <= run.to, run.to <= Len(heap[run.chunk].mem),
              run.chunk = m_buffer => run.to <= m_off
       PROVE  Bytes(run)' = Bytes(run)
  <2>1. CASE run.chunk # m_buffer
    BY <1>4, <1>11, <2>1, SameBytes DEF RunSet
  <2>2. CASE run.chunk = m_buffer
    <3>1. \A i \in 1..run.to : z[i] = s[i]
      BY <1>0, <1>2, <1>3, <1>11, <2>2 DEF RunSet
    <3>2. SubSeq(z, run.from + 1, run.to) = SubSeq(s, run.from + 1, run.to)
      <4>1. run.from \in Nat /\ run.to \in Nat /\ run.to <= Len(s) /\ run.to <= Len(z)
        BY <1>2, <1>11, <2>2 DEF RunSet, s
      <4>2. s \in Seq(Nat) /\ z \in Seq(Nat) /\ run.from <= run.to
        BY <1>0, <1>2, <1>11
      <4> QED
        BY <3>1, <4>1, <4>2, SamePart
    <3> QED
      BY <2>2, <3>2 DEF Bytes, s, z
  <2> QED
    BY <2>1, <2>2
<1>12. Held' = Held
  <2>1. ASSUME NEW r \in Refs, NEW run \in refs[r].runs PROVE Bytes(run)' = Bytes(run)
    BY <1>0, <1>11 DEF RunsOK, HeldOK, Types
  <2> QED
    BY <1>4, <2>1, SameHeld
<1>13. HeldBy(given)' = HeldBy(given)
  <2>1. ASSUME NEW run \in given PROVE Bytes(run)' = Bytes(run)
    BY <1>0, <1>11 DEF RunsOK, GivenOK, Types
  <2> QED
    BY <1>4, <2>1 DEF HeldBy
<1>14. Current' = Current \o [i \in 1..n |-> next + i - 1]
  <2>1. Current = SubSeq(s, m_off + 1, m_used) /\ Current' = SubSeq(z, m_off + 1, m_used + n)
    BY <1>0, <1>4 DEF Current, s, z
  <2>2. next \in Nat \ {0}
    BY DEF Types
  <2>3. SubSeq(z, m_off + 1, m_used + n) = SubSeq(s, m_off + 1, m_used) \o [i \in 1..n |-> next + i - 1]
    <3>1. s \in Seq(Nat) /\ z \in Seq(Nat) /\ m_off \in Nat /\ m_used \in Nat /\ n \in Nat
      BY <1>0, <1>2
    <3>2. PICK q : q = [i \in 1..n |-> next + i - 1]
      OBVIOUS
    <3>3. q \in Seq(Nat) /\ Len(q) = n /\ \A i \in 1..n : q[i] = next + i - 1
      BY <2>2, <3>1, <3>2
    <3>4. \A i \in 1..m_used : z[i] = s[i]
      BY <1>0, <1>2, <1>3
    <3>5. ASSUME NEW i \in 1..n PROVE z[m_used + i] = q[i]
      <4>1. m_used + i \in 1..Len(s) /\ (m_used + i) - m_used = i
        BY <1>0, <1>2
      <4>2. z[m_used + i] = next + (m_used + i) - m_used - 1
        BY <1>3, <4>1
      <4> QED
        BY <1>0, <3>3, <4>1, <4>2
    <3>6. m_off <= m_used /\ m_used <= Len(s) /\ m_used + n <= Len(z)
      BY <1>0, <1>2
    <3>7. Writes(s, z, q, m_used, n)
      BY <3>1, <3>3, <3>4, <3>5, <3>6 DEF Writes
    <3>8. Lengthens(s, z, q, m_off, m_used, n)
      BY <3>1, <3>6, <3>7, Longer
    <3> QED
      BY <3>2, <3>8 DEF Lengthens
  <2> QED
    BY <2>1, <2>3
<1>15. next + n <= MaxBytes + 1
  BY DEF Receive
<1> QED
  BY <1>4, <1>6, <1>7, <1>8, <1>10, <1>12, <1>13, <1>14, <1>15 DEF Stream!Receive, Current, Held

\* The owner takes bytes from the front of the data.
LEMMA UseStep ==
  ASSUME Sound, NEW n \in 1..MaxBytes, data_used(n)
  PROVE  Sound' /\ Stream!Use(n)
<1> USE DEF Sound
<1> DEFINE s == heap[m_buffer].mem
           new == Run(m_buffer, m_off, m_off + n)
<1>0. n \in Nat /\ n > 0 /\ m_used \in Nat /\ m_off \in Nat /\ m_free \in Nat
      /\ alive /\ n <= m_used - m_off /\ Sizeof \in Nat /\ s \in Seq(Nat) /\ Sizeof <= m_off
      /\ m_used <= Len(s) /\ m_off <= m_used
  BY SizeAssumption DEF data_used, Types, Parts
<1>1. /\ m_off' = m_off + n /\ given' = given \union {new}
      /\ UNCHANGED <<heap, m_buffer, m_used, m_free, m_ref, refs, next, alive, abandoned, early, torn>>
  BY DEF data_used
<1>2. new \in RunSet /\ new.chunk = m_buffer /\ new.from = m_off /\ new.to = m_off + n
  BY <1>0 DEF Run, RunSet, Types
<1> HIDE DEF new
<1>3. Types' /\ Parts'
  BY <1>0, <1>1, <1>2 DEF Types, Parts
<1>4. Counted'
  BY <1>1 DEF Counted, Owners
<1>5. BufferOwned'
  BY <1>0, <1>1 DEF BufferOwned
<1>6. RunsOK'
  <2>1. ASSUME NEW run \in given' PROVE GivenOK(run)'
    <3>1. CASE run = new
      BY <1>0, <1>1, <1>2, <3>1 DEF GivenOK
    <3>2. CASE run \in given
      <4>1. GivenOK(run) /\ run \in RunSet
        BY <3>2 DEF RunsOK, Types
      <4> QED
        BY <1>0, <1>1, <4>1 DEF GivenOK, RunSet
    <3> QED
      BY <1>1, <2>1, <3>1, <3>2
  <2>2. ASSUME NEW r \in Refs, NEW run \in refs'[r].runs PROVE HeldOK(r, run)'
    <3>1. HeldOK(r, run) /\ run \in RunSet
      BY <1>1, <2>2 DEF RunsOK, Types
    <3> QED
      BY <1>0, <1>1, <3>1 DEF HeldOK, RunSet
  <2> QED
    BY <2>1, <2>2 DEF RunsOK
<1>7. \A run : Bytes(run)' = Bytes(run)
  BY <1>1 DEF Bytes
<1>8. Held' = Held
  BY <1>1, <1>7, SameHeld
<1> DEFINE p == SubSeq(s, m_off + 1, m_used)
<1>9. /\ Len(p) = m_used - m_off
      /\ SubSeq(p, 1, n) = SubSeq(s, m_off + 1, m_off + n)
      /\ SubSeq(p, n + 1, m_used - m_off) = SubSeq(s, (m_off + n) + 1, m_used)
  <2>1. m_off + n <= m_used
    BY <1>0
  <2> QED
    BY <1>0, <2>1, Halves
<1>10. Current = p /\ Current' = SubSeq(s, (m_off + n) + 1, m_used)
  BY <1>0, <1>1 DEF Current
<1>12. Bytes(new) = SubSeq(s, m_off + 1, m_off + n)
  BY <1>2 DEF Bytes
<1> HIDE DEF p, s
<1>13. HeldBy(given)' = HeldBy(given) \union {SubSeq(Current, 1, n)}
  BY <1>1, <1>7, <1>9, <1>10, <1>12 DEF HeldBy
<1>14. n <= Len(Current) /\ Current' = SubSeq(Current, n + 1, Len(Current))
  BY <1>0, <1>9, <1>10
<1> QED
  BY <1>1, <1>3, <1>4, <1>5, <1>6, <1>8, <1>13, <1>14 DEF Stream!Use, Current, Held

\* p has behind place a what q has behind place b.
Agree(p, a, q, b, n) ==
  /\ p \in Seq(Nat) /\ q \in Seq(Nat) /\ a \in Nat /\ b \in Nat /\ n \in Nat
  /\ a + n <= Len(p) /\ b + n <= Len(q)
  /\ \A i \in 1..n : p[a + i] = q[b + i]

\* The part of p from a to d is the part of q from b to e.
SameSub(p, a, d, q, b, e) == SubSeq(p, a + 1, d) = SubSeq(q, b + 1, e)

\* Then the parts there are the same.
LEMMA Shifted ==
  ASSUME NEW p, NEW a, NEW q, NEW b, NEW n, NEW d, NEW e, Agree(p, a, q, b, n), d = a + n, e = b + n
  PROVE  SameSub(p, a, d, q, b, e)
<1> USE DEF Agree
<1> DEFINE x == SubSeq(p, a + 1, d)
           y == SubSeq(q, b + 1, e)
<1>1. /\ d \in Nat /\ a <= d /\ d <= Len(p) /\ d - a = n
      /\ e \in Nat /\ b <= e /\ e <= Len(q) /\ e - b = n
  OBVIOUS
<1>2. x \in Seq(Nat) /\ Len(x) = d - a /\ \A i \in 1..(d - a) : x[i] = p[a + i]
  BY <1>1, SubSeqAt
<1>3. y \in Seq(Nat) /\ Len(y) = e - b /\ \A i \in 1..(e - b) : y[i] = q[b + i]
  BY <1>1, SubSeqAt
<1> HIDE DEF x, y
<1>4. Len(x) = Len(y) /\ \A i \in 1..Len(x) : x[i] = y[i]
  BY <1>1, <1>2, <1>3
<1>5. x = y
  BY <1>2, <1>3, <1>4, SeqEqual
<1> QED
  BY <1>5 DEF x, y, SameSub

\* Nothing is left of a part that is used up.
LEMMA NoPart ==
  ASSUME NEW p \in Seq(Nat), NEW a \in Nat, NEW q \in Seq(Nat), NEW b \in Nat,
         a <= Len(p), b <= Len(q)
  PROVE  SubSeq(p, a + 1, a) = SubSeq(q, b + 1, b)
<1>1. Agree(p, a, q, b, 0) /\ a = a + 0 /\ b = b + 0
  BY DEF Agree
<1>2. SameSub(p, a, a, q, b, b)
  BY <1>1, Shifted
<1> QED
  BY <1>2 DEF SameSub

\* reserve_buffer's sizes.
LEMMA ReserveParts ==
  ASSUME Sound, alive
  PROVE  /\ Used \in Nat /\ Off \in Nat /\ Available \in Nat /\ Sizeof <= Off /\ Off <= Used
         /\ Used + Available = Len(heap[m_buffer].mem)
         /\ heap[m_buffer].mem \in Seq(Nat) /\ m_used <= Len(heap[m_buffer].mem)
<1>1. /\ m_used \in Nat /\ m_free \in Nat /\ m_off \in Nat /\ Sizeof \in Nat /\ m_buffer \in Chunks
      /\ Sizeof <= m_off /\ m_off <= m_used /\ m_used + m_free = Len(heap[m_buffer].mem)
      /\ heap[m_buffer].mem \in Seq(Nat)
  BY SizeAssumption DEF Sound, Types, Parts
<1>2. CASE Rewinds
  BY <1>1, <1>2 DEF Used, Off, Available
<1>3. CASE ~Rewinds
  BY <1>1, <1>3 DEF Used, Off, Available
<1> QED
  BY <1>2, <1>3

\* Where the chunk is rewound or realloc'ed, no run that is kept lies in it; it
\* is shared only after an early release.
LEMMA NoRunAtFront ==
  ASSUME Sound, alive, Off = Sizeof
  PROVE  /\ m_buffer \notin m_ref /\ m_buffer \notin abandoned
         /\ \A r \in Refs : \A run \in refs[r].runs : run.chunk # m_buffer
         /\ \A run \in Kept : run \in given /\ run.chunk # m_buffer /\ run.chunk \in m_ref
         /\ early \/ heap[m_buffer].count = 1
<1>0. m_off \in Nat /\ Sizeof \in Nat /\ m_buffer \in Chunks
  BY SizeAssumption DEF Sound, Types
<1>1. early \/ heap[m_buffer].count = 1
  BY DEF Off, Rewinds, Sound, BufferOwned
<1>2. ASSUME NEW r \in Refs, NEW run \in refs[r].runs PROVE run.chunk # m_buffer
  <2>1. HeldOK(r, run) /\ run.to \in Nat
    BY <1>2 DEF Sound, RunsOK, Types, RunSet
  <2>2. CASE Rewinds
    <3>1. m_buffer \notin refs[r].array
      BY <1>0, <2>2, BufferAlone DEF Sound, Rewinds
    <3> QED
      BY <2>1, <3>1 DEF HeldOK
  <2>3. CASE ~Rewinds
    <3>1. m_off = Sizeof
      BY <2>3 DEF Off
    <3> QED
      BY <1>0, <2>1, <3>1 DEF HeldOK
  <2> QED
    BY <2>2, <2>3
<1>3. m_buffer \notin m_ref /\ m_buffer \notin abandoned
  BY DEF Sound, BufferOwned
<1>4. ASSUME NEW run \in Kept PROVE run \in given /\ run.chunk # m_buffer /\ run.chunk \in m_ref
  <2>1. run \in given
    BY <1>4 DEF Kept
  <2>2. GivenOK(run) /\ run.to \in Nat
    BY <2>1 DEF Sound, RunsOK, Types, RunSet
  <2>3. run.chunk # m_buffer
    <3>1. CASE Rewinds
      BY <1>4, <3>1 DEF Kept
    <3>2. CASE ~Rewinds
      BY <1>0, <2>2, <3>2 DEF Off, GivenOK
    <3> QED
      BY <3>1, <3>2
  <2> QED
    BY <2>1, <2>2, <2>3 DEF GivenOK
<1> QED
  BY <1>1, <1>2, <1>3, <1>4

\* reserve_buffer without a new chunk.
LEMMA ReserveStep ==
  ASSUME Sound, reserve_only
  PROVE  Sound' /\ Stream!Forget
<1> USE DEF Sound
<1>1. /\ alive /\ m_used' = Used /\ m_off' = Off /\ m_free' = Available /\ given' = Kept
      /\ UNCHANGED <<heap, m_buffer, m_ref, refs, next, alive, abandoned, early, torn>>
  BY DEF reserve_only
<1>2. /\ Used \in Nat /\ Off \in Nat /\ Available \in Nat /\ Sizeof <= Off /\ Off <= Used
      /\ Used + Available = Len(heap[m_buffer].mem)
      /\ heap[m_buffer].mem \in Seq(Nat) /\ m_used <= Len(heap[m_buffer].mem)
  BY <1>1, ReserveParts
<1>3. Kept \in SUBSET given
  BY DEF Kept
<1>4. Types' /\ Parts'
  BY <1>1, <1>2, <1>3 DEF Types, Parts
<1>5. Counted'
  BY <1>1 DEF Counted, Owners
<1>6. BufferOwned'
  BY <1>1, NoRunAtFront DEF BufferOwned
<1>7. RunsOK'
  <2>1. CASE Rewinds
    <3>1. Off = Sizeof
      BY <2>1 DEF Off
    <3>2. ASSUME NEW run \in Kept PROVE GivenOK(run)'
      BY <1>1, <1>3, <3>1, <3>2, NoRunAtFront DEF RunsOK, GivenOK
    <3>3. ASSUME NEW r \in Refs, NEW run \in refs[r].runs PROVE HeldOK(r, run)'
      BY <1>1, <3>1, <3>3, NoRunAtFront DEF RunsOK, HeldOK
    <3> QED
      BY <1>1, <3>2, <3>3 DEF RunsOK
  <2>2. CASE ~Rewinds
    <3>1. m_off' = m_off
      BY <1>1, <2>2 DEF Off
    <3> QED
      BY <1>1, <1>3, <3>1 DEF RunsOK, GivenOK, HeldOK
  <2> QED
    BY <2>1, <2>2
<1>8. \A run : Bytes(run)' = Bytes(run)
  BY <1>1 DEF Bytes
<1>9. Held' = Held /\ HeldBy(given)' \in SUBSET HeldBy(given)
  BY <1>1, <1>3, <1>8, SameHeld, SameGiven
<1>10. Current' = Current
  <2>1. CASE Rewinds
    <3>1. Current' = SubSeq(heap[m_buffer].mem, Sizeof + 1, Sizeof)
      BY <1>1, <2>1 DEF Current, Off, Used
    <3>2. Current = SubSeq(heap[m_buffer].mem, m_used + 1, m_used)
      BY <1>1, <2>1 DEF Current, Rewinds
    <3>3. /\ Sizeof \in Nat /\ Sizeof <= Len(heap[m_buffer].mem) /\ m_used \in Nat
          /\ heap[m_buffer].mem \in Seq(Nat) /\ m_used <= Len(heap[m_buffer].mem)
      <4>1. Sizeof \in Nat /\ m_used \in Nat /\ Sizeof <= m_off /\ m_off <= m_used /\ m_off \in Nat
        BY SizeAssumption DEF Types, Parts
      <4> QED
        BY <1>2, <4>1
    <3>4. SubSeq(heap[m_buffer].mem, Sizeof + 1, Sizeof) = SubSeq(heap[m_buffer].mem, m_used + 1, m_used)
      BY <3>3, NoPart
    <3> QED
      BY <3>1, <3>2, <3>4
  <2>2. CASE ~Rewinds
    BY <1>1, <2>2 DEF Current, Off, Used
  <2> QED
    BY <2>1, <2>2
<1> QED
  BY <1>1, <1>4, <1>5, <1>6, <1>7, <1>9, <1>10 DEF Stream!Forget, Current, Held

\* A chunk with one count, in a step that makes it the current one.
LEMMA NewBuffer ==
  ASSUME NEW c \in Chunks, heap'[c].count = 1, alive', m_buffer' = c, c \notin m_ref', c \notin abandoned',
         \A r \in Refs : c \notin refs'[r].array
  PROVE  heap'[c].count = Owners(c)'
<1>1. Others(c)' = 1
  BY DEF Others
<1>2. Holders(c)' = {}
  BY DEF Holders
<1>3. Cardinality(Holders(c)') = 0
  BY <1>2, FS_EmptySet
<1> QED
  BY <1>1, <1>3, OwnersNext

\* A chunk that is given back to the heap.
LEMMA Returned ==
  ASSUME NEW c \in Chunks, heap'[c].count = 0, c # m_buffer', c \notin m_ref', c \notin abandoned',
         \A r \in Refs : c \notin refs'[r].array
  PROVE  heap'[c].count = Owners(c)'
<1>1. Others(c)' = 0
  BY DEF Others
<1>2. Holders(c)' = {}
  BY DEF Holders
<1>3. Cardinality(Holders(c)') = 0
  BY <1>2, FS_EmptySet
<1> QED
  BY <1>1, <1>3, OwnersNext

\* realloc, in place or to a free chunk.
LEMMA ReallocStep ==
  ASSUME Sound, ~torn, NEW len \in Lens, expand_realloc(len)
  PROVE  /\ torn' \in BOOLEAN /\ early' = early
         /\ torn' => early' /\ Stream!Void
         /\ ~torn' => torn' = torn /\ Sound' /\ Stream!Forget
<1> USE DEF Sound
<1> DEFINE s == heap[m_buffer].mem
<1>1. /\ alive /\ Off = Sizeof /\ given' = Kept /\ m_used' = Used /\ m_off' = Off
      /\ UNCHANGED <<m_ref, refs, next, alive, abandoned, early>>
  BY DEF expand_realloc
<1>2. PICK size \in Doubled((Used + Available) * 2, len + Used), c \in {m_buffer} \union Room :
        /\ m_buffer' = c
        /\ heap' = [heap EXCEPT ![m_buffer] = Free,
                                ![c] = [count |-> heap[m_buffer].count, mem |-> Resized(s, size)]]
        /\ m_free' = size - Used
        /\ torn' = (torn \/ (c # m_buffer /\ heap[m_buffer].count > 1))
  BY DEF expand_realloc
<1>3. /\ Used \in Nat /\ Off \in Nat /\ Sizeof <= Off /\ Off <= Used
      /\ s \in Seq(Nat) /\ m_used <= Len(s) /\ Used <= Len(s)
  BY <1>1, ReserveParts
<1>4. /\ m_buffer \notin m_ref /\ m_buffer \notin abandoned /\ m_buffer \in Chunks
      /\ \A r \in Refs : \A run \in refs[r].runs : run.chunk # m_buffer
      /\ \A run \in Kept : run \in given /\ run.chunk # m_buffer /\ run.chunk \in m_ref
      /\ early \/ heap[m_buffer].count = 1
  BY <1>1, NoRunAtFront DEF Types
<1>5. /\ c \in Chunks /\ c \notin m_ref /\ c \notin abandoned
      /\ c # m_buffer => heap[c].count = 0 /\ \A r \in Refs : c \notin refs[r].array
  <2>1. CASE c = m_buffer
    BY <1>4, <2>1
  <2>2. CASE c # m_buffer
    <3>1. c \in Chunks /\ heap[c].count = 0
      BY <2>2 DEF Room
    <3> QED
      BY <2>2, <3>1, FreeChunk
  <2> QED
    BY <2>1, <2>2
<1>0. heap[m_buffer].count \in Nat \ {0}
  <2>1. /\ heap[m_buffer].count = Cardinality(Holders(m_buffer)) + Others(m_buffer)
        /\ Cardinality(Holders(m_buffer)) \in Nat /\ Others(m_buffer) \in 0..3
    BY <1>4, OwnersAre DEF Counted
  <2>2. Others(m_buffer) # 0
    BY <1>1 DEF Others
  <2> QED
    BY <2>1, <2>2
<1>6. size \in Nat /\ size >= len + Used /\ len \in Nat /\ Used <= size
  <2>1. len \in Nat
    BY SizeAssumption
  <2>2. size \in (len + Used)..((Used + Available) * 2 + 2 * (len + Used))
    BY <1>2 DEF Doubled
  <2> QED
    BY <1>3, <2>1, <2>2
<1> DEFINE z == Resized(s, size)
<1>7. z \in Seq(Nat) /\ Len(z) = size /\ \A i \in 1..Used : z[i] = s[i]
  <2>1. DOMAIN s = 1..Len(s) /\ Len(s) \in Nat /\ \A i \in 1..Len(s) : s[i] \in Nat
    BY <1>3
  <2> HIDE DEF s
  <2> QED
    BY <1>3, <1>6, <2>1 DEF Resized
<1>8. heap'[c].count = heap[m_buffer].count /\ heap'[c].mem = z
  BY <1>2, <1>4, <1>5 DEF Types
<1> HIDE DEF z
<1>9. /\ m_buffer # c => heap'[m_buffer].count = 0
      /\ \A d \in Chunks : d # m_buffer /\ d # c => heap'[d] = heap[d]
  BY <1>2, <1>4, <1>5 DEF Types, Free
<1>10. heap' \in [Chunks -> [count : Nat, mem : Seq(Nat)]]
  <2>1. [count |-> heap[m_buffer].count, mem |-> z] \in [count : Nat, mem : Seq(Nat)]
    BY <1>0, <1>7
  <2>2. Free \in [count : Nat, mem : Seq(Nat)]
    BY DEF Free
  <2> QED
    BY <1>2, <1>4, <1>5, <2>1, <2>2 DEF Types, z
<1> HIDE DEF s
<1>11. Kept \in SUBSET given
  BY DEF Kept
<1>12. Types'
  <2>1. m_free' \in Nat
    BY <1>2, <1>3, <1>6
  <2>2. torn' \in BOOLEAN
    BY <1>2
  <2> QED
    BY <1>1, <1>2, <1>3, <1>5, <1>10, <1>11, <2>1, <2>2 DEF Types
<1>13. Parts'
  <2>1. m_used' + m_free' = size
    BY <1>1, <1>2, <1>3, <1>6
  <2> QED
    BY <1>1, <1>2, <1>3, <1>7, <1>8, <2>1 DEF Parts
<1>14. ASSUME ~torn' PROVE Counted'
  <2> SUFFICES ASSUME NEW d \in Chunks PROVE heap'[d].count = Owners(d)'
    BY DEF Counted
  <2>1. CASE d # c /\ d # m_buffer
    <3>1. Others(d)' = Others(d)
      BY <1>1, <1>2, <2>1 DEF Others
    <3> QED
      BY <1>1, <1>9, <2>1, <3>1, SameOwners
  <2>2. CASE c = m_buffer /\ d = c
    <3>1. Others(d)' = Others(d)
      BY <1>1, <1>2, <2>2 DEF Others
    <3> QED
      BY <1>1, <1>8, <2>2, <3>1, SameOwners
  <2>3. CASE c # m_buffer /\ d \in {c, m_buffer}
    <3>0. ~(heap[m_buffer].count > 1)
      BY <1>2, <1>14, <2>3
    <3>1. heap[m_buffer].count = 1
      BY <1>0, <3>0
    <3>2. \A r \in Refs : m_buffer \notin refs[r].array
      BY <1>1, <1>4, <3>1, BufferAlone
    <3>3. CASE d = c
      BY <1>1, <1>2, <1>5, <1>8, <2>3, <3>1, <3>3, NewBuffer
    <3>4. CASE d = m_buffer
      BY <1>1, <1>2, <1>4, <1>9, <2>3, <3>2, <3>4, Returned
    <3> QED
      BY <2>3, <3>3, <3>4
  <2> QED
    BY <2>1, <2>2, <2>3
<1>15. BufferOwned'
  BY <1>1, <1>2, <1>4, <1>5, <1>8 DEF BufferOwned
<1>16. ASSUME NEW run \in Kept
       PROVE  run \in given /\ run.chunk \in m_ref /\ run.chunk # c /\ heap'[run.chunk] = heap[run.chunk]
  BY <1>4, <1>5, <1>9, <1>16 DEF Types
<1>17. ASSUME NEW r \in Refs, NEW run \in refs[r].runs
       PROVE  run.chunk \in refs[r].array /\ run.chunk # c /\ heap'[run.chunk] = heap[run.chunk]
  <2>1. HeldOK(r, run) /\ run \in RunSet
    BY <1>17 DEF RunsOK, Types
  <2> QED
    BY <1>4, <1>5, <1>9, <2>1 DEF HeldOK, RunSet
<1>18. RunsOK'
  <2>1. ASSUME NEW run \in Kept PROVE GivenOK(run)'
    BY <1>1, <1>2, <1>16, <2>1 DEF RunsOK, GivenOK
  <2>2. ASSUME NEW r \in Refs, NEW run \in refs[r].runs PROVE HeldOK(r, run)'
    BY <1>1, <1>2, <1>17, <2>2 DEF RunsOK, HeldOK
  <2> QED
    BY <1>1, <2>1, <2>2 DEF RunsOK
<1>19. HeldBy(given)' \in SUBSET HeldBy(given)
  BY <1>1, <1>16, SameBytes, SameGiven
<1>20. Held' = Held
  <2>1. ASSUME NEW r \in Refs, NEW run \in refs[r].runs PROVE Bytes(run)' = Bytes(run)
    BY <1>17, <2>1, SameBytes
  <2> QED
    BY <1>1, <2>1, SameHeld
<1>21. Current' = Current
  <2>0. /\ Current = SubSeq(s, m_off + 1, m_used) /\ Current' = SubSeq(z, Off + 1, Used)
    BY <1>1, <1>2, <1>8 DEF Current, s
  <2>1. CASE Rewinds
    <3>1. Current' = SubSeq(z, Sizeof + 1, Sizeof) /\ Current = SubSeq(s, m_used + 1, m_used)
      BY <2>0, <2>1 DEF Off, Used, Rewinds
    <3>2. Sizeof \in Nat /\ Sizeof <= Len(z) /\ m_used \in Nat /\ z \in Seq(Nat)
      BY <1>3, <1>6, <1>7, SizeAssumption DEF Types
    <3> QED
      BY <1>3, <3>1, <3>2, NoPart
  <2>2. CASE ~Rewinds
    <3>1. Off = m_off /\ Used = m_used
      BY <2>2 DEF Off, Used
    <3>2. /\ m_off \in Nat /\ m_used \in Nat /\ m_off <= m_used /\ m_used <= Len(z) /\ m_used <= Len(s)
          /\ s \in Seq(Nat) /\ z \in Seq(Nat) /\ \A i \in 1..m_used : z[i] = s[i]
      BY <1>3, <1>6, <1>7, <3>1
    <3>3. SubSeq(z, m_off + 1, m_used) = SubSeq(s, m_off + 1, m_used)
      BY <3>2, SamePart
    <3> QED
      BY <2>0, <3>1, <3>3
  <2> QED
    BY <2>1, <2>2
<1>22. ASSUME ~torn' PROVE Sound' /\ Stream!Forget
  BY <1>1, <1>12, <1>13, <1>14, <1>15, <1>18, <1>19, <1>20, <1>21, <1>22 DEF Stream!Forget, Current, Held
<1>23. ASSUME torn' PROVE early' /\ Stream!Void
  <2>1. heap[m_buffer].count > 1
    BY <1>2, <1>23
  <2>2. early /\ ~Rewinds
    BY <1>0, <1>4, <2>1 DEF Rewinds
  <2>3. given' = given
    BY <1>1, <2>2 DEF Kept
  <2>4. \A run \in given : Bytes(run)' = Bytes(run)
    BY <1>1, <1>16, <2>3, SameBytes
  <2>5. HeldBy(given)' = HeldBy(given)
    BY <2>3, <2>4 DEF HeldBy
  <2>6. torn' = TRUE
    BY <1>2, <1>23
  <2> QED
    BY <1>1, <1>20, <1>21, <2>2, <2>5, <2>6 DEF Stream!Void, Current, Held
<1>24. torn' \in BOOLEAN /\ torn \in BOOLEAN
  BY <1>2 DEF Types
<1> QED
  BY <1>1, <1>22, <1>23, <1>24

\* One count more.
LEMMA IncrCount ==
  ASSUME NEW h \in [Chunks -> [count : Nat, mem : Seq(Nat)]], NEW c \in Chunks
  PROVE  /\ incr_count(h, c) \in [Chunks -> [count : Nat, mem : Seq(Nat)]]
         /\ incr_count(h, c)[c].count = h[c].count + 1 /\ incr_count(h, c)[c].mem = h[c].mem
         /\ \A d \in Chunks : d # c => incr_count(h, c)[d] = h[d]
<1>1. PICK x : x = [h[c] EXCEPT !.count = @ + 1]
  OBVIOUS
<1>2. x \in [count : Nat, mem : Seq(Nat)] /\ x.count = h[c].count + 1 /\ x.mem = h[c].mem
  <2>1. h[c] \in [count : Nat, mem : Seq(Nat)] /\ h[c].count + 1 \in Nat
    OBVIOUS
  <2> QED
    BY <1>1, <2>1
<1>3. incr_count(h, c) = [h EXCEPT ![c] = x]
  BY <1>1 DEF incr_count
<1> QED
  BY <1>2, <1>3

\* malloc and memcpy: the old chunk goes to m_ref.
LEMMA MallocStep ==
  ASSUME Sound, NEW len \in Lens, expand_malloc(len)
  PROVE  Sound' /\ Stream!Forget
<1> USE DEF Sound
<1> DEFINE s == heap[m_buffer].mem
           k == m_used - m_off
<1>1. /\ alive /\ Off # Sizeof /\ m_ref' = m_ref \union {m_buffer} /\ abandoned' = abandoned \union {m_buffer}
      /\ UNCHANGED <<given, refs, next, alive, early, torn>>
  BY DEF expand_malloc
<1>2. Used = m_used /\ Off = m_off /\ m_off # Sizeof
  BY <1>1 DEF Used, Off
<1>3. PICK size \in Doubled(InitCapacity, len + k + Sizeof), c \in Room :
        /\ heap' = incr_count([heap EXCEPT ![c] = Fresh(Copied(s, m_off, k, size))], m_buffer)
        /\ m_buffer' = c
        /\ m_used' = k + Sizeof /\ m_off' = Sizeof /\ m_free' = size - k - Sizeof
  BY <1>2 DEF expand_malloc
<1>4. /\ m_used \in Nat /\ m_off \in Nat /\ k \in Nat /\ Sizeof \in Nat /\ m_off + k = m_used
      /\ s \in Seq(Nat) /\ m_used <= Len(s)
  BY <1>1, ReserveParts, SizeAssumption DEF Types, Parts
<1>5. /\ m_buffer \notin m_ref /\ m_buffer \notin abandoned /\ m_buffer \in Chunks
  BY <1>1 DEF BufferOwned, Types
<1>6. /\ c \in Chunks /\ c \notin m_ref /\ c \notin abandoned /\ c # m_buffer
      /\ \A r \in Refs : c \notin refs[r].array
  <2>1. c \in Chunks /\ heap[c].count = 0
    BY DEF Room
  <2> QED
    BY <1>1, <2>1, FreeChunk
<1>7. size \in Nat /\ k + Sizeof <= size
  <2>1. len \in Nat
    BY SizeAssumption
  <2>2. size \in (len + k + Sizeof)..(InitCapacity + 2 * (len + k + Sizeof))
    BY <1>3 DEF Doubled
  <2> HIDE DEF k
  <2> QED
    BY <1>4, <2>1, <2>2
<1> DEFINE z == Copied(s, m_off, k, size)
<1> HIDE DEF k
<1>8. z \in Seq(Nat) /\ Len(z) = size /\ \A i \in 1..k : z[Sizeof + i] = s[m_off + i]
  <2>1. DOMAIN s = 1..Len(s) /\ Len(s) \in Nat /\ \A i \in 1..Len(s) : s[i] \in Nat
    BY <1>4
  <2> HIDE DEF s
  <2>2. z = [i \in 1..size |-> IF i - Sizeof \in 1..k THEN s[i - Sizeof + m_off] ELSE 0]
    <3>1. ASSUME NEW i \in 1..size, i - Sizeof \in 1..k PROVE i - Sizeof + m_off \in DOMAIN s
      BY <1>4, <2>1, <3>1
    <3> QED
      BY <3>1 DEF Copied
  <2>3. ASSUME NEW i \in 1..size
        PROVE  (IF i - Sizeof \in 1..k THEN s[i - Sizeof + m_off] ELSE 0) \in Nat
    <3>1. CASE i - Sizeof \in 1..k
      <4>1. i - Sizeof + m_off \in 1..Len(s)
        BY <1>4, <2>1, <3>1
      <4> QED
        BY <2>1, <3>1, <4>1
    <3>2. CASE ~(i - Sizeof \in 1..k)
      BY <3>2
    <3> QED
      BY <3>1, <3>2
  <2> HIDE DEF z
  <2>4. z \in Seq(Nat) /\ Len(z) = size
    BY <1>7, <2>2, <2>3
  <2>5. ASSUME NEW i \in 1..k PROVE z[Sizeof + i] = s[m_off + i]
    <3>1. Sizeof + i \in 1..size /\ (Sizeof + i) - Sizeof = i /\ (Sizeof + i) - Sizeof + m_off = m_off + i
      BY <1>4, <1>7
    <3> QED
      BY <2>2, <3>1
  <2> QED
    BY <2>4, <2>5
<1>9. /\ heap'[c].count = 1 /\ heap'[c].mem = z
      /\ heap'[m_buffer].count = heap[m_buffer].count + 1
      /\ \A d \in Chunks : d # c => heap'[d].mem = heap[d].mem
      /\ \A d \in Chunks : d # c /\ d # m_buffer => heap'[d].count = heap[d].count
  BY <1>3, <1>5, <1>6 DEF Types, incr_count, Fresh
<1> HIDE DEF z
<1>10. heap' \in [Chunks -> [count : Nat, mem : Seq(Nat)]]
  <2>1. Fresh(z) \in [count : Nat, mem : Seq(Nat)]
    BY <1>8 DEF Fresh
  <2>2. PICK h : h = [heap EXCEPT ![c] = Fresh(z)]
    OBVIOUS
  <2>3. h \in [Chunks -> [count : Nat, mem : Seq(Nat)]]
    BY <1>6, <2>1, <2>2 DEF Types
  <2>4. heap' = incr_count(h, m_buffer)
    BY <1>3, <2>2 DEF z
  <2> QED
    BY <1>5, <2>3, <2>4, IncrCount
<1> HIDE DEF s
<1>11. Types' /\ Parts'
  <2>1. m_used' \in Nat /\ m_free' \in Nat /\ m_used' + m_free' = size /\ Sizeof <= m_off' /\ m_off' <= m_used'
    BY <1>3, <1>4, <1>7
  <2>2. Types'
    BY <1>1, <1>3, <1>4, <1>5, <1>6, <1>10, <2>1 DEF Types
  <2> QED
    BY <1>3, <1>8, <1>9, <2>1, <2>2 DEF Parts
<1>12. Counted'
  <2> SUFFICES ASSUME NEW d \in Chunks PROVE heap'[d].count = Owners(d)'
    BY DEF Counted
  <2>1. CASE d = c
    BY <1>1, <1>3, <1>6, <1>9, <2>1, NewBuffer
  <2>2. CASE d = m_buffer
    <3>1. Others(d) = 1 /\ Others(d)' = 2
      BY <1>1, <1>3, <1>5, <1>6, <2>2 DEF Others
    <3>2. Holders(d)' = Holders(d)
      BY <1>1 DEF Holders
    <3>3. Owners(d) = Cardinality(Holders(d)) + Others(d) /\ Cardinality(Holders(d)) \in Nat
      BY OwnersAre
    <3>4. Owners(d)' = Cardinality(Holders(d)') + Others(d)'
      BY OwnersNext
    <3>5. heap[d].count = Owners(d)
      BY DEF Counted
    <3> QED
      BY <1>9, <2>2, <3>1, <3>2, <3>3, <3>4, <3>5
  <2>3. CASE d # c /\ d # m_buffer
    <3>1. Others(d)' = Others(d)
      BY <1>1, <1>3, <2>3 DEF Others
    <3> QED
      BY <1>1, <1>9, <2>3, <3>1, SameOwners
  <2> QED
    BY <2>1, <2>2, <2>3
<1>13. BufferOwned'
  BY <1>1, <1>3, <1>6, <1>9 DEF BufferOwned
<1>14. ASSUME NEW run \in given
       PROVE  run.chunk \in m_ref' /\ run.chunk # c /\ heap'[run.chunk].mem = heap[run.chunk].mem
  <2>1. GivenOK(run) /\ run \in RunSet
    BY <1>14 DEF RunsOK, Types
  <2> QED
    BY <1>1, <1>6, <1>9, <2>1 DEF GivenOK, RunSet
<1>15. ASSUME NEW r \in Refs, NEW run \in refs[r].runs
       PROVE  run.chunk # c /\ heap'[run.chunk].mem = heap[run.chunk].mem
  <2>1. HeldOK(r, run) /\ run \in RunSet
    BY <1>15 DEF RunsOK, Types
  <2> QED
    BY <1>6, <1>9, <2>1 DEF HeldOK, RunSet
<1>16. RunsOK'
  <2>1. ASSUME NEW run \in given PROVE GivenOK(run)'
    BY <1>1, <1>3, <1>14, <2>1 DEF RunsOK, GivenOK
  <2>2. ASSUME NEW r \in Refs, NEW run \in refs[r].runs PROVE HeldOK(r, run)'
    BY <1>1, <1>3, <1>15, <2>2 DEF RunsOK, HeldOK
  <2> QED
    BY <1>1, <2>1, <2>2 DEF RunsOK
<1>17. HeldBy(given)' \in SUBSET HeldBy(given)
  BY <1>1, <1>14, SameBytes, SameGiven
<1>18. Held' = Held
  <2>1. ASSUME NEW r \in Refs, NEW run \in refs[r].runs PROVE Bytes(run)' = Bytes(run)
    BY <1>15, <2>1, SameBytes
  <2> QED
    BY <1>1, <2>1, SameHeld
<1>19. Current' = Current
  <2>1. Current = SubSeq(s, m_off + 1, m_used) /\ Current' = SubSeq(z, Sizeof + 1, k + Sizeof)
    BY <1>1, <1>3, <1>9 DEF Current, s
  <2>2. Agree(z, Sizeof, s, m_off, k)
    BY <1>4, <1>7, <1>8 DEF Agree
  <2>3. k + Sizeof = Sizeof + k /\ m_used = m_off + k
    BY <1>4
  <2>4. SubSeq(z, Sizeof + 1, k + Sizeof) = SubSeq(s, m_off + 1, m_used)
    <3>1. SameSub(z, Sizeof, k + Sizeof, s, m_off, m_used)
      BY <2>2, <2>3, Shifted
    <3> QED
      BY <3>1 DEF SameSub
  <2> QED
    BY <2>1, <2>4
<1> QED
  BY <1>1, <1>11, <1>12, <1>13, <1>16, <1>17, <1>18, <1>19 DEF Stream!Forget, Current, Held

\* Where a step neither frees a chunk nor writes to it.
LEMMA SameMemory ==
  ASSUME Sound, \A c \in Chunks : heap'[c].mem = heap[c].mem
  PROVE  /\ \A run \in given : Bytes(run)' = Bytes(run)
         /\ \A r \in Refs : \A run \in refs[r].runs : Bytes(run)' = Bytes(run)
<1>1. \A run \in RunSet : Bytes(run)' = Bytes(run)
  BY SameBytes DEF RunSet
<1>2. given \subseteq RunSet /\ \A r \in Refs : refs[r].runs \subseteq RunSet
  BY DEF Sound, Types
<1> QED
  BY <1>1, <1>2

\* release: the owner's runs get a reference of their own.
LEMMA ReleaseStep ==
  ASSUME Sound, NEW r \in Refs, release(r)
  PROVE  Sound' /\ Stream!Release(r)
<1> USE DEF Sound
<1>1. /\ alive /\ refs[r] = NoRef /\ m_ref' = {} /\ given' = {} /\ (early' = (early \/ m_off = Sizeof))
      /\ UNCHANGED <<m_buffer, m_used, m_free, m_off, next, alive, abandoned, torn>>
  BY DEF release
<1>2. /\ refs' = [refs EXCEPT ![r] = [array |-> m_ref \union {m_buffer}, runs |-> given]]
      /\ heap' = incr_count(heap, m_buffer)
  BY DEF release
<1>3. /\ m_buffer \in Chunks /\ m_buffer \notin m_ref /\ m_buffer \notin abandoned
      /\ refs[r].array = {}
  BY <1>1 DEF Types, BufferOwned, NoRef
<1>4. /\ \A d \in Chunks : heap'[d].mem = heap[d].mem
      /\ heap'[m_buffer].count = heap[m_buffer].count + 1
      /\ \A d \in Chunks : d # m_buffer => heap'[d].count = heap[d].count
      /\ heap' \in [Chunks -> [count : Nat, mem : Seq(Nat)]]
  <2>1. heap \in [Chunks -> [count : Nat, mem : Seq(Nat)]]
    BY DEF Types
  <2>2. /\ heap' \in [Chunks -> [count : Nat, mem : Seq(Nat)]]
        /\ heap'[m_buffer].count = heap[m_buffer].count + 1 /\ heap'[m_buffer].mem = heap[m_buffer].mem
        /\ \A d \in Chunks : d # m_buffer => heap'[d] = heap[d]
    BY <1>2, <1>3, <2>1, IncrCount
  <2> QED
    BY <2>2
<1>5. /\ refs'[r].array = m_ref \union {m_buffer} /\ refs'[r].runs = given
      /\ \A q \in Refs : q # r => refs'[q] = refs[q]
      /\ refs' \in [Refs -> [array : SUBSET Chunks, runs : SUBSET RunSet]]
  BY <1>2 DEF Types
<1>6. Types' /\ Parts'
  BY <1>1, <1>3, <1>4, <1>5 DEF Types, Parts
<1>7. Counted'
  <2> SUFFICES ASSUME NEW d \in Chunks PROVE heap'[d].count = Owners(d)'
    BY DEF Counted
  <2>1. /\ Owners(d) = Cardinality(Holders(d)) + Others(d) /\ Cardinality(Holders(d)) \in Nat
        /\ Others(d) \in 0..3 /\ heap[d].count = Owners(d) /\ IsFiniteSet(Holders(d))
    BY OwnersAre DEF Counted
  <2>2. Owners(d)' = Cardinality(Holders(d)') + Others(d)' /\ Others(d)' \in 0..3
    BY OwnersNext
  <2>3. CASE d \in m_ref \union {m_buffer}
    <3>1. Holders(d)' = Holders(d) \union {r} /\ r \notin Holders(d)
      BY <1>3, <1>5, <2>3 DEF Holders
    <3>2. Cardinality(Holders(d)') = Cardinality(Holders(d)) + 1
      BY <2>1, <3>1, FS_AddElement
    <3>3. CASE d = m_buffer
      <4>1. Others(d)' = Others(d)
        BY <1>1, <1>3, <3>3 DEF Others
      <4> QED
        BY <1>4, <2>1, <2>2, <3>2, <3>3, <4>1
    <3>4. CASE d # m_buffer
      <4>1. Others(d) = Others(d)' + 1
        BY <1>1, <2>3, <3>4 DEF Others
      <4> QED
        BY <1>4, <2>1, <2>2, <3>2, <3>4, <4>1
    <3> QED
      BY <3>3, <3>4
  <2>4. CASE d \notin m_ref \union {m_buffer}
    <3>1. Holders(d)' = Holders(d)
      BY <1>3, <1>5, <2>4 DEF Holders
    <3>2. Others(d)' = Others(d)
      BY <1>1, <2>4 DEF Others
    <3> QED
      BY <1>4, <2>1, <2>2, <2>4, <3>1, <3>2
  <2> QED
    BY <2>3, <2>4
<1>8. BufferOwned'
  BY <1>1, <1>3 DEF BufferOwned
<1>9. RunsOK'
  <2>1. ASSUME NEW q \in Refs, NEW run \in refs'[q].runs PROVE HeldOK(q, run)'
    <3>1. CASE q = r
      <4>1. GivenOK(run) /\ run \in RunSet
        BY <1>5, <2>1, <3>1 DEF RunsOK, Types
      <4> QED
        BY <1>1, <1>3, <1>4, <1>5, <3>1, <4>1 DEF GivenOK, HeldOK, RunSet
    <3>2. CASE q # r
      <4>1. HeldOK(q, run) /\ run \in RunSet
        BY <1>5, <2>1, <3>2 DEF RunsOK, Types
      <4> QED
        BY <1>1, <1>4, <1>5, <3>2, <4>1 DEF HeldOK, RunSet
    <3> QED
      BY <3>1, <3>2
  <2> QED
    BY <1>1, <2>1 DEF RunsOK
<1>10. /\ \A run \in given : Bytes(run)' = Bytes(run)
       /\ \A q \in Refs : \A run \in refs[q].runs : Bytes(run)' = Bytes(run)
  BY <1>4, SameMemory
<1>11. HeldBy(given)' = {} /\ Current' = Current
  BY <1>1, <1>3, <1>4 DEF HeldBy, Current
<1>12. Held' = [Held EXCEPT ![r] = HeldBy(given)]
  <2>1. ASSUME NEW q \in Refs PROVE Held'[q] = IF q = r THEN HeldBy(given) ELSE Held[q]
    <3>1. Held[q] = HeldBy(refs[q].runs) /\ Held'[q] = HeldBy(refs[q].runs)'
      BY DEF Held
    <3>2. HeldBy(refs[q].runs)' = {Bytes(run)' : run \in refs'[q].runs}
      BY DEF HeldBy
    <3>3. CASE q = r
      <4>1. {Bytes(run)' : run \in given} = {Bytes(run) : run \in given}
        BY <1>10
      <4> QED
        BY <1>5, <3>1, <3>2, <3>3, <4>1 DEF HeldBy
    <3>4. CASE q # r
      <4>1. {Bytes(run)' : run \in refs[q].runs} = {Bytes(run) : run \in refs[q].runs}
        BY <1>10
      <4> QED
        BY <1>5, <3>1, <3>2, <3>4, <4>1 DEF HeldBy
    <3> QED
      BY <3>3, <3>4
  <2>2. Held' = [q \in Refs |-> Held'[q]] /\ Held = [q \in Refs |-> Held[q]]
    BY DEF Held
  <2> HIDE DEF Held
  <2> QED
    BY <2>1, <2>2
<1> QED
  BY <1>1, <1>6, <1>7, <1>8, <1>9, <1>11, <1>12 DEF Stream!Release, Current, Held

\* clear: a thread gives up one count of its reference.
LEMMA ClearStep ==
  ASSUME Sound, NEW r \in Refs, NEW c \in Chunks, clear(r, c)
  PROVE  Sound' /\ Stream!Drop(r)
<1> USE DEF Sound
<1>1. /\ c \in refs[r].array
      /\ UNCHANGED <<m_buffer, m_used, m_free, m_off, m_ref, given, next, alive, abandoned, early, torn>>
  BY DEF clear
<1>2. /\ refs' = [refs EXCEPT ![r] = [array |-> refs[r].array \ {c}, runs |-> {}]]
      /\ heap' = decr_count(heap, c)
  BY DEF clear, Types
<1>3. /\ heap[c].count \in Nat \ {0}
      /\ heap[c].count = 1 =>
           /\ c \notin m_ref /\ c \notin abandoned /\ ~(alive /\ c = m_buffer)
           /\ \A q \in Refs : c \in refs[q].array => q = r
  BY <1>1, LastReference
<1>4. /\ heap'[c].count = heap[c].count - 1
      /\ heap[c].count # 1 => heap'[c].mem = heap[c].mem
      /\ \A d \in Chunks : d # c => heap'[d] = heap[d]
      /\ heap' \in [Chunks -> [count : Nat, mem : Seq(Nat)]]
  <2>1. CASE heap[c].count = 1
    <3>1. heap' = [heap EXCEPT ![c] = Free] /\ Free \in [count : Nat, mem : Seq(Nat)] /\ Free.count = 0
      BY <1>2, <2>1 DEF decr_count, Free
    <3> QED
      BY <2>1, <3>1 DEF Types
  <2>2. CASE heap[c].count # 1
    <3>1. heap[c].count - 1 \in Nat
      BY <1>3
    <3>2. heap' = [heap EXCEPT ![c] = IF heap[c].count <= 1 THEN Free
                                      ELSE [count |-> heap[c].count - 1, mem |-> heap[c].mem]]
      BY <1>2 DEF decr_count
    <3>3. heap' = [heap EXCEPT ![c] = [count |-> heap[c].count - 1, mem |-> heap[c].mem]]
      <4>1. ~(heap[c].count <= 1)
        BY <1>3, <2>2
      <4> QED
        BY <3>2, <4>1
    <3> QED
      BY <2>2, <3>1, <3>3 DEF Types
  <2> QED
    BY <2>1, <2>2
<1>5. /\ refs'[r].array = refs[r].array \ {c} /\ refs'[r].runs = {}
      /\ \A q \in Refs : q # r => refs'[q] = refs[q]
      /\ refs' \in [Refs -> [array : SUBSET Chunks, runs : SUBSET RunSet]]
  BY <1>2 DEF Types
<1>6. alive => heap'[m_buffer].mem = heap[m_buffer].mem
  BY <1>3, <1>4 DEF Types
<1>7. Types' /\ Parts'
  <2>1. Types'
    BY <1>1, <1>4, <1>5 DEF Types
  <2> QED
    BY <1>1, <1>6, <2>1 DEF Parts
<1>8. Counted'
  <2> SUFFICES ASSUME NEW d \in Chunks PROVE heap'[d].count = Owners(d)'
    BY DEF Counted
  <2>1. /\ Owners(d) = Cardinality(Holders(d)) + Others(d) /\ Cardinality(Holders(d)) \in Nat
        /\ Others(d) \in 0..3 /\ heap[d].count = Owners(d) /\ IsFiniteSet(Holders(d))
    BY OwnersAre DEF Counted
  <2>2. Owners(d)' = Cardinality(Holders(d)') + Others(d)' /\ Others(d)' = Others(d)
    BY <1>1, OwnersNext DEF Others
  <2>3. CASE d = c
    <3>1. Holders(d)' = Holders(d) \ {r} /\ r \in Holders(d)
      BY <1>1, <1>5, <2>3 DEF Holders
    <3>2. Cardinality(Holders(d)') = Cardinality(Holders(d)) - 1
      BY <2>1, <3>1, FS_RemoveElement
    <3> QED
      BY <1>4, <2>1, <2>2, <2>3, <3>2
  <2>4. CASE d # c
    <3>1. Holders(d)' = Holders(d)
      BY <1>5, <2>4 DEF Holders
    <3> QED
      BY <1>4, <2>1, <2>2, <2>4, <3>1
  <2> QED
    BY <2>3, <2>4
<1>9. BufferOwned'
  <2>1. ASSUME ~early, alive, m_off = Sizeof PROVE heap'[m_buffer].count = 1
    <3>1. heap[m_buffer].count = 1 /\ m_buffer \in Chunks
      BY <2>1 DEF BufferOwned, Types
    <3>2. c # m_buffer
      BY <1>1, <2>1, <3>1, BufferAlone
    <3> QED
      BY <1>4, <3>1, <3>2
  <2> QED
    BY <1>1, <2>1 DEF BufferOwned
<1>10. ASSUME NEW run \in given PROVE heap'[run.chunk].mem = heap[run.chunk].mem
  <2>1. GivenOK(run) /\ run \in RunSet /\ alive
    BY <1>10 DEF RunsOK, Types, BufferOwned
  <2> QED
    BY <1>3, <1>4, <2>1 DEF GivenOK, RunSet
<1>11. ASSUME NEW q \in Refs, q # r, NEW run \in refs[q].runs
       PROVE  heap'[run.chunk].mem = heap[run.chunk].mem
  <2>1. HeldOK(q, run) /\ run \in RunSet
    BY <1>11 DEF RunsOK, Types
  <2> QED
    BY <1>3, <1>4, <1>11, <2>1 DEF HeldOK, RunSet
<1>12. RunsOK'
  <2>1. ASSUME NEW run \in given PROVE GivenOK(run)'
    BY <1>1, <1>10, <2>1 DEF RunsOK, GivenOK
  <2>2. ASSUME NEW q \in Refs, NEW run \in refs'[q].runs PROVE HeldOK(q, run)'
    <3>1. q # r /\ run \in refs[q].runs /\ refs'[q] = refs[q]
      BY <1>5, <2>2
    <3> QED
      BY <1>1, <1>11, <3>1 DEF RunsOK, HeldOK
  <2> QED
    BY <1>1, <2>1, <2>2 DEF RunsOK
<1>13. HeldBy(given)' = HeldBy(given)
  <2>1. \A run \in given : Bytes(run)' = Bytes(run)
    BY <1>10, SameBytes
  <2> QED
    BY <1>1, <2>1 DEF HeldBy
<1>14. Current' = Current
  BY <1>1, <1>6 DEF Current
<1>15. Held' = [Held EXCEPT ![r] = {}]
  <2>1. ASSUME NEW q \in Refs PROVE Held'[q] = IF q = r THEN {} ELSE Held[q]
    <3>1. Held[q] = HeldBy(refs[q].runs) /\ Held'[q] = HeldBy(refs[q].runs)'
      BY DEF Held
    <3>2. HeldBy(refs[q].runs)' = {Bytes(run)' : run \in refs'[q].runs}
      BY DEF HeldBy
    <3>3. CASE q = r
      BY <1>5, <3>1, <3>2, <3>3
    <3>4. CASE q # r
      <4>1. \A run \in refs[q].runs : Bytes(run)' = Bytes(run)
        BY <1>11, <3>4, SameBytes
      <4>2. {Bytes(run)' : run \in refs[q].runs} = {Bytes(run) : run \in refs[q].runs}
        BY <4>1
      <4> QED
        BY <1>5, <3>1, <3>2, <3>4, <4>2 DEF HeldBy
    <3> QED
      BY <3>3, <3>4
  <2>2. Held' = [q \in Refs |-> Held'[q]] /\ Held = [q \in Refs |-> Held[q]]
    BY DEF Held
  <2> HIDE DEF Held
  <2> QED
    BY <2>1, <2>2
<1> QED
  BY <1>1, <1>7, <1>8, <1>9, <1>12, <1>13, <1>14, <1>15 DEF Stream!Drop, Current, Held

\* ~stream_buffer: the buffer gives up the counts that it has.
LEMMA DestroyStep ==
  ASSUME Sound, destroy
  PROVE  Sound' /\ Stream!Discard
<1> USE DEF Sound
<1> DEFINE Dropped(d) == IF heap[d].count <= 1 THEN Free
                         ELSE [count |-> heap[d].count - 1, mem |-> heap[d].mem]
           H == decr_count(heap, m_buffer)
<1>1. /\ alive /\ alive' = FALSE /\ m_ref' = {} /\ given' = {} /\ m_used' = Sizeof /\ m_off' = Sizeof
      /\ UNCHANGED <<m_buffer, m_free, refs, next, abandoned, early, torn>>
  BY DEF destroy
<1>2. heap' = [c \in Chunks |-> IF c \in m_ref THEN decr_count(H, c)[c] ELSE H[c]]
  BY DEF destroy
<1>3. m_buffer \in Chunks /\ m_buffer \notin m_ref /\ m_buffer \notin abandoned /\ m_ref \subseteq Chunks
  BY <1>1 DEF Types, BufferOwned
<1>4. /\ \A d \in m_ref \union {m_buffer} : heap'[d] = Dropped(d)
      /\ \A d \in Chunks : d \notin m_ref \union {m_buffer} => heap'[d] = heap[d]
  <2>1. H \in [Chunks -> [count : Int, mem : Seq(Nat)]] /\ H[m_buffer] = Dropped(m_buffer)
        /\ \A d \in Chunks : d # m_buffer => H[d] = heap[d]
    <3>1. H = [heap EXCEPT ![m_buffer] = Dropped(m_buffer)]
      BY DEF decr_count
    <3>2. Dropped(m_buffer) \in [count : Int, mem : Seq(Nat)]
      BY <1>3 DEF Types, Free
    <3> HIDE DEF H, Dropped
    <3>3. heap \in [Chunks -> [count : Int, mem : Seq(Nat)]]
      BY DEF Types
    <3> QED
      BY <1>3, <3>1, <3>2, <3>3
  <2> HIDE DEF H
  <2>2. ASSUME NEW d \in Chunks
        PROVE  decr_count(H, d)[d] = IF H[d].count <= 1 THEN Free ELSE [count |-> H[d].count - 1, mem |-> H[d].mem]
    BY <2>1 DEF decr_count
  <2>3. ASSUME NEW d \in m_ref PROVE heap'[d] = Dropped(d)
    <3>1. d \in Chunks /\ d # m_buffer
      BY <1>3
    <3>2. H[d] = heap[d] /\ heap'[d] = decr_count(H, d)[d]
      BY <1>2, <2>1, <3>1
    <3> QED
      BY <2>2, <3>1, <3>2
  <2>4. heap'[m_buffer] = Dropped(m_buffer)
    BY <1>2, <1>3, <2>1
  <2>5. ASSUME NEW d \in Chunks, d \notin m_ref \union {m_buffer} PROVE heap'[d] = heap[d]
    BY <1>2, <2>1, <2>5
  <2> QED
    BY <2>3, <2>4, <2>5
<1> HIDE DEF H
<1>5. ASSUME NEW d \in m_ref \union {m_buffer} PROVE d \in Chunks /\ heap[d].count \in Nat \ {0}
  <2>1. /\ heap[d].count = Cardinality(Holders(d)) + Others(d) /\ Cardinality(Holders(d)) \in Nat
        /\ Others(d) \in 0..3 /\ d \in Chunks
    BY <1>3, OwnersAre DEF Counted
  <2>2. Others(d) # 0
    BY <1>1 DEF Others
  <2> QED
    BY <2>1, <2>2
<1>6. ASSUME NEW d \in m_ref \union {m_buffer}
      PROVE  /\ heap'[d].count = heap[d].count - 1 /\ heap'[d] \in [count : Nat, mem : Seq(Nat)]
             /\ heap[d].count # 1 => heap'[d].mem = heap[d].mem
  <2>1. d \in Chunks /\ heap[d].count \in Nat \ {0} /\ heap[d].mem \in Seq(Nat) /\ heap'[d] = Dropped(d)
    BY <1>4, <1>5 DEF Types
  <2>2. CASE heap[d].count = 1
    BY <2>1, <2>2 DEF Free
  <2>3. CASE heap[d].count # 1
    BY <2>1, <2>3
  <2> QED
    BY <2>2, <2>3
<1>7. heap' \in [Chunks -> [count : Nat, mem : Seq(Nat)]]
  <2>1. ASSUME NEW d \in Chunks PROVE heap'[d] \in [count : Nat, mem : Seq(Nat)]
    BY <1>4, <1>6 DEF Types
  <2>2. heap' = [d \in Chunks |-> heap'[d]]
    BY <1>2
  <2> QED
    BY <2>1, <2>2
<1> HIDE DEF Dropped
<1>8. Types' /\ Parts'
  <2>1. Sizeof \in Nat
    BY SizeAssumption
  <2>2. Types'
    BY <1>1, <1>7, <2>1 DEF Types
  <2>3. Parts'
    BY <1>1, <2>1 DEF Parts
  <2> QED
    BY <2>2, <2>3
<1>9. Counted'
  <2> SUFFICES ASSUME NEW d \in Chunks PROVE heap'[d].count = Owners(d)'
    BY DEF Counted
  <2>1. /\ Owners(d) = Cardinality(Holders(d)) + Others(d) /\ Cardinality(Holders(d)) \in Nat
        /\ Others(d) \in 0..3 /\ heap[d].count = Owners(d)
    BY OwnersAre DEF Counted
  <2>2. Owners(d)' = Cardinality(Holders(d)') + Others(d)' /\ Others(d)' \in 0..3 /\ Holders(d)' = Holders(d)
    BY <1>1, OwnersNext DEF Holders
  <2>3. CASE d \in m_ref \union {m_buffer}
    <3>1. Others(d) = Others(d)' + 1
      BY <1>1, <1>3, <2>3 DEF Others
    <3> QED
      BY <1>6, <2>1, <2>2, <2>3, <3>1
  <2>4. CASE d \notin m_ref \union {m_buffer}
    <3>1. Others(d) = Others(d)'
      BY <1>1, <2>4 DEF Others
    <3> QED
      BY <1>4, <2>1, <2>2, <2>4, <3>1
  <2> QED
    BY <2>3, <2>4
<1>10. BufferOwned'
  BY <1>1 DEF BufferOwned
<1>11. ASSUME NEW r \in Refs, NEW run \in refs[r].runs
       PROVE  heap'[run.chunk].mem = heap[run.chunk].mem
  <2>1. HeldOK(r, run) /\ run \in RunSet
    BY <1>11 DEF RunsOK, Types
  <2>2. run.chunk \in Chunks /\ run.chunk \in refs[r].array
    BY <2>1 DEF HeldOK, RunSet
  <2>3. CASE run.chunk \in m_ref \union {m_buffer}
    <3>1. heap[run.chunk].count # 1
      BY <1>1, <2>2, <2>3, LastReference
    <3> QED
      BY <1>6, <2>3, <3>1
  <2>4. CASE run.chunk \notin m_ref \union {m_buffer}
    BY <1>4, <2>2, <2>4
  <2> QED
    BY <2>3, <2>4
<1>12. RunsOK'
  <2>1. ASSUME NEW r \in Refs, NEW run \in refs[r].runs PROVE HeldOK(r, run)'
    BY <1>1, <1>11, <2>1 DEF RunsOK, HeldOK
  <2> QED
    BY <1>1, <2>1 DEF RunsOK
<1>13. Held' = Held
  <2>1. ASSUME NEW r \in Refs, NEW run \in refs[r].runs PROVE Bytes(run)' = Bytes(run)
    BY <1>11, <2>1, SameBytes
  <2> QED
    BY <1>1, <2>1, SameHeld
<1>14. HeldBy(given)' = {} /\ Current' = <<>>
  BY <1>1 DEF HeldBy, Current
<1> QED
  BY <1>1, <1>8, <1>9, <1>10, <1>12, <1>13, <1>14 DEF Stream!Discard, Current, Held

-----------------------------------------------------------------------------
(* The theorems.                                                           *)

\* The variables of the abstract stream, named.
LEMMA StreamVars ==
  ASSUME UNCHANGED vars
  PROVE  (IInv => IInv') /\ UNCHANGED Stream!vars
<1>1. /\ heap' = heap /\ m_buffer' = m_buffer /\ m_used' = m_used /\ m_free' = m_free /\ m_off' = m_off
      /\ m_ref' = m_ref /\ refs' = refs /\ given' = given /\ next' = next /\ alive' = alive
      /\ abandoned' = abandoned /\ early' = early /\ torn' = torn
  BY DEF vars
<1>2. Sound => Sound'
  BY <1>1 DEF Sound, Types, Parts, Counted, Owners, BufferOwned, RunsOK, GivenOK, HeldOK
<1>3. \A run : Bytes(run)' = Bytes(run)
  BY <1>1 DEF Bytes
<1>4. HeldBy(given)' = HeldBy(given) /\ Held' = Held /\ Current' = Current
  BY <1>1, <1>3 DEF HeldBy, Held, Current
<1> QED
  BY <1>1, <1>2, <1>4 DEF IInv, Stream!vars, Held, Current

\* Once realloc moved a counted chunk, an early release stays the cause.
LEMMA TornStep ==
  ASSUME torn, early, Next
  PROVE  torn' = TRUE /\ early' = TRUE
<1> USE DEF Receive, data_used, reserve_buffer, reserve_only, expand_realloc, expand_malloc, release, clear,
        destroy, Done, vars
<1>1. ASSUME NEW n \in 1..MaxBytes, Receive(n) \/ data_used(n) PROVE torn' = TRUE /\ early' = TRUE
  BY <1>1
<1>2. ASSUME NEW len \in Lens, reserve_buffer(len) PROVE torn' = TRUE /\ early' = TRUE
  BY <1>2
<1>3. ASSUME NEW r \in Refs, release(r) \/ \E c \in Chunks : clear(r, c) PROVE torn' = TRUE /\ early' = TRUE
  BY <1>3
<1>4. CASE destroy \/ Done
  BY <1>4
<1> QED
  BY <1>1, <1>2, <1>3, <1>4 DEF Next

\* Every other step keeps the invariant and is a step of the abstract stream.
LEMMA SoundStep ==
  ASSUME Sound, ~torn, Next
  PROVE  \/ torn' = torn /\ Sound' /\ (Stream!Step \/ UNCHANGED Stream!vars)
         \/ torn' /\ early' /\ Stream!Void
<1>1. ASSUME NEW n \in 1..MaxBytes, Receive(n) PROVE torn' = torn /\ Sound' /\ Stream!Step
  BY <1>1, ReceiveStep DEF Receive, Stream!Step
<1>2. ASSUME NEW n \in 1..MaxBytes, data_used(n) PROVE torn' = torn /\ Sound' /\ Stream!Step
  BY <1>2, UseStep DEF data_used, Stream!Step
<1>3. CASE reserve_only
  BY <1>3, ReserveStep DEF reserve_only, Stream!Step
<1>4. ASSUME NEW len \in Lens, expand_realloc(len)
      PROVE  \/ torn' = torn /\ Sound' /\ Stream!Step
             \/ torn' /\ early' /\ Stream!Void
  <2>1. CASE torn'
    BY <1>4, <2>1, ReallocStep
  <2>2. CASE ~torn'
    BY <1>4, <2>2, ReallocStep DEF Stream!Step
  <2> QED
    BY <2>1, <2>2
<1>5. ASSUME NEW len \in Lens, expand_malloc(len) PROVE torn' = torn /\ Sound' /\ Stream!Step
  BY <1>5, MallocStep DEF expand_malloc, Stream!Step
<1>6. ASSUME NEW r \in Refs, release(r) PROVE torn' = torn /\ Sound' /\ Stream!Step
  BY <1>6, ReleaseStep DEF release, Stream!Step
<1>7. ASSUME NEW r \in Refs, NEW c \in Chunks, clear(r, c) PROVE torn' = torn /\ Sound' /\ Stream!Step
  BY <1>7, ClearStep DEF clear, Stream!Step
<1>8. CASE destroy
  BY <1>8, DestroyStep DEF destroy, Stream!Step
<1>9. CASE Done
  <2>1. UNCHANGED vars
    BY <1>9 DEF Done
  <2>2. torn' = torn
    BY <2>1 DEF vars
  <2>3. UNCHANGED Stream!vars /\ IInv'
    BY <2>1, StreamVars DEF IInv
  <2> QED
    BY <2>2, <2>3 DEF IInv
<1> QED
  BY <1>1, <1>2, <1>3, <1>4, <1>5, <1>6, <1>7, <1>8, <1>9 DEF Next, reserve_buffer

\* Every step keeps the invariant and is a step of the abstract stream.
LEMMA StepImplements == IInv /\ [Next]_vars => IInv' /\ [Stream!Next]_(Stream!vars)
<1> SUFFICES ASSUME IInv, [Next]_vars PROVE IInv' /\ [Stream!Next]_(Stream!vars)
  OBVIOUS
<1>1. CASE UNCHANGED vars
  BY <1>1, StreamVars
<1>2. CASE Next /\ torn
  BY <1>2, TornStep DEF IInv, Stream!Next
<1>3. CASE Next /\ ~torn
  <2>1. \/ torn' = torn /\ Sound' /\ (Stream!Step \/ UNCHANGED Stream!vars)
        \/ torn' /\ early' /\ Stream!Void
    BY <1>3, SoundStep DEF IInv
  <2>2. CASE torn' = torn /\ Sound' /\ (Stream!Step \/ UNCHANGED Stream!vars)
    BY <1>3, <2>2 DEF IInv, Stream!Next
  <2>3. CASE torn' /\ early' /\ Stream!Void
    BY <1>3, <2>3 DEF IInv, Stream!Next
  <2> QED
    BY <2>1, <2>2, <2>3
<1> QED
  BY <1>1, <1>2, <1>3

\* In every reachable state the inductive invariant holds
\* (stream_buffer_impl.h:74-226).
THEOREM Invariance == Spec => []IInv
<1>1. Init => IInv
  BY SoundInit DEF Init, IInv
<1>2. IInv /\ [Next]_vars => IInv'
  BY StepImplements
<1> QED
  BY <1>1, <1>2, PTL DEF Spec

\* Every chunk has exactly the count of its owners, for any number of
\* references, chunks and bytes and any sizes, until realloc moves a chunk that
\* a reference counts; an owner that releases only after it used something of
\* the current chunk never gets there (stream_buffer_impl.h:32-38, 74-89,
\* 151-164, 185).
THEOREM CountsKept == Spec => []CountsExact
<1>1. IInv => CountsExact
  BY DEF IInv, Sound, CountsExact
<1> QED
  BY <1>1, Invariance, PTL

\* Until realloc moves a chunk that a reference counts, the variables stay within
\* their types and the three parts of the current chunk fill it; no count is
\* greater than the references, the buffer's own and one more (stream_buffer_impl.h:40-72).
THEOREM TypeCorrect == Spec => []TypeOK
<1>1. IInv => TypeOK
  <2> SUFFICES ASSUME Sound PROVE TypeOK
    BY DEF IInv, TypeOK
  <2>1. ASSUME NEW c \in Chunks PROVE heap[c].count \in 0..(Cardinality(Refs) + 2)
    <3>1. /\ heap[c].count = Cardinality(Holders(c)) + Others(c) /\ Cardinality(Holders(c)) \in Nat
          /\ Cardinality(Holders(c)) <= Cardinality(Refs) /\ Cardinality(Refs) \in Nat
      BY OwnersAre DEF Sound, Counted
    <3>2. Others(c) \in 0..2
      BY DEF Sound, BufferOwned, Others
    <3> QED
      BY <3>1, <3>2
  <2> QED
    BY <2>1 DEF TypeOK, Sound, Types, Parts
<1> QED
  BY <1>1, Invariance, PTL

\* stream_buffer is a byte stream: whatever reserve_buffer rewinds, moves or
\* replaces and whenever other threads drop their references, bytes come out in
\* the order of their arrival and those behind a reference stay as they were
\* (stream_buffer_impl.h:91-226), up to and with a realloc that moves a counted
\* chunk.
THEOREM BufferImplementsStream == Spec => ImplementsStream
<1>1. Init => Stream!Init
  <2> SUFFICES ASSUME Init PROVE Stream!Init
    OBVIOUS
  <2>1. next = 1 /\ HeldBy(given) = {}
    BY DEF Init, HeldBy
  <2>2. Held = [r \in Refs |-> {}]
    BY DEF Init, Held, HeldBy, NoRef
  <2>3. Current = <<>>
    <3>1. Sound
      BY SoundInit
    <3>2. /\ alive /\ m_used = m_off /\ m_used \in Nat /\ heap[m_buffer].mem \in Seq(Nat)
          /\ m_used <= Len(heap[m_buffer].mem)
      <4>1. alive /\ m_used = m_off
        BY DEF Init
      <4> QED
        BY <3>1, <4>1, ReserveParts DEF Sound, Types
    <3>3. Current = SubSeq(heap[m_buffer].mem, m_used + 1, m_used)
      BY <3>2 DEF Current
    <3>4. SubSeq(heap[m_buffer].mem, m_used + 1, m_used) \in Seq(Nat)
          /\ Len(SubSeq(heap[m_buffer].mem, m_used + 1, m_used)) = m_used - m_used
      BY <3>2, SubSeqAt
    <3>5. Current \in Seq(Nat) /\ Len(Current) = 0
      BY <3>2, <3>3, <3>4
    <3> QED
      BY <3>5, EmptySeq
  <2> QED
    BY <2>1, <2>2, <2>3 DEF Init, Stream!Init, Current, Held
<1>2. IInv /\ [Next]_vars => [Stream!Next]_(Stream!vars)
  BY StepImplements
<1> QED
  BY <1>1, <1>2, Invariance, PTL DEF Spec, ImplementsStream, Stream!Spec
=============================================================================
