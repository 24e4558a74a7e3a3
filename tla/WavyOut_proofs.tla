--------------------------- MODULE WavyOut_proofs ---------------------------
(***************************************************************************)
(* WavyOut for any number of workers and descriptors, any calls and any    *)
(* size of the socket buffers: queued output is watched exactly once, the  *)
(* bytes keep their order and every finalizer runs at most once, whichever *)
(* worker writes and wherever the descriptor is closed and used again.     *)
(*                                                                         *)
(* First come the lemmas about the items of a call and about what is left  *)
(* of them (FinOK, Joined, Starts), then the inductive invariant IInv, its *)
(* proof action by action, and the theorems.  The second part is about the *)
(* memory that the items are in: XferBuffer, with the invariant XferInv.   *)
(***************************************************************************)
EXTENDS WavyOut, XferBuffer, FiniteSetTheorems, SequenceTheorems, WellFoundedInduction, TLAPS

-----------------------------------------------------------------------------
(* The items of a call.                                                    *)

\* The fields of an item.
LEMMA Fields ==
  ASSUME NEW lo, NEW hi, NEW no
  PROVE  /\ Data(lo, hi, no).type = "data" /\ Data(lo, hi, no).lo = lo
         /\ Data(lo, hi, no).hi = hi /\ Data(lo, hi, no).no = no
         /\ Fin(no).type = "fin" /\ Fin(no).no = no
BY DEF Data, Fin

\* A call is data in order, then its finalizer.
LEMMA ItemsOf ==
  ASSUME NEW c \in Calls, NEW base \in Nat, NEW no \in Nat
  PROVE  /\ Items(c, base, no) \in Seq(Item) /\ Total(c) \in Nat
         /\ Len(Items(c, base, no)) = IF c.op = "write" THEN Len(c.ends) ELSE Len(c.ends) + 1
         /\ \A i \in 1..Len(c.ends) :
              /\ Items(c, base, no)[i].type = "data"
              /\ Items(c, base, no)[i].lo = base + End(c, i - 1) + 1
              /\ Items(c, base, no)[i].hi = base + End(c, i)
              /\ Items(c, base, no)[i].no = IF c.op = "write" THEN 0 ELSE no
         /\ c.op # "write" => /\ Items(c, base, no)[Len(c.ends) + 1].type = "fin"
                              /\ Items(c, base, no)[Len(c.ends) + 1].no = no
<1> DEFINE n == Len(c.ends)
<1>1. c.ends \in Seq(Nat) /\ n \in Nat /\ \A i \in 1..n : c.ends[i] \in Nat
  BY CallAssumption
<1>2. \A i \in 0..n : End(c, i) \in Nat
  BY <1>1 DEF End
<1>3. Total(c) \in Nat
  BY <1>1, <1>2 DEF Total
<1> HIDE DEF n
<1>4. ASSUME NEW m \in Nat
      PROVE  /\ Extents(c, base, m) \in Seq(Item) /\ Len(Extents(c, base, m)) = n
             /\ \A i \in 1..n : Extents(c, base, m)[i] = Data(base + End(c, i - 1) + 1, base + End(c, i), m)
  <2>1. Extents(c, base, m) = [i \in 1..n |-> Data(base + End(c, i - 1) + 1, base + End(c, i), m)]
    BY DEF Extents, n
  <2>2. \A i \in 1..n : Data(base + End(c, i - 1) + 1, base + End(c, i), m) \in Item
    <3> SUFFICES ASSUME NEW i \in 1..n PROVE Data(base + End(c, i - 1) + 1, base + End(c, i), m) \in Item
      OBVIOUS
    <3>1. End(c, i - 1) \in Nat /\ End(c, i) \in Nat
      BY <1>1, <1>2
    <3> QED
      BY <3>1 DEF Data, Item
  <2> QED
    BY <1>1, <2>1, <2>2
<1>5. CASE c.op = "write"
  <2>1. Items(c, base, no) = Extents(c, base, 0)
    BY <1>5 DEF Items
  <2>2. /\ Extents(c, base, 0) \in Seq(Item) /\ Len(Extents(c, base, 0)) = n
        /\ \A i \in 1..n : Extents(c, base, 0)[i] = Data(base + End(c, i - 1) + 1, base + End(c, i), 0)
    BY <1>4
  <2> QED
    BY <1>3, <1>5, <2>1, <2>2, Fields DEF n
<1>6. CASE c.op # "write"
  <2> DEFINE e == Extents(c, base, no)
  <2>1. Items(c, base, no) = e \o <<Fin(no)>>
    BY <1>6 DEF Items
  <2>2. e \in Seq(Item) /\ Len(e) = n /\ <<Fin(no)>> \in Seq(Item)
    BY <1>4 DEF Fin, Item
  <2>3. \A i \in 1..n : e[i] = Data(base + End(c, i - 1) + 1, base + End(c, i), no)
    BY <1>4
  <2> HIDE DEF e
  <2>4. /\ e \o <<Fin(no)>> \in Seq(Item) /\ Len(e \o <<Fin(no)>>) = n + 1
        /\ \A i \in 1..n : (e \o <<Fin(no)>>)[i] = e[i]
        /\ (e \o <<Fin(no)>>)[n + 1] = Fin(no)
    BY <1>1, <2>2
  <2> QED
    BY <1>3, <1>6, <2>1, <2>3, <2>4, Fields DEF n
<1> QED
  BY <1>5, <1>6

-----------------------------------------------------------------------------
(* Finalizers, in a sequence of items.                                     *)

\* Finalizer m waits in s.
Waits(s, m) == \E i \in 1..Len(s) : s[i].type = "fin" /\ s[i].no = m

\* Of the finalizers 1..n each waits in s, is in fr or is in lk, one of them;
\* none waits twice or in front of its data, and no data is freed.
FinOK(s, fr, lk, n) ==
  /\ \A m \in 1..n : m \in fr \/ m \in lk \/ Waits(s, m)
  /\ fr \subseteq 1..n /\ lk \subseteq 1..n /\ fr \cap lk = {}
  /\ \A i \in 1..Len(s) :
       /\ s[i].no \notin fr /\ s[i].no <= n
       /\ s[i].type = "fin" => s[i].no \in 1..n /\ s[i].no \notin lk
  /\ \A i, j \in 1..Len(s) : i < j /\ s[i].type = "fin" => s[j].no # s[i].no

\* Tail, place by place.
LEMMA TailAt ==
  ASSUME NEW s \in Seq(Item), s # <<>>
  PROVE  /\ Tail(s) \in Seq(Item) /\ Len(Tail(s)) = Len(s) - 1 /\ Len(s) \in Nat \ {0}
         /\ \A i \in 1..Len(Tail(s)) : Tail(s)[i] = s[i + 1]
         /\ Head(s) = s[1] /\ s[1] \in Item
OBVIOUS

\* So is what is put behind another sequence.
LEMMA Concat ==
  ASSUME NEW s \in Seq(Item), NEW e \in Seq(Item)
  PROVE  /\ s \o e \in Seq(Item)
         /\ Len(s \o e) = Len(s) + Len(e) /\ Len(s) \in Nat /\ Len(e) \in Nat
         /\ \A i \in 1..Len(s) : (s \o e)[i] = s[i]
         /\ \A i \in (Len(s) + 1)..Len(s \o e) :
              (s \o e)[i] = e[i - Len(s)] /\ i - Len(s) \in 1..Len(e)
<1>1. Len(s \o e) = Len(s) + Len(e) /\ Len(s) \in Nat /\ Len(e) \in Nat
  OBVIOUS
<1>2. \A i \in (Len(s) + 1)..Len(s \o e) : i - Len(s) \in 1..Len(e)
  BY <1>1
<1>3. \A i \in 1..(Len(s) + Len(e)) : (s \o e)[i] = IF i <= Len(s) THEN s[i] ELSE e[i - Len(s)]
  OBVIOUS
<1> QED
  BY <1>1, <1>2, <1>3

\* The finalizer at the head runs.
LEMMA FinRuns ==
  ASSUME NEW s \in Seq(Item), s # <<>>, Head(s).type = "fin",
         NEW fr, NEW lk, NEW n \in Nat, FinOK(s, fr, lk, n)
  PROVE  FinOK(Tail(s), fr \union {Head(s).no}, lk, n)
<1>1. Len(s) \in Nat /\ Len(s) > 0 /\ Len(Tail(s)) = Len(s) - 1 /\ Head(s) = s[1]
  BY TailAt
<1>2. \A i \in 1..Len(Tail(s)) : Tail(s)[i] = s[i + 1] /\ i + 1 \in 1..Len(s)
  BY <1>1, TailAt
<1>3. \A m \in 1..n : Waits(s, m) => m = s[1].no \/ Waits(Tail(s), m)
  <2> SUFFICES ASSUME NEW m \in 1..n, NEW i \in 1..Len(s), s[i].type = "fin", s[i].no = m, i # 1
               PROVE  Waits(Tail(s), m)
    BY DEF Waits
  <2>1. i - 1 \in 1..Len(Tail(s)) /\ Tail(s)[i - 1] = s[i]
    BY <1>1, <1>2
  <2> QED
    BY <2>1 DEF Waits
<1>4. s[1].no \in 1..n /\ s[1].no \notin lk
  BY <1>1 DEF FinOK
<1>5. \A i \in 1..Len(Tail(s)) : Tail(s)[i].no # s[1].no
  BY <1>1, <1>2 DEF FinOK
<1>6. \A m \in 1..n : m \in fr \union {s[1].no} \/ m \in lk \/ Waits(Tail(s), m)
  BY <1>3 DEF FinOK
<1>7. \A i \in 1..Len(Tail(s)) :
        /\ Tail(s)[i].no \notin fr \union {s[1].no} /\ Tail(s)[i].no <= n
        /\ Tail(s)[i].type = "fin" => Tail(s)[i].no \in 1..n /\ Tail(s)[i].no \notin lk
  BY <1>2, <1>5 DEF FinOK
<1>8. \A i, j \in 1..Len(Tail(s)) : i < j /\ Tail(s)[i].type = "fin" => Tail(s)[j].no # Tail(s)[i].no
  BY <1>2 DEF FinOK
<1>9. fr \union {s[1].no} \subseteq 1..n /\ lk \subseteq 1..n /\ (fr \union {s[1].no}) \cap lk = {}
  BY <1>4 DEF FinOK
<1> QED
  BY <1>1, <1>6, <1>7, <1>8, <1>9 DEF FinOK

\* The data at the head is written.
LEMMA FinPasses ==
  ASSUME NEW s \in Seq(Item), s # <<>>, Head(s).type = "data",
         NEW fr, NEW lk, NEW n \in Nat, FinOK(s, fr, lk, n)
  PROVE  FinOK(Tail(s), fr, lk, n)
<1>1. Len(s) \in Nat /\ Len(s) > 0 /\ Len(Tail(s)) = Len(s) - 1 /\ Head(s) = s[1]
  BY TailAt
<1>2. \A i \in 1..Len(Tail(s)) : Tail(s)[i] = s[i + 1] /\ i + 1 \in 1..Len(s)
  BY <1>1, TailAt
<1>3. \A m \in 1..n : Waits(s, m) => Waits(Tail(s), m)
  <2> SUFFICES ASSUME NEW m \in 1..n, NEW i \in 1..Len(s), s[i].type = "fin", s[i].no = m
               PROVE  Waits(Tail(s), m)
    BY DEF Waits
  <2>1. i - 1 \in 1..Len(Tail(s)) /\ Tail(s)[i - 1] = s[i]
    BY <1>1, <1>2
  <2> QED
    BY <2>1 DEF Waits
<1> QED
  BY <1>1, <1>2, <1>3 DEF FinOK

\* A part of the data at the head is written.
LEMMA FinCut ==
  ASSUME NEW s \in Seq(Item), s # <<>>, Head(s).type = "data", NEW d \in Item,
         d.type = "data", d.no = Head(s).no,
         NEW fr, NEW lk, NEW n \in Nat, FinOK(s, fr, lk, n)
  PROVE  FinOK(<<d>> \o Tail(s), fr, lk, n)
<1> DEFINE z == <<d>> \o Tail(s)
<1>1. Len(s) \in Nat /\ Len(s) > 0 /\ Len(z) = Len(s) /\ Head(s) = s[1]
  BY TailAt
<1>2. z[1] = d /\ \A i \in 2..Len(s) : z[i] = s[i]
  BY TailAt
<1> HIDE DEF z
<1>3. \A i \in 1..Len(s) : z[i].type = s[i].type /\ z[i].no = s[i].no
  BY <1>1, <1>2
<1>4. \A m : Waits(s, m) => Waits(z, m)
  BY <1>1, <1>3 DEF Waits
<1>5. FinOK(z, fr, lk, n)
  BY <1>1, <1>3, <1>4 DEF FinOK
<1> QED
  BY <1>5 DEF z

\* Everything that waits runs, or is dropped.
LEMMA FinEnds ==
  ASSUME NEW s, NEW fr, NEW lk, NEW n \in Nat, FinOK(s, fr, lk, n)
  PROVE  FinOK(<<>>, fr \union Finalizers(s), lk, n) /\ FinOK(<<>>, fr, lk \union Finalizers(s), n)
<1>1. \A m : Waits(s, m) <=> m \in Finalizers(s)
  BY DEF Waits, Finalizers
<1>2. Finalizers(s) \subseteq 1..n /\ Finalizers(s) \cap fr = {} /\ Finalizers(s) \cap lk = {}
  BY DEF Finalizers, FinOK
<1>3. Len(<<>>) = 0 /\ ~(\E i \in 1..Len(<<>>) : TRUE)
  OBVIOUS
<1>4. /\ \A m \in 1..n : m \in fr \/ m \in lk \/ m \in Finalizers(s)
      /\ fr \subseteq 1..n /\ lk \subseteq 1..n /\ fr \cap lk = {}
  BY <1>1 DEF FinOK
<1>5. FinOK(<<>>, fr \union Finalizers(s), lk, n)
  BY <1>2, <1>3, <1>4 DEF FinOK
<1>6. FinOK(<<>>, fr, lk \union Finalizers(s), n)
  BY <1>2, <1>3, <1>4 DEF FinOK
<1> QED
  BY <1>5, <1>6

\* A call is queued behind s.
LEMMA FinJoins ==
  ASSUME NEW s \in Seq(Item), NEW c \in Calls, NEW base \in Nat,
         NEW fr, NEW lk, NEW n \in Nat, FinOK(s, fr, lk, n)
  PROVE  FinOK(s \o Items(c, base, n + 1), fr, lk, IF c.op = "write" THEN n ELSE n + 1)
<1> DEFINE e == Items(c, base, n + 1)
           z == s \o e
           q == Len(c.ends)
           m == IF c.op = "write" THEN n ELSE n + 1
<1>1. /\ e \in Seq(Item) /\ q \in Nat /\ Len(e) = IF c.op = "write" THEN q ELSE q + 1
      /\ \A i \in 1..q : e[i].type = "data" /\ e[i].no = IF c.op = "write" THEN 0 ELSE n + 1
      /\ c.op # "write" => e[q + 1].type = "fin" /\ e[q + 1].no = n + 1
  BY ItemsOf, CallAssumption
<1> HIDE DEF e
<1>2. /\ Len(z) = Len(s) + Len(e) /\ Len(s) \in Nat /\ Len(e) \in Nat
      /\ \A i \in 1..Len(s) : z[i] = s[i]
      /\ \A i \in (Len(s) + 1)..Len(z) : z[i] = e[i - Len(s)] /\ i - Len(s) \in 1..Len(e)
  BY <1>1, Concat
<1> HIDE DEF z, q
<1>3. m \in Nat /\ n <= m /\ m <= n + 1
  OBVIOUS
<1>4. fr \subseteq 1..n /\ lk \subseteq 1..n /\ fr \cap lk = {}
  BY DEF FinOK
<1>5. \A i \in 1..Len(s) : s[i].no <= n /\ s[i].no \in Nat
  <2>1. \A i \in 1..Len(s) : s[i] \in Item
    OBVIOUS
  <2> QED
    BY <2>1 DEF FinOK, Item
<1>6. \A i \in 1..Len(e) : /\ e[i].no = IF c.op = "write" THEN 0 ELSE n + 1
                           /\ e[i].type = "fin" => c.op # "write" /\ i = q + 1
  BY <1>1
<1>7. \A k \in 1..m : k \in fr \/ k \in lk \/ Waits(z, k)
  <2> SUFFICES ASSUME NEW k \in 1..m, k \notin fr, k \notin lk PROVE Waits(z, k)
    OBVIOUS
  <2>1. CASE k <= n
    <3>1. PICK i \in 1..Len(s) : s[i].type = "fin" /\ s[i].no = k
      BY <2>1 DEF FinOK, Waits
    <3>2. i \in 1..Len(z) /\ z[i] = s[i]
      BY <1>2
    <3> QED
      BY <3>1, <3>2 DEF Waits
  <2>2. CASE k > n
    <3>1. k = n + 1 /\ c.op # "write"
      BY <2>2
    <3>2. Len(s) + q + 1 \in 1..Len(z) /\ z[Len(s) + q + 1] = e[q + 1]
      BY <1>1, <1>2, <3>1
    <3> QED
      BY <1>1, <3>1, <3>2 DEF Waits
  <2> QED
    BY <2>1, <2>2
<1>8. \A i \in 1..Len(z) :
        /\ z[i].no \notin fr /\ z[i].no <= m
        /\ z[i].type = "fin" => z[i].no \in 1..m /\ z[i].no \notin lk
  <2> SUFFICES ASSUME NEW i \in 1..Len(z)
               PROVE  /\ z[i].no \notin fr /\ z[i].no <= m
                      /\ z[i].type = "fin" => z[i].no \in 1..m /\ z[i].no \notin lk
    OBVIOUS
  <2>1. CASE i <= Len(s)
    <3>1. i \in 1..Len(s) /\ z[i] = s[i]
      BY <1>2, <2>1
    <3>2. z[i].no \notin fr /\ (z[i].type = "fin" => z[i].no \in 1..n /\ z[i].no \notin lk)
      BY <3>1 DEF FinOK
    <3> QED
      BY <1>3, <1>5, <3>1, <3>2
  <2>2. CASE i > Len(s)
    <3>1. z[i] = e[i - Len(s)] /\ i - Len(s) \in 1..Len(e)
      BY <1>2, <2>2
    <3>2. z[i].no = IF c.op = "write" THEN 0 ELSE n + 1
      BY <1>6, <3>1
    <3>3. z[i].no \notin fr /\ z[i].no \notin lk /\ z[i].no <= m
      BY <1>4, <3>2
    <3>4. z[i].type = "fin" => z[i].no \in 1..m
      <4>1. z[i].type = "fin" => c.op # "write"
        BY <1>6, <3>1
      <4> QED
        BY <3>2, <4>1
    <3> QED
      BY <3>3, <3>4
  <2> QED
    BY <1>2, <2>1, <2>2
<1>9. \A i, j \in 1..Len(z) : i < j /\ z[i].type = "fin" => z[j].no # z[i].no
  <2> SUFFICES ASSUME NEW i \in 1..Len(z), NEW j \in 1..Len(z), i < j, z[i].type = "fin"
               PROVE  z[j].no # z[i].no
    OBVIOUS
  <2>1. CASE j <= Len(s)
    BY <1>2, <2>1 DEF FinOK
  <2>2. CASE i <= Len(s) /\ j > Len(s)
    <3>1. z[i] = s[i] /\ i \in 1..Len(s) /\ z[i].no \in 1..n
      BY <1>2, <2>2 DEF FinOK
    <3>2. z[j] = e[j - Len(s)] /\ j - Len(s) \in 1..Len(e)
      BY <1>2, <2>2
    <3> QED
      BY <1>6, <3>1, <3>2
  <2>3. CASE i > Len(s)
    <3>0. i \in (Len(s) + 1)..Len(z) /\ j \in (Len(s) + 1)..Len(z)
      BY <1>2, <2>3
    <3>1. z[i] = e[i - Len(s)] /\ i - Len(s) \in 1..Len(e) /\ j - Len(s) \in 1..Len(e)
      BY <1>2, <3>0
    <3> QED
      BY <1>1, <1>2, <1>6, <3>1
  <2> QED
    BY <1>2, <2>1, <2>2, <2>3
<1>10. FinOK(z, fr, lk, m)
  BY <1>3, <1>4, <1>7, <1>8, <1>9 DEF FinOK
<1> QED
  BY <1>10 DEF z, e

-----------------------------------------------------------------------------
(* Data, in a sequence of items.                                           *)

\* The data in s goes on without a gap up to byte last.
Joined(s, last) ==
  /\ \A i \in DataIn(s) : 0 < s[i].lo /\ s[i].lo <= s[i].hi
  /\ \A i, j \in DataIn(s) : i < j /\ (\A k \in DataIn(s) : ~(i < k /\ k < j)) => s[i].hi + 1 = s[j].lo
  /\ \A i \in DataIn(s) : (\A k \in DataIn(s) : k <= i) => s[i].hi = last

\* It starts behind byte done.
Starts(s, done, last) ==
  /\ DataIn(s) = {} => done = last
  /\ \A i \in DataIn(s) : (\A k \in DataIn(s) : i <= k) => s[i].lo = done + 1

\* The data in Tail(s) is one place ahead.
LEMMA DataInTail ==
  ASSUME NEW s \in Seq(Item), s # <<>>
  PROVE  /\ \A i \in DataIn(Tail(s)) : i \in Nat /\ i + 1 \in DataIn(s) /\ Tail(s)[i] = s[i + 1]
         /\ \A i \in DataIn(s) : i \in Nat \ {0} /\ (i # 1 => i - 1 \in DataIn(Tail(s)))
         /\ 1 \in DataIn(s) <=> Head(s).type = "data"
<1>1. Len(s) \in Nat /\ Len(s) > 0 /\ Len(Tail(s)) = Len(s) - 1 /\ Head(s) = s[1]
  BY TailAt
<1>2. \A i \in 1..Len(Tail(s)) : Tail(s)[i] = s[i + 1] /\ i + 1 \in 1..Len(s)
  BY <1>1, TailAt
<1>3. \A i \in 1..Len(s) : i # 1 => i - 1 \in 1..Len(Tail(s)) /\ Tail(s)[i - 1] = s[i]
  BY <1>1, <1>2
<1> QED
  BY <1>1, <1>2, <1>3 DEF DataIn

\* Without its head, what is joined stays so.
LEMMA JoinedTail ==
  ASSUME NEW s \in Seq(Item), s # <<>>, NEW last, Joined(s, last)
  PROVE  Joined(Tail(s), last)
<1>1. \A i \in DataIn(Tail(s)) : i \in Nat /\ i + 1 \in DataIn(s) /\ Tail(s)[i] = s[i + 1]
  BY DataInTail
<1>2. \A i \in DataIn(s) : i \in Nat \ {0} /\ (i # 1 => i - 1 \in DataIn(Tail(s)))
  BY DataInTail
<1>3. \A i \in DataIn(Tail(s)) : 0 < Tail(s)[i].lo /\ Tail(s)[i].lo <= Tail(s)[i].hi
  BY <1>1 DEF Joined
<1>4. ASSUME NEW i \in DataIn(Tail(s)), NEW j \in DataIn(Tail(s)), i < j,
             \A k \in DataIn(Tail(s)) : ~(i < k /\ k < j)
      PROVE  Tail(s)[i].hi + 1 = Tail(s)[j].lo
  <2>1. i + 1 \in DataIn(s) /\ j + 1 \in DataIn(s) /\ i + 1 < j + 1
    BY <1>1, <1>4
  <2>2. \A k \in DataIn(s) : ~(i + 1 < k /\ k < j + 1)
    <3> SUFFICES ASSUME NEW k \in DataIn(s), i + 1 < k, k < j + 1 PROVE FALSE
      OBVIOUS
    <3>1. k - 1 \in DataIn(Tail(s)) /\ i < k - 1 /\ k - 1 < j
      BY <1>1, <1>2
    <3> QED
      BY <1>4, <3>1
  <2>3. s[i + 1].hi + 1 = s[j + 1].lo
    BY <2>1, <2>2 DEF Joined
  <2> QED
    BY <1>1, <2>3
<1>5. ASSUME NEW i \in DataIn(Tail(s)), \A k \in DataIn(Tail(s)) : k <= i
      PROVE  Tail(s)[i].hi = last
  <2>1. \A k \in DataIn(s) : k <= i + 1
    <3> SUFFICES ASSUME NEW k \in DataIn(s) PROVE k <= i + 1
      OBVIOUS
    <3>1. k = 1 \/ k - 1 \in DataIn(Tail(s))
      BY <1>2
    <3>2. k = 1 \/ k - 1 <= i
      BY <1>5, <3>1
    <3> QED
      BY <1>1, <1>2, <3>2
  <2> QED
    BY <1>1, <2>1 DEF Joined
<1> QED
  BY <1>3, <1>4, <1>5 DEF Joined

\* A finalizer at the head does not matter.
LEMMA StartsTail ==
  ASSUME NEW s \in Seq(Item), s # <<>>, Head(s).type = "fin", NEW done, NEW last, Starts(s, done, last)
  PROVE  Starts(Tail(s), done, last)
<1>1. \A i \in DataIn(Tail(s)) : i \in Nat /\ i + 1 \in DataIn(s) /\ Tail(s)[i] = s[i + 1]
  BY DataInTail
<1>2. \A i \in DataIn(s) : i \in Nat \ {0} /\ i # 1 /\ i - 1 \in DataIn(Tail(s))
  BY DataInTail
<1>3. DataIn(Tail(s)) = {} => DataIn(s) = {}
  BY <1>2
<1>4. ASSUME NEW i \in DataIn(Tail(s)), \A k \in DataIn(Tail(s)) : i <= k
      PROVE  Tail(s)[i].lo = done + 1
  <2>1. \A k \in DataIn(s) : i + 1 <= k
    <3> SUFFICES ASSUME NEW k \in DataIn(s) PROVE i + 1 <= k
      OBVIOUS
    <3>1. k - 1 \in DataIn(Tail(s)) /\ k \in Nat
      BY <1>2
    <3>2. i <= k - 1
      BY <1>4, <3>1
    <3> QED
      BY <1>1, <3>1, <3>2
  <2> QED
    BY <1>1, <2>1 DEF Starts
<1> QED
  BY <1>3, <1>4 DEF Starts

\* The data at the head is written to its end.
LEMMA StartsNext ==
  ASSUME NEW s \in Seq(Item), s # <<>>, Head(s).type = "data",
         NEW done \in Nat, NEW last \in Nat, NEW n \in Nat, Head(s).lo + n = Head(s).hi + 1,
         Joined(s, last), Starts(s, done, last)
  PROVE  Starts(Tail(s), done + n, last)
<1>1. \A i \in DataIn(Tail(s)) : i \in Nat /\ i + 1 \in DataIn(s) /\ Tail(s)[i] = s[i + 1]
  BY DataInTail
<1>2. \A i \in DataIn(s) : i \in Nat \ {0} /\ (i # 1 => i - 1 \in DataIn(Tail(s)))
  BY DataInTail
<1>3. 1 \in DataIn(s) /\ Head(s) = s[1] /\ s[1].lo \in Nat /\ s[1].hi \in Nat
  <2>1. 1 \in DataIn(s) /\ Head(s) = s[1] /\ s[1] \in Item
    BY DataInTail, TailAt
  <2> QED
    BY <2>1 DEF Item
<1>4. s[1].lo = done + 1
  <2>1. \A k \in DataIn(s) : 1 <= k
    BY <1>2
  <2> QED
    BY <1>3, <2>1 DEF Starts
<1>5. s[1].hi = done + n
  BY <1>3, <1>4
<1>6. ASSUME DataIn(Tail(s)) = {} PROVE done + n = last
  <2>1. \A k \in DataIn(s) : k <= 1
    BY <1>2, <1>6
  <2> QED
    BY <1>3, <1>5, <2>1 DEF Joined
<1>7. ASSUME NEW i \in DataIn(Tail(s)), \A k \in DataIn(Tail(s)) : i <= k
      PROVE  Tail(s)[i].lo = done + n + 1
  <2>1. i + 1 \in DataIn(s) /\ 1 < i + 1
    <3>1. i \in Nat \ {0}
      BY DEF DataIn
    <3> QED
      BY <1>1, <3>1
  <2>2. \A k \in DataIn(s) : ~(1 < k /\ k < i + 1)
    <3> SUFFICES ASSUME NEW k \in DataIn(s), 1 < k, k < i + 1 PROVE FALSE
      OBVIOUS
    <3>1. k - 1 \in DataIn(Tail(s)) /\ k \in Nat
      BY <1>2
    <3>2. i <= k - 1
      BY <1>7, <3>1
    <3> QED
      BY <1>1, <3>1, <3>2
  <2>3. s[1].hi + 1 = s[i + 1].lo
    BY <1>3, <2>1, <2>2 DEF Joined
  <2> QED
    BY <1>1, <1>5, <2>3
<1> QED
  BY <1>6, <1>7 DEF Starts

\* A part of the data at the head is written.
LEMMA DataCut ==
  ASSUME NEW s \in Seq(Item), s # <<>>, Head(s).type = "data", NEW d \in Item, NEW n \in Nat,
         d.type = "data", d.lo = Head(s).lo + n, d.hi = Head(s).hi, d.lo <= d.hi,
         NEW last, Joined(s, last)
  PROVE  /\ Joined(<<d>> \o Tail(s), last)
         /\ \A done \in Nat : Starts(s, done, last) => Starts(<<d>> \o Tail(s), done + n, last)
<1> DEFINE z == <<d>> \o Tail(s)
<1>1. Len(s) \in Nat /\ Len(s) > 0 /\ Len(z) = Len(s) /\ Head(s) = s[1]
  BY TailAt
<1>2. z[1] = d /\ \A i \in 2..Len(s) : z[i] = s[i]
  BY TailAt
<1> HIDE DEF z
<1>3. DataIn(z) = DataIn(s) /\ 1 \in DataIn(s)
  BY <1>1, <1>2 DEF DataIn
<1>4. \A i \in DataIn(s) : i \in 1..Len(s) /\ z[i].hi = s[i].hi /\ (i # 1 => z[i].lo = s[i].lo)
  BY <1>1, <1>2 DEF DataIn
<1>5. \A i, j \in DataIn(s) : i < j => z[j].lo = s[j].lo
  BY <1>1, <1>4
<1>6. Joined(z, last)
  <2>1. \A i \in DataIn(s) : 0 < s[i].lo /\ s[i].lo <= s[i].hi
    BY DEF Joined
  <2>2. 0 < d.lo
    <3>1. 0 < s[1].lo /\ s[1].lo \in Nat
      BY <1>3, <2>1, TailAt DEF Item
    <3> QED
      BY <1>1, <3>1
  <2>3. \A i \in DataIn(s) : 0 < z[i].lo /\ z[i].lo <= z[i].hi
    BY <1>2, <1>4, <2>1, <2>2
  <2> QED
    BY <1>2, <1>3, <1>4, <1>5, <2>3 DEF Joined
<1>7. ASSUME NEW done \in Nat, Starts(s, done, last) PROVE Starts(z, done + n, last)
  <2>1. \A k \in DataIn(s) : 1 <= k
    BY <1>4
  <2>2. s[1].lo = done + 1
    BY <1>3, <1>7, <2>1 DEF Starts
  <2>3. z[1].lo = done + n + 1
    <3>1. d.lo = (done + 1) + n
      BY <1>1, <2>2
    <3> QED
      BY <1>2, <3>1
  <2>4. \A i \in DataIn(s) : (\A k \in DataIn(s) : i <= k) => i = 1
    BY <1>3, <1>4
  <2> QED
    BY <1>3, <2>3, <2>4 DEF Starts
<1> QED
  BY <1>6, <1>7 DEF z

\* A call is queued behind s.
LEMMA DataJoins ==
  ASSUME NEW s \in Seq(Item), NEW c \in Calls, NEW last \in Nat, NEW no \in Nat, Joined(s, last)
  PROVE  /\ Joined(s \o Items(c, last, no), last + Total(c))
         /\ \A done \in Nat : Starts(s, done, last) => Starts(s \o Items(c, last, no), done, last + Total(c))
<1> DEFINE e == Items(c, last, no)
           z == s \o e
           q == Len(c.ends)
           l == Len(s)
<1>1. e \in Seq(Item) /\ q \in Nat /\ (Len(e) = q \/ (Len(e) = q + 1 /\ e[q + 1].type = "fin"))
  <2>1. q \in Nat
    BY CallAssumption
  <2>2. CASE c.op = "write"
    BY <2>1, <2>2, ItemsOf
  <2>3. CASE c.op # "write"
    BY <2>1, <2>3, ItemsOf
  <2> QED
    BY <2>2, <2>3
<1>2. \A i \in 1..q : /\ e[i].type = "data" /\ e[i].lo = last + End(c, i - 1) + 1
                      /\ e[i].hi = last + End(c, i)
  BY ItemsOf
<1>3. \A i \in 0..q : End(c, i) \in Nat
  BY <1>1, CallAssumption DEF End
<1>4. \A i \in 1..q : End(c, i - 1) < End(c, i)
  <2> SUFFICES ASSUME NEW i \in 1..q PROVE End(c, i - 1) < End(c, i)
    OBVIOUS
  <2>1. End(c, i) = c.ends[i] /\ c.ends[i] \in Nat \ {0}
    BY <1>1, CallAssumption DEF End
  <2>2. CASE i = 1
    BY <2>1, <2>2 DEF End
  <2>3. CASE i # 1
    <3>1. i - 1 \in 1..q /\ i - 1 < i /\ End(c, i - 1) = c.ends[i - 1]
      BY <1>1, <2>3 DEF End
    <3> QED
      BY <2>1, <3>1, CallAssumption
  <2> QED
    BY <2>2, <2>3
<1>5. End(c, 0) = 0 /\ Total(c) = End(c, q)
  BY DEF End, Total
<1> HIDE DEF e
<1>6. /\ Len(z) = l + Len(e) /\ l \in Nat /\ Len(e) \in Nat
      /\ \A i \in 1..l : z[i] = s[i]
      /\ \A i \in (l + 1)..Len(z) : z[i] = e[i - l] /\ i - l \in 1..Len(e)
  BY <1>1, Concat
<1> HIDE DEF z, q, l
<1>7. /\ DataIn(s) \subseteq 1..l /\ DataIn(z) \subseteq 1..Len(z)
      /\ \A i \in 1..l : i \in DataIn(z) <=> i \in DataIn(s)
  BY <1>6 DEF DataIn, l
<1>8. \A i \in (l + 1)..Len(z) : i \in DataIn(z) <=> i <= l + q
  <2> SUFFICES ASSUME NEW i \in (l + 1)..Len(z) PROVE i \in DataIn(z) <=> i <= l + q
    OBVIOUS
  <2>1. CASE i <= l + q
    <3>1. i - l \in 1..q /\ z[i] = e[i - l]
      BY <1>1, <1>6, <2>1
    <3> QED
      BY <1>2, <1>6, <2>1, <3>1 DEF DataIn
  <2>2. CASE i > l + q
    <3>1. i - l = q + 1 /\ z[i] = e[q + 1] /\ e[q + 1].type = "fin"
      BY <1>1, <1>6, <2>2
    <3>2. i \notin DataIn(z)
      BY <3>1 DEF DataIn
    <3> QED
      BY <1>1, <1>6, <2>2, <3>2
  <2> QED
    BY <1>1, <1>6, <2>1, <2>2
<1>9. \A i \in DataIn(z) :
        \/ i \in 1..l /\ i \in DataIn(s) /\ z[i] = s[i]
        \/ /\ i \in (l + 1)..(l + q) /\ i - l \in 1..q
           /\ z[i].lo = last + End(c, i - l - 1) + 1 /\ z[i].hi = last + End(c, i - l)
  <2> SUFFICES ASSUME NEW i \in DataIn(z), i \notin 1..l
               PROVE  /\ i \in (l + 1)..(l + q) /\ i - l \in 1..q
                      /\ z[i].lo = last + End(c, i - l - 1) + 1 /\ z[i].hi = last + End(c, i - l)
    BY <1>6, <1>7
  <2>1. i \in (l + 1)..Len(z) /\ i <= l + q
    BY <1>6, <1>7, <1>8
  <2>2. i - l \in 1..q /\ z[i] = e[i - l]
    BY <1>1, <1>6, <2>1
  <2>3. e[i - l].lo = last + End(c, i - l - 1) + 1 /\ e[i - l].hi = last + End(c, i - l)
    BY <1>2, <2>2
  <2> QED
    BY <1>1, <1>6, <2>1, <2>2, <2>3
<1>10. \A i \in 1..q : l + i \in DataIn(z)
  BY <1>1, <1>6, <1>8
<1>11. \A i \in DataIn(z) : 0 < z[i].lo /\ z[i].lo <= z[i].hi
  <2> SUFFICES ASSUME NEW i \in DataIn(z) PROVE 0 < z[i].lo /\ z[i].lo <= z[i].hi
    OBVIOUS
  <2>1. CASE i \in 1..l /\ i \in DataIn(s) /\ z[i] = s[i]
    BY <2>1 DEF Joined
  <2>2. CASE /\ i - l \in 1..q
             /\ z[i].lo = last + End(c, i - l - 1) + 1 /\ z[i].hi = last + End(c, i - l)
    <3>1. End(c, i - l - 1) \in Nat /\ End(c, i - l) \in Nat /\ End(c, i - l - 1) < End(c, i - l)
      BY <1>1, <1>3, <1>4, <2>2
    <3> QED
      BY <2>2, <3>1
  <2> QED
    BY <1>9, <2>1, <2>2
<1>12. ASSUME NEW i \in DataIn(z), NEW j \in DataIn(z), i < j, \A k \in DataIn(z) : ~(i < k /\ k < j)
       PROVE  z[i].hi + 1 = z[j].lo
  <2>0. i \in Nat /\ j \in Nat
    BY <1>7
  <2>1. CASE j \in 1..l
    <3>1. i \in DataIn(s) /\ j \in DataIn(s) /\ z[i] = s[i] /\ z[j] = s[j]
      BY <1>6, <1>7, <1>12, <2>0, <2>1
    <3>2. \A k \in DataIn(s) : k \in DataIn(z)
      BY <1>7
    <3> QED
      BY <1>12, <3>1, <3>2 DEF Joined
  <2>2. CASE i \in 1..l /\ j \notin 1..l
    <3>1. i \in DataIn(s) /\ z[i] = s[i]
      BY <1>6, <1>7, <2>2
    <3>2. j - l \in 1..q /\ z[j].lo = last + End(c, j - l - 1) + 1 /\ j > l
      BY <1>6, <1>9, <2>0, <2>2
    <3>3. \A k \in DataIn(s) : k <= i
      BY <1>6, <1>7, <1>12, <2>0, <3>2
    <3>4. j = l + 1
      <4>1. l + 1 \in DataIn(z)
        BY <1>1, <1>10, <3>2
      <4>2. i < l + 1
        BY <1>6, <2>2
      <4>3. ~(l + 1 < j)
        BY <1>12, <4>1, <4>2
      <4> QED
        BY <1>6, <2>0, <3>2, <4>3
    <3>5. s[i].hi = last
      BY <3>1, <3>3 DEF Joined
    <3>6. j - l - 1 = 0
      BY <1>6, <3>4
    <3> QED
      BY <1>5, <3>1, <3>2, <3>5, <3>6
  <2>3. CASE i \notin 1..l
    <3>1. /\ i - l \in 1..q /\ z[i].hi = last + End(c, i - l)
          /\ j - l \in 1..q /\ z[j].lo = last + End(c, j - l - 1) + 1
      BY <1>6, <1>9, <1>12, <2>0, <2>3
    <3>2. j = i + 1
      <4>1. i - l + 1 \in 1..q
        <5>0. i < j /\ l \in Nat /\ q \in Nat /\ i - l \in 1..q /\ j - l \in 1..q
          BY <1>1, <1>6, <1>12, <3>1
        <5>1. i + 1 <= j /\ j <= l + q /\ l + 1 <= i /\ l \in Nat /\ q \in Nat
          BY <2>0, <5>0
        <5> QED
          BY <2>0, <5>1
      <4>2. l + (i - l + 1) \in DataIn(z) /\ l + (i - l + 1) = i + 1
        BY <1>6, <1>10, <2>0, <4>1
      <4> QED
        BY <1>12, <2>0, <4>2
    <3>3. j - l - 1 = i - l
      BY <1>6, <2>0, <3>2
    <3>4. End(c, i - l) \in Nat
      BY <1>1, <1>3, <3>1
    <3> QED
      BY <3>1, <3>3, <3>4
  <2> QED
    BY <2>1, <2>2, <2>3
<1>13. ASSUME NEW i \in DataIn(z), \A k \in DataIn(z) : k <= i PROVE z[i].hi = last + Total(c)
  <2>1. CASE q = 0
    <3>1. i \in DataIn(s) /\ z[i] = s[i]
      BY <1>6, <1>9, <2>1
    <3>2. \A k \in DataIn(s) : k <= i
      BY <1>7, <1>13
    <3>3. s[i].hi = last
      BY <3>1, <3>2 DEF Joined
    <3> QED
      BY <1>5, <2>1, <3>1, <3>3
  <2>2. CASE q # 0
    <3>1. l + q \in DataIn(z)
      BY <1>1, <1>10, <2>2
    <3>2. i \in Nat /\ l + q <= i
      BY <1>7, <1>13, <3>1
    <3>3. i - l \in 1..q /\ z[i].hi = last + End(c, i - l)
      BY <1>1, <1>6, <1>9, <2>2, <3>2
    <3>4. i - l = q
      BY <1>1, <1>6, <3>2, <3>3
    <3> QED
      BY <1>5, <3>3, <3>4
  <2> QED
    BY <2>1, <2>2
<1>14. Joined(z, last + Total(c))
  BY <1>11, <1>12, <1>13 DEF Joined
<1>15. ASSUME NEW done \in Nat, Starts(s, done, last) PROVE Starts(z, done, last + Total(c))
  <2>1. ASSUME DataIn(z) = {} PROVE done = last + Total(c)
    <3>1. q = 0
      BY <1>1, <1>10, <2>1
    <3>2. DataIn(s) = {}
      BY <1>7, <2>1
    <3> QED
      BY <1>5, <1>15, <3>1, <3>2 DEF Starts
  <2>2. ASSUME NEW i \in DataIn(z), \A k \in DataIn(z) : i <= k PROVE z[i].lo = done + 1
    <3>1. CASE i \in 1..l /\ i \in DataIn(s) /\ z[i] = s[i]
      <4>1. \A k \in DataIn(s) : i <= k
        BY <1>7, <2>2
      <4> QED
        BY <1>15, <3>1, <4>1 DEF Starts
    <3>2. CASE /\ i \in (l + 1)..(l + q) /\ i - l \in 1..q
               /\ z[i].lo = last + End(c, i - l - 1) + 1
      <4>1. DataIn(s) = {}
        <5> SUFFICES ASSUME NEW k \in DataIn(s) PROVE FALSE
          OBVIOUS
        <5>1. k \in DataIn(z) /\ k \in 1..l
          BY <1>7
        <5>2. i <= k
          BY <2>2, <5>1
        <5> QED
          BY <1>6, <3>2, <5>1, <5>2
      <4>2. i = l + 1
        <5>1. l + 1 \in DataIn(z)
          BY <1>1, <1>10, <3>2
        <5>2. i <= l + 1
          BY <2>2, <5>1
        <5> QED
          BY <1>1, <1>6, <3>2, <5>2
      <4>3. i - l - 1 = 0 /\ done = last
        BY <1>6, <1>15, <4>1, <4>2 DEF Starts
      <4> QED
        BY <1>5, <3>2, <4>3
    <3> QED
      BY <1>9, <3>1, <3>2
  <2> QED
    BY <2>1, <2>2 DEF Starts
<1> QED
  BY <1>14, <1>15 DEF z, e

-----------------------------------------------------------------------------
(* The inductive invariant.                                                *)

Types ==
  /\ ctx \in [Fds -> Seq(Item)]
  /\ lock \in [Fds -> Threads \union {NoThread}]
  /\ pc \in [Threads -> {"idle", "event", "exec", "settle"}]
  /\ op \in [Threads -> {"none", "raw", "xfer", "write", "event"}]
  /\ target \in [Threads -> Fds \union {NoFd}]
  /\ buf \in [Threads -> Seq(Item)]
  /\ result \in [Threads -> {"none", "again", "done", "fail"}]
  /\ oreg \in [Fds -> {"none", "armed", "fired"}]
  /\ out_queue \in Seq(Fds)
  /\ open \in [Fds -> BOOLEAN] /\ broken \in [Fds -> BOOLEAN]
  /\ shut \in [Fds -> BOOLEAN] /\ stale \in [Fds -> BOOLEAN] /\ unwatched \in [Fds -> BOOLEAN]
  /\ room \in [Fds -> 0..Room]
  /\ commits \in [Fds -> Nat]
  /\ committed \in [Fds -> Nat] /\ delivered \in [Fds -> Nat]
  /\ freed \in [Fds -> SUBSET Nat] /\ leaked \in [Fds -> SUBSET Nat]

LockOK ==
  \A t \in Threads, f \in Fds : lock[f] = t <=> pc[t] \in {"exec", "settle"} /\ target[t] = f

\* Where a worker is, and what it knows of its descriptor there.
ThreadOK(t) ==
  /\ pc[t] = "idle" => op[t] = "none" /\ target[t] = NoFd
  /\ pc[t] = "event" => op[t] = "event" /\ target[t] \in Fds
  /\ pc[t] \in {"exec", "settle"} =>
       /\ op[t] # "none" /\ target[t] \in Fds
       /\ op[t] # "event" => ctx[target[t]] = <<>> /\ open[target[t]]
  /\ pc[t] = "settle" =>
       \/ result[t] = "again" /\ buf[t] # <<>> /\ Head(buf[t]).type = "data"
       \/ result[t] = "done" /\ buf[t] = <<>>
       \/ result[t] = "fail" /\ (broken[target[t]] \/ stale[target[t]])

\* Worker t handles a write event of descriptor f; one is queued at place k.
Handles(t, f) == op[t] = "event" /\ target[t] = f
QueuedAt(k, f) == k \in 1..Len(out_queue) /\ out_queue[k] = f

\* At most one of an armed registration, a queued event and a worker; one while
\* there is output, unless the out port has refused it, and none while there is
\* not.
WatchOK(f) ==
  /\ oreg[f] = "armed" => ~InFlight(f)
  /\ \A j, k : QueuedAt(j, f) /\ QueuedAt(k, f) => j = k
  /\ \A t, u \in Threads : Handles(t, f) /\ Handles(u, f) => t = u
  /\ \A k : \A t \in Threads : ~(QueuedAt(k, f) /\ Handles(t, f))
  /\ InFlight(f) \/ oreg[f] # "none" => ctx[f] # <<>>
  /\ ctx[f] # <<>> /\ ~stale[f] /\ ~unwatched[f]
       => oreg[f] # "none" /\ (oreg[f] = "armed" \/ InFlight(f))
  /\ unwatched[f] => ctx[f] # <<>> /\ oreg[f] # "armed" /\ ~InFlight(f)
  /\ ~open[f] => oreg[f] = "none" /\ (ctx[f] # <<>> => stale[f])

\* The items that are pending: their finalizers are accounted for, their bytes
\* follow one another up to the last one committed, and start behind the last
\* one delivered.
FlowOK(f) ==
  /\ FinOK(Pending(f), freed[f], leaked[f], commits[f])
  /\ Joined(Pending(f), committed[f])
  /\ open[f] /\ ~stale[f] /\ ~broken[f] => Starts(Pending(f), delivered[f], committed[f])

IInv ==
  /\ Types /\ LockOK
  /\ \A t \in Threads : ThreadOK(t)
  /\ \A f \in Fds : WatchOK(f) /\ FlowOK(f)

\* InFlight, in the words above.
LEMMA InFlightIs ==
  ASSUME NEW f
  PROVE  /\ InFlight(f) <=> (\E k : QueuedAt(k, f)) \/ (\E t \in Threads : Handles(t, f))
         /\ InFlight(f)' <=> (\E k : QueuedAt(k, f)') \/ (\E t \in Threads : Handles(t, f)')
BY DEF InFlight, QueuedAt, Handles

\* No items: what is needed of them holds.
LEMMA NothingPending ==
  /\ FinOK(<<>>, {}, {}, 0)
  /\ \A last : Joined(<<>>, last) /\ Starts(<<>>, last, last)
<1>1. Len(<<>>) = 0 /\ DataIn(<<>>) = {} /\ 1..0 = {}
  BY DEF DataIn
<1> QED
  BY <1>1 DEF FinOK, Joined, Starts

\* Nothing is committed.
LEMMA IInvInit == Init => IInv
<1> SUFFICES ASSUME Init PROVE IInv
  OBVIOUS
<1>1. open \in [Fds -> BOOLEAN] /\ broken \in [Fds -> BOOLEAN]
      /\ shut \in [Fds -> BOOLEAN] /\ stale \in [Fds -> BOOLEAN] /\ unwatched \in [Fds -> BOOLEAN]
  BY DEF Init
<1>2. freed \in [Fds -> SUBSET Nat] /\ leaked \in [Fds -> SUBSET Nat]
  BY DEF Init
<1>3. Types
  BY <1>1, <1>2, RoomAssumption DEF Init, Types
<1>4. LockOK
  BY ThreadAssumption DEF Init, LockOK
<1>5. \A t \in Threads : ThreadOK(t)
  BY DEF Init, ThreadOK
<1>6. \A f \in Fds : WatchOK(f)
  BY DEF Init, WatchOK, InFlight, QueuedAt, Handles
<1>7. ASSUME NEW f \in Fds PROVE FlowOK(f)
  <2>1. /\ Pending(f) = <<>> /\ freed[f] = {} /\ leaked[f] = {} /\ commits[f] = 0
        /\ committed[f] = 0 /\ delivered[f] = 0
    BY DEF Init, Pending
  <2> QED
    BY <2>1, NothingPending DEF FlowOK
<1> QED
  BY <1>3, <1>4, <1>5, <1>6, <1>7 DEF IInv

\* A step that changes none of these keeps IInv.
LEMMA IInvFrame == IInv /\ UNCHANGED vars => IInv'
<1> SUFFICES ASSUME IInv, UNCHANGED vars PROVE IInv'
  OBVIOUS
<1> USE DEF vars, threadVars, portVars, sockVars, histVars
<1>1. Types' /\ LockOK'
  BY DEF IInv, Types, LockOK
<1>2. \A t \in Threads : ThreadOK(t)'
  BY DEF IInv, ThreadOK
<1>3. \A f \in Fds : WatchOK(f)'
  BY DEF IInv, WatchOK, InFlight, QueuedAt, Handles
<1>4. \A f \in Fds : FlowOK(f)'
  BY DEF IInv, FlowOK, Pending
<1> QED
  BY <1>1, <1>2, <1>3, <1>4 DEF IInv

\* What keeps ThreadOK of a worker that does not take the step.
LEMMA ThreadFrame ==
  ASSUME NEW v \in Threads, ThreadOK(v),
         pc'[v] = pc[v], op'[v] = op[v], target'[v] = target[v], buf'[v] = buf[v], result'[v] = result[v],
         pc[v] \in {"exec", "settle"} /\ op[v] # "event"
           => ctx'[target[v]] = ctx[target[v]] /\ (open[target[v]] => open'[target[v]]),
         pc[v] = "settle" /\ result[v] = "fail" /\ (broken[target[v]] \/ stale[target[v]])
           => broken'[target[v]] \/ stale'[target[v]]
  PROVE  ThreadOK(v)'
<1> DEFINE g == target[v]
<1>1. pc[v] \in {"exec", "settle"} /\ op[v] # "event" => ctx'[g] = <<>> /\ open'[g]
  BY DEF ThreadOK
<1> QED
  BY <1>1 DEF ThreadOK

\* What keeps WatchOK of a descriptor.
LEMMA WatchFrame ==
  ASSUME NEW h \in Fds, WatchOK(h),
         oreg'[h] = oreg[h], (ctx'[h] = <<>>) <=> (ctx[h] = <<>>),
         stale[h] => stale'[h], open[h] => open'[h], unwatched'[h] = unwatched[h],
         \A u \in Threads : Handles(u, h)' <=> Handles(u, h),
         \A k : QueuedAt(k, h)' <=> QueuedAt(k, h)
  PROVE  WatchOK(h)'
<1>1. InFlight(h)' <=> InFlight(h)
  BY InFlightIs
<1> QED
  BY <1>1 DEF WatchOK

\* The finalizers of a sequence are numbers.
LEMMA FinalizersNat ==
  ASSUME NEW s \in Seq(Item)
  PROVE  Finalizers(s) \subseteq Nat
<1>1. \A i \in 1..Len(s) : s[i] \in Item
  OBVIOUS
<1>2. \A i \in 1..Len(s) : s[i].no \in Nat
  BY <1>1 DEF Item
<1> QED
  BY <1>2 DEF Finalizers

\* A write event of a closed descriptor is one of a descriptor closed with
\* output pending.
LEMMA ClosedInFlight ==
  ASSUME NEW t \in Threads, NEW f \in Fds, WatchOK(f), Handles(t, f), ~open[f]
  PROVE  stale[f]
<1>1. InFlight(f)
  BY InFlightIs
<1> QED
  BY <1>1 DEF WatchOK

\* A sequence behind another one, place by place.
LEMMA Behind ==
  ASSUME NEW S, NEW p \in Seq(S), NEW q \in Seq(S)
  PROVE  /\ p \o q \in Seq(S) /\ Len(p \o q) = Len(p) + Len(q) /\ Len(p) \in Nat
         /\ \A k \in 1..(Len(p) + Len(q)) : (p \o q)[k] = IF k <= Len(p) THEN p[k] ELSE q[k - Len(p)]
OBVIOUS

\* What keeps the items that are pending on a descriptor,
LEMMA PendingSame ==
  ASSUME NEW g \in Fds, lock'[g] = lock[g],
         lock[g] = NoThread => ctx'[g] = ctx[g],
         lock[g] # NoThread => buf'[lock[g]] = buf[lock[g]]
  PROVE  Pending(g)' = Pending(g)
BY DEF Pending

\* and what is required of them.
LEMMA FlowFrame ==
  ASSUME NEW g \in Fds, FlowOK(g), Pending(g)' = Pending(g),
         freed'[g] = freed[g], leaked'[g] = leaked[g], commits'[g] = commits[g],
         committed'[g] = committed[g],
         open'[g] /\ ~stale'[g] /\ ~broken'[g]
           => open[g] /\ ~stale[g] /\ ~broken[g] /\ delivered'[g] = delivered[g]
  PROVE  FlowOK(g)'
BY DEF FlowOK

\* Every step keeps the types, the locks and the watch over the output.
LEMMA IInvStep == IInv /\ [Next]_vars => IInv'
<1> SUFFICES ASSUME IInv, [Next]_vars PROVE IInv'
  OBVIOUS
<1> USE DEF threadVars, portVars, sockVars, histVars
<1>a. Types
  BY DEF IInv
<1>b. LockOK /\ NoThread \notin Threads /\ NoFd \notin Fds
  BY ThreadAssumption DEF IInv
<1>c. \A t \in Threads : ThreadOK(t)
  BY DEF IInv
<1>d. \A f \in Fds : WatchOK(f)
  BY DEF IInv
<1>e. \A f \in Fds : FlowOK(f)
  BY DEF IInv
<1>1. ASSUME NEW t \in Threads, NEW f \in Fds, NEW c \in Calls, CommitQueued(t, f, c) PROVE IInv'
  <2>1. /\ pc[t] = "idle"
        /\ open[f]
        /\ lock[f] = NoThread
        /\ ctx[f] # <<>>
        /\ \A g \in Fds : ctx'[g] = IF g = f THEN ctx[f] \o Items(c, committed[f], commits[f] + 1) ELSE ctx[g]
        /\ \A g \in Fds : commits'[g] = IF g # f THEN commits[g]
                                        ELSE IF c.op = "write" THEN commits[f] ELSE commits[f] + 1
        /\ \A g \in Fds : committed'[g] = IF g = f THEN committed[f] + Total(c) ELSE committed[g]
        /\ UNCHANGED <<lock, pc, op, target, buf, result, oreg, out_queue, open, room, broken,
                       shut, delivered, freed, leaked, stale, unwatched>>
    BY <1>1, <1>a DEF CommitQueued, Types, Numbered
  <2>o. \A u \in Threads : u # t /\ pc[u] \in {"exec", "settle"} => target[u] # f
    BY <1>a, <1>b, <2>1 DEF LockOK, Types
  <2>e. PICK e \in Seq(Item) : e = Items(c, committed[f], commits[f] + 1)
    <3>1. committed[f] \in Nat /\ commits[f] + 1 \in Nat
      BY <1>a DEF Types
    <3> QED
      BY <3>1, ItemsOf
  <2>f. ctx[f] \o e \in Seq(Item) /\ ctx[f] \o e # <<>>
    BY <1>a, <2>1 DEF Types
  <2>2. Types'
    <3>1. ctx' \in [Fds -> Seq(Item)]
      BY <1>1, <1>a, <2>e, <2>f DEF CommitQueued, Types
    <3>2. commits' \in [Fds -> Nat] /\ committed' \in [Fds -> Nat]
      <4>1. Total(c) \in Nat
        <5>1. 0 \in Nat
          OBVIOUS
        <5> QED
          BY <5>1, ItemsOf
      <4>2. Numbered(f, c)
        BY <1>1 DEF CommitQueued
      <4>3. commits' \in [Fds -> Nat]
        BY <1>a, <4>2 DEF Numbered, Types
      <4>4. committed' \in [Fds -> Nat]
        BY <1>a, <4>1, <4>2 DEF Numbered, Types
      <4> QED
        BY <4>3, <4>4
    <3> QED
      BY <1>a, <2>1, <3>1, <3>2 DEF Types
  <2>3. LockOK'
    BY <1>b, <1>c, <2>1 DEF LockOK, ThreadOK
  <2>4. ASSUME NEW v \in Threads PROVE ThreadOK(v)'
    <3>1. ThreadOK(v) /\ ThreadOK(t) /\ WatchOK(f)
      BY <1>c, <1>d
    <3>2. CASE v = t
      BY <1>a, <1>b, <2>1, <3>1, <3>2 DEF Types, ThreadOK
    <3>3. CASE v # t
      <4>1. /\ pc'[v] = pc[v] /\ op'[v] = op[v] /\ target'[v] = target[v]
            /\ buf'[v] = buf[v] /\ result'[v] = result[v]
        BY <2>1, <3>3 DEF Return
      <4>2. pc[v] \in {"exec", "settle"} => target[v] \in Fds
        BY <3>1 DEF ThreadOK
      <4> QED
        BY <2>1, <2>o, <3>1, <3>3, <4>1, <4>2, ThreadFrame
    <3> QED
      BY <3>2, <3>3
  <2>5. ASSUME NEW h \in Fds PROVE WatchOK(h)'
    <3>1. WatchOK(h)
      BY <1>d
    <3>2. \A u \in Threads : Handles(u, h)' <=> Handles(u, h)
      BY <1>c, <2>1, CallAssumption DEF Handles, ThreadOK
    <3>3. \A k : QueuedAt(k, h)' <=> QueuedAt(k, h)
      BY <2>1 DEF QueuedAt
    <3>4. (ctx'[h] = <<>>) <=> (ctx[h] = <<>>)
      BY <2>1, <2>e, <2>f
    <3> QED
      BY <1>a, <2>1, <3>1, <3>2, <3>3, <3>4, WatchFrame DEF Types
  <2>6. ASSUME NEW g \in Fds PROVE FlowOK(g)'
    <3>1. FlowOK(g)
      BY <1>e
    <3>2. CASE g # f
      <4>1. lock[g] # t /\ lock[g] \in Threads \union {NoThread}
        <5>1. lock[g] = t => pc[t] \in {"exec", "settle"} /\ target[t] = g
          BY <1>b DEF LockOK
        <5> QED
          BY <1>a, <2>1, <3>2, <5>1 DEF Types
      <4>2. Pending(g)' = Pending(g)
        BY <2>1, <3>2, <4>1, PendingSame
      <4> QED
        BY <2>1, <3>1, <3>2, <4>2, FlowFrame
    <3>3. CASE g = f
      <4>1. Pending(f) = ctx[f] /\ ctx[f] \in Seq(Item) /\ commits[f] \in Nat /\ committed[f] \in Nat
        BY <1>a, <2>1 DEF Pending, Types
      <4>2. Pending(f)' = ctx[f] \o Items(c, committed[f], commits[f] + 1)
        BY <2>1 DEF Pending
      <4>3. FinOK(Pending(f)', freed'[f], leaked'[f], commits'[f])
        <5>1. FinOK(ctx[f], freed[f], leaked[f], commits[f])
          BY <3>1, <3>3, <4>1 DEF FlowOK
        <5>2. FinOK(ctx[f] \o Items(c, committed[f], commits[f] + 1), freed[f], leaked[f],
                    IF c.op = "write" THEN commits[f] ELSE commits[f] + 1)
          BY <4>1, <5>1, FinJoins
        <5>3. /\ commits'[f] = IF c.op = "write" THEN commits[f] ELSE commits[f] + 1
              /\ freed' = freed /\ leaked' = leaked
          BY <2>1
        <5> QED
          BY <4>2, <5>2, <5>3
      <4>4. /\ Joined(Pending(f)', committed'[f])
            /\ delivered[f] \in Nat /\ Starts(ctx[f], delivered[f], committed[f])
                 => Starts(Pending(f)', delivered'[f], committed'[f])
        <5>1. Joined(ctx[f], committed[f]) /\ commits[f] + 1 \in Nat
          BY <3>1, <3>3, <4>1 DEF FlowOK
        <5>2. /\ Joined(ctx[f] \o Items(c, committed[f], commits[f] + 1), committed[f] + Total(c))
              /\ \A done \in Nat : Starts(ctx[f], done, committed[f])
                   => Starts(ctx[f] \o Items(c, committed[f], commits[f] + 1), done, committed[f] + Total(c))
          BY <4>1, <5>1, DataJoins
        <5>3. committed'[f] = committed[f] + Total(c) /\ delivered' = delivered
          BY <2>1
        <5> QED
          BY <4>2, <5>2, <5>3
      <4>5. delivered[f] \in Nat /\ open' = open /\ stale' = stale /\ broken' = broken
        BY <1>a, <2>1 DEF Types
      <4> QED
        BY <3>1, <3>3, <4>1, <4>3, <4>4, <4>5 DEF FlowOK
    <3> QED
      BY <3>2, <3>3
  <2> QED
    BY <2>2, <2>3, <2>4, <2>5, <2>6 DEF IInv
<1>2. ASSUME NEW t \in Threads, NEW f \in Fds, NEW c \in Calls, CommitDirect(t, f, c) PROVE IInv'
  <2>1. /\ pc[t] = "idle"
        /\ open[f]
        /\ lock[f] = NoThread
        /\ ctx[f] = <<>>
        /\ \A g \in Fds : lock'[g] = IF g = f THEN t ELSE lock[g]
        /\ \A u \in Threads : pc'[u] = IF u = t THEN "exec" ELSE pc[u]
        /\ \A u \in Threads : op'[u] = IF u = t THEN c.op ELSE op[u]
        /\ \A u \in Threads : target'[u] = IF u = t THEN f ELSE target[u]
        /\ \A u \in Threads : buf'[u] = IF u = t THEN Items(c, committed[f], commits[f] + 1) ELSE buf[u]
        /\ \A g \in Fds : commits'[g] = IF g # f THEN commits[g]
                                        ELSE IF c.op = "write" THEN commits[f] ELSE commits[f] + 1
        /\ \A g \in Fds : committed'[g] = IF g = f THEN committed[f] + Total(c) ELSE committed[g]
        /\ UNCHANGED <<ctx, result, oreg, out_queue, open, room, broken, shut, delivered,
                       freed, leaked, stale, unwatched>>
    BY <1>2, <1>a DEF CommitDirect, Types, Numbered
  <2>o. \A u \in Threads : u # t /\ pc[u] \in {"exec", "settle"} => target[u] # f
    BY <1>a, <1>b, <2>1 DEF LockOK, Types
  <2>e. /\ Items(c, committed[f], commits[f] + 1) \in Seq(Item)
        /\ c.op \in {"raw", "xfer", "write"}
    BY <1>a, ItemsOf, CallAssumption DEF Types
  <2>2. Types'
    <3>1. buf' \in [Threads -> Seq(Item)] /\ lock' \in [Fds -> Threads \union {NoThread}]
      BY <1>2, <1>a, <2>e DEF CommitDirect, Types
    <3>2. commits' \in [Fds -> Nat] /\ committed' \in [Fds -> Nat]
      <4>1. Total(c) \in Nat
        <5>1. 0 \in Nat
          OBVIOUS
        <5> QED
          BY <5>1, ItemsOf
      <4>2. Numbered(f, c)
        BY <1>2 DEF CommitDirect
      <4>3. commits' \in [Fds -> Nat]
        BY <1>a, <4>2 DEF Numbered, Types
      <4>4. committed' \in [Fds -> Nat]
        BY <1>a, <4>1, <4>2 DEF Numbered, Types
      <4> QED
        BY <4>3, <4>4
    <3>3. /\ pc' \in [Threads -> {"idle", "event", "exec", "settle"}]
          /\ op' \in [Threads -> {"none", "raw", "xfer", "write", "event"}]
          /\ target' \in [Threads -> Fds \union {NoFd}]
      BY <1>2, <1>a, <2>e DEF CommitDirect, Types
    <3> QED
      BY <1>a, <2>1, <3>1, <3>2, <3>3 DEF Types
  <2>3. LockOK'
    BY <1>b, <1>c, <2>1 DEF LockOK, ThreadOK
  <2>4. ASSUME NEW v \in Threads PROVE ThreadOK(v)'
    <3>1. ThreadOK(v) /\ ThreadOK(t) /\ WatchOK(f)
      BY <1>c, <1>d
    <3>2. CASE v = t
      <4>1. pc'[t] = "exec" /\ op'[t] # "none" /\ target'[t] = f /\ ctx'[f] = <<>> /\ open'[f]
        BY <2>1, <2>e
      <4> QED
        BY <3>2, <4>1 DEF ThreadOK
    <3>3. CASE v # t
      <4>1. /\ pc'[v] = pc[v] /\ op'[v] = op[v] /\ target'[v] = target[v]
            /\ buf'[v] = buf[v] /\ result'[v] = result[v]
        BY <2>1, <3>3
      <4>2. pc[v] \in {"exec", "settle"} => target[v] \in Fds
        BY <3>1 DEF ThreadOK
      <4> QED
        BY <2>1, <2>o, <3>1, <3>3, <4>1, <4>2, ThreadFrame
    <3> QED
      BY <3>2, <3>3
  <2>5. ASSUME NEW h \in Fds PROVE WatchOK(h)'
    <3>1. WatchOK(h)
      BY <1>d
    <3>2. \A u \in Threads : Handles(u, h)' <=> Handles(u, h)
      BY <1>c, <2>1, CallAssumption DEF Handles, ThreadOK
    <3>3. \A k : QueuedAt(k, h)' <=> QueuedAt(k, h)
      BY <2>1 DEF QueuedAt
    <3>4. (ctx'[h] = <<>>) <=> (ctx[h] = <<>>)
      BY <2>1
    <3> QED
      BY <1>a, <2>1, <3>1, <3>2, <3>3, <3>4, WatchFrame DEF Types
  <2>6. ASSUME NEW g \in Fds PROVE FlowOK(g)'
    <3>1. FlowOK(g)
      BY <1>e
    <3>2. CASE g # f
      <4>1. lock[g] # t /\ lock[g] \in Threads \union {NoThread}
        <5>1. lock[g] = t => pc[t] \in {"exec", "settle"} /\ target[t] = g
          BY <1>b DEF LockOK
        <5> QED
          BY <1>a, <2>1, <3>2, <5>1 DEF Types
      <4>2. Pending(g)' = Pending(g)
        BY <2>1, <3>2, <4>1, PendingSame
      <4> QED
        BY <2>1, <3>1, <3>2, <4>2, FlowFrame
    <3>3. CASE g = f
      <4>1. Pending(f) = ctx[f] /\ ctx[f] \in Seq(Item) /\ commits[f] \in Nat /\ committed[f] \in Nat
        BY <1>a, <2>1 DEF Pending, Types
      <4>2. Pending(f)' = ctx[f] \o Items(c, committed[f], commits[f] + 1)
        <5>1. Pending(f)' = Items(c, committed[f], commits[f] + 1)
          BY <1>b, <2>1 DEF Pending
        <5>2. \A e \in Seq(Item) : <<>> \o e = e
          OBVIOUS
        <5> QED
          BY <2>1, <2>e, <5>1, <5>2
      <4>3. FinOK(Pending(f)', freed'[f], leaked'[f], commits'[f])
        <5>1. FinOK(ctx[f], freed[f], leaked[f], commits[f])
          BY <3>1, <3>3, <4>1 DEF FlowOK
        <5>2. FinOK(ctx[f] \o Items(c, committed[f], commits[f] + 1), freed[f], leaked[f],
                    IF c.op = "write" THEN commits[f] ELSE commits[f] + 1)
          BY <4>1, <5>1, FinJoins
        <5>3. /\ commits'[f] = IF c.op = "write" THEN commits[f] ELSE commits[f] + 1
              /\ freed' = freed /\ leaked' = leaked
          BY <2>1
        <5> QED
          BY <4>2, <5>2, <5>3
      <4>4. /\ Joined(Pending(f)', committed'[f])
            /\ delivered[f] \in Nat /\ Starts(ctx[f], delivered[f], committed[f])
                 => Starts(Pending(f)', delivered'[f], committed'[f])
        <5>1. Joined(ctx[f], committed[f]) /\ commits[f] + 1 \in Nat
          BY <3>1, <3>3, <4>1 DEF FlowOK
        <5>2. /\ Joined(ctx[f] \o Items(c, committed[f], commits[f] + 1), committed[f] + Total(c))
              /\ \A done \in Nat : Starts(ctx[f], done, committed[f])
                   => Starts(ctx[f] \o Items(c, committed[f], commits[f] + 1), done, committed[f] + Total(c))
          BY <4>1, <5>1, DataJoins
        <5>3. committed'[f] = committed[f] + Total(c) /\ delivered' = delivered
          BY <2>1
        <5> QED
          BY <4>2, <5>2, <5>3
      <4>5. delivered[f] \in Nat /\ open' = open /\ stale' = stale /\ broken' = broken
        BY <1>a, <2>1 DEF Types
      <4> QED
        BY <3>1, <3>3, <4>1, <4>3, <4>4, <4>5 DEF FlowOK
    <3> QED
      BY <3>2, <3>3
  <2> QED
    BY <2>2, <2>3, <2>4, <2>5, <2>6 DEF IInv
<1>3. ASSUME NEW t \in Threads, ExecDone(t) PROVE IInv'
  <2>a. PICK f \in Fds : f = target[t]
    BY <1>3, <1>c DEF ExecDone, ThreadOK
  <2>1. /\ pc[t] = "exec"
        /\ buf[t] = <<>>
        /\ \A u \in Threads : result'[u] = IF u = t THEN "done" ELSE result[u]
        /\ \A u \in Threads : pc'[u] = IF u = t THEN "settle" ELSE pc[u]
        /\ UNCHANGED <<ctx, lock, op, target, buf, oreg, out_queue, open, room, broken, shut,
                       commits, committed, delivered, freed, leaked, stale, unwatched>>
    BY <1>3, <1>a, <2>a DEF ExecDone, Types, Return
  <2>o. \A u \in Threads : u # t /\ pc[u] \in {"exec", "settle"} => target[u] # f
    BY <1>a, <1>b, <2>1, <2>a DEF LockOK, Types
  <2>2. Types'
    BY <1>3, <1>a, <2>a, RoomAssumption DEF ExecDone, Types, Return
  <2>3. LockOK'
    BY <1>b, <1>c, <2>1, <2>a DEF LockOK, ThreadOK
  <2>4. ASSUME NEW v \in Threads PROVE ThreadOK(v)'
    <3>1. ThreadOK(v) /\ ThreadOK(t) /\ WatchOK(f)
      BY <1>c, <1>d
    <3>2. CASE v = t
      BY <1>a, <1>b, <2>1, <3>1, <3>2, <2>a DEF Types, ThreadOK
    <3>3. CASE v # t
      <4>1. /\ pc'[v] = pc[v] /\ op'[v] = op[v] /\ target'[v] = target[v]
            /\ buf'[v] = buf[v] /\ result'[v] = result[v]
        BY <2>1, <3>3, <2>a DEF Return
      <4>2. pc[v] \in {"exec", "settle"} => target[v] \in Fds
        BY <3>1 DEF ThreadOK
      <4> QED
        BY <2>1, <2>o, <3>1, <3>3, <4>1, <4>2, ThreadFrame, <2>a
    <3> QED
      BY <3>2, <3>3
  <2>5. ASSUME NEW h \in Fds PROVE WatchOK(h)'
    <3>1. WatchOK(h)
      BY <1>d
    <3>2. \A u \in Threads : Handles(u, h)' <=> Handles(u, h)
      BY <1>c, <2>1, <2>a, CallAssumption DEF Handles, ThreadOK
    <3>3. \A k : QueuedAt(k, h)' <=> QueuedAt(k, h)
      BY <2>1 DEF QueuedAt
    <3>4. (ctx'[h] = <<>>) <=> (ctx[h] = <<>>)
      BY <2>1
    <3> QED
      BY <1>a, <2>1, <3>1, <3>2, <3>3, <3>4, WatchFrame DEF Types
  <2>6. ASSUME NEW g \in Fds PROVE FlowOK(g)'
    <3>1. FlowOK(g)
      BY <1>e
    <3>2. CASE g # f
      <4>1. lock[g] # t /\ lock[g] \in Threads \union {NoThread}
        <5>1. lock[g] = t => pc[t] \in {"exec", "settle"} /\ target[t] = g
          BY <1>b DEF LockOK
        <5> QED
          BY <1>a, <2>1, <3>2, <5>1, <2>a DEF Types
      <4>2. Pending(g)' = Pending(g)
        BY <2>1, <3>2, <4>1, PendingSame
      <4> QED
        BY <2>1, <3>1, <3>2, <4>2, FlowFrame
    <3>3. CASE g = f
      <4>1. Pending(f)' = Pending(f)
        BY <1>a, <1>b, <1>c, <2>1, <2>a DEF Pending, LockOK, Types, ThreadOK
      <4> QED
        BY <2>1, <3>1, <3>3, <4>1, FlowFrame
    <3> QED
      BY <3>2, <3>3
  <2> QED
    BY <2>2, <2>3, <2>4, <2>5, <2>6 DEF IInv
<1>4. ASSUME NEW t \in Threads, ExecFinalize(t) PROVE IInv'
  <2>a. PICK f \in Fds : f = target[t]
    BY <1>4, <1>c DEF ExecFinalize, ThreadOK
  <2>1. /\ pc[t] = "exec"
        /\ buf[t] # <<>>
        /\ Head(buf[t]).type = "fin"
        /\ \A g \in Fds : freed'[g] = IF g = f THEN freed[f] \union {Head(buf[t]).no} ELSE freed[g]
        /\ \A u \in Threads : buf'[u] = IF u = t THEN Tail(buf[t]) ELSE buf[u]
        /\ UNCHANGED <<ctx, lock, pc, op, target, result, oreg, out_queue, open, room, broken,
                       shut, commits, committed, delivered, leaked, stale, unwatched>>
    BY <1>4, <1>a, <2>a DEF ExecFinalize, Types
  <2>o. \A u \in Threads : u # t /\ pc[u] \in {"exec", "settle"} => target[u] # f
    BY <1>a, <1>b, <2>1, <2>a DEF LockOK, Types
  <2>2. Types'
    <3>1. Tail(buf[t]) \in Seq(Item) /\ Head(buf[t]).no \in Nat
      BY <1>a, <2>1, TailAt DEF Types, Item
    <3>2. buf' \in [Threads -> Seq(Item)]
      BY <1>4, <1>a, <3>1 DEF ExecFinalize, Types
    <3>3. freed' \in [Fds -> SUBSET Nat]
      BY <1>4, <1>a, <3>1 DEF ExecFinalize, Types
    <3> QED
      BY <1>a, <2>1, <3>2, <3>3 DEF Types
  <2>3. LockOK'
    BY <1>b, <1>c, <2>1, <2>a DEF LockOK, ThreadOK
  <2>4. ASSUME NEW v \in Threads PROVE ThreadOK(v)'
    <3>1. ThreadOK(v) /\ ThreadOK(t) /\ WatchOK(f)
      BY <1>c, <1>d
    <3>2. CASE v = t
      BY <1>a, <1>b, <2>1, <3>1, <3>2, <2>a DEF Types, ThreadOK
    <3>3. CASE v # t
      <4>1. /\ pc'[v] = pc[v] /\ op'[v] = op[v] /\ target'[v] = target[v]
            /\ buf'[v] = buf[v] /\ result'[v] = result[v]
        BY <2>1, <3>3, <2>a DEF Return
      <4>2. pc[v] \in {"exec", "settle"} => target[v] \in Fds
        BY <3>1 DEF ThreadOK
      <4> QED
        BY <2>1, <2>o, <3>1, <3>3, <4>1, <4>2, ThreadFrame, <2>a
    <3> QED
      BY <3>2, <3>3
  <2>5. ASSUME NEW h \in Fds PROVE WatchOK(h)'
    <3>1. WatchOK(h)
      BY <1>d
    <3>2. \A u \in Threads : Handles(u, h)' <=> Handles(u, h)
      BY <1>c, <2>1, <2>a, CallAssumption DEF Handles, ThreadOK
    <3>3. \A k : QueuedAt(k, h)' <=> QueuedAt(k, h)
      BY <2>1 DEF QueuedAt
    <3>4. (ctx'[h] = <<>>) <=> (ctx[h] = <<>>)
      BY <2>1
    <3> QED
      BY <1>a, <2>1, <3>1, <3>2, <3>3, <3>4, WatchFrame DEF Types
  <2>6. ASSUME NEW g \in Fds PROVE FlowOK(g)'
    <3>1. FlowOK(g)
      BY <1>e
    <3>2. CASE g # f
      <4>1. lock[g] # t /\ lock[g] \in Threads \union {NoThread}
        <5>1. lock[g] = t => pc[t] \in {"exec", "settle"} /\ target[t] = g
          BY <1>b DEF LockOK
        <5> QED
          BY <1>a, <2>1, <3>2, <5>1, <2>a DEF Types
      <4>2. Pending(g)' = Pending(g)
        BY <2>1, <3>2, <4>1, PendingSame
      <4> QED
        BY <2>1, <3>1, <3>2, <4>2, FlowFrame
    <3>3. CASE g = f
      <4>1. lock[f] = t /\ Pending(f) = buf[t] /\ buf[t] \in Seq(Item)
        BY <1>a, <1>b, <2>1, <2>a DEF Pending, LockOK, Types
      <4>2. Pending(f)' = Tail(buf[t])
        BY <1>b, <2>1, <4>1 DEF Pending
      <4>3. FinOK(Pending(f)', freed'[f], leaked'[f], commits'[f])
        <5>1. commits[f] \in Nat /\ FinOK(buf[t], freed[f], leaked[f], commits[f])
          BY <1>a, <3>1, <3>3, <4>1 DEF FlowOK, Types
        <5> QED
          BY <2>1, <4>1, <4>2, <5>1, FinRuns
      <4>4. Joined(Pending(f)', committed'[f])
        BY <2>1, <3>1, <3>3, <4>1, <4>2, JoinedTail DEF FlowOK
      <4>5. Starts(buf[t], delivered[f], committed[f]) => Starts(Pending(f)', delivered'[f], committed'[f])
        BY <2>1, <4>1, <4>2, StartsTail
      <4>6. open' = open /\ stale' = stale /\ broken' = broken
        BY <2>1
      <4> QED
        BY <3>1, <3>3, <4>1, <4>3, <4>4, <4>5, <4>6 DEF FlowOK
    <3> QED
      BY <3>2, <3>3
  <2> QED
    BY <2>2, <2>3, <2>4, <2>5, <2>6 DEF IInv
<1>5. ASSUME NEW t \in Threads, ExecBlocks(t) PROVE IInv'
  <2>a. PICK f \in Fds : f = target[t]
    BY <1>5, <1>c DEF ExecBlocks, ThreadOK
  <2>1. /\ pc[t] = "exec"
        /\ buf[t] # <<>> /\ Head(buf[t]).type = "data"
        /\ \A u \in Threads : result'[u] = IF u = t THEN "again" ELSE result[u]
        /\ \A u \in Threads : pc'[u] = IF u = t THEN "settle" ELSE pc[u]
        /\ UNCHANGED <<ctx, lock, op, target, buf, oreg, out_queue, open, room, broken, shut,
                       commits, committed, delivered, freed, leaked, stale, unwatched>>
    BY <1>5, <1>a, <2>a DEF ExecBlocks, Types, Return
  <2>o. \A u \in Threads : u # t /\ pc[u] \in {"exec", "settle"} => target[u] # f
    BY <1>a, <1>b, <2>1, <2>a DEF LockOK, Types
  <2>2. Types'
    BY <1>5, <1>a, <2>a, RoomAssumption DEF ExecBlocks, Types, Return
  <2>3. LockOK'
    BY <1>b, <1>c, <2>1, <2>a DEF LockOK, ThreadOK
  <2>4. ASSUME NEW v \in Threads PROVE ThreadOK(v)'
    <3>1. ThreadOK(v) /\ ThreadOK(t) /\ WatchOK(f)
      BY <1>c, <1>d
    <3>2. CASE v = t
      BY <1>a, <1>b, <2>1, <3>1, <3>2, <2>a DEF Types, ThreadOK
    <3>3. CASE v # t
      <4>1. /\ pc'[v] = pc[v] /\ op'[v] = op[v] /\ target'[v] = target[v]
            /\ buf'[v] = buf[v] /\ result'[v] = result[v]
        BY <2>1, <3>3, <2>a DEF Return
      <4>2. pc[v] \in {"exec", "settle"} => target[v] \in Fds
        BY <3>1 DEF ThreadOK
      <4> QED
        BY <2>1, <2>o, <3>1, <3>3, <4>1, <4>2, ThreadFrame, <2>a
    <3> QED
      BY <3>2, <3>3
  <2>5. ASSUME NEW h \in Fds PROVE WatchOK(h)'
    <3>1. WatchOK(h)
      BY <1>d
    <3>2. \A u \in Threads : Handles(u, h)' <=> Handles(u, h)
      BY <1>c, <2>1, <2>a, CallAssumption DEF Handles, ThreadOK
    <3>3. \A k : QueuedAt(k, h)' <=> QueuedAt(k, h)
      BY <2>1 DEF QueuedAt
    <3>4. (ctx'[h] = <<>>) <=> (ctx[h] = <<>>)
      BY <2>1
    <3> QED
      BY <1>a, <2>1, <3>1, <3>2, <3>3, <3>4, WatchFrame DEF Types
  <2>6. ASSUME NEW g \in Fds PROVE FlowOK(g)'
    <3>1. FlowOK(g)
      BY <1>e
    <3>2. CASE g # f
      <4>1. lock[g] # t /\ lock[g] \in Threads \union {NoThread}
        <5>1. lock[g] = t => pc[t] \in {"exec", "settle"} /\ target[t] = g
          BY <1>b DEF LockOK
        <5> QED
          BY <1>a, <2>1, <3>2, <5>1, <2>a DEF Types
      <4>2. Pending(g)' = Pending(g)
        BY <2>1, <3>2, <4>1, PendingSame
      <4> QED
        BY <2>1, <3>1, <3>2, <4>2, FlowFrame
    <3>3. CASE g = f
      <4>1. Pending(f)' = Pending(f)
        BY <1>a, <1>b, <1>c, <2>1, <2>a DEF Pending, LockOK, Types, ThreadOK
      <4> QED
        BY <2>1, <3>1, <3>3, <4>1, FlowFrame
    <3> QED
      BY <3>2, <3>3
  <2> QED
    BY <2>2, <2>3, <2>4, <2>5, <2>6 DEF IInv
<1>6. ASSUME NEW t \in Threads, ExecFails(t) PROVE IInv'
  <2>a. PICK f \in Fds : f = target[t]
    BY <1>6, <1>c DEF ExecFails, ThreadOK
  <2>1. /\ pc[t] = "exec"
        /\ broken[f] \/ ~open[f]
        /\ \A u \in Threads : result'[u] = IF u = t THEN "fail" ELSE result[u]
        /\ \A u \in Threads : pc'[u] = IF u = t THEN "settle" ELSE pc[u]
        /\ UNCHANGED <<ctx, lock, op, target, buf, oreg, out_queue, open, room, broken, shut,
                       commits, committed, delivered, freed, leaked, stale, unwatched>>
    BY <1>6, <1>a, <2>a DEF ExecFails, Types, Return
  <2>o. \A u \in Threads : u # t /\ pc[u] \in {"exec", "settle"} => target[u] # f
    BY <1>a, <1>b, <2>1, <2>a DEF LockOK, Types
  <2>2. Types'
    BY <1>6, <1>a, <2>a, RoomAssumption DEF ExecFails, Types, Return
  <2>3. LockOK'
    BY <1>b, <1>c, <2>1, <2>a DEF LockOK, ThreadOK
  <2>4. ASSUME NEW v \in Threads PROVE ThreadOK(v)'
    <3>1. ThreadOK(v) /\ ThreadOK(t) /\ WatchOK(f)
      BY <1>c, <1>d
    <3>2. CASE v = t
      <4>1. op[t] # "none" /\ (op[t] # "event" => ctx[f] = <<>> /\ open[f])
        BY <2>1, <2>a, <3>1 DEF ThreadOK
      <4>2. broken[f] \/ stale[f]
        BY <2>1, <2>a, <3>1, <4>1, ClosedInFlight DEF Handles
      <4>3. /\ pc'[t] = "settle" /\ result'[t] = "fail" /\ op'[t] = op[t] /\ target'[t] = f
            /\ ctx' = ctx /\ open' = open /\ broken' = broken /\ stale' = stale
        BY <2>1, <2>a
      <4> QED
        BY <3>2, <4>1, <4>2, <4>3 DEF ThreadOK
    <3>3. CASE v # t
      <4>1. /\ pc'[v] = pc[v] /\ op'[v] = op[v] /\ target'[v] = target[v]
            /\ buf'[v] = buf[v] /\ result'[v] = result[v]
        BY <2>1, <3>3, <2>a
      <4>2. pc[v] \in {"exec", "settle"} => target[v] \in Fds
        BY <3>1 DEF ThreadOK
      <4> QED
        BY <2>1, <2>o, <3>1, <3>3, <4>1, <4>2, ThreadFrame, <2>a
    <3> QED
      BY <3>2, <3>3
  <2>5. ASSUME NEW h \in Fds PROVE WatchOK(h)'
    <3>1. WatchOK(h)
      BY <1>d
    <3>2. \A u \in Threads : Handles(u, h)' <=> Handles(u, h)
      BY <1>c, <2>1, <2>a, CallAssumption DEF Handles, ThreadOK
    <3>3. \A k : QueuedAt(k, h)' <=> QueuedAt(k, h)
      BY <2>1 DEF QueuedAt
    <3>4. (ctx'[h] = <<>>) <=> (ctx[h] = <<>>)
      BY <2>1
    <3> QED
      BY <1>a, <2>1, <3>1, <3>2, <3>3, <3>4, WatchFrame DEF Types
  <2>6. ASSUME NEW g \in Fds PROVE FlowOK(g)'
    <3>1. FlowOK(g)
      BY <1>e
    <3>2. CASE g # f
      <4>1. lock[g] # t /\ lock[g] \in Threads \union {NoThread}
        <5>1. lock[g] = t => pc[t] \in {"exec", "settle"} /\ target[t] = g
          BY <1>b DEF LockOK
        <5> QED
          BY <1>a, <2>1, <3>2, <5>1, <2>a DEF Types
      <4>2. Pending(g)' = Pending(g)
        BY <2>1, <3>2, <4>1, PendingSame
      <4> QED
        BY <2>1, <3>1, <3>2, <4>2, FlowFrame
    <3>3. CASE g = f
      <4>1. Pending(f)' = Pending(f)
        BY <1>a, <1>b, <1>c, <2>1, <2>a DEF Pending, LockOK, Types, ThreadOK
      <4> QED
        BY <2>1, <3>1, <3>3, <4>1, FlowFrame
    <3> QED
      BY <3>2, <3>3
  <2> QED
    BY <2>2, <2>3, <2>4, <2>5, <2>6 DEF IInv
<1>7. ASSUME NEW t \in Threads, SettleWatch(t) PROVE IInv'
  <2>a. PICK f \in Fds : f = target[t]
    BY <1>7, <1>c DEF SettleWatch, ThreadOK
  <2>1. /\ pc[t] = "settle"
        /\ op[t] # "event"
        /\ result[t] = "again"
        /\ \A g \in Fds : ctx'[g] = IF g = f THEN buf[t] ELSE ctx[g]
        /\ \A g \in Fds : oreg'[g] = IF g = f THEN IF oreg[f] = "none" THEN "armed" ELSE oreg[f] ELSE oreg[g]
        /\ \A u \in Threads : pc'[u] = IF u = t THEN "idle" ELSE pc[u]
        /\ \A u \in Threads : op'[u] = IF u = t THEN "none" ELSE op[u]
        /\ \A u \in Threads : target'[u] = IF u = t THEN NoFd ELSE target[u]
        /\ \A u \in Threads : buf'[u] = IF u = t THEN <<>> ELSE buf[u]
        /\ \A u \in Threads : result'[u] = IF u = t THEN "none" ELSE result[u]
        /\ \A g \in Fds : lock'[g] = IF g = f THEN NoThread ELSE lock[g]
        /\ UNCHANGED <<out_queue, open, room, broken, shut, commits, committed, delivered,
                       freed, leaked, stale, unwatched>>
    BY <1>7, <1>a, <2>a DEF SettleWatch, Types, Idle
  <2>o. \A u \in Threads : u # t /\ pc[u] \in {"exec", "settle"} => target[u] # f
    BY <1>a, <1>b, <2>1, <2>a DEF LockOK, Types
  <2>2. Types'
    <3>1. /\ pc' \in [Threads -> {"idle", "event", "exec", "settle"}]
          /\ op' \in [Threads -> {"none", "raw", "xfer", "write", "event"}]
          /\ target' \in [Threads -> Fds \union {NoFd}]
          /\ result' \in [Threads -> {"none", "again", "done", "fail"}]
          /\ lock' \in [Fds -> Threads \union {NoThread}]
      BY <1>7, <1>a DEF SettleWatch, Idle, Types
    <3>2. buf' \in [Threads -> Seq(Item)]
      BY <1>7, <1>a DEF SettleWatch, Idle, Types
    <3>3. ctx' \in [Fds -> Seq(Item)]
      BY <1>7, <1>a DEF SettleWatch, Types
    <3>4. oreg' \in [Fds -> {"none", "armed", "fired"}]
      BY <1>7, <1>a, <2>a DEF SettleWatch, Types
    <3> QED
      BY <1>a, <2>1, <3>1, <3>2, <3>3, <3>4 DEF Types
  <2>3. LockOK'
    BY <1>b, <1>c, <2>1, <2>a DEF LockOK, ThreadOK
  <2>4. ASSUME NEW v \in Threads PROVE ThreadOK(v)'
    <3>1. ThreadOK(v) /\ ThreadOK(t) /\ WatchOK(f)
      BY <1>c, <1>d
    <3>2. CASE v = t
      BY <1>a, <1>b, <2>1, <3>1, <3>2, <2>a DEF Types, ThreadOK
    <3>3. CASE v # t
      <4>1. /\ pc'[v] = pc[v] /\ op'[v] = op[v] /\ target'[v] = target[v]
            /\ buf'[v] = buf[v] /\ result'[v] = result[v]
        BY <2>1, <3>3, <2>a DEF Return
      <4>2. pc[v] \in {"exec", "settle"} => target[v] \in Fds
        BY <3>1 DEF ThreadOK
      <4> QED
        BY <2>1, <2>o, <3>1, <3>3, <4>1, <4>2, ThreadFrame, <2>a
    <3> QED
      BY <3>2, <3>3
  <2>5. ASSUME NEW h \in Fds PROVE WatchOK(h)'
    <3>1. CASE h # f
      <4>1. WatchOK(h)
        BY <1>d
      <4>2. \A u \in Threads : Handles(u, h)' <=> Handles(u, h)
        BY <1>c, <2>1, <3>1, <2>a, CallAssumption DEF Handles, ThreadOK
      <4>3. \A k : QueuedAt(k, h)' <=> QueuedAt(k, h)
        BY <1>a, <2>1, <3>1 DEF QueuedAt
      <4>4. (ctx'[h] = <<>>) <=> (ctx[h] = <<>>)
        BY <2>1, <3>1
      <4> QED
        BY <1>a, <2>1, <3>1, <4>1, <4>2, <4>3, <4>4, WatchFrame DEF Types
    <3>2. CASE h = f
      <4>1. WatchOK(f) /\ ThreadOK(t)
        BY <1>c, <1>d
      <4>2. ctx[f] = <<>> /\ open[f] /\ buf[t] # <<>>
        BY <2>1, <2>a, <4>1 DEF ThreadOK
      <4>3. ~InFlight(f) /\ oreg[f] = "none"
        BY <4>1, <4>2 DEF WatchOK
      <4>4. \A u \in Threads : ~Handles(u, f)'
        BY <1>b, <2>1, <4>3, InFlightIs DEF Handles
      <4>5. \A k : ~QueuedAt(k, f)'
        BY <2>1, <4>3, InFlightIs DEF QueuedAt
      <4>6. ctx'[f] # <<>> /\ oreg'[f] = "armed" /\ open'[f] /\ ~InFlight(f)' /\ ~unwatched'[f]
        <5>1. ~unwatched[f] /\ unwatched' = unwatched
          BY <2>1, <4>1, <4>2 DEF WatchOK
        <5> QED
          BY <2>1, <4>2, <4>3, <4>4, <4>5, <5>1, InFlightIs
      <4> QED
        BY <3>2, <4>4, <4>5, <4>6 DEF WatchOK
    <3> QED
      BY <3>1, <3>2
  <2>6. ASSUME NEW g \in Fds PROVE FlowOK(g)'
    <3>1. FlowOK(g)
      BY <1>e
    <3>2. CASE g # f
      <4>1. lock[g] # t /\ lock[g] \in Threads \union {NoThread}
        <5>1. lock[g] = t => pc[t] \in {"exec", "settle"} /\ target[t] = g
          BY <1>b DEF LockOK
        <5> QED
          BY <1>a, <2>1, <3>2, <5>1, <2>a DEF Types
      <4>2. Pending(g)' = Pending(g)
        BY <2>1, <3>2, <4>1, PendingSame
      <4> QED
        BY <2>1, <3>1, <3>2, <4>2, FlowFrame
    <3>3. CASE g = f
      <4>1. Pending(f)' = Pending(f)
        BY <1>a, <1>b, <1>c, <2>1, <2>a DEF Pending, LockOK, Types, ThreadOK
      <4> QED
        BY <2>1, <3>1, <3>3, <4>1, FlowFrame
    <3> QED
      BY <3>2, <3>3
  <2> QED
    BY <2>2, <2>3, <2>4, <2>5, <2>6 DEF IInv
<1>8. ASSUME NEW t \in Threads, SettleDone(t) PROVE IInv'
  <2>a. PICK f \in Fds : f = target[t]
    BY <1>8, <1>c DEF SettleDone, ThreadOK
  <2>1. /\ pc[t] = "settle"
        /\ op[t] # "event"
        /\ result[t] = "done"
        /\ \A u \in Threads : pc'[u] = IF u = t THEN "idle" ELSE pc[u]
        /\ \A u \in Threads : op'[u] = IF u = t THEN "none" ELSE op[u]
        /\ \A u \in Threads : target'[u] = IF u = t THEN NoFd ELSE target[u]
        /\ \A u \in Threads : buf'[u] = IF u = t THEN <<>> ELSE buf[u]
        /\ \A u \in Threads : result'[u] = IF u = t THEN "none" ELSE result[u]
        /\ \A g \in Fds : lock'[g] = IF g = f THEN NoThread ELSE lock[g]
        /\ UNCHANGED <<ctx, oreg, out_queue, open, room, broken, shut, commits, committed,
                       delivered, freed, leaked, stale, unwatched>>
    BY <1>8, <1>a, <2>a DEF SettleDone, Types, Idle
  <2>o. \A u \in Threads : u # t /\ pc[u] \in {"exec", "settle"} => target[u] # f
    BY <1>a, <1>b, <2>1, <2>a DEF LockOK, Types
  <2>2. Types'
    <3>1. /\ pc' \in [Threads -> {"idle", "event", "exec", "settle"}]
          /\ op' \in [Threads -> {"none", "raw", "xfer", "write", "event"}]
          /\ target' \in [Threads -> Fds \union {NoFd}]
          /\ result' \in [Threads -> {"none", "again", "done", "fail"}]
          /\ lock' \in [Fds -> Threads \union {NoThread}]
      BY <1>8, <1>a DEF SettleDone, Idle, Types
    <3>2. buf' \in [Threads -> Seq(Item)]
      BY <1>8, <1>a DEF SettleDone, Idle, Types
    <3> QED
      BY <1>a, <2>1, <3>1, <3>2 DEF Types
  <2>3. LockOK'
    BY <1>b, <1>c, <2>1, <2>a DEF LockOK, ThreadOK
  <2>4. ASSUME NEW v \in Threads PROVE ThreadOK(v)'
    <3>1. ThreadOK(v) /\ ThreadOK(t) /\ WatchOK(f)
      BY <1>c, <1>d
    <3>2. CASE v = t
      BY <1>a, <1>b, <2>1, <3>1, <3>2, <2>a DEF Types, ThreadOK
    <3>3. CASE v # t
      <4>1. /\ pc'[v] = pc[v] /\ op'[v] = op[v] /\ target'[v] = target[v]
            /\ buf'[v] = buf[v] /\ result'[v] = result[v]
        BY <2>1, <3>3, <2>a DEF Return
      <4>2. pc[v] \in {"exec", "settle"} => target[v] \in Fds
        BY <3>1 DEF ThreadOK
      <4> QED
        BY <2>1, <2>o, <3>1, <3>3, <4>1, <4>2, ThreadFrame, <2>a
    <3> QED
      BY <3>2, <3>3
  <2>5. ASSUME NEW h \in Fds PROVE WatchOK(h)'
    <3>1. WatchOK(h)
      BY <1>d
    <3>2. \A u \in Threads : Handles(u, h)' <=> Handles(u, h)
      BY <1>c, <2>1, <2>a, CallAssumption DEF Handles, ThreadOK
    <3>3. \A k : QueuedAt(k, h)' <=> QueuedAt(k, h)
      BY <2>1 DEF QueuedAt
    <3>4. (ctx'[h] = <<>>) <=> (ctx[h] = <<>>)
      BY <2>1
    <3> QED
      BY <1>a, <2>1, <3>1, <3>2, <3>3, <3>4, WatchFrame DEF Types
  <2>6. ASSUME NEW g \in Fds PROVE FlowOK(g)'
    <3>1. FlowOK(g)
      BY <1>e
    <3>2. CASE g # f
      <4>1. lock[g] # t /\ lock[g] \in Threads \union {NoThread}
        <5>1. lock[g] = t => pc[t] \in {"exec", "settle"} /\ target[t] = g
          BY <1>b DEF LockOK
        <5> QED
          BY <1>a, <2>1, <3>2, <5>1, <2>a DEF Types
      <4>2. Pending(g)' = Pending(g)
        BY <2>1, <3>2, <4>1, PendingSame
      <4> QED
        BY <2>1, <3>1, <3>2, <4>2, FlowFrame
    <3>3. CASE g = f
      <4>1. lock[f] = t /\ Pending(f) = buf[t] /\ buf[t] \in Seq(Item)
        BY <1>a, <1>b, <2>1, <2>a DEF Pending, LockOK, Types
      <4>2. ThreadOK(t)
        BY <1>c
      <4>3. buf[t] = <<>> /\ ctx[f] = <<>>
        BY <2>1, <2>a, <4>2 DEF ThreadOK
      <4>4. Pending(f)' = <<>>
        BY <2>1, <4>3 DEF Pending
      <4> QED
        BY <2>1, <3>1, <3>3, <4>1, <4>3, <4>4, FlowFrame
    <3> QED
      BY <3>2, <3>3
  <2> QED
    BY <2>2, <2>3, <2>4, <2>5, <2>6 DEF IInv
<1>9. ASSUME NEW t \in Threads, SettleFail(t) PROVE IInv'
  <2>a. PICK f \in Fds : f = target[t]
    BY <1>9, <1>c DEF SettleFail, ThreadOK
  <2>1. /\ pc[t] = "settle"
        /\ op[t] # "event"
        /\ result[t] = "fail"
        /\ \A u \in Threads : pc'[u] = IF u = t THEN "idle" ELSE pc[u]
        /\ \A u \in Threads : op'[u] = IF u = t THEN "none" ELSE op[u]
        /\ \A u \in Threads : target'[u] = IF u = t THEN NoFd ELSE target[u]
        /\ \A u \in Threads : buf'[u] = IF u = t THEN <<>> ELSE buf[u]
        /\ \A u \in Threads : result'[u] = IF u = t THEN "none" ELSE result[u]
        /\ \A g \in Fds : lock'[g] = IF g = f THEN NoThread ELSE lock[g]
        /\ UNCHANGED <<ctx, oreg, out_queue, open, room, broken, commits, committed, delivered,
                       stale, unwatched>>
    BY <1>9, <1>a, <2>a DEF SettleFail, Types, Idle
  <2>o. \A u \in Threads : u # t /\ pc[u] \in {"exec", "settle"} => target[u] # f
    BY <1>a, <1>b, <2>1, <2>a DEF LockOK, Types
  <2>2. Types'
    <3>1. /\ pc' \in [Threads -> {"idle", "event", "exec", "settle"}]
          /\ op' \in [Threads -> {"none", "raw", "xfer", "write", "event"}]
          /\ target' \in [Threads -> Fds \union {NoFd}]
          /\ result' \in [Threads -> {"none", "again", "done", "fail"}]
          /\ lock' \in [Fds -> Threads \union {NoThread}]
      BY <1>9, <1>a DEF SettleFail, Idle, Types
    <3>2. buf' \in [Threads -> Seq(Item)]
      BY <1>9, <1>a DEF SettleFail, Idle, Types
    <3>3. Finalizers(buf[t]) \subseteq Nat
      BY <1>a, FinalizersNat DEF Types
    <3>4. freed' \in [Fds -> SUBSET Nat] /\ leaked' \in [Fds -> SUBSET Nat]
      <4>1. freed[f] \union Finalizers(buf[t]) \in SUBSET Nat /\ leaked[f] \union Finalizers(buf[t]) \in SUBSET Nat
        BY <1>a, <3>3 DEF Types
      <4>2. CASE op[t] = "raw"
        BY <1>9, <1>a, <2>a, <4>1, <4>2 DEF SettleFail, Types
      <4>3. CASE op[t] # "raw"
        BY <1>9, <1>a, <2>a, <4>1, <4>3 DEF SettleFail, Types
      <4> QED
        BY <4>2, <4>3
    <3>5. shut' \in [Fds -> BOOLEAN]
      BY <1>9, <1>a DEF SettleFail, Types
    <3> QED
      BY <1>a, <2>1, <3>1, <3>2, <3>4, <3>5 DEF Types
  <2>3. LockOK'
    BY <1>b, <1>c, <2>1, <2>a DEF LockOK, ThreadOK
  <2>4. ASSUME NEW v \in Threads PROVE ThreadOK(v)'
    <3>1. ThreadOK(v) /\ ThreadOK(t) /\ WatchOK(f)
      BY <1>c, <1>d
    <3>2. CASE v = t
      BY <1>a, <1>b, <2>1, <3>1, <3>2, <2>a DEF Types, ThreadOK
    <3>3. CASE v # t
      <4>1. /\ pc'[v] = pc[v] /\ op'[v] = op[v] /\ target'[v] = target[v]
            /\ buf'[v] = buf[v] /\ result'[v] = result[v]
        BY <2>1, <3>3, <2>a DEF Return
      <4>2. pc[v] \in {"exec", "settle"} => target[v] \in Fds
        BY <3>1 DEF ThreadOK
      <4> QED
        BY <2>1, <2>o, <3>1, <3>3, <4>1, <4>2, ThreadFrame, <2>a
    <3> QED
      BY <3>2, <3>3
  <2>5. ASSUME NEW h \in Fds PROVE WatchOK(h)'
    <3>1. WatchOK(h)
      BY <1>d
    <3>2. \A u \in Threads : Handles(u, h)' <=> Handles(u, h)
      BY <1>c, <2>1, <2>a, CallAssumption DEF Handles, ThreadOK
    <3>3. \A k : QueuedAt(k, h)' <=> QueuedAt(k, h)
      BY <2>1 DEF QueuedAt
    <3>4. (ctx'[h] = <<>>) <=> (ctx[h] = <<>>)
      BY <2>1
    <3> QED
      BY <1>a, <2>1, <3>1, <3>2, <3>3, <3>4, WatchFrame DEF Types
  <2>6. ASSUME NEW g \in Fds PROVE FlowOK(g)'
    <3>1. FlowOK(g)
      BY <1>e
    <3>2. CASE g # f
      <4>1. lock[g] # t /\ lock[g] \in Threads \union {NoThread}
        BY <1>a, <1>b, <2>1, <3>2, <2>a DEF LockOK, Types
      <4>2. Pending(g)' = Pending(g)
        BY <2>1, <3>2, <4>1, PendingSame
      <4>3. freed'[g] = freed[g] /\ leaked'[g] = leaked[g]
        BY <1>9, <1>a, <2>a, <3>2 DEF SettleFail, Types
      <4> QED
        BY <2>1, <3>1, <3>2, <4>2, <4>3, FlowFrame
    <3>3. CASE g = f
      <4>1. lock[f] = t /\ Pending(f) = buf[t] /\ buf[t] \in Seq(Item)
        BY <1>a, <1>b, <2>1, <2>a DEF Pending, LockOK, Types
      <4>2. Pending(f)' = <<>>
        BY <1>b, <1>c, <2>1, <2>a DEF Pending, ThreadOK
      <4>3. broken'[f] \/ stale'[f]
        BY <1>c, <2>1, <2>a DEF ThreadOK
      <4>4. commits[f] \in Nat /\ FinOK(buf[t], freed[f], leaked[f], commits[f])
        BY <1>a, <3>1, <3>3, <4>1 DEF FlowOK, Types
      <4>5. \/ freed'[f] = freed[f] /\ leaked'[f] = leaked[f] \union Finalizers(buf[t])
            \/ freed'[f] = freed[f] \union Finalizers(buf[t]) /\ leaked'[f] = leaked[f]
        BY <1>9, <1>a, <2>a DEF SettleFail, Types
      <4>6. FinOK(Pending(f)', freed'[f], leaked'[f], commits'[f])
        <5>1. /\ FinOK(<<>>, freed[f] \union Finalizers(buf[t]), leaked[f], commits[f])
              /\ FinOK(<<>>, freed[f], leaked[f] \union Finalizers(buf[t]), commits[f])
          BY <4>4, FinEnds
        <5>2. commits' = commits
          BY <2>1
        <5> QED
          BY <4>2, <4>5, <5>1, <5>2
      <4>7. Joined(Pending(f)', committed'[f])
        BY <4>2, NothingPending
      <4> QED
        BY <3>3, <4>3, <4>6, <4>7 DEF FlowOK
    <3> QED
      BY <3>2, <3>3
  <2> QED
    BY <2>2, <2>3, <2>4, <2>5, <2>6 DEF IInv
<1>10. ASSUME NEW t \in Threads, EventDone(t) PROVE IInv'
  <2>a. PICK f \in Fds : f = target[t]
    BY <1>10, <1>c DEF EventDone, ThreadOK
  <2>1. /\ pc[t] = "settle"
        /\ op[t] = "event"
        /\ result[t] # "again"
        /\ \A g \in Fds : oreg'[g] = IF g = f THEN "none" ELSE oreg[g]
        /\ \A g \in Fds : freed'[g] = IF g = f THEN freed[f] \union Finalizers(buf[t]) ELSE freed[g]
        /\ \A g \in Fds : ctx'[g] = IF g = f THEN <<>> ELSE ctx[g]
        /\ \A u \in Threads : pc'[u] = IF u = t THEN "idle" ELSE pc[u]
        /\ \A u \in Threads : op'[u] = IF u = t THEN "none" ELSE op[u]
        /\ \A u \in Threads : target'[u] = IF u = t THEN NoFd ELSE target[u]
        /\ \A u \in Threads : buf'[u] = IF u = t THEN <<>> ELSE buf[u]
        /\ \A u \in Threads : result'[u] = IF u = t THEN "none" ELSE result[u]
        /\ \A g \in Fds : lock'[g] = IF g = f THEN NoThread ELSE lock[g]
        /\ UNCHANGED <<out_queue, open, room, broken, commits, committed, delivered, leaked, stale, unwatched>>
    BY <1>10, <1>a, <2>a DEF EventDone, Types, Idle
  <2>o. \A u \in Threads : u # t /\ pc[u] \in {"exec", "settle"} => target[u] # f
    BY <1>a, <1>b, <2>1, <2>a DEF LockOK, Types
  <2>2. Types'
    <3>1. /\ pc' \in [Threads -> {"idle", "event", "exec", "settle"}]
          /\ op' \in [Threads -> {"none", "raw", "xfer", "write", "event"}]
          /\ target' \in [Threads -> Fds \union {NoFd}]
          /\ result' \in [Threads -> {"none", "again", "done", "fail"}]
          /\ lock' \in [Fds -> Threads \union {NoThread}]
      BY <1>10, <1>a DEF EventDone, Idle, Types
    <3>2. buf' \in [Threads -> Seq(Item)]
      BY <1>10, <1>a DEF EventDone, Idle, Types
    <3>3. Finalizers(buf[t]) \subseteq Nat
      BY <1>a, FinalizersNat DEF Types
    <3>4. freed' \in [Fds -> SUBSET Nat]
      BY <1>10, <1>a, <3>3 DEF EventDone, Types
    <3>5. shut' \in [Fds -> BOOLEAN]
      <4>1. shut' = [shut EXCEPT ![f] = shut[f] \/ (result[t] = "fail" /\ open[f])]
        BY <1>10, <2>a DEF EventDone
      <4>2. (shut[f] \/ (result[t] = "fail" /\ open[f])) \in BOOLEAN
        OBVIOUS
      <4> QED
        BY <1>a, <4>1, <4>2, Zenon DEF Types
    <3>6. ctx' \in [Fds -> Seq(Item)] /\ oreg' \in [Fds -> {"none", "armed", "fired"}]
      <4>1. <<>> \in Seq(Item)
        OBVIOUS
      <4>2. ctx' = [ctx EXCEPT ![f] = <<>>] /\ oreg' = [oreg EXCEPT ![f] = "none"]
        BY <1>10, <2>a DEF EventDone
      <4> QED
        BY <1>a, <4>1, <4>2 DEF Types
    <3> QED
      BY <1>a, <2>1, <3>1, <3>2, <3>4, <3>5, <3>6 DEF Types
  <2>3. LockOK'
    BY <1>b, <1>c, <2>1, <2>a DEF LockOK, ThreadOK
  <2>4. ASSUME NEW v \in Threads PROVE ThreadOK(v)'
    <3>1. ThreadOK(v) /\ ThreadOK(t) /\ WatchOK(f)
      BY <1>c, <1>d
    <3>2. CASE v = t
      BY <1>a, <1>b, <2>1, <3>1, <3>2, <2>a DEF Types, ThreadOK
    <3>3. CASE v # t
      <4>1. /\ pc'[v] = pc[v] /\ op'[v] = op[v] /\ target'[v] = target[v]
            /\ buf'[v] = buf[v] /\ result'[v] = result[v]
        BY <2>1, <3>3, <2>a DEF Return
      <4>2. pc[v] \in {"exec", "settle"} => target[v] \in Fds
        BY <3>1 DEF ThreadOK
      <4> QED
        BY <2>1, <2>o, <3>1, <3>3, <4>1, <4>2, ThreadFrame, <2>a
    <3> QED
      BY <3>2, <3>3
  <2>5. ASSUME NEW h \in Fds PROVE WatchOK(h)'
    <3>1. CASE h # f
      <4>1. WatchOK(h)
        BY <1>d
      <4>2. \A u \in Threads : Handles(u, h)' <=> Handles(u, h)
        BY <1>c, <2>1, <3>1, <2>a, CallAssumption DEF Handles, ThreadOK
      <4>3. \A k : QueuedAt(k, h)' <=> QueuedAt(k, h)
        BY <1>a, <2>1, <3>1 DEF QueuedAt
      <4>4. (ctx'[h] = <<>>) <=> (ctx[h] = <<>>)
        BY <2>1, <3>1
      <4> QED
        BY <1>a, <2>1, <3>1, <4>1, <4>2, <4>3, <4>4, WatchFrame DEF Types
    <3>2. CASE h = f
      <4>1. WatchOK(f) /\ Handles(t, f)
        BY <1>d, <2>1, <2>a DEF Handles
      <4>2. \A u \in Threads : Handles(u, f) => u = t
        BY <4>1 DEF WatchOK
      <4>3. \A k : ~QueuedAt(k, f)
        BY <4>1 DEF WatchOK
      <4>4. \A u \in Threads : ~Handles(u, f)'
        BY <1>b, <2>1, <4>2 DEF Handles
      <4>5. \A k : ~QueuedAt(k, f)'
        BY <2>1, <4>3 DEF QueuedAt
      <4>6. ctx'[f] = <<>> /\ oreg'[f] = "none" /\ ~InFlight(f)' /\ ~unwatched'[f]
        <5>1. ~unwatched[f] /\ unwatched' = unwatched
          BY <2>1, <4>1, InFlightIs DEF WatchOK
        <5> QED
          BY <2>1, <4>4, <4>5, <5>1, InFlightIs
      <4> QED
        BY <3>2, <4>4, <4>5, <4>6 DEF WatchOK
    <3> QED
      BY <3>1, <3>2
  <2>6. ASSUME NEW g \in Fds PROVE FlowOK(g)'
    <3>1. FlowOK(g)
      BY <1>e
    <3>2. CASE g # f
      <4>1. lock[g] # t /\ lock[g] \in Threads \union {NoThread}
        <5>1. lock[g] = t => pc[t] \in {"exec", "settle"} /\ target[t] = g
          BY <1>b DEF LockOK
        <5> QED
          BY <1>a, <2>1, <3>2, <5>1, <2>a DEF Types
      <4>2. Pending(g)' = Pending(g)
        BY <2>1, <3>2, <4>1, PendingSame
      <4> QED
        BY <2>1, <3>1, <3>2, <4>2, FlowFrame
    <3>3. CASE g = f
      <4>1. lock[f] = t /\ Pending(f) = buf[t] /\ buf[t] \in Seq(Item)
        BY <1>a, <1>b, <2>1, <2>a DEF Pending, LockOK, Types
      <4>2. Pending(f)' = <<>>
        BY <1>b, <2>1 DEF Pending
      <4>3. buf[t] = <<>> \/ broken[f] \/ stale[f]
        BY <1>c, <2>1, <2>a DEF ThreadOK
      <4>4. commits[f] \in Nat /\ FinOK(buf[t], freed[f], leaked[f], commits[f])
        BY <1>a, <3>1, <3>3, <4>1 DEF FlowOK, Types
      <4>5. FinOK(Pending(f)', freed'[f], leaked'[f], commits'[f])
        <5>1. FinOK(<<>>, freed[f] \union Finalizers(buf[t]), leaked[f], commits[f])
          BY <4>4, FinEnds
        <5>2. freed'[f] = freed[f] \union Finalizers(buf[t]) /\ leaked' = leaked /\ commits' = commits
          BY <2>1
        <5> QED
          BY <4>2, <5>1, <5>2
      <4>6. Joined(Pending(f)', committed'[f])
        BY <4>2, NothingPending
      <4>7. /\ open' = open /\ stale' = stale /\ broken' = broken /\ delivered' = delivered
            /\ committed' = committed
        BY <2>1
      <4> QED
        BY <3>1, <3>3, <4>1, <4>2, <4>3, <4>5, <4>6, <4>7 DEF FlowOK
    <3> QED
      BY <3>2, <3>3
  <2> QED
    BY <2>2, <2>3, <2>4, <2>5, <2>6 DEF IInv
<1>11. ASSUME NEW t \in Threads, EventMore(t) PROVE IInv'
  <2>a. PICK f \in Fds : f = target[t]
    BY <1>11, <1>c DEF EventMore, ThreadOK
  <2>1. /\ pc[t] = "settle"
        /\ op[t] = "event"
        /\ result[t] = "again"
        /\ \A g \in Fds : ctx'[g] = IF g = f THEN buf[t] ELSE ctx[g]
        /\ \A g \in Fds : oreg'[g] = IF g = f THEN IF oreg[f] = "none" THEN "none" ELSE "armed" ELSE oreg[g]
        /\ \A u \in Threads : pc'[u] = IF u = t THEN "idle" ELSE pc[u]
        /\ \A u \in Threads : op'[u] = IF u = t THEN "none" ELSE op[u]
        /\ \A u \in Threads : target'[u] = IF u = t THEN NoFd ELSE target[u]
        /\ \A u \in Threads : buf'[u] = IF u = t THEN <<>> ELSE buf[u]
        /\ \A u \in Threads : result'[u] = IF u = t THEN "none" ELSE result[u]
        /\ \A g \in Fds : lock'[g] = IF g = f THEN NoThread ELSE lock[g]
        /\ UNCHANGED <<out_queue, open, room, broken, shut, commits, committed, delivered,
                       freed, leaked, stale, unwatched>>
    BY <1>11, <1>a, <2>a DEF EventMore, Types, Idle
  <2>o. \A u \in Threads : u # t /\ pc[u] \in {"exec", "settle"} => target[u] # f
    BY <1>a, <1>b, <2>1, <2>a DEF LockOK, Types
  <2>2. Types'
    <3>1. /\ pc' \in [Threads -> {"idle", "event", "exec", "settle"}]
          /\ op' \in [Threads -> {"none", "raw", "xfer", "write", "event"}]
          /\ target' \in [Threads -> Fds \union {NoFd}]
          /\ result' \in [Threads -> {"none", "again", "done", "fail"}]
          /\ lock' \in [Fds -> Threads \union {NoThread}]
      BY <1>11, <1>a DEF EventMore, Idle, Types
    <3>2. buf' \in [Threads -> Seq(Item)]
      BY <1>11, <1>a DEF EventMore, Idle, Types
    <3>3. ctx' \in [Fds -> Seq(Item)]
      BY <1>11, <1>a DEF EventMore, Types
    <3>4. oreg' \in [Fds -> {"none", "armed", "fired"}]
      BY <1>11, <1>a, <2>a DEF EventMore, Types
    <3> QED
      BY <1>a, <2>1, <3>1, <3>2, <3>3, <3>4 DEF Types
  <2>3. LockOK'
    BY <1>b, <1>c, <2>1, <2>a DEF LockOK, ThreadOK
  <2>4. ASSUME NEW v \in Threads PROVE ThreadOK(v)'
    <3>1. ThreadOK(v) /\ ThreadOK(t) /\ WatchOK(f)
      BY <1>c, <1>d
    <3>2. CASE v = t
      BY <1>a, <1>b, <2>1, <3>1, <3>2, <2>a DEF Types, ThreadOK
    <3>3. CASE v # t
      <4>1. /\ pc'[v] = pc[v] /\ op'[v] = op[v] /\ target'[v] = target[v]
            /\ buf'[v] = buf[v] /\ result'[v] = result[v]
        BY <2>1, <3>3, <2>a DEF Return
      <4>2. pc[v] \in {"exec", "settle"} => target[v] \in Fds
        BY <3>1 DEF ThreadOK
      <4> QED
        BY <2>1, <2>o, <3>1, <3>3, <4>1, <4>2, ThreadFrame, <2>a
    <3> QED
      BY <3>2, <3>3
  <2>5. ASSUME NEW h \in Fds PROVE WatchOK(h)'
    <3>1. CASE h # f
      <4>1. WatchOK(h)
        BY <1>d
      <4>2. \A u \in Threads : Handles(u, h)' <=> Handles(u, h)
        BY <1>c, <2>1, <3>1, <2>a, CallAssumption DEF Handles, ThreadOK
      <4>3. \A k : QueuedAt(k, h)' <=> QueuedAt(k, h)
        BY <1>a, <2>1, <3>1 DEF QueuedAt
      <4>4. (ctx'[h] = <<>>) <=> (ctx[h] = <<>>)
        BY <2>1, <3>1
      <4> QED
        BY <1>a, <2>1, <3>1, <4>1, <4>2, <4>3, <4>4, WatchFrame DEF Types
    <3>2. CASE h = f
      <4>1. WatchOK(f) /\ Handles(t, f) /\ ThreadOK(t)
        BY <1>c, <1>d, <2>1, <2>a DEF Handles
      <4>2. \A u \in Threads : Handles(u, f) => u = t
        BY <4>1 DEF WatchOK
      <4>3. \A k : ~QueuedAt(k, f)
        BY <4>1 DEF WatchOK
      <4>4. \A u \in Threads : ~Handles(u, f)'
        BY <1>b, <2>1, <4>2 DEF Handles
      <4>5. \A k : ~QueuedAt(k, f)'
        BY <2>1, <4>3 DEF QueuedAt
      <4>6. ctx'[f] # <<>> /\ ctx[f] # <<>> /\ ~InFlight(f)'
        <5>1. InFlight(f)
          BY <4>1, InFlightIs
        <5>2. buf[t] # <<>>
          BY <2>1, <4>1 DEF ThreadOK
        <5> QED
          BY <2>1, <4>1, <4>4, <4>5, <5>1, <5>2, InFlightIs DEF WatchOK
      <4>7. /\ oreg'[f] = IF oreg[f] = "none" THEN "none" ELSE "armed"
            /\ stale'[f] = stale[f] /\ open'[f] = open[f] /\ unwatched'[f] = unwatched[f]
        BY <2>1
      <4>8. ~unwatched[f] /\ (~stale[f] => oreg[f] # "none") /\ (~open[f] => oreg[f] = "none" /\ stale[f])
        <5>1. InFlight(f)
          BY <4>1, InFlightIs
        <5> QED
          BY <4>1, <4>6, <5>1 DEF WatchOK
      <4> QED
        BY <3>2, <4>4, <4>5, <4>6, <4>7, <4>8 DEF WatchOK
    <3> QED
      BY <3>1, <3>2
  <2>6. ASSUME NEW g \in Fds PROVE FlowOK(g)'
    <3>1. FlowOK(g)
      BY <1>e
    <3>2. CASE g # f
      <4>1. lock[g] # t /\ lock[g] \in Threads \union {NoThread}
        <5>1. lock[g] = t => pc[t] \in {"exec", "settle"} /\ target[t] = g
          BY <1>b DEF LockOK
        <5> QED
          BY <1>a, <2>1, <3>2, <5>1, <2>a DEF Types
      <4>2. Pending(g)' = Pending(g)
        BY <2>1, <3>2, <4>1, PendingSame
      <4> QED
        BY <2>1, <3>1, <3>2, <4>2, FlowFrame
    <3>3. CASE g = f
      <4>1. Pending(f)' = Pending(f)
        BY <1>a, <1>b, <1>c, <2>1, <2>a DEF Pending, LockOK, Types, ThreadOK
      <4> QED
        BY <2>1, <3>1, <3>3, <4>1, FlowFrame
    <3> QED
      BY <3>2, <3>3
  <2> QED
    BY <2>2, <2>3, <2>4, <2>5, <2>6 DEF IInv
<1>12. ASSUME NEW t \in Threads, WriteEvent(t) PROVE IInv'
  <2>a. PICK f \in Fds : f = target[t]
    BY <1>12, <1>c DEF WriteEvent, ThreadOK
  <2>1. /\ pc[t] = "event"
        /\ lock[f] = NoThread
        /\ \A g \in Fds : lock'[g] = IF g = f THEN t ELSE lock[g]
        /\ \A u \in Threads : buf'[u] = IF u = t THEN ctx[f] ELSE buf[u]
        /\ \A u \in Threads : pc'[u] = IF u = t THEN "exec" ELSE pc[u]
        /\ UNCHANGED <<ctx, op, target, result, oreg, out_queue, open, room, broken, shut,
                       commits, committed, delivered, freed, leaked, stale, unwatched>>
    BY <1>12, <1>a, <2>a DEF WriteEvent, Types
  <2>o. \A u \in Threads : u # t /\ pc[u] \in {"exec", "settle"} => target[u] # f
    BY <1>a, <1>b, <2>1, <2>a DEF LockOK, Types
  <2>2. Types'
    BY <1>12, <1>a, <2>a, RoomAssumption DEF WriteEvent, Types
  <2>3. LockOK'
    BY <1>b, <1>c, <2>1, <2>a DEF LockOK, ThreadOK
  <2>4. ASSUME NEW v \in Threads PROVE ThreadOK(v)'
    <3>1. ThreadOK(v) /\ ThreadOK(t) /\ WatchOK(f)
      BY <1>c, <1>d
    <3>2. CASE v = t
      BY <1>a, <1>b, <2>1, <3>1, <3>2, <2>a DEF Types, ThreadOK
    <3>3. CASE v # t
      <4>1. /\ pc'[v] = pc[v] /\ op'[v] = op[v] /\ target'[v] = target[v]
            /\ buf'[v] = buf[v] /\ result'[v] = result[v]
        BY <2>1, <3>3, <2>a DEF Return
      <4>2. pc[v] \in {"exec", "settle"} => target[v] \in Fds
        BY <3>1 DEF ThreadOK
      <4> QED
        BY <2>1, <2>o, <3>1, <3>3, <4>1, <4>2, ThreadFrame, <2>a
    <3> QED
      BY <3>2, <3>3
  <2>5. ASSUME NEW h \in Fds PROVE WatchOK(h)'
    <3>1. WatchOK(h)
      BY <1>d
    <3>2. \A u \in Threads : Handles(u, h)' <=> Handles(u, h)
      BY <1>c, <2>1, <2>a, CallAssumption DEF Handles, ThreadOK
    <3>3. \A k : QueuedAt(k, h)' <=> QueuedAt(k, h)
      BY <2>1 DEF QueuedAt
    <3>4. (ctx'[h] = <<>>) <=> (ctx[h] = <<>>)
      BY <2>1
    <3> QED
      BY <1>a, <2>1, <3>1, <3>2, <3>3, <3>4, WatchFrame DEF Types
  <2>6. ASSUME NEW g \in Fds PROVE FlowOK(g)'
    <3>1. FlowOK(g)
      BY <1>e
    <3>2. CASE g # f
      <4>1. lock[g] # t /\ lock[g] \in Threads \union {NoThread}
        <5>1. lock[g] = t => pc[t] \in {"exec", "settle"} /\ target[t] = g
          BY <1>b DEF LockOK
        <5> QED
          BY <1>a, <2>1, <3>2, <5>1, <2>a DEF Types
      <4>2. Pending(g)' = Pending(g)
        BY <2>1, <3>2, <4>1, PendingSame
      <4> QED
        BY <2>1, <3>1, <3>2, <4>2, FlowFrame
    <3>3. CASE g = f
      <4>1. Pending(f)' = Pending(f)
        BY <1>a, <1>b, <1>c, <2>1, <2>a DEF Pending, LockOK, Types, ThreadOK
      <4> QED
        BY <2>1, <3>1, <3>3, <4>1, FlowFrame
    <3> QED
      BY <3>2, <3>3
  <2> QED
    BY <2>2, <2>3, <2>4, <2>5, <2>6 DEF IInv
<1>13. ASSUME NEW t \in Threads, NextEvent(t) PROVE IInv'
  <2>a. PICK f \in Fds : f = Head(out_queue)
    BY <1>13, <1>a DEF NextEvent, Types
  <2>1. /\ pc[t] = "idle"
        /\ out_queue # <<>>
        /\ out_queue' = Tail(out_queue)
        /\ \A u \in Threads : target'[u] = IF u = t THEN f ELSE target[u]
        /\ \A u \in Threads : op'[u] = IF u = t THEN "event" ELSE op[u]
        /\ \A u \in Threads : pc'[u] = IF u = t THEN "event" ELSE pc[u]
        /\ UNCHANGED <<ctx, lock, buf, result, oreg, open, room, broken, shut, commits,
                       committed, delivered, freed, leaked, stale, unwatched>>
    BY <1>13, <1>a, <2>a DEF NextEvent, Types
  <2>2. Types'
    <3>1. out_queue' \in Seq(Fds)
      BY <1>a, <2>1 DEF Types
    <3>2. /\ pc' \in [Threads -> {"idle", "event", "exec", "settle"}]
          /\ op' \in [Threads -> {"none", "raw", "xfer", "write", "event"}]
          /\ target' \in [Threads -> Fds \union {NoFd}]
      BY <1>13, <1>a, <2>a DEF NextEvent, Types
    <3> QED
      BY <1>a, <2>1, <3>1, <3>2 DEF Types
  <2>3. LockOK'
    BY <1>b, <1>c, <2>1, <2>a DEF LockOK, ThreadOK
  <2>4. ASSUME NEW v \in Threads PROVE ThreadOK(v)'
    <3>1. ThreadOK(v) /\ ThreadOK(t) /\ WatchOK(f)
      BY <1>c, <1>d
    <3>2. CASE v = t
      BY <2>1, <2>a, <3>2 DEF ThreadOK
    <3>3. CASE v # t
      <4>1. /\ pc'[v] = pc[v] /\ op'[v] = op[v] /\ target'[v] = target[v]
            /\ buf'[v] = buf[v] /\ result'[v] = result[v]
        BY <2>1, <3>3, <2>a
      <4>2. pc[v] \in {"exec", "settle"} => target[v] \in Fds
        BY <3>1 DEF ThreadOK
      <4> QED
        BY <2>1, <3>1, <3>3, <4>1, <4>2, ThreadFrame, <2>a
    <3> QED
      BY <3>2, <3>3
  <2>5. ASSUME NEW h \in Fds PROVE WatchOK(h)'
    <3>1. WatchOK(h) /\ ThreadOK(t)
      BY <1>c, <1>d
    <3>2. /\ Len(out_queue') = Len(out_queue) - 1 /\ Len(out_queue) \in Nat \ {0}
          /\ \A k \in 1..Len(out_queue') : out_queue'[k] = out_queue[k + 1]
          /\ out_queue[1] = f
      BY <1>a, <2>1, <2>a DEF Types
    <3>3. \A k : QueuedAt(k, h)' => k + 1 \in 2..Len(out_queue) /\ QueuedAt(k + 1, h) /\ k \in Nat
      BY <3>2 DEF QueuedAt
    <3>4. \A k : QueuedAt(k, h) /\ k # 1 => QueuedAt(k - 1, h)'
      BY <3>2 DEF QueuedAt
    <3>5. CASE h # f
      <4>1. \A u \in Threads : Handles(u, h)' <=> Handles(u, h)
        BY <2>1, <3>1, <3>5 DEF Handles, ThreadOK
      <4>2. ~QueuedAt(1, h)
        BY <3>2, <3>5 DEF QueuedAt
      <4>3. InFlight(h)' <=> InFlight(h)
        BY <3>3, <3>4, <4>1, <4>2, InFlightIs
      <4>4. \A j, k : QueuedAt(j, h)' /\ QueuedAt(k, h)' => j = k
        <5>1. ASSUME NEW j, NEW k, QueuedAt(j, h)', QueuedAt(k, h)' PROVE j = k
          <6>1. j + 1 = k + 1 /\ j \in Nat /\ k \in Nat
            BY <3>1, <3>3, <5>1 DEF WatchOK
          <6> QED
            BY <6>1
        <5> QED
          BY <5>1
      <4>5. \A k : \A u \in Threads : ~(QueuedAt(k, h)' /\ Handles(u, h)')
        BY <3>1, <3>3, <4>1 DEF WatchOK
      <4> QED
        BY <2>1, <3>1, <4>1, <4>3, <4>4, <4>5 DEF WatchOK
    <3>6. CASE h = f
      <4>1. QueuedAt(1, f)
        BY <3>2 DEF QueuedAt
      <4>2. \A u \in Threads : ~Handles(u, f)
        BY <3>1, <3>6, <4>1 DEF WatchOK
      <4>3. \A k : ~QueuedAt(k, f)'
        <5>1. ASSUME NEW k, QueuedAt(k, f)' PROVE FALSE
          <6>1. k + 1 = 1 /\ k + 1 \in 2..Len(out_queue)
            BY <3>1, <3>3, <3>6, <4>1, <5>1 DEF WatchOK
          <6> QED
            BY <6>1
        <5> QED
          BY <5>1
      <4>4. \A u \in Threads : Handles(u, f)' <=> u = t
        BY <2>1, <4>2 DEF Handles
      <4>5. InFlight(f)' /\ InFlight(f)
        BY <4>1, <4>4, InFlightIs
      <4>6. /\ oreg[f] # "armed" /\ ctx[f] # <<>> /\ (~stale[f] => oreg[f] # "none")
            /\ (~open[f] => oreg[f] = "none" /\ stale[f]) /\ ~unwatched[f]
        BY <3>1, <3>6, <4>5 DEF WatchOK
      <4>7. /\ oreg'[f] = oreg[f] /\ ctx'[f] = ctx[f] /\ stale'[f] = stale[f]
            /\ open'[f] = open[f] /\ unwatched'[f] = unwatched[f]
        BY <2>1
      <4> QED
        BY <3>6, <4>3, <4>4, <4>5, <4>6, <4>7 DEF WatchOK
    <3> QED
      BY <3>5, <3>6
  <2>6. ASSUME NEW g \in Fds PROVE FlowOK(g)'
    <3>1. FlowOK(g)
      BY <1>e
    <3>2. CASE g # f
      <4>1. lock[g] # t /\ lock[g] \in Threads \union {NoThread}
        <5>1. lock[g] = t => pc[t] \in {"exec", "settle"} /\ target[t] = g
          BY <1>b DEF LockOK
        <5> QED
          BY <1>a, <2>1, <3>2, <5>1, <2>a DEF Types
      <4>2. Pending(g)' = Pending(g)
        BY <2>1, <3>2, <4>1, PendingSame
      <4> QED
        BY <2>1, <3>1, <3>2, <4>2, FlowFrame
    <3>3. CASE g = f
      <4>1. Pending(f)' = Pending(f)
        BY <1>a, <1>b, <1>c, <2>1, <2>a DEF Pending, LockOK, Types, ThreadOK
      <4> QED
        BY <2>1, <3>1, <3>3, <4>1, FlowFrame
    <3> QED
      BY <3>2, <3>3
  <2> QED
    BY <2>2, <2>3, <2>4, <2>5, <2>6 DEF IInv
<1>14. ASSUME NEW f \in Fds, PeerReads(f) PROVE IInv'
  <2>1. /\ \A g \in Fds : room'[g] = IF g = f THEN Room ELSE room[g]
        /\ UNCHANGED <<ctx, lock, pc, op, target, buf, result, oreg, out_queue, open, broken,
                       shut, commits, committed, delivered, freed, leaked, stale, unwatched>>
    BY <1>14, <1>a DEF PeerReads, Types
  <2>2. Types'
    BY <1>14, <1>a, RoomAssumption DEF PeerReads, Types
  <2>3. LockOK'
    BY <1>b, <1>c, <2>1 DEF LockOK, ThreadOK
  <2>4. ASSUME NEW v \in Threads PROVE ThreadOK(v)'
    <3>1. ThreadOK(v) /\ WatchOK(f)
      BY <1>c, <1>d
    <3>2. pc[v] \in {"exec", "settle"} => target[v] \in Fds
      BY <3>1 DEF ThreadOK
    <3> QED
      BY <2>1, <3>1, <3>2, ThreadFrame
  <2>5. ASSUME NEW h \in Fds PROVE WatchOK(h)'
    <3>1. WatchOK(h)
      BY <1>d
    <3>2. \A u \in Threads : Handles(u, h)' <=> Handles(u, h)
      BY <1>c, <2>1, CallAssumption DEF Handles, ThreadOK
    <3>3. \A k : QueuedAt(k, h)' <=> QueuedAt(k, h)
      BY <2>1 DEF QueuedAt
    <3>4. (ctx'[h] = <<>>) <=> (ctx[h] = <<>>)
      BY <2>1
    <3> QED
      BY <1>a, <2>1, <3>1, <3>2, <3>3, <3>4, WatchFrame DEF Types
  <2>6. ASSUME NEW g \in Fds PROVE FlowOK(g)'
    <3>1. FlowOK(g) /\ Pending(g)' = Pending(g)
      BY <1>e, <2>1 DEF Pending
    <3> QED
      BY <2>1, <3>1, FlowFrame
  <2> QED
    BY <2>2, <2>3, <2>4, <2>5, <2>6 DEF IInv
<1>15. ASSUME NEW f \in Fds, PeerResets(f) PROVE IInv'
  <2>1. /\ \A g \in Fds : broken'[g] = IF g = f THEN TRUE ELSE broken[g]
        /\ UNCHANGED <<ctx, lock, pc, op, target, buf, result, oreg, out_queue, open, room,
                       shut, commits, committed, delivered, freed, leaked, stale, unwatched>>
    BY <1>15, <1>a DEF PeerResets, Types
  <2>2. Types'
    BY <1>15, <1>a, RoomAssumption DEF PeerResets, Types
  <2>3. LockOK'
    BY <1>b, <1>c, <2>1 DEF LockOK, ThreadOK
  <2>4. ASSUME NEW v \in Threads PROVE ThreadOK(v)'
    <3>1. ThreadOK(v) /\ WatchOK(f)
      BY <1>c, <1>d
    <3>2. pc[v] \in {"exec", "settle"} => target[v] \in Fds
      BY <3>1 DEF ThreadOK
    <3> QED
      BY <2>1, <3>1, <3>2, ThreadFrame
  <2>5. ASSUME NEW h \in Fds PROVE WatchOK(h)'
    <3>1. WatchOK(h)
      BY <1>d
    <3>2. \A u \in Threads : Handles(u, h)' <=> Handles(u, h)
      BY <1>c, <2>1, CallAssumption DEF Handles, ThreadOK
    <3>3. \A k : QueuedAt(k, h)' <=> QueuedAt(k, h)
      BY <2>1 DEF QueuedAt
    <3>4. (ctx'[h] = <<>>) <=> (ctx[h] = <<>>)
      BY <2>1
    <3> QED
      BY <1>a, <2>1, <3>1, <3>2, <3>3, <3>4, WatchFrame DEF Types
  <2>6. ASSUME NEW g \in Fds PROVE FlowOK(g)'
    <3>1. FlowOK(g) /\ Pending(g)' = Pending(g)
      BY <1>e, <2>1 DEF Pending
    <3> QED
      BY <2>1, <3>1, FlowFrame
  <2> QED
    BY <2>2, <2>3, <2>4, <2>5, <2>6 DEF IInv
<1>16. ASSUME NEW f \in Fds, Close(f) PROVE IInv'
  <2>1. /\ open[f]
        /\ \A u \in Threads : target[u] = f => op[u] = "event"
        /\ \A g \in Fds : open'[g] = IF g = f THEN FALSE ELSE open[g]
        /\ \A g \in Fds : oreg'[g] = IF g = f THEN "none" ELSE oreg[g]
        /\ \A g \in Fds : stale'[g] = IF g = f THEN (stale[f] \/ ctx[f] # <<>> \/ InFlight(f)) ELSE stale[g]
        /\ UNCHANGED <<ctx, lock, pc, op, target, buf, result, out_queue, room, broken, shut,
                       commits, committed, delivered, freed, leaked, unwatched>>
    BY <1>16, <1>a DEF Close, Types
  <2>2. Types'
    <3>1. open' \in [Fds -> BOOLEAN] /\ oreg' \in [Fds -> {"none", "armed", "fired"}]
      BY <1>16, <1>a DEF Close, Types
    <3>2. (stale[f] \/ ctx[f] # <<>> \/ InFlight(f)) \in BOOLEAN
      OBVIOUS
    <3>3. stale' = [stale EXCEPT ![f] = stale[f] \/ ctx[f] # <<>> \/ InFlight(f)]
      BY <1>16 DEF Close
    <3>4. stale' \in [Fds -> BOOLEAN]
      BY <1>a, <3>2, <3>3, Zenon DEF Types
    <3> QED
      BY <1>a, <2>1, <3>1, <3>4 DEF Types
  <2>3. LockOK'
    BY <1>b, <1>c, <2>1 DEF LockOK, ThreadOK
  <2>4. ASSUME NEW v \in Threads PROVE ThreadOK(v)'
    <3>1. ThreadOK(v) /\ (pc[v] \in {"exec", "settle"} => target[v] \in Fds)
      BY <1>c DEF ThreadOK
    <3>2. op[v] # "event" => target[v] # f
      BY <2>1
    <3>3. \A g \in Fds : (g # f => open'[g] = open[g]) /\ (stale[g] => stale'[g])
      BY <2>1
    <3> QED
      BY <2>1, <3>1, <3>2, <3>3, ThreadFrame
  <2>5. ASSUME NEW h \in Fds PROVE WatchOK(h)'
    <3>1. CASE h # f
      <4>1. WatchOK(h)
        BY <1>d
      <4>2. \A u \in Threads : Handles(u, h)' <=> Handles(u, h)
        BY <1>c, <2>1, <3>1, CallAssumption DEF Handles, ThreadOK
      <4>3. \A k : QueuedAt(k, h)' <=> QueuedAt(k, h)
        BY <1>a, <2>1, <3>1 DEF QueuedAt
      <4>4. (ctx'[h] = <<>>) <=> (ctx[h] = <<>>)
        BY <2>1, <3>1
      <4> QED
        BY <1>a, <2>1, <3>1, <4>1, <4>2, <4>3, <4>4, WatchFrame DEF Types
    <3>2. CASE h = f
      <4>1. WatchOK(f)
        BY <1>d
      <4>2. \A u \in Threads : Handles(u, f)' <=> Handles(u, f)
        BY <2>1 DEF Handles
      <4>3. \A k : QueuedAt(k, f)' <=> QueuedAt(k, f)
        BY <2>1 DEF QueuedAt
      <4>4. InFlight(f)' <=> InFlight(f)
        BY <4>2, <4>3, InFlightIs
      <4>5. /\ oreg'[f] = "none" /\ ~open'[f] /\ ctx'[f] = ctx[f]
            /\ (ctx[f] # <<>> => stale'[f]) /\ unwatched'[f] = unwatched[f]
        BY <2>1
      <4> QED
        BY <3>2, <4>1, <4>2, <4>3, <4>4, <4>5 DEF WatchOK
    <3> QED
      BY <3>1, <3>2
  <2>6. ASSUME NEW g \in Fds PROVE FlowOK(g)'
    <3>1. FlowOK(g) /\ Pending(g)' = Pending(g)
      BY <1>e, <2>1 DEF Pending
    <3> QED
      BY <2>1, <3>1, FlowFrame
  <2> QED
    BY <2>2, <2>3, <2>4, <2>5, <2>6 DEF IInv
<1>17. ASSUME NEW f \in Fds, Reopen(f) PROVE IInv'
  <2>1. /\ ~open[f]
        /\ \A g \in Fds : open'[g] = IF g = f THEN TRUE ELSE open[g]
        /\ \A g \in Fds : room'[g] = IF g = f THEN Room ELSE room[g]
        /\ \A g \in Fds : broken'[g] = IF g = f THEN FALSE ELSE broken[g]
        /\ \A g \in Fds : shut'[g] = IF g = f THEN FALSE ELSE shut[g]
        /\ \A g \in Fds : delivered'[g] = IF g = f THEN committed[f] ELSE delivered[g]
        /\ UNCHANGED <<ctx, lock, pc, op, target, buf, result, oreg, out_queue, commits,
                       committed, freed, leaked, stale, unwatched>>
    BY <1>17, <1>a DEF Reopen, Types
  <2>2. Types'
    BY <1>17, <1>a, RoomAssumption DEF Reopen, Types
  <2>3. LockOK'
    BY <1>b, <1>c, <2>1 DEF LockOK, ThreadOK
  <2>4. ASSUME NEW v \in Threads PROVE ThreadOK(v)'
    <3>1. ThreadOK(v) /\ WatchOK(f)
      BY <1>c, <1>d
    <3>2. pc[v] \in {"exec", "settle"} => target[v] \in Fds
      BY <3>1 DEF ThreadOK
    <3>3. pc[v] = "settle" /\ target[v] = f => stale[f]
      BY <2>1, <3>1, ClosedInFlight DEF ThreadOK, Handles
    <3>4. \A g \in Fds : g # f => broken'[g] = broken[g]
      BY <2>1
    <3>5. \A g \in Fds : open[g] => open'[g]
      BY <2>1
    <3> QED
      BY <2>1, <3>1, <3>2, <3>3, <3>4, <3>5, ThreadFrame
  <2>5. ASSUME NEW h \in Fds PROVE WatchOK(h)'
    <3>1. WatchOK(h)
      BY <1>d
    <3>2. \A u \in Threads : Handles(u, h)' <=> Handles(u, h)
      BY <1>c, <2>1, CallAssumption DEF Handles, ThreadOK
    <3>3. \A k : QueuedAt(k, h)' <=> QueuedAt(k, h)
      BY <2>1 DEF QueuedAt
    <3>4. (ctx'[h] = <<>>) <=> (ctx[h] = <<>>)
      BY <2>1
    <3> QED
      BY <1>a, <2>1, <3>1, <3>2, <3>3, <3>4, WatchFrame DEF Types
  <2>6. ASSUME NEW g \in Fds PROVE FlowOK(g)'
    <3>1. FlowOK(g) /\ Pending(g)' = Pending(g)
      BY <1>e, <2>1 DEF Pending
    <3>2. CASE g # f
      BY <2>1, <3>1, <3>2, FlowFrame
    <3>3. CASE g = f
      <4>1. ~stale[f] => ctx[f] = <<>> /\ ~InFlight(f)
        BY <1>d, <2>1 DEF WatchOK
      <4>2. ~stale[f] => lock[f] = NoThread
        <5>1. ASSUME ~stale[f], lock[f] # NoThread PROVE FALSE
          <6>1. PICK u \in Threads : u = lock[f]
            BY <1>a, <5>1 DEF Types
          <6>2. pc[u] \in {"exec", "settle"} /\ target[u] = f
            BY <1>b, <6>1 DEF LockOK
          <6>3. Handles(u, f)
            BY <1>c, <2>1, <6>2 DEF ThreadOK, Handles
          <6> QED
            BY <4>1, <5>1, <6>3, InFlightIs
        <5> QED
          BY <5>1
      <4>3. ~stale[f] => Pending(f) = <<>>
        BY <4>1, <4>2 DEF Pending
      <4>4. /\ delivered'[f] = committed[f]
            /\ UNCHANGED <<stale, freed, leaked, commits, committed>>
        BY <2>1
      <4> QED
        BY <3>1, <3>3, <4>3, <4>4, NothingPending DEF FlowOK
    <3> QED
      BY <3>2, <3>3
  <2> QED
    BY <2>2, <2>3, <2>4, <2>5, <2>6 DEF IInv
<1>18. ASSUME NEW t \in Threads, ExecWrite(t) PROVE IInv'
  <2>a. PICK f \in Fds : f = target[t]
    BY <1>18, <1>c DEF ExecWrite, ThreadOK
  <2>b. PICK n \in 1..room[f] :
          /\ Head(buf[t]).lo + n <= Head(buf[t]).hi + 1
          /\ delivered' = [delivered EXCEPT ![f] = IF stale[f] THEN @ ELSE @ + n]
          /\ room' = [room EXCEPT ![f] = @ - n]
          /\ IF Head(buf[t]).lo + n = Head(buf[t]).hi + 1
             THEN /\ buf' = [buf EXCEPT ![t] = Tail(@)]
                  /\ UNCHANGED <<pc, result>>
             ELSE /\ buf' = [buf EXCEPT ![t] =
                        <<Data(Head(buf[t]).lo + n, Head(buf[t]).hi, Head(buf[t]).no)>> \o Tail(@)]
                  /\ Return(t, "again")
    BY <1>18, <2>a DEF ExecWrite
  <2>1. /\ pc[t] = "exec"
        /\ buf[t] # <<>>
        /\ Head(buf[t]).type = "data"
        /\ UNCHANGED <<ctx, lock, op, target, oreg, out_queue, open, broken, shut, commits,
                       committed, freed, leaked, stale, unwatched>>
    BY <1>18, <1>a, <2>a, <2>b DEF ExecWrite, Types
  <2>o. \A u \in Threads : u # t /\ pc[u] \in {"exec", "settle"} => target[u] # f
    BY <1>a, <1>b, <2>1, <2>a, <2>b DEF LockOK, Types
  <2>c. /\ Head(buf[t]) \in Item /\ Tail(buf[t]) \in Seq(Item) /\ n \in Nat \ {0} /\ room[f] \in Nat
        /\ n <= room[f]
    BY <1>a, <2>1, <2>a, <2>b, TailAt DEF Types
  <2>d. /\ \A u \in Threads : pc'[u] = pc[u] \/ (u = t /\ pc'[u] = "settle" /\ result'[u] = "again")
        /\ \A u \in Threads : u # t => buf'[u] = buf[u] /\ result'[u] = result[u] /\ pc'[u] = pc[u]
    BY <1>a, <2>a, <2>b DEF Return, Types
  <2>h. Data(Head(buf[t]).lo + n, Head(buf[t]).hi, Head(buf[t]).no) \in Item
    BY <2>c DEF Data, Item
  <2>e. <<Data(Head(buf[t]).lo + n, Head(buf[t]).hi, Head(buf[t]).no)>> \o Tail(buf[t]) \in Seq(Item)
    BY <2>c, <2>h
  <2>g. pc'[t] = "settle" => buf'[t] # <<>> /\ Head(buf'[t]).type = "data"
    <3>1. pc'[t] = "settle"
          => buf'[t] = <<Data(Head(buf[t]).lo + n, Head(buf[t]).hi, Head(buf[t]).no)>> \o Tail(buf[t])
      BY <1>a, <2>1, <2>b DEF Types
    <3>2. \A d \in Item : <<d>> \o Tail(buf[t]) # <<>> /\ Head(<<d>> \o Tail(buf[t])) = d
      BY <2>c
    <3> QED
      BY <2>h, <3>1, <3>2, Fields
  <2>2. Types'
    <3>1. buf' \in [Threads -> Seq(Item)]
      BY <1>a, <2>b, <2>c, <2>e DEF Types
    <3>2. delivered' \in [Fds -> Nat]
      BY <1>a, <2>b, <2>c DEF Types
    <3>3. room' \in [Fds -> 0..Room]
      BY <1>a, <2>b, <2>c, RoomAssumption DEF Types
    <3>4. pc' \in [Threads -> {"idle", "event", "exec", "settle"}]
          /\ result' \in [Threads -> {"none", "again", "done", "fail"}]
      BY <1>a, <2>b DEF Types, Return
    <3> QED
      BY <1>a, <2>1, <3>1, <3>2, <3>3, <3>4 DEF Types
  <2>3. LockOK'
    BY <1>b, <1>c, <2>1, <2>d DEF LockOK, ThreadOK
  <2>4. ASSUME NEW v \in Threads PROVE ThreadOK(v)'
    <3>1. ThreadOK(v) /\ ThreadOK(t) /\ (pc[v] \in {"exec", "settle"} => target[v] \in Fds)
      BY <1>c DEF ThreadOK
    <3>2. CASE v = t
      BY <1>a, <1>b, <2>1, <2>d, <2>g, <3>1, <3>2, <2>a DEF Types, ThreadOK
    <3>3. CASE v # t
      BY <2>1, <2>d, <3>1, <3>3, ThreadFrame
    <3> QED
      BY <3>2, <3>3
  <2>5. ASSUME NEW h \in Fds PROVE WatchOK(h)'
    <3>1. WatchOK(h)
      BY <1>d
    <3>2. \A u \in Threads : Handles(u, h)' <=> Handles(u, h)
      BY <1>c, <2>1, <2>a, <2>b, CallAssumption DEF Handles, ThreadOK
    <3>3. \A k : QueuedAt(k, h)' <=> QueuedAt(k, h)
      BY <2>1 DEF QueuedAt
    <3>4. (ctx'[h] = <<>>) <=> (ctx[h] = <<>>)
      BY <2>1
    <3> QED
      BY <1>a, <2>1, <3>1, <3>2, <3>3, <3>4, WatchFrame DEF Types
  <2>6. ASSUME NEW g \in Fds PROVE FlowOK(g)'
    <3>1. FlowOK(g)
      BY <1>e
    <3>2. CASE g # f
      <4>1. lock[g] # t /\ lock[g] \in Threads \union {NoThread}
        BY <1>a, <1>b, <2>1, <2>a, <3>2 DEF LockOK, Types
      <4>2. Pending(g)' = Pending(g)
        BY <2>1, <2>d, <3>2, <4>1, PendingSame
      <4>3. delivered'[g] = delivered[g]
        BY <1>a, <2>b, <3>2 DEF Types
      <4> QED
        BY <2>1, <3>1, <4>2, <4>3, FlowFrame
    <3>3. CASE g = f
      <4>1. lock[f] = t /\ Pending(f) = buf[t] /\ buf[t] \in Seq(Item)
        BY <1>a, <1>b, <2>1, <2>a DEF Pending, LockOK, Types
      <4>2. Pending(f)' = buf'[t]
        BY <1>b, <2>1, <4>1 DEF Pending
      <4>3. /\ commits[f] \in Nat /\ committed[f] \in Nat /\ delivered[f] \in Nat
            /\ FinOK(buf[t], freed[f], leaked[f], commits[f])
            /\ Joined(buf[t], committed[f])
            /\ open[f] /\ ~stale[f] /\ ~broken[f] => Starts(buf[t], delivered[f], committed[f])
        BY <1>a, <3>1, <3>3, <4>1 DEF FlowOK, Types
      <4>4. ~stale[f] => delivered'[f] = delivered[f] + n
        BY <1>a, <2>b DEF Types
      <4>5. UNCHANGED <<open, stale, broken, freed, leaked, commits, committed>>
        BY <2>1
      <4>6. CASE Head(buf[t]).lo + n = Head(buf[t]).hi + 1
        <5>1. buf'[t] = Tail(buf[t])
          BY <1>a, <2>b, <4>6 DEF Types
        <5>2. FinOK(buf'[t], freed[f], leaked[f], commits[f])
          BY <2>1, <4>1, <4>3, <5>1, FinPasses
        <5>3. Joined(buf'[t], committed[f])
          BY <2>1, <4>1, <4>3, <5>1, JoinedTail
        <5>4. Starts(buf[t], delivered[f], committed[f]) => Starts(buf'[t], delivered[f] + n, committed[f])
          BY <2>1, <2>c, <4>1, <4>3, <4>6, <5>1, StartsNext
        <5> QED
          BY <3>3, <4>2, <4>3, <4>4, <4>5, <5>2, <5>3, <5>4 DEF FlowOK
      <4>7. CASE Head(buf[t]).lo + n # Head(buf[t]).hi + 1
        <5>1. PICK d \in Item : d = Data(Head(buf[t]).lo + n, Head(buf[t]).hi, Head(buf[t]).no)
          BY <2>h
        <5>2. buf'[t] = <<d>> \o Tail(buf[t])
          BY <1>a, <2>b, <4>7, <5>1 DEF Types
        <5>3. d.type = "data" /\ d.lo = Head(buf[t]).lo + n /\ d.hi = Head(buf[t]).hi /\ d.no = Head(buf[t]).no
          BY <5>1, Fields
        <5>4. d.lo <= d.hi
          <6>1. Head(buf[t]).lo \in Nat /\ Head(buf[t]).hi \in Nat
            BY <2>c DEF Item
          <6>2. Head(buf[t]).lo + n <= Head(buf[t]).hi + 1 /\ n \in Nat
            BY <2>b, <2>c
          <6> QED
            BY <4>7, <5>3, <6>1, <6>2
        <5>5. FinOK(buf'[t], freed[f], leaked[f], commits[f])
          BY <2>1, <4>1, <4>3, <5>2, <5>3, FinCut
        <5>n. n \in Nat /\ buf[t] # <<>> /\ Head(buf[t]).type = "data"
          BY <2>1, <2>c
        <5>6. /\ Joined(<<d>> \o Tail(buf[t]), committed[f])
              /\ \A done \in Nat : Starts(buf[t], done, committed[f])
                   => Starts(<<d>> \o Tail(buf[t]), done + n, committed[f])
          BY <4>1, <4>3, <5>3, <5>4, <5>n, DataCut
        <5>7. Starts(buf[t], delivered[f], committed[f]) => Starts(buf'[t], delivered[f] + n, committed[f])
          BY <4>3, <5>2, <5>6
        <5> QED
          BY <3>3, <4>2, <4>3, <4>4, <4>5, <5>2, <5>5, <5>6, <5>7 DEF FlowOK
      <4> QED
        BY <4>6, <4>7
    <3> QED
      BY <3>2, <3>3
  <2> QED
    BY <2>2, <2>3, <2>4, <2>5, <2>6 DEF IInv
<1>19. CASE PollEvent
  <2>a. PICK n \in 1..BacklogSize : \E s \in [1..n -> {f \in Fds : Writable(f)}] :
          /\ \A j, k \in 1..n : s[j] = s[k] => j = k
          /\ out_queue' = out_queue \o s
          /\ oreg' = [f \in Fds |-> IF \E k \in 1..n : s[k] = f THEN "fired" ELSE oreg[f]]
          /\ UNCHANGED <<ctx, lock, threadVars, sockVars, histVars>>
    BY <1>19 DEF PollEvent
  <2>b. PICK s \in [1..n -> {f \in Fds : Writable(f)}] :
          /\ \A j, k \in 1..n : s[j] = s[k] => j = k
          /\ out_queue' = out_queue \o s
          /\ oreg' = [f \in Fds |-> IF \E k \in 1..n : s[k] = f THEN "fired" ELSE oreg[f]]
          /\ UNCHANGED <<ctx, lock, threadVars, sockVars, histVars>>
    BY <2>a
  <2>c. n \in Nat /\ s \in Seq(Fds) /\ Len(s) = n /\ \A k \in 1..n : s[k] \in Fds /\ oreg[s[k]] = "armed"
    BY RoomAssumption DEF Writable
  <2>1. /\ \A g \in Fds : oreg'[g] = IF \E k \in 1..n : s[k] = g THEN "fired" ELSE oreg[g]
        /\ UNCHANGED <<ctx, lock, pc, op, target, buf, result, open, room, broken, shut, commits,
                       committed, delivered, freed, leaked, stale, unwatched>>
    BY <2>b
  <2>d. /\ Len(out_queue') = Len(out_queue) + n /\ Len(out_queue) \in Nat
        /\ \A k \in 1..Len(out_queue) : out_queue'[k] = out_queue[k]
        /\ \A k \in (Len(out_queue) + 1)..Len(out_queue') :
             out_queue'[k] = s[k - Len(out_queue)] /\ k - Len(out_queue) \in 1..n
    <3>1. out_queue \in Seq(Fds) /\ out_queue' = out_queue \o s
      BY <1>a, <2>b DEF Types
    <3>2. Len(out_queue') = Len(out_queue) + n /\ Len(out_queue) \in Nat
      BY <2>c, <3>1, Behind
    <3>3. \A k \in 1..(Len(out_queue) + n) :
            out_queue'[k] = IF k <= Len(out_queue) THEN out_queue[k] ELSE s[k - Len(out_queue)]
      BY <2>c, <3>1, Behind
    <3> QED
      BY <2>c, <3>2, <3>3
  <2>2. Types'
    <3>1. out_queue' \in Seq(Fds)
      BY <1>a, <2>b, <2>c DEF Types
    <3>2. oreg' \in [Fds -> {"none", "armed", "fired"}]
      BY <1>a, <2>b DEF Types
    <3> QED
      BY <1>a, <2>1, <3>1, <3>2 DEF Types
  <2>3. LockOK'
    BY <1>b, <2>1 DEF LockOK
  <2>4. ASSUME NEW v \in Threads PROVE ThreadOK(v)'
    <3>1. ThreadOK(v)
      BY <1>c
    <3> QED
      BY <2>1, <3>1, ThreadFrame
  <2>5. ASSUME NEW h \in Fds PROVE WatchOK(h)'
    <3>1. WatchOK(h)
      BY <1>d
    <3>2. \A u \in Threads : Handles(u, h)' <=> Handles(u, h)
      BY <2>1 DEF Handles
    <3>3. \A k : QueuedAt(k, h) => QueuedAt(k, h)'
      BY <2>d, <2>c DEF QueuedAt
    <3>4. CASE ~\E k \in 1..n : s[k] = h
      <4>1. \A k : QueuedAt(k, h)' => QueuedAt(k, h)
        BY <2>c, <2>d, <3>4 DEF QueuedAt
      <4> QED
        BY <2>1, <3>1, <3>2, <3>3, <3>4, <4>1, WatchFrame
    <3>5. CASE \E k \in 1..n : s[k] = h
      <4>1. PICK i \in 1..n : s[i] = h
        BY <3>5
      <4>2. oreg[h] = "armed" /\ oreg'[h] = "fired" /\ ~InFlight(h)
        BY <2>1, <2>c, <3>1, <4>1 DEF WatchOK
      <4>3. \A k : ~QueuedAt(k, h)
        BY <4>2, InFlightIs
      <4>4. \A u \in Threads : ~Handles(u, h)'
        BY <3>2, <4>2, InFlightIs
      <4>5. \A k : QueuedAt(k, h)' => k = i + Len(out_queue)
        <5>1. ASSUME NEW k, QueuedAt(k, h)' PROVE k = i + Len(out_queue)
          <6>1. k \in 1..Len(out_queue') /\ out_queue'[k] = h
            BY <5>1 DEF QueuedAt
          <6>2. k \notin 1..Len(out_queue)
            BY <2>d, <4>3, <6>1 DEF QueuedAt
          <6>3. k - Len(out_queue) \in 1..n /\ s[k - Len(out_queue)] = h
            BY <2>c, <2>d, <6>1, <6>2
          <6>4. k - Len(out_queue) = i
            BY <2>b, <4>1, <6>3
          <6> QED
            BY <2>d, <6>1, <6>4
        <5> QED
          BY <5>1
      <4>6. InFlight(h)'
        <5>0. PICK m \in Nat : m = i + Len(out_queue)
          BY <2>c, <2>d
        <5>1. QueuedAt(m, h)'
          <6>1. m \in (Len(out_queue) + 1)..Len(out_queue') /\ m - Len(out_queue) = i
            BY <2>c, <2>d, <5>0
          <6>2. m \in 1..Len(out_queue') /\ out_queue'[m] = h
            BY <2>c, <2>d, <4>1, <6>1
          <6> QED
            BY <6>2 DEF QueuedAt
        <5> QED
          BY <5>1, InFlightIs
      <4>7. ctx[h] # <<>> /\ (~open[h] => oreg[h] = "none") /\ ~unwatched[h]
        BY <3>1, <4>2 DEF WatchOK
      <4>8. ctx'[h] # <<>> /\ open'[h] /\ ~unwatched'[h]
        BY <2>1, <4>2, <4>7
      <4> QED
        BY <4>2, <4>4, <4>5, <4>6, <4>8 DEF WatchOK
    <3> QED
      BY <3>4, <3>5
  <2>6. ASSUME NEW g \in Fds PROVE FlowOK(g)'
    <3>1. FlowOK(g) /\ Pending(g)' = Pending(g)
      BY <1>e, <2>1 DEF Pending
    <3> QED
      BY <2>1, <3>1, FlowFrame
  <2> QED
    BY <2>2, <2>3, <2>4, <2>5, <2>6 DEF IInv
<1>21. ASSUME NEW t \in Threads, SettleUnwatched(t) PROVE IInv'
  <2>a. PICK f \in Fds : f = target[t]
    BY <1>21, <1>c DEF SettleUnwatched, ThreadOK
  <2>1. /\ pc[t] = "settle"
        /\ op[t] # "event"
        /\ result[t] = "again"
        /\ \A g \in Fds : ctx'[g] = IF g = f THEN buf[t] ELSE ctx[g]
        /\ \A g \in Fds : unwatched'[g] = IF g = f THEN TRUE ELSE unwatched[g]
        /\ \A u \in Threads : pc'[u] = IF u = t THEN "idle" ELSE pc[u]
        /\ \A u \in Threads : op'[u] = IF u = t THEN "none" ELSE op[u]
        /\ \A u \in Threads : target'[u] = IF u = t THEN NoFd ELSE target[u]
        /\ \A u \in Threads : buf'[u] = IF u = t THEN <<>> ELSE buf[u]
        /\ \A u \in Threads : result'[u] = IF u = t THEN "none" ELSE result[u]
        /\ \A g \in Fds : lock'[g] = IF g = f THEN NoThread ELSE lock[g]
        /\ UNCHANGED <<oreg, out_queue, open, room, broken, shut, commits, committed, delivered,
                       freed, leaked, stale>>
    BY <1>21, <1>a, <2>a DEF SettleUnwatched, Types, Idle
  <2>o. \A u \in Threads : u # t /\ pc[u] \in {"exec", "settle"} => target[u] # f
    BY <1>a, <1>b, <2>1, <2>a DEF LockOK, Types
  <2>2. Types'
    <3>1. /\ pc' \in [Threads -> {"idle", "event", "exec", "settle"}]
          /\ op' \in [Threads -> {"none", "raw", "xfer", "write", "event"}]
          /\ target' \in [Threads -> Fds \union {NoFd}]
          /\ result' \in [Threads -> {"none", "again", "done", "fail"}]
          /\ lock' \in [Fds -> Threads \union {NoThread}]
      BY <1>21, <1>a DEF SettleUnwatched, Idle, Types
    <3>2. buf' \in [Threads -> Seq(Item)]
      BY <1>21, <1>a DEF SettleUnwatched, Idle, Types
    <3>3. ctx' \in [Fds -> Seq(Item)]
      BY <1>21, <1>a DEF SettleUnwatched, Types
    <3>4. unwatched' \in [Fds -> BOOLEAN]
      BY <1>21, <1>a, <2>a DEF SettleUnwatched, Types
    <3> QED
      BY <1>a, <2>1, <3>1, <3>2, <3>3, <3>4 DEF Types
  <2>3. LockOK'
    BY <1>b, <1>c, <2>1, <2>a DEF LockOK, ThreadOK
  <2>4. ASSUME NEW v \in Threads PROVE ThreadOK(v)'
    <3>1. ThreadOK(v) /\ ThreadOK(t) /\ WatchOK(f)
      BY <1>c, <1>d
    <3>2. CASE v = t
      BY <1>a, <1>b, <2>1, <3>1, <3>2, <2>a DEF Types, ThreadOK
    <3>3. CASE v # t
      <4>1. /\ pc'[v] = pc[v] /\ op'[v] = op[v] /\ target'[v] = target[v]
            /\ buf'[v] = buf[v] /\ result'[v] = result[v]
        BY <2>1, <3>3, <2>a DEF Return
      <4>2. pc[v] \in {"exec", "settle"} => target[v] \in Fds
        BY <3>1 DEF ThreadOK
      <4> QED
        BY <2>1, <2>o, <3>1, <3>3, <4>1, <4>2, ThreadFrame, <2>a
    <3> QED
      BY <3>2, <3>3
  <2>5. ASSUME NEW h \in Fds PROVE WatchOK(h)'
    <3>1. CASE h # f
      <4>1. WatchOK(h)
        BY <1>d
      <4>2. \A u \in Threads : Handles(u, h)' <=> Handles(u, h)
        BY <1>c, <2>1, <3>1, <2>a, CallAssumption DEF Handles, ThreadOK
      <4>3. \A k : QueuedAt(k, h)' <=> QueuedAt(k, h)
        BY <1>a, <2>1, <3>1 DEF QueuedAt
      <4>4. (ctx'[h] = <<>>) <=> (ctx[h] = <<>>)
        BY <2>1, <3>1
      <4> QED
        BY <1>a, <2>1, <3>1, <4>1, <4>2, <4>3, <4>4, WatchFrame DEF Types
    <3>2. CASE h = f
      <4>1. WatchOK(f) /\ ThreadOK(t)
        BY <1>c, <1>d
      <4>2. ctx[f] = <<>> /\ open[f] /\ buf[t] # <<>>
        BY <2>1, <2>a, <4>1 DEF ThreadOK
      <4>3. ~InFlight(f) /\ oreg[f] = "none"
        BY <4>1, <4>2 DEF WatchOK
      <4>4. \A u \in Threads : ~Handles(u, f)'
        BY <1>b, <2>1, <4>3, InFlightIs DEF Handles
      <4>5. \A k : ~QueuedAt(k, f)'
        BY <2>1, <4>3, InFlightIs DEF QueuedAt
      <4>6. ctx'[f] # <<>> /\ oreg'[f] = "none" /\ open'[f] /\ ~InFlight(f)' /\ unwatched'[f]
        BY <2>1, <4>2, <4>3, <4>4, <4>5, InFlightIs
      <4> QED
        BY <3>2, <4>4, <4>5, <4>6 DEF WatchOK
    <3> QED
      BY <3>1, <3>2
  <2>6. ASSUME NEW g \in Fds PROVE FlowOK(g)'
    <3>1. FlowOK(g)
      BY <1>e
    <3>2. CASE g # f
      <4>1. lock[g] # t /\ lock[g] \in Threads \union {NoThread}
        <5>1. lock[g] = t => pc[t] \in {"exec", "settle"} /\ target[t] = g
          BY <1>b DEF LockOK
        <5> QED
          BY <1>a, <2>1, <3>2, <5>1, <2>a DEF Types
      <4>2. Pending(g)' = Pending(g)
        BY <2>1, <3>2, <4>1, PendingSame
      <4> QED
        BY <2>1, <3>1, <3>2, <4>2, FlowFrame
    <3>3. CASE g = f
      <4>1. Pending(f)' = Pending(f)
        BY <1>a, <1>b, <1>c, <2>1, <2>a DEF Pending, LockOK, Types, ThreadOK
      <4> QED
        BY <2>1, <3>1, <3>3, <4>1, FlowFrame
    <3> QED
      BY <3>2, <3>3
  <2> QED
    BY <2>2, <2>3, <2>4, <2>5, <2>6 DEF IInv
<1>22. ASSUME NEW t \in Threads, SettleThrows(t) PROVE IInv'
  <2>a. PICK f \in Fds : f = target[t]
    BY <1>22, <1>c DEF SettleThrows, ThreadOK
  <2>1. /\ pc[t] = "settle"
        /\ op[t] # "event"
        /\ result[t] = "again"
        /\ \A u \in Threads : pc'[u] = IF u = t THEN "idle" ELSE pc[u]
        /\ \A u \in Threads : op'[u] = IF u = t THEN "none" ELSE op[u]
        /\ \A u \in Threads : target'[u] = IF u = t THEN NoFd ELSE target[u]
        /\ \A u \in Threads : buf'[u] = IF u = t THEN <<>> ELSE buf[u]
        /\ \A u \in Threads : result'[u] = IF u = t THEN "none" ELSE result[u]
        /\ \A g \in Fds : lock'[g] = IF g = f THEN NoThread ELSE lock[g]
        /\ \A g \in Fds : committed'[g] = IF g = f THEN Head(buf[t]).lo - 1 ELSE committed[g]
        /\ UNCHANGED <<ctx, oreg, out_queue, open, room, broken, shut, commits, delivered,
                       stale, unwatched>>
    BY <1>22, <1>a, <2>a DEF SettleThrows, Types, Idle
  <2>o. \A u \in Threads : u # t /\ pc[u] \in {"exec", "settle"} => target[u] # f
    BY <1>a, <1>b, <2>1, <2>a DEF LockOK, Types
  <2>s. /\ lock[f] = t /\ Pending(f) = buf[t] /\ buf[t] \in Seq(Item) /\ buf[t] # <<>>
        /\ Head(buf[t]).type = "data"
    <3>1. lock[f] = t /\ buf[t] \in Seq(Item)
      BY <1>a, <1>b, <2>1, <2>a DEF LockOK, Types
    <3>2. buf[t] # <<>> /\ Head(buf[t]).type = "data"
      BY <1>c, <2>1 DEF ThreadOK
    <3> QED
      BY <1>b, <3>1, <3>2 DEF Pending
  <2>i. /\ 1 \in DataIn(buf[t]) /\ Head(buf[t]) = buf[t][1] /\ buf[t][1] \in Item
        /\ \A k \in DataIn(buf[t]) : 1 <= k
    BY <2>s, TailAt, DataInTail
  <2>n. Head(buf[t]).lo - 1 \in Nat
    <3>1. Joined(buf[t], committed[f])
      BY <1>e, <2>s DEF FlowOK
    <3>2. 0 < buf[t][1].lo
      BY <2>i, <3>1 DEF Joined
    <3>3. buf[t][1].lo \in Nat
      BY <2>i DEF Item
    <3> QED
      BY <2>i, <3>2, <3>3
  <2>2. Types'
    <3>1. /\ pc' \in [Threads -> {"idle", "event", "exec", "settle"}]
          /\ op' \in [Threads -> {"none", "raw", "xfer", "write", "event"}]
          /\ target' \in [Threads -> Fds \union {NoFd}]
          /\ result' \in [Threads -> {"none", "again", "done", "fail"}]
          /\ lock' \in [Fds -> Threads \union {NoThread}]
      BY <1>22, <1>a DEF SettleThrows, Idle, Types
    <3>2. buf' \in [Threads -> Seq(Item)]
      BY <1>22, <1>a DEF SettleThrows, Idle, Types
    <3>3. Finalizers(buf[t]) \subseteq Nat
      BY <1>a, FinalizersNat DEF Types
    <3>4. freed' \in [Fds -> SUBSET Nat] /\ leaked' \in [Fds -> SUBSET Nat]
      <4>1. freed[f] \union Finalizers(buf[t]) \in SUBSET Nat /\ leaked[f] \union Finalizers(buf[t]) \in SUBSET Nat
        BY <1>a, <3>3 DEF Types
      <4>2. \/ freed' = [freed EXCEPT ![f] = @ \union Finalizers(buf[t])] /\ leaked' = leaked
            \/ leaked' = [leaked EXCEPT ![f] = @ \union Finalizers(buf[t])] /\ freed' = freed
        BY <1>22, <2>a DEF SettleThrows
      <4>3. CASE freed' = [freed EXCEPT ![f] = @ \union Finalizers(buf[t])] /\ leaked' = leaked
        BY <1>a, <4>1, <4>3 DEF Types
      <4>4. CASE leaked' = [leaked EXCEPT ![f] = @ \union Finalizers(buf[t])] /\ freed' = freed
        BY <1>a, <4>1, <4>4 DEF Types
      <4> QED
        BY <4>2, <4>3, <4>4
    <3>5. committed' \in [Fds -> Nat]
      <4>1. committed' = [committed EXCEPT ![f] = Head(buf[t]).lo - 1]
        BY <1>22, <2>a DEF SettleThrows
      <4> QED
        BY <1>a, <2>n, <4>1 DEF Types
    <3> QED
      BY <1>a, <2>1, <3>1, <3>2, <3>4, <3>5 DEF Types
  <2>3. LockOK'
    BY <1>b, <1>c, <2>1, <2>a DEF LockOK, ThreadOK
  <2>4. ASSUME NEW v \in Threads PROVE ThreadOK(v)'
    <3>1. ThreadOK(v) /\ ThreadOK(t) /\ WatchOK(f)
      BY <1>c, <1>d
    <3>2. CASE v = t
      BY <1>a, <1>b, <2>1, <3>1, <3>2, <2>a DEF Types, ThreadOK
    <3>3. CASE v # t
      <4>1. /\ pc'[v] = pc[v] /\ op'[v] = op[v] /\ target'[v] = target[v]
            /\ buf'[v] = buf[v] /\ result'[v] = result[v]
        BY <2>1, <3>3, <2>a DEF Return
      <4>2. pc[v] \in {"exec", "settle"} => target[v] \in Fds
        BY <3>1 DEF ThreadOK
      <4> QED
        BY <2>1, <2>o, <3>1, <3>3, <4>1, <4>2, ThreadFrame, <2>a
    <3> QED
      BY <3>2, <3>3
  <2>5. ASSUME NEW h \in Fds PROVE WatchOK(h)'
    <3>1. WatchOK(h)
      BY <1>d
    <3>2. \A u \in Threads : Handles(u, h)' <=> Handles(u, h)
      BY <1>c, <2>1, <2>a, CallAssumption DEF Handles, ThreadOK
    <3>3. \A k : QueuedAt(k, h)' <=> QueuedAt(k, h)
      BY <2>1 DEF QueuedAt
    <3>4. (ctx'[h] = <<>>) <=> (ctx[h] = <<>>)
      BY <2>1
    <3> QED
      BY <1>a, <2>1, <3>1, <3>2, <3>3, <3>4, WatchFrame DEF Types
  <2>6. ASSUME NEW g \in Fds PROVE FlowOK(g)'
    <3>1. FlowOK(g)
      BY <1>e
    <3>2. CASE g # f
      <4>1. lock[g] # t /\ lock[g] \in Threads \union {NoThread}
        BY <1>a, <1>b, <2>1, <3>2, <2>a DEF LockOK, Types
      <4>2. Pending(g)' = Pending(g)
        BY <2>1, <3>2, <4>1, PendingSame
      <4>3. freed'[g] = freed[g] /\ leaked'[g] = leaked[g]
        BY <1>22, <1>a, <2>a, <3>2 DEF SettleThrows, Types
      <4> QED
        BY <2>1, <3>1, <3>2, <4>2, <4>3, FlowFrame
    <3>3. CASE g = f
      <4>1. lock[f] = t /\ Pending(f) = buf[t] /\ buf[t] \in Seq(Item)
        BY <1>a, <1>b, <2>1, <2>a DEF Pending, LockOK, Types
      <4>2. Pending(f)' = <<>>
        BY <1>b, <1>c, <2>1, <2>a DEF Pending, ThreadOK
      <4>3. Starts(buf[t], delivered[f], committed[f]) => delivered'[f] = committed'[f]
        <5>1. ASSUME Starts(buf[t], delivered[f], committed[f]) PROVE buf[t][1].lo = delivered[f] + 1
          BY <2>i, <5>1 DEF Starts
        <5>2. delivered' = delivered /\ delivered[f] \in Nat /\ committed'[f] = buf[t][1].lo - 1
          BY <1>a, <2>1, <2>i DEF Types
        <5> QED
          BY <5>1, <5>2
      <4>4. commits[f] \in Nat /\ FinOK(buf[t], freed[f], leaked[f], commits[f])
        BY <1>a, <3>1, <3>3, <4>1 DEF FlowOK, Types
      <4>5. \/ freed'[f] = freed[f] /\ leaked'[f] = leaked[f] \union Finalizers(buf[t])
            \/ freed'[f] = freed[f] \union Finalizers(buf[t]) /\ leaked'[f] = leaked[f]
        BY <1>22, <1>a, <2>a DEF SettleThrows, Types
      <4>6. FinOK(Pending(f)', freed'[f], leaked'[f], commits'[f])
        <5>1. /\ FinOK(<<>>, freed[f] \union Finalizers(buf[t]), leaked[f], commits[f])
              /\ FinOK(<<>>, freed[f], leaked[f] \union Finalizers(buf[t]), commits[f])
          BY <4>4, FinEnds
        <5>2. commits' = commits
          BY <2>1
        <5> QED
          BY <4>2, <4>5, <5>1, <5>2
      <4>7. Joined(Pending(f)', committed'[f])
        BY <4>2, NothingPending
      <4>8. open'[f] /\ ~stale'[f] /\ ~broken'[f] => Starts(buf[t], delivered[f], committed[f])
        <5>1. open' = open /\ stale' = stale /\ broken' = broken
          BY <2>1
        <5> QED
          BY <3>1, <3>3, <4>1, <5>1 DEF FlowOK
      <4>9. \A last : Starts(<<>>, last, last)
        BY NothingPending
      <4> QED
        BY <3>3, <4>2, <4>3, <4>6, <4>7, <4>8, <4>9 DEF FlowOK
    <3> QED
      BY <3>2, <3>3
  <2> QED
    BY <2>2, <2>3, <2>4, <2>5, <2>6 DEF IInv
<1>20. CASE UNCHANGED vars
  BY <1>20, IInvFrame DEF vars
<1> QED
  BY <1>1, <1>2, <1>3, <1>4, <1>5, <1>6, <1>7, <1>8, <1>9, <1>10, <1>11,
     <1>12, <1>13, <1>14, <1>15, <1>16, <1>17, <1>18, <1>19, <1>20, <1>21, <1>22
     DEF Next, Commit, Execute, Settle

-----------------------------------------------------------------------------
(* What follows from it.                                                   *)

\* A set without two members.
LEMMA AtMostOne ==
  ASSUME NEW S, \A x, y \in S : x = y
  PROVE  Cardinality(S) = IF S = {} THEN 0 ELSE 1
<1>1. CASE S = {}
  BY <1>1, FS_EmptySet
<1>2. CASE S # {}
  <2>1. PICK x : S = {x}
    BY <1>2
  <2> QED
    BY <1>2, <2>1, FS_Singleton
<1> QED
  BY <1>1, <1>2

\* The tokens of a descriptor, counted.
LEMMA IInvWatches == IInv => WatchedWhilePending
<1> SUFFICES ASSUME IInv, NEW f \in Fds
             PROVE  /\ Tokens(f) <= 1
                    /\ ctx[f] = <<>> => Tokens(f) = 0 /\ oreg[f] = "none"
                    /\ ctx[f] # <<>> /\ ~stale[f] /\ ~unwatched[f] => Tokens(f) = 1 /\ oreg[f] # "none"
                    /\ unwatched[f] => ctx[f] # <<>> /\ Tokens(f) = 0
  BY DEF WatchedWhilePending
<1> DEFINE Q == {k \in 1..Len(out_queue) : out_queue[k] = f}
           H == {t \in Threads : op[t] = "event" /\ target[t] = f}
<1>1. WatchOK(f)
  BY DEF IInv
<1>2. \A k : k \in Q <=> QueuedAt(k, f)
  BY DEF QueuedAt
<1>3. \A t : t \in H <=> t \in Threads /\ Handles(t, f)
  BY DEF Handles
<1>4. InFlight(f) <=> Q # {} \/ H # {}
  <2>1. InFlight(f) <=> (\E k : QueuedAt(k, f)) \/ (\E t \in Threads : Handles(t, f))
    BY InFlightIs
  <2> HIDE DEF Q, H
  <2> QED
    BY <1>2, <1>3, <2>1
<1>t. Tokens(f) = (IF oreg[f] = "armed" THEN 1 ELSE 0) + Cardinality(Q) + Cardinality(H)
  BY DEF Tokens
<1> HIDE DEF Q, H
<1>5. Cardinality(Q) = IF Q = {} THEN 0 ELSE 1
  <2>1. \A x, y \in Q : x = y
    BY <1>1, <1>2 DEF WatchOK
  <2> QED
    BY <2>1, AtMostOne
<1>6. Cardinality(H) = IF H = {} THEN 0 ELSE 1
  <2>1. \A x, y \in H : x = y
    BY <1>1, <1>3 DEF WatchOK
  <2> QED
    BY <2>1, AtMostOne
<1>7. Q = {} \/ H = {}
  BY <1>1, <1>2, <1>3 DEF WatchOK
<1>8. /\ oreg[f] = "armed" => ~InFlight(f)
      /\ InFlight(f) \/ oreg[f] # "none" => ctx[f] # <<>>
      /\ ctx[f] # <<>> /\ ~stale[f] /\ ~unwatched[f]
           => oreg[f] # "none" /\ (oreg[f] = "armed" \/ InFlight(f))
      /\ unwatched[f] => ctx[f] # <<>> /\ oreg[f] # "armed" /\ ~InFlight(f)
  BY <1>1 DEF WatchOK
<1> QED
  BY <1>4, <1>5, <1>6, <1>7, <1>8, <1>t

\* The finalizers, as sets.
LEMMA IInvFinalizes == IInv => FinalizedOnce
<1> SUFFICES ASSUME IInv, NEW f \in Fds, NEW s, s = Pending(f)
             PROVE  /\ Finalizers(s) \union freed[f] \union leaked[f] = 1..commits[f]
                    /\ Finalizers(s) \cap freed[f] = {} /\ Finalizers(s) \cap leaked[f] = {}
                    /\ freed[f] \cap leaked[f] = {}
                    /\ \A i, j \in 1..Len(s) : i < j /\ s[i].type = "fin" => s[j].no # s[i].no
                    /\ \A i \in 1..Len(s) : s[i].no \notin freed[f]
  BY DEF FinalizedOnce
<1>1. FinOK(s, freed[f], leaked[f], commits[f])
  BY DEF IInv, FlowOK
<1>2. \A m : m \in Finalizers(s) <=> Waits(s, m)
  BY DEF Finalizers, Waits
<1>3. \A m : Waits(s, m) => m \in 1..commits[f] /\ m \notin freed[f] /\ m \notin leaked[f]
  BY <1>1 DEF FinOK, Waits
<1>4. /\ \A m \in 1..commits[f] : m \in freed[f] \/ m \in leaked[f] \/ Waits(s, m)
      /\ freed[f] \subseteq 1..commits[f] /\ leaked[f] \subseteq 1..commits[f]
      /\ freed[f] \cap leaked[f] = {}
  BY <1>1 DEF FinOK
<1>5. /\ \A i, j \in 1..Len(s) : i < j /\ s[i].type = "fin" => s[j].no # s[i].no
      /\ \A i \in 1..Len(s) : s[i].no \notin freed[f]
  BY <1>1 DEF FinOK
<1> QED
  BY <1>2, <1>3, <1>4, <1>5

\* The bytes, in order.
LEMMA IInvStreams == IInv => StreamIntact
<1> SUFFICES ASSUME IInv, NEW f \in Fds
             PROVE  LET s == Pending(f)
                        D == DataIn(s)
                    IN  /\ \A i \in D : s[i].lo <= s[i].hi
                        /\ \A i, j \in D : i < j /\ (\A k \in D : ~(i < k /\ k < j)) => s[i].hi + 1 = s[j].lo
                        /\ open[f] /\ ~stale[f] /\ ~broken[f] =>
                             /\ D = {} => delivered[f] = committed[f]
                             /\ \A i \in D : (\A k \in D : i <= k) => s[i].lo = delivered[f] + 1
                             /\ \A i \in D : (\A k \in D : k <= i) => s[i].hi = committed[f]
  BY DEF StreamIntact
<1>1. /\ Joined(Pending(f), committed[f])
      /\ open[f] /\ ~stale[f] /\ ~broken[f] => Starts(Pending(f), delivered[f], committed[f])
  BY DEF IInv, FlowOK
<1> QED
  BY <1>1 DEF Joined, Starts

\* The state of the contexts, workers and sockets described by IInv is never
\* left.
THEOREM Invariance == Spec => []IInv
<1> QED
  BY IInvInit, IInvStep, PTL DEF Spec

\* The variables keep their types, and the mutex of a context is held by the
\* worker that executes its items, and by no other (wavy_out.cc: the
\* pthread_scoped_lock of commit_raw, commit, write and write_event).
THEOREM TypeCorrect == Spec => []TypeOK
<1>1. IInv => TypeOK
  BY DEF IInv, Types, LockOK, TypeOK
<1> QED
  BY <1>1, Invariance, PTL

\* Queued output is always on its way, exactly once: for any number of workers
\* and descriptors and any calls, a context that is not empty has one armed
\* registration, one queued write event or one worker in write_event, until the
\* descriptor is closed in the middle of its output; an empty one has none.  If
\* add_fd fails in watch (wavy_out.cc:440) the context is never empty again and
\* nothing ever comes for it.
THEOREM OutputWatched == Spec => []WatchedWhilePending
<1> QED
  BY IInvWatches, Invariance, PTL

\* Bytes reach the socket in the order of the commits, none twice and none left
\* out, whoever writes them: the committing worker or write_event.
THEOREM BytesInOrder == Spec => []StreamIntact
<1> QED
  BY IInvStreams, Invariance, PTL

\* The finalizer of a commit runs at most once, after the data in front of it,
\* and is dropped only where commit_raw fails or throws.
THEOREM MemoryFreedOnce == Spec => []FinalizedOnce
<1> QED
  BY IInvFinalizes, Invariance, PTL

-----------------------------------------------------------------------------
(* The memory that the items are in: XferBuffer, for buffers of any size.  *)

\* The types of an item.
ItemType(t) == t = 1 \/ t = 3 \/ \E k \in Nat : t = 2 * k

\* The set B of places at which the items of m begin, and its end.
Divides(m, B) ==
  /\ B \subseteq 0..Len(m) /\ 0 \in B /\ Len(m) \in B
  /\ \A b \in B : b < Len(m) => ItemType(m[b + 1].a) /\ b + SizeOf(m[b + 1].a) \in B
  /\ \A b, c \in B : b < c => b + SizeOf(m[b + 1].a) <= c

\* m is whole items, one behind the other.
Divided(m, S, B) == m \in Seq(S) /\ Divides(m, B)
Sized(m) == \E S, B : Divided(m, S, B)

\* A part of a sequence.
LEMMA PartAt ==
  ASSUME NEW S, NEW s \in Seq(S), NEW a \in Nat, a <= Len(s)
  PROVE  /\ SubSeq(s, a + 1, Len(s)) \in Seq(S) /\ Len(SubSeq(s, a + 1, Len(s))) = Len(s) - a
         /\ \A i \in 1..(Len(s) - a) : SubSeq(s, a + 1, Len(s))[i] = s[a + i]
<1>1. PICK b \in Nat : b = Len(s)
  OBVIOUS
<1>2. \A i \in (a + 1)..b : s[i] \in S
  BY <1>1
<1>3. a + 1 \in Int /\ b \in Int
  OBVIOUS
<1>4. /\ SubSeq(s, a + 1, b) \in Seq(S)
      /\ Len(SubSeq(s, a + 1, b)) = IF a + 1 <= b THEN b - (a + 1) + 1 ELSE 0
      /\ \A i \in 1..(b - (a + 1) + 1) : SubSeq(s, a + 1, b)[i] = s[(a + 1) + i - 1]
  BY <1>2, <1>3, SubSeqProperties
<1>5. b - (a + 1) + 1 = b - a /\ \A i \in 1..(b - a) : (a + 1) + i - 1 = a + i
  OBVIOUS
<1>6. Len(SubSeq(s, a + 1, b)) = b - a
  <2>1. CASE a + 1 <= b
    BY <1>4, <1>5, <2>1
  <2>2. CASE ~(a + 1 <= b)
    <3>1. b - a = 0
      BY <1>1, <2>2
    <3> QED
      BY <1>4, <2>2, <3>1
  <2> QED
    BY <2>1, <2>2
<1>7. \A i \in 1..(b - a) : SubSeq(s, a + 1, b)[i] = s[a + i]
  BY <1>4, <1>5
<1> QED
  BY <1>1, <1>4, <1>6, <1>7

\* The size of an item by its type (sizeof_mem, sizeof_sendfile, sizeof_finalize).
LEMMA SizeType ==
  /\ SizeOf(1) = 7 /\ SizeOf(3) = 5
  /\ \A k \in Nat : SizeOf(2 * k) = 1 + 4 * k /\ (2 * k) \div 2 = k
  /\ \A t : ItemType(t) => SizeOf(t) \in Nat /\ SizeOf(t) > 0
<1>1. SizeOf(1) = 7 /\ SizeOf(3) = 5
  BY DEF SizeOf, XF_SENDFILE, XF_FINALIZE
<1>2. ASSUME NEW k \in Nat PROVE SizeOf(2 * k) = 1 + 4 * k /\ (2 * k) \div 2 = k
  <2>1. 2 * k # 1 /\ 2 * k # 3 /\ (2 * k) \div 2 = k
    OBVIOUS
  <2> QED
    BY <2>1 DEF SizeOf, XF_SENDFILE, XF_FINALIZE
<1>3. ASSUME NEW t, ItemType(t) PROVE SizeOf(t) \in Nat /\ SizeOf(t) > 0
  <2>1. CASE t = 1 \/ t = 3
    BY <1>1, <2>1
  <2>2. ASSUME NEW k \in Nat, t = 2 * k PROVE SizeOf(t) \in Nat /\ SizeOf(t) > 0
    BY <1>2, <2>2
  <2> QED
    BY <1>3, <2>1, <2>2 DEF ItemType
<1> QED
  BY <1>1, <1>2, <1>3

\* Nothing is whole items.
LEMMA EmptySized == Sized(<<>>)
<1>1. Len(<<>>) = 0 /\ <<>> \in Seq(Nat)
  OBVIOUS
<1>2. Divides(<<>>, {0})
  BY <1>1 DEF Divides
<1> QED
  BY <1>1, <1>2 DEF Sized, Divided

\* One item.
LEMMA ItemSized ==
  ASSUME NEW S, NEW s \in Seq(S), ItemType(s[1].a), Len(s) = SizeOf(s[1].a)
  PROVE  Sized(s)
<1>1. PICK n : n = Len(s) /\ n \in Nat /\ n > 0
  BY SizeType
<1>2. Divides(s, {0, n})
  <2>1. {0, n} \subseteq 0..Len(s)
    BY <1>1
  <2>2. ASSUME NEW b \in {0, n}, b < Len(s) PROVE b = 0 /\ ItemType(s[b + 1].a) /\ b + SizeOf(s[b + 1].a) = n
    <3>1. b = 0
      BY <1>1, <2>2
    <3>2. b + 1 = 1
      BY <3>1
    <3> QED
      BY <1>1, <3>1, <3>2
  <2>3. ASSUME NEW b \in {0, n}, NEW c \in {0, n}, b < c PROVE b + SizeOf(s[b + 1].a) <= c
    <3>1. b = 0 /\ c = n /\ b < Len(s)
      BY <1>1, <2>3
    <3> QED
      BY <1>1, <2>2, <3>1
  <2> QED
    BY <1>1, <2>1, <2>2, <2>3 DEF Divides
<1> QED
  BY <1>2 DEF Sized, Divided

\* What is behind the beginning of an item.
LEMMA RestSized ==
  ASSUME NEW S, NEW m, NEW B, Divided(m, S, B), NEW b \in B
  PROVE  /\ b \in Nat /\ b <= Len(m) /\ Len(m) \in Nat
         /\ SubSeq(m, b + 1, Len(m)) \in Seq(S)
         /\ Len(SubSeq(m, b + 1, Len(m))) = Len(m) - b
         /\ Sized(SubSeq(m, b + 1, Len(m)))
<1>1. m \in Seq(S) /\ Divides(m, B)
  BY DEF Divided
<1>2. PICK n \in Nat : n = Len(m)
  BY <1>1
<1>3. B \subseteq 0..n /\ n \in B /\ b \in Nat /\ b <= n
  BY <1>1, <1>2 DEF Divides
<1>4. PICK q : q = SubSeq(m, b + 1, n)
  OBVIOUS
<1>5. q \in Seq(S) /\ Len(q) = n - b /\ \A i \in 1..(n - b) : q[i] = m[b + i]
  BY <1>1, <1>2, <1>3, <1>4, PartAt
<1> DEFINE C == {i \in 0..(n - b) : b + i \in B}
<1>6. \A i \in C : i < n - b => q[i + 1] = m[(b + i) + 1]
  <2> SUFFICES ASSUME NEW i \in C, i < n - b PROVE q[i + 1] = m[(b + i) + 1]
    OBVIOUS
  <2>1. i + 1 \in 1..(n - b) /\ b + (i + 1) = (b + i) + 1
    BY <1>3
  <2> QED
    BY <1>5, <2>1
<1>7. C \subseteq 0..Len(q) /\ 0 \in C /\ Len(q) \in C
  BY <1>3, <1>5
<1>8. ASSUME NEW i \in C, i < n - b
      PROVE  ItemType(q[i + 1].a) /\ i + SizeOf(q[i + 1].a) \in C
  <2>1. PICK e : e = b + i /\ e \in B /\ e < n /\ q[i + 1] = m[e + 1]
    BY <1>3, <1>6, <1>8
  <2>2. ItemType(m[e + 1].a) /\ e + SizeOf(m[e + 1].a) \in B
    BY <1>1, <1>2, <2>1 DEF Divides
  <2>3. PICK z : z = SizeOf(m[e + 1].a) /\ z \in Nat /\ z > 0
    BY <2>2, SizeType
  <2>4. b + (i + z) \in B /\ i + z \in 0..(n - b)
    <3>1. b + (i + z) = e + z
      BY <1>3, <2>1, <2>3
    <3>2. e + z <= n
      <4>1. e + z \in B
        BY <2>2, <2>3
      <4>2. e + z \in 0..n
        BY <1>3, <4>1
      <4> QED
        BY <4>2
    <3> QED
      BY <1>3, <2>1, <2>2, <2>3, <3>1, <3>2
  <2> QED
    BY <2>1, <2>2, <2>3, <2>4
<1>9. ASSUME NEW i \in C, NEW j \in C, i < j PROVE i + SizeOf(q[i + 1].a) <= j
  <2>1. i < n - b
    BY <1>3, <1>9
  <2>2. PICK e, f : e = b + i /\ e \in B /\ e < n /\ q[i + 1] = m[e + 1] /\ f = b + j /\ f \in B /\ e < f
    BY <1>3, <1>6, <1>9, <2>1
  <2>3. ItemType(m[e + 1].a) /\ e + SizeOf(m[e + 1].a) <= f
    BY <1>1, <1>2, <2>2 DEF Divides
  <2>4. PICK z : z = SizeOf(m[e + 1].a) /\ z \in Nat
    BY <2>3, SizeType
  <2> QED
    BY <1>3, <2>2, <2>3, <2>4
<1>10. Divides(q, C)
  <2> HIDE DEF C
  <2> QED
    BY <1>5, <1>7, <1>8, <1>9 DEF Divides
<1>11. Sized(q)
  BY <1>5, <1>10 DEF Sized, Divided
<1> QED
  BY <1>2, <1>3, <1>4, <1>5, <1>11

\* Items behind items.
LEMMA ConcatSized ==
  ASSUME NEW m, NEW q, Sized(m), Sized(q)
  PROVE  /\ Sized(m \o q) /\ Len(m \o q) = Len(m) + Len(q)
         /\ Len(m) \in Nat /\ Len(q) \in Nat
<1>1. PICK S1, B : Divided(m, S1, B)
  BY DEF Sized
<1>2. PICK S2, C : Divided(q, S2, C)
  BY DEF Sized
<1>3. PICK S : S = S1 \union S2
  OBVIOUS
<1>4. m \in Seq(S) /\ q \in Seq(S) /\ Divides(m, B) /\ Divides(q, C)
  <2>1. m \in Seq(S1) /\ q \in Seq(S2) /\ S1 \subseteq S /\ S2 \subseteq S
    BY <1>1, <1>2, <1>3 DEF Divided
  <2>2. Seq(S1) \subseteq Seq(S) /\ Seq(S2) \subseteq Seq(S)
    BY <2>1, SeqMonotonic
  <2> QED
    BY <1>1, <1>2, <2>1, <2>2 DEF Divided
<1>5. PICK x, y \in Nat : x = Len(m) /\ y = Len(q)
  BY <1>4
<1>6. PICK z : z = m \o q
  OBVIOUS
<1>7. z \in Seq(S) /\ Len(z) = x + y /\ \A i \in 1..(x + y) : z[i] = IF i <= x THEN m[i] ELSE q[i - x]
  <2>1. /\ m \o q \in Seq(S) /\ Len(m \o q) = Len(m) + Len(q)
        /\ \A i \in 1..(Len(m) + Len(q)) : (m \o q)[i] = IF i <= Len(m) THEN m[i] ELSE q[i - Len(m)]
    BY <1>4, ConcatProperties
  <2> QED
    BY <1>5, <1>6, <2>1
<1>8. B \subseteq 0..x /\ 0 \in B /\ x \in B /\ C \subseteq 0..y /\ 0 \in C /\ y \in C
  BY <1>4, <1>5 DEF Divides
<1> DEFINE D == {i \in 0..(x + y) : IF i <= x THEN i \in B ELSE i - x \in C}
<1>9. D \subseteq 0..Len(z) /\ 0 \in D /\ Len(z) \in D
  BY <1>5, <1>7, <1>8
<1>10. ASSUME NEW i \in D, i < x
       PROVE  /\ i \in B /\ z[i + 1] = m[i + 1] /\ ItemType(m[i + 1].a)
              /\ i + SizeOf(m[i + 1].a) \in B
  <2>1. i \in B /\ i + 1 \in 1..(x + y) /\ i + 1 <= x
    BY <1>5, <1>10
  <2>2. ItemType(m[i + 1].a) /\ i + SizeOf(m[i + 1].a) \in B
    BY <1>4, <1>5, <1>10, <2>1 DEF Divides
  <2> QED
    BY <1>7, <2>1, <2>2
<1>11. ASSUME NEW i \in D, x <= i
       PROVE  i - x \in C
  BY <1>5, <1>8, <1>11
<1>12. ASSUME NEW i \in D, x <= i, i < x + y, NEW j, j = i - x
       PROVE  /\ j \in C /\ z[i + 1] = q[j + 1] /\ ItemType(q[j + 1].a)
              /\ j + SizeOf(q[j + 1].a) \in C
  <2>1. j \in C /\ j < y
    BY <1>5, <1>11, <1>12
  <2>2. i + 1 \in 1..(x + y) /\ ~(i + 1 <= x) /\ (i + 1) - x = j + 1
    BY <1>5, <1>12
  <2>3. ItemType(q[j + 1].a) /\ j + SizeOf(q[j + 1].a) \in C
    BY <1>4, <1>5, <2>1 DEF Divides
  <2> QED
    BY <1>7, <2>1, <2>2, <2>3
<1>13. ASSUME NEW i \in B PROVE i \in D
  BY <1>5, <1>8
<1>14. ASSUME NEW j \in C PROVE x + j \in D
  <2>1. j \in 0..y
    BY <1>8
  <2>2. x + j \in 0..(x + y) /\ (x + j) - x = j
    BY <1>5, <2>1
  <2>3. CASE x + j <= x
    <3>1. x + j = x
      BY <1>5, <2>1, <2>3
    <3> QED
      BY <1>8, <2>2, <3>1
  <2>4. CASE ~(x + j <= x)
    BY <2>2, <2>4
  <2> QED
    BY <2>3, <2>4
<1>15. ASSUME NEW i \in D, i < Len(z)
       PROVE  ItemType(z[i + 1].a) /\ i + SizeOf(z[i + 1].a) \in D
  <2>0. i \in Nat
    OBVIOUS
  <2>1. CASE i < x
    BY <1>10, <1>13, <2>1
  <2>2. CASE ~(i < x)
    <3>1. PICK j : j = i - x
      OBVIOUS
    <3>2. x <= i /\ i < x + y
      BY <1>5, <1>7, <1>15, <2>0, <2>2
    <3>3. j \in C /\ z[i + 1] = q[j + 1] /\ ItemType(q[j + 1].a) /\ j + SizeOf(q[j + 1].a) \in C
      BY <1>12, <3>1, <3>2
    <3>4. PICK e : e = SizeOf(q[j + 1].a) /\ e \in Nat
      BY <3>3, SizeType
    <3>5. x + (j + e) \in D
      BY <1>14, <3>3, <3>4
    <3>6. j \in Int /\ x + j = i
      BY <2>0, <3>1
    <3>7. x + (j + e) = i + e
      BY <3>4, <3>6
    <3> QED
      BY <3>3, <3>4, <3>5, <3>7
  <2> QED
    BY <2>1, <2>2
<1>16. ASSUME NEW i \in D, NEW k \in D, i < k
       PROVE  i + SizeOf(z[i + 1].a) <= k
  <2>0. i \in Nat /\ k \in Nat /\ i < x + y
    BY <1>5, <1>16
  <2>1. CASE i < x /\ k <= x
    <3>1. i \in B /\ k \in B /\ z[i + 1] = m[i + 1]
      BY <1>10, <2>1
    <3> QED
      BY <1>4, <1>16, <3>1 DEF Divides
  <2>2. CASE i < x /\ ~(k <= x)
    <3>1. z[i + 1] = m[i + 1] /\ ItemType(m[i + 1].a) /\ i + SizeOf(m[i + 1].a) \in B
      BY <1>10, <2>2
    <3>2. PICK e : e = SizeOf(m[i + 1].a) /\ e \in Nat /\ i + e <= x
      BY <1>5, <1>8, <3>1, SizeType
    <3> QED
      BY <1>5, <2>0, <2>2, <3>1, <3>2
  <2>3. CASE ~(i < x)
    <3>1. PICK j, l : j = i - x /\ l = k - x
      OBVIOUS
    <3>2. x <= i /\ x <= k
      BY <1>5, <1>16, <2>0, <2>3
    <3>3. j \in C /\ z[i + 1] = q[j + 1] /\ ItemType(q[j + 1].a) /\ l \in C
      BY <1>11, <1>12, <2>0, <3>1, <3>2
    <3>4. j < l
      BY <1>5, <1>16, <2>0, <3>1
    <3>5. j + SizeOf(q[j + 1].a) <= l
      BY <1>4, <3>3, <3>4 DEF Divides
    <3>6. PICK e : e = SizeOf(q[j + 1].a) /\ e \in Nat
      BY <3>3, SizeType
    <3> QED
      BY <1>5, <2>0, <3>1, <3>3, <3>5, <3>6
  <2> QED
    BY <2>1, <2>2, <2>3
<1>17. Divides(z, D)
  <2> HIDE DEF D
  <2> QED
    BY <1>9, <1>15, <1>16 DEF Divides
<1>18. Sized(z)
  BY <1>7, <1>17 DEF Sized, Divided
<1> QED
  BY <1>5, <1>6, <1>7, <1>18

-----------------------------------------------------------------------------
(* What the fill functions write.                                          *)

\* A value of n cells.
Cells(v, n, a) == (\E S : v \in Seq(S)) /\ Len(v) = n /\ \A i \in 1..n : v[i].a = a

\* A value is cells with one number.
LEMMA ValueCells ==
  ASSUME NEW kind, NEW a, NEW b, NEW n \in Nat
  PROVE  Cells(Value(kind, a, b, n), n, a)
<1> DEFINE c(i) == [kind |-> kind, a |-> a, b |-> b, i |-> i]
           S == {c(i) : i \in 1..n}
<1>1. Value(kind, a, b, n) = [i \in 1..n |-> c(i)]
  BY DEF Value
<1>2. \A i \in 1..n : c(i).a = a
  OBVIOUS
<1> HIDE DEF c
<1>3. [i \in 1..n |-> c(i)] \in [1..n -> S]
  OBVIOUS
<1> HIDE DEF S
<1>4. \A v \in [1..n -> S] : v \in Seq(S) /\ Len(v) = n
  BY SeqDef
<1>5. \A i \in 1..n : [j \in 1..n |-> c(j)][i] = c(i)
  OBVIOUS
<1> QED
  BY <1>1, <1>2, <1>3, <1>4, <1>5 DEF Cells

\* Any two sequences are sequences of one set.
LEMMA JoinCells ==
  ASSUME NEW p, NEW q, \E S : p \in Seq(S), \E S : q \in Seq(S), Len(p) = 1
  PROVE  /\ \E S : p \o q \in Seq(S)
         /\ Len(p \o q) = 1 + Len(q) /\ (p \o q)[1] = p[1] /\ Len(q) \in Nat
<1>1. PICK S1 : p \in Seq(S1)
  OBVIOUS
<1>2. PICK S2 : q \in Seq(S2)
  OBVIOUS
<1>3. PICK S : S = S1 \union S2
  OBVIOUS
<1>4. p \in Seq(S) /\ q \in Seq(S)
  <2>1. Seq(S1) \subseteq Seq(S) /\ Seq(S2) \subseteq Seq(S)
    BY <1>3, SeqMonotonic
  <2> QED
    BY <1>1, <1>2, <2>1
<1>5. /\ p \o q \in Seq(S) /\ Len(p \o q) = Len(p) + Len(q)
      /\ \A i \in 1..(Len(p) + Len(q)) : (p \o q)[i] = IF i <= Len(p) THEN p[i] ELSE q[i - Len(p)]
  BY <1>4, ConcatProperties
<1>6. Len(q) \in Nat
  BY <1>2
<1>7. 1 \in 1..(Len(p) + Len(q)) /\ 1 <= Len(p)
  BY <1>6
<1> QED
  BY <1>5, <1>6, <1>7

\* A cell with the type and a value behind it are an item.
LEMMA TypedSized ==
  ASSUME NEW t, ItemType(t), NEW q, \E S : q \in Seq(S), 1 + Len(q) = SizeOf(t)
  PROVE  Sized(Type(t) \o q) /\ Len(Type(t) \o q) = SizeOf(t)
<1>1. (\E S : Type(t) \in Seq(S)) /\ Len(Type(t)) = 1 /\ Type(t)[1].a = t
  <2>1. 1 \in Nat /\ 1 \in 1..1
    OBVIOUS
  <2>2. Cells(Type(t), 1, t)
    BY <2>1, ValueCells DEF Type
  <2> QED
    BY <2>1, <2>2 DEF Cells
<1>2. PICK p : p = Type(t) \o q
  OBVIOUS
<1>3. (\E S : p \in Seq(S)) /\ Len(p) = SizeOf(t) /\ p[1].a = t
  BY <1>1, <1>2, JoinCells
<1> QED
  BY <1>2, <1>3, ItemSized

\* The fill functions write one item each.
LEMMA FillSized ==
  /\ \A lo, len : Sized(FillSendfile(lo, len)) /\ Len(FillSendfile(lo, len)) = 7
  /\ \A user : Sized(FillFinalize(user)) /\ Len(FillFinalize(user)) = 5
  /\ \A V : \A vec \in Seq(V) :
       Sized(FillIovec(vec)) /\ Len(FillIovec(vec)) = 1 + 4 * Len(vec)
<1>1. ASSUME NEW lo, NEW len PROVE Sized(FillSendfile(lo, len)) /\ Len(FillSendfile(lo, len)) = 7
  <2>1. PICK q : q = Value("sendfile", lo, len, 6)
    OBVIOUS
  <2>2. (\E S : q \in Seq(S)) /\ Len(q) = 6
    <3>1. 6 \in Nat
      OBVIOUS
    <3>2. Cells(q, 6, lo)
      BY <2>1, <3>1, ValueCells
    <3> QED
      BY <3>2 DEF Cells
  <2>3. ItemType(1) /\ 1 + Len(q) = SizeOf(1) /\ SizeOf(1) = 7
    BY <2>2, SizeType DEF ItemType
  <2>4. Sized(Type(1) \o q) /\ Len(Type(1) \o q) = SizeOf(1)
    BY <2>2, <2>3, TypedSized
  <2> QED
    BY <2>1, <2>3, <2>4 DEF FillSendfile, XF_SENDFILE
<1>2. ASSUME NEW user PROVE Sized(FillFinalize(user)) /\ Len(FillFinalize(user)) = 5
  <2>1. PICK q : q = Value("finalize", user, 0, 4)
    OBVIOUS
  <2>2. (\E S : q \in Seq(S)) /\ Len(q) = 4
    <3>1. 4 \in Nat
      OBVIOUS
    <3>2. Cells(q, 4, user)
      BY <2>1, <3>1, ValueCells
    <3> QED
      BY <3>2 DEF Cells
  <2>3. ItemType(3) /\ 1 + Len(q) = SizeOf(3) /\ SizeOf(3) = 5
    BY <2>2, SizeType DEF ItemType
  <2>4. Sized(Type(3) \o q) /\ Len(Type(3) \o q) = SizeOf(3)
    BY <2>2, <2>3, TypedSized
  <2> QED
    BY <2>1, <2>3, <2>4 DEF FillFinalize, XF_FINALIZE
<1>3. ASSUME NEW V, NEW vec \in Seq(V)
      PROVE  Sized(FillIovec(vec)) /\ Len(FillIovec(vec)) = 1 + 4 * Len(vec)
  <2>1. PICK k \in Nat : k = Len(vec)
    OBVIOUS
  <2> DEFINE e(c) == LET v == vec[(c + 3) \div 4] IN Iovec(v[1], v[2])[((c - 1) % 4) + 1]
             E == {e(c) : c \in 1..(4 * k)}
  <2>2. PICK q : q = [c \in 1..(4 * k) |-> e(c)]
    OBVIOUS
  <2>3. FillIovec(vec) = Type(2 * k) \o q
    BY <2>1, <2>2 DEF FillIovec
  <2>4. q \in Seq(E) /\ Len(q) = 4 * k
    <3>1. PICK n \in Nat : n = 4 * k
      OBVIOUS
    <3> HIDE DEF e
    <3>2. q \in [1..n -> E]
      BY <2>2, <3>1
    <3> HIDE DEF E
    <3>3. \A v \in [1..n -> E] : v \in Seq(E) /\ Len(v) = n
      BY SeqDef
    <3> QED
      BY <3>1, <3>2, <3>3
  <2> HIDE DEF E, e
  <2>5. ItemType(2 * k) /\ SizeOf(2 * k) = 1 + 4 * k
    BY <2>1, SizeType DEF ItemType
  <2>6. Sized(Type(2 * k) \o q) /\ Len(Type(2 * k) \o q) = SizeOf(2 * k)
    BY <2>4, <2>5, TypedSized
  <2> QED
    BY <2>1, <2>3, <2>5, <2>6
<1> QED
  BY <1>1, <1>2, <1>3

-----------------------------------------------------------------------------
(* The inductive invariant of the buffers.                                 *)

XferTypes ==
  /\ mem = [x \in Xfers |-> mem[x]]
  /\ m_free \in [Xfers -> Nat] /\ cap \in [Xfers -> Nat]
  /\ exec \in [x : Xfers \union {"none"}, p : Nat]

\* A buffer is whole items.
Layout == \A x \in Xfers : Sized(mem[x])

\* execute looks only at places where an item begins, or at the end.
AtItem ==
  exec # Nobody =>
    exec.x \in Xfers /\ \E S, B : Divided(mem[exec.x], S, B) /\ exec.p \in B

XferInv == XferTypes /\ Layout /\ FreeExact /\ AtItem

\* A buffer that is right: whole items, and an exact account of them.
Account(m, f, c) == Sized(m) /\ f \in Nat /\ c \in Nat /\ Len(m) + f = c

\* Each buffer is right in a state of the invariant.
LEMMA AccountOf ==
  ASSUME XferInv, NEW x \in Xfers
  PROVE  Account(mem[x], m_free[x], cap[x]) /\ Len(mem[x]) \in Nat
<1>1. Sized(mem[x]) /\ m_free[x] \in Nat /\ cap[x] \in Nat /\ Len(mem[x]) + m_free[x] = cap[x]
  BY DEF XferInv, XferTypes, Layout, FreeExact
<1>2. Len(mem[x]) \in Nat
  BY <1>1, ConcatSized
<1> QED
  BY <1>1, <1>2 DEF Account

\* The buffers are right after a step that leaves no buffer executed.
LEMMA Accounts ==
  ASSUME mem' = [x \in Xfers |-> mem'[x]],
         m_free' = [x \in Xfers |-> m_free'[x]], cap' = [x \in Xfers |-> cap'[x]],
         \A x \in Xfers : Account(mem'[x], m_free'[x], cap'[x]),
         exec' = Nobody
  PROVE  XferInv'
<1>1. XferTypes'
  <2>1. m_free' \in [Xfers -> Nat] /\ cap' \in [Xfers -> Nat]
    BY DEF Account
  <2>2. Nobody \in [x : Xfers \union {"none"}, p : Nat]
    BY DEF Nobody
  <2> QED
    BY <2>1, <2>2 DEF XferTypes, Xfers
<1>2. Layout'
  BY DEF Layout, Account, Xfers
<1>3. FreeExact'
  <2>1. \A x \in Xfers : m_free'[x] >= 0 /\ Len(mem'[x]) + m_free'[x] = cap'[x]
    BY DEF Account
  <2> QED
    BY <2>1 DEF FreeExact, Xfers
<1>4. AtItem'
  BY DEF AtItem, Nobody
<1> QED
  BY <1>1, <1>2, <1>3, <1>4 DEF XferInv

\* The buffers begin empty.
LEMMA XferInitial == XferInit => XferInv
<1> SUFFICES ASSUME XferInit PROVE XferInv
  OBVIOUS
<1>1. /\ mem = [x \in Xfers |-> <<>>] /\ m_free = [x \in Xfers |-> 0]
      /\ cap = [x \in Xfers |-> 0] /\ exec = Nobody
  BY DEF XferInit
<1>2. XferTypes
  BY <1>1 DEF XferTypes, Nobody
<1>3. Layout
  BY <1>1, EmptySized DEF Layout
<1>4. FreeExact
  BY <1>1 DEF FreeExact
<1>5. AtItem
  BY <1>1 DEF AtItem
<1> QED
  BY <1>2, <1>3, <1>4, <1>5 DEF XferInv

\* reserve makes room, and only reserve changes the capacity.
LEMMA Reserved ==
  ASSUME XferInv, NEW x \in Xfers, NEW s, Sized(s), NEW r \in Reserve(x, Len(s))
  PROVE  /\ Account(mem[x] \o s, r.free - Len(s), r.size)
         /\ Len(mem[x] \o s) = Len(mem[x]) + Len(s)
<1>1. Account(mem[x], m_free[x], cap[x])
  BY AccountOf
<1>2. /\ Sized(mem[x] \o s) /\ Len(mem[x] \o s) = Len(mem[x]) + Len(s)
      /\ Len(mem[x]) \in Nat /\ Len(s) \in Nat
  BY <1>1, ConcatSized DEF Account
<1>3. PICK y, n, f, k \in Nat : y = Len(mem[x]) /\ n = Len(s) /\ f = m_free[x] /\ k = cap[x] /\ y + f = k
  BY <1>1, <1>2 DEF Account
<1>4. PICK c : c = r.size
  OBVIOUS
<1>5. c \in Nat /\ c >= y + n /\ r.free = c - y
  <2>1. CASE f >= n
    <3>1. c = k /\ r.free = f
      BY <1>3, <1>4, <2>1 DEF Reserve
    <3> QED
      BY <1>3, <2>1, <3>1
  <2>2. CASE ~(f >= n)
    <3>1. r \in {[size |-> d, free |-> d - y] : d \in Doubled((y + f) * 2 + 18, y + n)}
      BY <1>3, <2>2 DEF Reserve
    <3>2. c \in Doubled((y + f) * 2 + 18, y + n) /\ r.free = c - y
      BY <1>4, <3>1
    <3>3. c \in (y + n)..((y + f) * 2 + 18 + 2 * (y + n))
      BY <3>2 DEF Doubled
    <3> QED
      BY <3>2, <3>3
  <2> QED
    BY <2>1, <2>2
<1>6. r.free - n \in Nat /\ (y + n) + (r.free - n) = c
  BY <1>5
<1> QED
  BY <1>2, <1>3, <1>4, <1>5, <1>6 DEF Account

\* One buffer changes.
LEMMA OneKeeps ==
  ASSUME XferInv, NEW x \in Xfers, NEW m, NEW f, NEW c, Account(m, f, c), exec' = Nobody,
         mem' = [mem EXCEPT ![x] = m], cap' = [cap EXCEPT ![x] = c],
         m_free' = [m_free EXCEPT ![x] = f]
  PROVE  XferInv'
<1>1. DOMAIN mem = Xfers /\ DOMAIN cap = Xfers /\ DOMAIN m_free = Xfers
  BY DEF XferInv, XferTypes
<1>2. /\ mem' = [y \in Xfers |-> IF y = x THEN m ELSE mem[y]]
      /\ cap' = [y \in Xfers |-> IF y = x THEN c ELSE cap[y]]
      /\ m_free' = [y \in Xfers |-> IF y = x THEN f ELSE m_free[y]]
  BY <1>1
<1>3. \A y \in Xfers : Account(mem'[y], m_free'[y], cap'[y])
  <2> SUFFICES ASSUME NEW y \in Xfers PROVE Account(mem'[y], m_free'[y], cap'[y])
    OBVIOUS
  <2>1. CASE y = x
    BY <1>2, <2>1
  <2>2. CASE y # x
    BY <1>2, <2>2, AccountOf
  <2> QED
    BY <2>1, <2>2
<1>4. /\ mem' = [y \in Xfers |-> mem'[y]] /\ m_free' = [y \in Xfers |-> m_free'[y]]
      /\ cap' = [y \in Xfers |-> cap'[y]]
  BY <1>2
<1> QED
  BY <1>3, <1>4, Accounts

\* The push functions: an item goes behind the others.
LEMMA PushKeeps ==
  ASSUME XferInv, NEW x \in Xfers, NEW s, Sized(s), NEW sz, sz = Len(s), PushItem(x, sz, s),
         exec = Nobody, exec' = exec
  PROVE  XferInv'
<1>1. PICK r \in Reserve(x, Len(s)) :
        /\ cap' = [cap EXCEPT ![x] = r.size]
        /\ m_free' = [m_free EXCEPT ![x] = r.free - Len(s)]
  BY DEF PushItem
<1>2. mem' = [mem EXCEPT ![x] = mem[x] \o s]
  BY DEF PushItem
<1>3. PICK m, f, c : m = mem[x] \o s /\ f = r.free - Len(s) /\ c = r.size
  OBVIOUS
<1>4. Account(m, f, c)
  BY <1>3, Reserved
<1> QED
  BY <1>1, <1>2, <1>3, <1>4, OneKeeps

\* The vector of a push has one iovec for each length.
LEMMA NumberedSized ==
  ASSUME NEW ls \in Seq(Nat)
  PROVE  Sized(FillIovec(NumberedVec(ls))) /\ Len(FillIovec(NumberedVec(ls))) = SizeOf(2 * Len(ls))
<1> DEFINE e(k) == <<next + TotalOf(SubSeq(ls, 1, k - 1)), ls[k]>>
           E == {e(k) : k \in 1..Len(ls)}
<1>1. NumberedVec(ls) = [k \in 1..Len(ls) |-> e(k)]
  BY DEF NumberedVec
<1>2. PICK n \in Nat : n = Len(ls)
  OBVIOUS
<1> HIDE DEF e
<1>3. NumberedVec(ls) \in [1..n -> E]
  BY <1>1, <1>2
<1> HIDE DEF E
<1>4. \A v \in [1..n -> E] : v \in Seq(E) /\ Len(v) = n
  BY SeqDef
<1>5. NumberedVec(ls) \in Seq(E) /\ Len(NumberedVec(ls)) = n
  BY <1>3, <1>4
<1>6. SizeOf(2 * n) = 1 + 4 * n
  BY SizeType
<1> QED
  BY <1>2, <1>5, <1>6, FillSized

\* Two buffers change: the end of one goes to the context.
LEMMA TwoKeep ==
  ASSUME XferInv, NEW y \in {"xf", "raw"}, NEW m1, NEW m2, NEW f1, NEW f2, NEW c1, NEW c2,
         Account(m1, f1, c1), Account(m2, f2, c2), exec' = Nobody,
         mem' = [mem EXCEPT !["ctx"] = m1, ![y] = m2],
         cap' = [cap EXCEPT !["ctx"] = c1, ![y] = c2],
         m_free' = [m_free EXCEPT !["ctx"] = f1, ![y] = f2]
  PROVE  XferInv'
<1>1. DOMAIN mem = Xfers /\ DOMAIN cap = Xfers /\ DOMAIN m_free = Xfers
  BY DEF XferInv, XferTypes
<1>2. "ctx" \in Xfers /\ y \in Xfers /\ y # "ctx"
  BY DEF Xfers
<1>3. /\ mem' = [x \in Xfers |-> IF x = y THEN m2 ELSE IF x = "ctx" THEN m1 ELSE mem[x]]
      /\ cap' = [x \in Xfers |-> IF x = y THEN c2 ELSE IF x = "ctx" THEN c1 ELSE cap[x]]
      /\ m_free' = [x \in Xfers |-> IF x = y THEN f2 ELSE IF x = "ctx" THEN f1 ELSE m_free[x]]
  BY <1>1, <1>2
<1>4. \A x \in Xfers : Account(mem'[x], m_free'[x], cap'[x])
  <2> SUFFICES ASSUME NEW x \in Xfers PROVE Account(mem'[x], m_free'[x], cap'[x])
    OBVIOUS
  <2>1. CASE x = y
    BY <1>3, <2>1
  <2>2. CASE x = "ctx"
    BY <1>2, <1>3, <2>2
  <2>3. CASE x # y /\ x # "ctx"
    BY <1>3, <2>3, AccountOf
  <2> QED
    BY <2>1, <2>2, <2>3
<1>5. /\ mem' = [x \in Xfers |-> mem'[x]] /\ m_free' = [x \in Xfers |-> m_free'[x]]
      /\ cap' = [x \in Xfers |-> cap'[x]]
  BY <1>3
<1> QED
  BY <1>4, <1>5, Accounts

\* core::writev: the array on the stack is data and a finalizer.
LEMMA BuildKeeps ==
  ASSUME XferInv, NEW ls \in Seq(Nat), BuildRaw(ls)
  PROVE  XferInv'
<1>1. PICK s : s = FillIovec(NumberedVec(ls)) \o FillFinalize(next + TotalOf(ls))
  OBVIOUS
<1>2. Sized(s) /\ Len(s) \in Nat /\ Len(s) = SizeOf(2 * Len(ls)) + SizeOf(XF_FINALIZE)
  <2>1. PICK a, b : a = FillIovec(NumberedVec(ls)) /\ b = FillFinalize(next + TotalOf(ls))
    OBVIOUS
  <2>2. Sized(a) /\ Sized(b) /\ Len(a) = SizeOf(2 * Len(ls)) /\ Len(b) = SizeOf(XF_FINALIZE)
    BY <2>1, NumberedSized, FillSized, SizeType DEF XF_FINALIZE
  <2>3. Sized(s) /\ Len(s) = Len(a) + Len(b)
    BY <1>1, <2>1, <2>2, ConcatSized
  <2> QED
    BY <2>2, <2>3, ConcatSized
<1>3. /\ mem' = [mem EXCEPT !["raw"] = s] /\ cap' = [cap EXCEPT !["raw"] = Len(s)]
      /\ m_free' = [m_free EXCEPT !["raw"] = 0] /\ exec' = Nobody
  BY <1>1, <1>2 DEF BuildRaw
<1>4. Account(s, 0, Len(s))
  BY <1>2 DEF Account
<1> QED
  BY <1>3, <1>4, OneKeeps DEF Xfers

\* push_xfraw: what is left of the array goes to the context.
LEMMA XfrawKeeps ==
  ASSUME XferInv, PushXfraw
  PROVE  XferInv'
<1>1. PICK r \in Reserve("ctx", Len(mem["raw"])) :
        /\ cap' = [cap EXCEPT !["ctx"] = r.size, !["raw"] = 0]
        /\ m_free' = [m_free EXCEPT !["ctx"] = r.free - Len(mem["raw"]), !["raw"] = 0]
  BY DEF PushXfraw
<1>2. mem' = [mem EXCEPT !["ctx"] = mem["ctx"] \o mem["raw"], !["raw"] = <<>>] /\ exec' = Nobody
  BY DEF PushXfraw
<1>3. "ctx" \in Xfers /\ "raw" \in Xfers
  BY DEF Xfers
<1>4. PICK m, f, c : m = mem["ctx"] \o mem["raw"] /\ f = r.free - Len(mem["raw"]) /\ c = r.size
  OBVIOUS
<1>5. Sized(mem["raw"])
  BY <1>3, AccountOf DEF Account
<1>6. Account(m, f, c)
  BY <1>3, <1>4, <1>5, Reserved
<1>7. Account(<<>>, 0, 0)
  BY EmptySized DEF Account
<1> QED
  BY <1>1, <1>2, <1>4, <1>6, <1>7, TwoKeep

\* migrate: the memory is handed over, or copied and m_free given back.
LEMMA MigrateKeeps ==
  ASSUME XferInv, Migrate
  PROVE  XferInv'
<1>1. mem' = [mem EXCEPT !["ctx"] = mem["ctx"] \o mem["xf"], !["xf"] = <<>>] /\ exec' = Nobody
  BY DEF Migrate
<1>2. "ctx" \in Xfers /\ "xf" \in Xfers
  BY DEF Xfers
<1>3. /\ Account(mem["ctx"], m_free["ctx"], cap["ctx"]) /\ Len(mem["ctx"]) \in Nat
      /\ Account(mem["xf"], m_free["xf"], cap["xf"]) /\ Len(mem["xf"]) \in Nat
  BY <1>2, AccountOf
<1>4. CASE cap["ctx"] = 0
  <2>1. /\ cap' = [cap EXCEPT !["ctx"] = cap["xf"], !["xf"] = 0]
        /\ m_free' = [m_free EXCEPT !["ctx"] = m_free["xf"], !["xf"] = 0]
    BY <1>4 DEF Migrate
  <2>2. PICK m : m = mem["ctx"] \o mem["xf"]
    OBVIOUS
  <2>3. Sized(m) /\ Len(m) = Len(mem["ctx"]) + Len(mem["xf"])
    BY <1>3, <2>2, ConcatSized DEF Account
  <2>4. Len(mem["ctx"]) = 0
    BY <1>3, <1>4 DEF Account
  <2>5. Account(m, m_free["xf"], cap["xf"])
    BY <1>3, <2>3, <2>4 DEF Account
  <2>6. Account(<<>>, 0, 0)
    BY EmptySized DEF Account
  <2> QED
    BY <1>1, <2>1, <2>2, <2>5, <2>6, TwoKeep
<1>5. CASE cap["ctx"] # 0
  <2>1. PICK r \in Reserve("ctx", Len(mem["xf"])) :
          /\ cap' = [cap EXCEPT !["ctx"] = r.size]
          /\ m_free' = [m_free EXCEPT !["ctx"] = r.free - Len(mem["xf"]),
                                      !["xf"] = m_free["xf"] + Len(mem["xf"])]
    BY <1>5 DEF Migrate
  <2>2. PICK m, f, g, c : /\ m = mem["ctx"] \o mem["xf"] /\ f = r.free - Len(mem["xf"])
                          /\ g = m_free["xf"] + Len(mem["xf"]) /\ c = r.size
    OBVIOUS
  <2>3. Account(m, f, c)
    <3>1. Sized(mem["xf"])
      BY <1>3 DEF Account
    <3> QED
      BY <1>2, <2>2, <3>1, Reserved
  <2>4. Account(<<>>, g, cap["xf"])
    <3>1. g = cap["xf"] /\ g \in Nat
      BY <1>3, <2>2 DEF Account
    <3> QED
      BY <3>1, EmptySized DEF Account
  <2>5. cap' = [cap EXCEPT !["ctx"] = c, !["xf"] = cap["xf"]]
    BY <2>1, <2>2 DEF XferInv, XferTypes
  <2>6. m_free' = [m_free EXCEPT !["ctx"] = f, !["xf"] = g]
    BY <2>1, <2>2
  <2>7. mem' = [mem EXCEPT !["ctx"] = m, !["xf"] = <<>>] /\ exec' = Nobody
    BY <1>1, <2>2
  <2> QED
    BY <2>3, <2>4, <2>5, <2>6, <2>7, TwoKeep
<1> QED
  BY <1>4, <1>5

\* reset: the items go, their memory is free.
LEMMA ResetKeeps ==
  ASSUME XferInv, NEW x \in Xfers, Reset(x)
  PROVE  XferInv'
<1>1. /\ mem' = [mem EXCEPT ![x] = <<>>] /\ m_free' = [m_free EXCEPT ![x] = m_free[x] + Len(mem[x])]
      /\ cap' = cap /\ exec' = Nobody
  BY DEF Reset
<1>2. Account(mem[x], m_free[x], cap[x]) /\ Len(mem[x]) \in Nat
  BY AccountOf
<1>3. PICK f : f = m_free[x] + Len(mem[x]) /\ f \in Nat /\ f = cap[x]
  BY <1>2 DEF Account
<1>4. Account(<<>>, f, cap[x])
  BY <1>3, EmptySized DEF Account
<1>5. cap' = [cap EXCEPT ![x] = cap[x]]
  BY <1>1 DEF XferInv, XferTypes
<1> QED
  BY <1>1, <1>3, <1>4, <1>5, OneKeeps

-----------------------------------------------------------------------------
(* execute                                                                 *)

\* The buffer that is executed, and the item at its place.
LEMMA ExecutedAt ==
  ASSUME XferInv, exec # Nobody
  PROVE  /\ exec.x \in Xfers /\ M = mem[exec.x] /\ P = exec.p
         /\ Account(M, m_free[exec.x], cap[exec.x])
         /\ \E S, B : Divided(M, S, B) /\ P \in B
<1>1. exec.x \in Xfers /\ \E S, B : Divided(mem[exec.x], S, B) /\ exec.p \in B
  BY DEF XferInv, AtItem
<1>2. M = mem[exec.x] /\ P = exec.p
  BY DEF M, P
<1> QED
  BY <1>1, <1>2, AccountOf

\* execute leaves whole items, and not more of them than there were.
LEMMA ReturnKeeps ==
  ASSUME XferInv, exec # Nobody, NEW m, Sized(m), Len(m) <= Len(M), ReturnWith(m)
  PROVE  XferInv'
<1>1. PICK x : x = exec.x
  OBVIOUS
<1>2. x \in Xfers /\ Account(M, m_free[x], cap[x]) /\ Len(M) \in Nat
  BY <1>1, ExecutedAt, AccountOf
<1>3. /\ mem' = [mem EXCEPT ![x] = m] /\ m_free' = [m_free EXCEPT ![x] = cap[x] - Len(m)]
      /\ exec' = Nobody /\ cap' = cap
  BY <1>1 DEF ReturnWith
<1>4. Len(m) \in Nat
  BY ConcatSized
<1>5. PICK f : f = cap[x] - Len(m)
  OBVIOUS
<1>6. Account(m, f, cap[x])
  <2>1. PICK a, b, c, d \in Nat : a = Len(m) /\ b = Len(M) /\ c = cap[x] /\ d = m_free[x] /\ b + d = c /\ a <= b
    BY <1>2, <1>4 DEF Account
  <2>2. f = c - a /\ a <= c
    <3>1. b <= c
      BY <2>1
    <3> QED
      BY <1>5, <2>1, <3>1
  <2>3. f \in Nat /\ a + f = c
    BY <2>2
  <2> QED
    BY <2>1, <2>3 DEF Account
<1>7. cap' = [cap EXCEPT ![x] = cap[x]]
  BY <1>3 DEF XferInv, XferTypes
<1> QED
  BY <1>2, <1>3, <1>5, <1>6, <1>7, OneKeeps

\* The place of execute goes to the next item.
LEMMA SkipKeeps ==
  ASSUME XferInv, exec # Nobody, P < Len(M), Skip(SizeOf(At))
  PROVE  XferInv'
<1>1. exec.x \in Xfers /\ M = mem[exec.x] /\ P = exec.p
  BY ExecutedAt
<1>2. PICK S, B : Divided(M, S, B) /\ P \in B
  BY ExecutedAt
<1>3. ItemType(At) /\ P + SizeOf(At) \in B
  BY <1>2 DEF Divided, Divides, At
<1>4. P + SizeOf(At) \in Nat
  BY <1>2, <1>3, RestSized
<1>5. /\ exec' = [exec EXCEPT !.p = P + SizeOf(At)]
      /\ mem' = mem /\ m_free' = m_free /\ cap' = cap
  BY DEF Skip
<1>6. exec \in [x : Xfers \union {"none"}, p : Nat]
  BY DEF XferInv, XferTypes
<1>7. PICK q : q = P + SizeOf(At)
  OBVIOUS
<1>8. exec' \in [x : Xfers \union {"none"}, p : Nat] /\ exec'.x = exec.x /\ exec'.p = q
  BY <1>4, <1>5, <1>6, <1>7
<1>9. XferTypes'
  BY <1>5, <1>8 DEF XferInv, XferTypes, Xfers
<1>10. Layout' /\ FreeExact'
  BY <1>5 DEF XferInv, Layout, FreeExact, Xfers
<1>11. Divided(mem'[exec'.x], S, B) /\ exec'.p \in B
  BY <1>1, <1>2, <1>3, <1>5, <1>7, <1>8
<1>12. exec'.x \in Xfers
  BY <1>1, <1>8
<1>13. AtItem'
  BY <1>11, <1>12 DEF AtItem, Xfers
<1> QED
  BY <1>9, <1>10, <1>13 DEF XferInv

\* execute begins at the first item.
LEMMA ExecuteKeeps ==
  ASSUME XferInv, NEW x \in Xfers, StartExecute(x)
  PROVE  XferInv'
<1>1. exec' = [x |-> x, p |-> 0] /\ mem' = mem /\ m_free' = m_free /\ cap' = cap
  BY DEF StartExecute
<1>2. exec' \in [x : Xfers \union {"none"}, p : Nat] /\ exec'.x = x /\ exec'.p = 0
  BY <1>1
<1>3. PICK S, B : Divided(mem[x], S, B)
  BY DEF XferInv, Layout, Sized
<1>4. 0 \in B
  BY <1>3 DEF Divided, Divides
<1>5. XferTypes'
  BY <1>1, <1>2 DEF XferInv, XferTypes, Xfers
<1>6. Layout' /\ FreeExact'
  BY <1>1 DEF XferInv, Layout, FreeExact, Xfers
<1>7. Divided(mem'[exec'.x], S, B) /\ exec'.p \in B /\ exec'.x \in Xfers
  BY <1>1, <1>2, <1>3, <1>4
<1>8. AtItem'
  BY <1>7 DEF AtItem, Xfers
<1> QED
  BY <1>5, <1>6, <1>8 DEF XferInv

\* A function on the first n numbers is a sequence.
LEMMA FunctionCells ==
  ASSUME NEW n \in Nat, NEW f, f = [j \in 1..n |-> f[j]]
  PROVE  (\E S : f \in Seq(S)) /\ Len(f) = n
<1>1. PICK S : S = {f[j] : j \in 1..n}
  OBVIOUS
<1>2. f \in [1..n -> S]
  BY <1>1
<1>3. \A v \in [1..n -> S] : v \in Seq(S) /\ Len(v) = n
  BY SeqDef
<1> QED
  BY <1>2, <1>3

\* m with new in the place of the iovec at the cell at.
Shortened(m, at, new) ==
  [j \in 1..Len(m) |-> IF j \in at..(at + 3) THEN new[j - at + 1] ELSE m[j]]

\* at is the cell of an iovec of the item at b.
IovecAt(m, b, at) ==
  \E k \in Nat : m[b + 1].a = 2 * k /\ \E i \in 1..k : at = b + 4 * i - 2

\* An iovec is shortened in place: the items stay where they are.
LEMMA ShortenedSized ==
  ASSUME NEW S, NEW m, NEW B, Divided(m, S, B), NEW b \in B, b < Len(m),
         NEW at, IovecAt(m, b, at), NEW new, NEW q, q = Shortened(m, at, new)
  PROVE  \E S2 : Divided(q, S2, B)
<1>a. PICK k \in Nat : m[b + 1].a = 2 * k /\ \E i \in 1..k : at = b + 4 * i - 2
  BY DEF IovecAt
<1>0. PICK i \in 1..k : m[b + 1].a = 2 * k /\ at = b + 4 * i - 2
  BY <1>a
<1>1. m \in Seq(S) /\ Divides(m, B)
  BY DEF Divided
<1>2. PICK n \in Nat : n = Len(m)
  BY <1>1
<1>3. B \subseteq 0..n /\ b \in Nat
  BY <1>1, <1>2 DEF Divides
<1>4. SizeOf(m[b + 1].a) = 1 + 4 * k
  BY <1>0, SizeType
<1>5. (\E S2 : q \in Seq(S2)) /\ Len(q) = n
  <2>1. q = [j \in 1..n |-> q[j]]
    BY <1>2 DEF Shortened
  <2> QED
    BY <2>1, FunctionCells
<1>6. ASSUME NEW c \in B, c < n PROVE q[c + 1] = m[c + 1]
  <2>1. c \in Nat /\ c + 1 \in 1..n
    BY <1>3, <1>6
  <2>2. c + 1 \notin at..(at + 3)
    <3>1. CASE c <= b
      BY <1>0, <1>3, <2>1, <3>1
    <3>2. CASE ~(c <= b)
      <4>1. b < c
        BY <1>3, <2>1, <3>2
      <4>2. b + (1 + 4 * k) <= c
        BY <1>1, <1>4, <4>1 DEF Divides
      <4> QED
        BY <1>0, <1>3, <2>1, <4>2
    <3> QED
      BY <3>1, <3>2
  <2> QED
    BY <1>2, <2>1, <2>2 DEF Shortened
<1>7. Divides(q, B)
  <2>1. B \subseteq 0..Len(q) /\ 0 \in B /\ Len(q) \in B
    BY <1>1, <1>2, <1>5 DEF Divides
  <2>2. ASSUME NEW c \in B, c < Len(q) PROVE ItemType(q[c + 1].a) /\ c + SizeOf(q[c + 1].a) \in B
    <3>1. q[c + 1] = m[c + 1] /\ c < Len(m)
      BY <1>2, <1>5, <1>6, <2>2
    <3> QED
      BY <1>1, <3>1 DEF Divides
  <2>3. ASSUME NEW c \in B, NEW d \in B, c < d PROVE c + SizeOf(q[c + 1].a) <= d
    <3>1. c < n
      BY <1>3, <2>3
    <3>2. q[c + 1] = m[c + 1]
      BY <1>6, <3>1
    <3> QED
      BY <1>1, <2>3, <3>2 DEF Divides
  <2> QED
    BY <2>1, <2>2, <2>3 DEF Divides
<1> QED
  BY <1>5, <1>7 DEF Divided

\* The first n cells of a sequence.
LEMMA HeadCells ==
  ASSUME NEW S, NEW s \in Seq(S), NEW n \in Nat, n > 0, n <= Len(s)
  PROVE  /\ SubSeq(s, 1, n) \in Seq(S) /\ Len(SubSeq(s, 1, n)) = n
         /\ SubSeq(s, 1, n)[1] = s[1]
<1>1. \A i \in 1..n : s[i] \in S
  OBVIOUS
<1>2. 1 \in Int /\ n \in Int
  OBVIOUS
<1>3. /\ SubSeq(s, 1, n) \in Seq(S) /\ Len(SubSeq(s, 1, n)) = IF 1 <= n THEN n - 1 + 1 ELSE 0
      /\ \A i \in 1..(n - 1 + 1) : SubSeq(s, 1, n)[i] = s[1 + i - 1]
  BY <1>1, <1>2, SubSeqProperties
<1>4. 1 \in 1..(n - 1 + 1) /\ 1 + 1 - 1 = 1 /\ n - 1 + 1 = n
  OBVIOUS
<1> QED
  BY <1>3, <1>4

\* The rest of two sequences that differ in front of it.
LEMMA SameRest ==
  ASSUME NEW S, NEW s \in Seq(S), NEW S2, NEW t \in Seq(S2), Len(s) = Len(t),
         NEW e \in Nat, e <= Len(s), \A j \in 1..Len(s) : j > e => s[j] = t[j]
  PROVE  SubSeq(s, e + 1, Len(s)) = SubSeq(t, e + 1, Len(t))
<1>1. PICK U : U = S \union S2
  OBVIOUS
<1>2. s \in Seq(U) /\ t \in Seq(U)
  <2>1. Seq(S) \subseteq Seq(U) /\ Seq(S2) \subseteq Seq(U)
    BY <1>1, SeqMonotonic
  <2> QED
    BY <2>1
<1>3. PICK n \in Nat : n = Len(s)
  OBVIOUS
<1>4. PICK p, q : p = SubSeq(s, e + 1, n) /\ q = SubSeq(t, e + 1, n)
  OBVIOUS
<1>5. p \in Seq(U) /\ Len(p) = n - e /\ \A i \in 1..(n - e) : p[i] = s[e + i]
  BY <1>2, <1>3, <1>4, PartAt
<1>6. q \in Seq(U) /\ Len(q) = n - e /\ \A i \in 1..(n - e) : q[i] = t[e + i]
  BY <1>2, <1>3, <1>4, PartAt
<1>7. ASSUME NEW i \in 1..Len(p) PROVE p[i] = q[i]
  <2>1. i \in 1..(n - e) /\ e + i \in 1..n /\ e + i > e
    BY <1>3, <1>5
  <2> QED
    BY <1>3, <1>5, <1>6, <2>1
<1>8. p = q
  BY <1>5, <1>6, <1>7, SeqEqual
<1> QED
  BY <1>3, <1>4, <1>8

\* A vector that is cut: at the first of its iovecs or at a later one, there are
\* whole items after it, and not more than before.
LEMMA CutSized ==
  ASSUME XferInv, exec # Nobody, P < Len(M), At # 1, At # 3,
         NEW i \in 1..Len(Vec), NEW n, NEW way
  PROVE  Sized(Cut(i, n, way)) /\ Len(Cut(i, n, way)) <= Len(M)
<1>1. PICK S, B : Divided(M, S, B) /\ P \in B
  BY ExecutedAt
<1>2. M \in Seq(S) /\ Divides(M, B)
  BY <1>1 DEF Divided
<1>3. PICK z \in Nat : z = Len(M)
  BY <1>2
<1>4. P \in Nat
  BY <1>1, RestSized
<1>5. ItemType(At) /\ P + SizeOf(At) \in B /\ At = M[P + 1].a
  BY <1>1, <1>2 DEF Divides, At
<1>6. PICK k0 \in Nat : At = 2 * k0
  BY <1>5 DEF ItemType
<1>7. SizeOf(At) = 1 + 4 * k0 /\ At \div 2 = k0
  BY <1>6, SizeType
<1>8. Len(Vec) = k0
  <2>1. Vec = [k \in 1..k0 |-> <<M[P + 4 * k - 2].a, M[P + 4 * k - 2].b>>]
    BY <1>7 DEF Vec
  <2>2. Vec = [k \in 1..k0 |-> Vec[k]]
    BY <2>1
  <2> QED
    BY <2>2, FunctionCells
<1>9. i \in 1..k0
  BY <1>8
<1>10. PICK e : e = P + (1 + 4 * k0) /\ e \in B
  BY <1>5, <1>7
<1>11. e \in Nat /\ e <= z
  BY <1>1, <1>3, <1>10, RestSized
<1>12. PICK at : at = P + 4 * i - 2
  OBVIOUS
<1>13. PICK new : new = Iovec(Vec[i][1] + (n - Before(i)), Vec[i][2] - (n - Before(i)))
  OBVIOUS
<1>14. PICK m : m = [j \in 1..Len(M) |-> IF j \in at..(at + 3) THEN new[j - at + 1] ELSE M[j]]
  OBVIOUS
<1>15. PICK k : k = k0 - i + 1 /\ k \in Nat /\ k <= k0 /\ k = Len(Vec) - i + 1
  BY <1>8, <1>9
<1>16. PICK h : h = Memcpy([m EXCEPT ![1] = Type(2 * k)[1]], 2, at, 4 * k, way)
  OBVIOUS
<1>17. Cut(i, n, way) = IF i = 1 THEN Consumed(m)
                        ELSE SubSeq(h, 1, 1 + 4 * k) \o SubSeq(h, e + 1, Len(h))
  <2>1. P + SizeOf(At) + 1 = e + 1
    BY <1>7, <1>10
  <2> QED
    BY <1>12, <1>13, <1>14, <1>15, <1>16, <2>1 DEF Cut
<1>18. CASE i = 1
  <2>0. M[P + 1].a = 2 * k0
    BY <1>5, <1>6
  <2>1. PICK S2 : Divided(m, S2, B)
    <3>1. P \in B /\ P < Len(M) /\ Divided(M, S, B)
      BY <1>1
    <3>2. IovecAt(M, P, at)
      BY <1>9, <1>12, <2>0 DEF IovecAt
    <3>3. m = Shortened(M, at, new)
      BY <1>14 DEF Shortened
    <3> QED
      BY <3>1, <3>2, <3>3, ShortenedSized
  <2>2. Len(m) = z
    <3>1. m = [j \in 1..z |-> m[j]]
      BY <1>3, <1>14
    <3> QED
      BY <3>1, FunctionCells
  <2>3. PICK q : q = SubSeq(m, P + 1, Len(m))
    OBVIOUS
  <2>4. Sized(q) /\ Len(q) = z - P
    BY <1>1, <2>1, <2>2, <2>3, RestSized
  <2>5. Cut(i, n, way) = q
    BY <1>17, <1>18, <2>3 DEF Consumed
  <2> QED
    BY <1>3, <1>4, <2>4, <2>5
<1>19. CASE i # 1
  <2>1. PICK g : g = [m EXCEPT ![1] = Type(2 * k)[1]]
    OBVIOUS
  <2>2. DOMAIN m = 1..z
    BY <1>3, <1>14
  <2>3. 1 \in 1..z
    BY <1>3, <1>4
  <2>4. g = [j \in 1..z |-> IF j = 1 THEN Type(2 * k)[1] ELSE m[j]]
    BY <2>1, <2>2
  <2>5. Len(g) = z
    <3>1. g = [j \in 1..z |-> g[j]]
      BY <2>4
    <3> QED
      BY <3>1, FunctionCells
  <2>6. PICK f : f = Copied(g, 2, at, 4 * k, way)
    OBVIOUS
  <2>7. h = [j \in 1..z |-> IF j \in 2..(2 + 4 * k - 1) THEN f[j - 2] ELSE g[j]]
    BY <1>16, <2>1, <2>5, <2>6 DEF Memcpy
  <2>8. (\E S2 : h \in Seq(S2)) /\ Len(h) = z
    <3>1. h = [j \in 1..z |-> h[j]]
      BY <2>7
    <3> QED
      BY <3>1, FunctionCells
  <2>9. PICK S2 : h \in Seq(S2)
    BY <2>8
  <2>10. h[1].a = 2 * k
    <3>1. 1 \notin 2..(2 + 4 * k - 1)
      BY <1>15
    <3>2. h[1] = Type(2 * k)[1]
      BY <2>3, <2>4, <2>7, <3>1
    <3>3. Cells(Type(2 * k), 1, 2 * k)
      BY ValueCells DEF Type
    <3>4. 1 \in 1..1
      OBVIOUS
    <3>5. Type(2 * k)[1].a = 2 * k
      BY <3>3, <3>4 DEF Cells
    <3> QED
      BY <3>2, <3>5
  <2>11. ASSUME NEW j \in 1..z, j > e PROVE h[j] = M[j]
    <3>1. j \notin at..(at + 3)
      BY <1>4, <1>9, <1>10, <1>12, <2>11
    <3>2. j # 1 /\ j \notin 2..(2 + 4 * k - 1)
      BY <1>4, <1>10, <1>15, <2>11
    <3>3. m[j] = M[j]
      BY <1>3, <1>14, <3>1
    <3> QED
      BY <2>4, <2>7, <3>2, <3>3
  <2>12. PICK u : u = 1 + 4 * k /\ u \in Nat /\ u > 0 /\ u <= e
    BY <1>4, <1>10, <1>15
  <2>13. PICK a, r : a = SubSeq(h, 1, u) /\ r = SubSeq(h, e + 1, Len(h))
    OBVIOUS
  <2>14. a \in Seq(S2) /\ Len(a) = u /\ a[1] = h[1]
    BY <1>3, <1>11, <2>8, <2>9, <2>12, <2>13, HeadCells
  <2>15. Sized(a)
    <3>1. ItemType(a[1].a) /\ Len(a) = SizeOf(a[1].a)
      <4>1. ItemType(2 * k) /\ SizeOf(2 * k) = 1 + 4 * k
        BY <1>15, SizeType DEF ItemType
      <4> QED
        BY <2>10, <2>12, <2>14, <4>1
    <3> QED
      BY <2>14, <3>1, ItemSized
  <2>16. r = SubSeq(M, e + 1, Len(M))
    BY <1>2, <1>3, <1>11, <2>8, <2>9, <2>11, <2>13, SameRest
  <2>17. Sized(r) /\ Len(r) = z - e
    BY <1>1, <1>3, <1>10, <2>16, RestSized
  <2>18. Sized(a \o r) /\ Len(a \o r) = Len(a) + Len(r)
    BY <2>15, <2>17, ConcatSized
  <2>19. Cut(i, n, way) = a \o r
    BY <1>17, <1>19, <2>12, <2>13
  <2>20. u + (z - e) <= z
    BY <1>3, <1>11, <2>12
  <2> QED
    BY <1>3, <2>14, <2>17, <2>18, <2>19, <2>20
<1> QED
  BY <1>18, <1>19

\* The least of some numbers.
LEMMA LeastOf ==
  ASSUME NEW n \in Nat, NEW T, T \subseteq 1..n, T # {}
  PROVE  Min(T) \in T
<1> DEFINE R == {ss \in Nat \X Nat : ss[1] < ss[2]}
<1>1. IsWellFoundedOn(R, Nat)
  BY NatLessThanWellFounded DEF OpToRel
<1>2. T \subseteq Nat
  OBVIOUS
<1>3. PICK x \in T : \A y \in T : ~(<<y, x>> \in R)
  <2> HIDE DEF R
  <2> QED
    BY <1>1, <1>2, WFMin
<1>4. \A y \in T : x <= y
  <2> SUFFICES ASSUME NEW y \in T PROVE x <= y
    OBVIOUS
  <2>1. x \in Nat /\ y \in Nat
    BY <1>2
  <2>2. ~(y < x)
    <3>1. <<y, x>> \in Nat \X Nat /\ <<y, x>>[1] = y /\ <<y, x>>[2] = x
      BY <2>1
    <3> QED
      BY <1>3, <3>1
  <2> QED
    BY <2>1, <2>2
<1>5. \E w \in T : \A y \in T : w <= y
  BY <1>4
<1> QED
  BY <1>5 DEF Min

\* The kernel takes nothing: the items in front of the place go.
LEMMA NothingKeeps ==
  ASSUME XferInv, TakesNothing
  PROVE  XferInv'
<1>1. exec # Nobody /\ ReturnWith(Consumed(M))
  BY DEF TakesNothing
<1>2. PICK S, B : Divided(M, S, B) /\ P \in B
  BY <1>1, ExecutedAt
<1>3. Sized(Consumed(M)) /\ Len(Consumed(M)) <= Len(M)
  <2>1. PICK q : q = SubSeq(M, P + 1, Len(M))
    OBVIOUS
  <2>2. Sized(q) /\ Len(q) = Len(M) - P /\ P \in Nat /\ Len(M) \in Nat
    BY <1>2, <2>1, RestSized
  <2>3. Consumed(M) = q
    BY <2>1 DEF Consumed
  <2> QED
    BY <2>2, <2>3
<1> QED
  BY <1>1, <1>3, ReturnKeeps

\* A file: what is left of it is written over the item, or the place goes on.
LEMMA SendfileKeeps ==
  ASSUME XferInv, NEW n, Sendfile(n)
  PROVE  XferInv'
<1>1. exec # Nobody /\ P < Len(M) /\ At = 1
  BY DEF Sendfile, XF_SENDFILE
<1>2. PICK lo, len : lo = M[P + 2].a /\ len = M[P + 2].b
  OBVIOUS
<1>3. IF n < len
        THEN ReturnWith(FillSendfile(lo + n, len - n) \o SubSeq(M, P + 8, Len(M)))
        ELSE Skip(SizeOf(At))
  BY <1>2 DEF Sendfile
<1>4. CASE ~(n < len)
  BY <1>1, <1>3, <1>4, SkipKeeps
<1>5. CASE n < len
  <2>1. PICK S, B : Divided(M, S, B) /\ P \in B
    BY <1>1, ExecutedAt
  <2>2. P + SizeOf(At) \in B
    BY <1>1, <2>1 DEF Divided, Divides, At
  <2>3. P \in Nat
    BY <2>1, RestSized
  <2>4. PICK e : e = P + 7 /\ e \in B
    BY <1>1, <2>2, SizeType
  <2>5. e \in Nat /\ e <= Len(M) /\ Len(M) \in Nat
    BY <2>1, <2>4, RestSized
  <2>6. PICK q : q = SubSeq(M, e + 1, Len(M))
    OBVIOUS
  <2>7. Sized(q) /\ Len(q) = Len(M) - e
    BY <2>1, <2>4, <2>6, RestSized
  <2>8. PICK f : f = FillSendfile(lo + n, len - n)
    OBVIOUS
  <2>9. Sized(f) /\ Len(f) = 7
    BY <2>8, FillSized
  <2>10. Sized(f \o q) /\ Len(f \o q) = Len(f) + Len(q)
    BY <2>7, <2>9, ConcatSized
  <2>11. P + 8 = e + 1
    BY <2>3, <2>4
  <2>12. ReturnWith(f \o q)
    BY <1>3, <1>5, <2>6, <2>8, <2>11
  <2>13. Len(f \o q) <= Len(M)
    BY <2>3, <2>4, <2>5, <2>7, <2>9, <2>10
  <2> QED
    BY <1>1, <2>10, <2>12, <2>13, ReturnKeeps
<1> QED
  BY <1>4, <1>5

\* A vector: it is cut, or the place goes on.
LEMMA WritevKeeps ==
  ASSUME XferInv, NEW n, Writev(n)
  PROVE  XferInv'
<1>1. exec # Nobody /\ P < Len(M) /\ At # 1 /\ At # 3
  BY DEF Writev, XF_SENDFILE, XF_FINALIZE
<1>2. PICK left : left = {k \in 1..Len(Vec) : n < Before(k + 1)}
  OBVIOUS
<1>3. IF left = {} THEN Skip(SizeOf(At))
                   ELSE \E way \in Copies : ReturnWith(Cut(Min(left), n, way))
  BY <1>2 DEF Writev
<1>4. CASE left = {}
  BY <1>1, <1>3, <1>4, SkipKeeps
<1>5. CASE left # {}
  <2>1. PICK way \in Copies : ReturnWith(Cut(Min(left), n, way))
    BY <1>3, <1>5
  <2>2. Len(Vec) \in Nat
    <3>1. PICK S, B : Divided(M, S, B) /\ P \in B
      BY <1>1, ExecutedAt
    <3>2. ItemType(At)
      BY <1>1, <3>1 DEF Divided, Divides, At
    <3>3. PICK k0 \in Nat : At = 2 * k0
      BY <1>1, <3>2 DEF ItemType
    <3>4. At \div 2 = k0
      BY <3>3, SizeType
    <3>5. Vec = [k \in 1..k0 |-> Vec[k]]
      BY <3>4 DEF Vec
    <3> QED
      BY <3>5, FunctionCells
  <2>3. PICK i : i = Min(left)
    OBVIOUS
  <2>4. i \in 1..Len(Vec)
    <3>1. left \subseteq 1..Len(Vec)
      BY <1>2
    <3>2. Min(left) \in left
      BY <1>5, <2>2, <3>1, LeastOf
    <3> QED
      BY <2>3, <3>1, <3>2
  <2>5. Sized(Cut(i, n, way)) /\ Len(Cut(i, n, way)) <= Len(M)
    BY <1>1, <2>4, CutSized
  <2>6. ReturnWith(Cut(i, n, way))
    BY <2>1, <2>3
  <2> QED
    BY <1>1, <2>5, <2>6, ReturnKeeps
<1> QED
  BY <1>4, <1>5

\* A finalizer is called and the place goes on.
LEMMA FinalizeKeeps ==
  ASSUME XferInv, Finalize
  PROVE  XferInv'
<1>1. exec # Nobody /\ P < Len(M) /\ Skip(SizeOf(At))
  BY DEF Finalize
<1> QED
  BY <1>1, SkipKeeps

\* execute ends with all items done.
LEMMA DoneKeeps ==
  ASSUME XferInv, AllDone
  PROVE  XferInv'
<1>1. exec # Nobody /\ ReturnWith(<<>>)
  BY DEF AllDone
<1>2. Len(M) \in Nat /\ Len(<<>>) = 0
  BY <1>1, ExecutedAt, AccountOf
<1> QED
  BY <1>1, <1>2, EmptySized, ReturnKeeps

\* Nothing happens.
LEMMA XferUnchanged ==
  ASSUME XferInv, UNCHANGED xferVars
  PROVE  XferInv'
<1>1. mem' = mem /\ m_free' = m_free /\ cap' = cap /\ exec' = exec
  BY DEF xferVars
<1>2. XferTypes'
  BY <1>1 DEF XferInv, XferTypes, Xfers
<1>3. Layout' /\ FreeExact'
  BY <1>1 DEF XferInv, Layout, FreeExact, Xfers
<1>4. AtItem'
  BY <1>1 DEF XferInv, AtItem, Xfers, Nobody
<1> QED
  BY <1>2, <1>3, <1>4 DEF XferInv

\* Every step keeps the invariant of the buffers.
LEMMA XferStep ==
  ASSUME XferInv, [XferNext]_xferVars
  PROVE  XferInv'
<1>1. /\ \A ls \in Lengths : ls \in Seq(Nat)
      /\ <<1>> \in Seq(Nat) /\ "xf" \in Xfers /\ "ctx" \in Xfers /\ "raw" \in Xfers
  BY LengthsAssumption DEF Xfers
<1>2. ASSUME NEW x \in Xfers, NEW ls \in Seq(Nat), PushWritev(x, ls) PROVE XferInv'
  <2>1. PICK s : s = FillIovec(NumberedVec(ls))
    OBVIOUS
  <2>2. Sized(s) /\ SizeOf(2 * Len(ls)) = Len(s)
    BY <2>1, NumberedSized
  <2>3. PushItem(x, SizeOf(2 * Len(ls)), s) /\ exec = Nobody /\ exec' = exec
    BY <1>2, <2>1 DEF PushWritev
  <2> QED
    BY <2>2, <2>3, PushKeeps
<1>3. ASSUME NEW len \in Files, PushSendfile("xf", len) PROVE XferInv'
  <2>1. PICK s : s = FillSendfile(next, len)
    OBVIOUS
  <2>2. Sized(s) /\ SizeOf(XF_SENDFILE) = Len(s)
    BY <2>1, FillSized, SizeType DEF XF_SENDFILE
  <2>3. PushItem("xf", SizeOf(XF_SENDFILE), s) /\ exec = Nobody /\ exec' = exec
    BY <1>3, <2>1 DEF PushSendfile
  <2> QED
    BY <1>1, <2>2, <2>3, PushKeeps
<1>4. ASSUME PushFinalize("xf") PROVE XferInv'
  <2>1. PICK s : s = FillFinalize(next)
    OBVIOUS
  <2>2. Sized(s) /\ SizeOf(XF_FINALIZE) = Len(s)
    BY <2>1, FillSized, SizeType DEF XF_FINALIZE
  <2>3. PushItem("xf", SizeOf(XF_FINALIZE), s) /\ exec = Nobody /\ exec' = exec
    BY <1>4, <2>1 DEF PushFinalize
  <2> QED
    BY <1>1, <2>2, <2>3, PushKeeps
<1>5. ASSUME NEW ls \in Lengths, BuildRaw(ls) PROVE XferInv'
  BY <1>1, <1>5, BuildKeeps
<1>6. ASSUME NEW x \in {"xf", "ctx"}, Reset(x) PROVE XferInv'
  BY <1>1, <1>6, ResetKeeps
<1>7. ASSUME NEW x \in Xfers, StartExecute(x) PROVE XferInv'
  BY <1>7, ExecuteKeeps
<1>8. ASSUME NEW n, Writev(n) \/ Sendfile(n) PROVE XferInv'
  BY <1>8, WritevKeeps, SendfileKeeps
<1>9. CASE PushXfraw \/ Migrate
  BY <1>9, XfrawKeeps, MigrateKeeps
<1>10. CASE TakesNothing \/ Finalize \/ AllDone
  BY <1>10, NothingKeeps, FinalizeKeeps, DoneKeeps
<1>11. CASE Unused \/ UNCHANGED xferVars
  BY <1>11, XferUnchanged DEF Unused
<1> QED
  BY <1>1, <1>2, <1>3, <1>4, <1>5, <1>6, <1>7, <1>8, <1>9, <1>10, <1>11 DEF XferNext

\* The account that the buffers keep of their memory is exact, whatever is pushed,
\* migrated, reset, cut or sent, in buffers of any size: m_free is what is left
\* of the allocation, so no fill function writes behind it (wavy_out.cc: reserve,
\* push_xfraw, migrate, xferimpl::execute and the correction in try_write).
THEOREM MemoryAccounted == XferSpec => []FreeExact
<1>1. XferInit => XferInv
  BY XferInitial
<1>2. XferInv /\ [XferNext]_xferVars => XferInv'
  BY XferStep
<1>3. XferInv => FreeExact
  BY DEF XferInv
<1> QED
  BY <1>1, <1>2, <1>3, PTL DEF XferSpec
=============================================================================
