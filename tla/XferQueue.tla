----------------------------- MODULE XferQueue -----------------------------
(***************************************************************************)
(* What a transfer buffer of mp::wavy promises: a queue of the bytes to    *)
(* send and of the finalizers between them, numbered in the order in which *)
(* they are pushed.  What is pushed or migrated goes to the end, what is   *)
(* sent or called leaves at the front, and reset calls the finalizers that *)
(* are left and loses the bytes.                                           *)
(***************************************************************************)
EXTENDS Naturals, Sequences, SequencesExt

CONSTANT Xfers   \* the buffers

VARIABLES
  next,    \* the next number
  todo,    \* what each buffer has still to do: <<"byte" | "fin", number>>
  sent,    \* bytes sent
  called,  \* finalizers called
  lost     \* bytes dropped by reset

vars == <<next, todo, sent, called, lost>>

Init ==
  /\ next = 1
  /\ todo = [x \in Xfers |-> <<>>]
  /\ sent = {} /\ called = {} /\ lost = {}

\* The numbers of a kind in a sequence of things to do.
Numbers(s, kind) == {e[2] : e \in {d \in ToSet(s) : d[1] = kind}}

\* What is new at the end of buffer x is what comes next.
Push(x) ==
  LET n == next' - next
      s == [k \in 1..n |-> todo'[x][Len(todo[x]) + k]] IN
  /\ next' >= next /\ Len(todo'[x]) = Len(todo[x]) + n
  /\ \A k \in 1..n : s[k][2] = next + k - 1
  /\ todo' = [todo EXCEPT ![x] = @ \o s]
  /\ UNCHANGED <<sent, called, lost>>

Send(x, n) ==
  LET s == SubSeq(todo[x], 1, n) IN
  /\ \A k \in 1..n : s[k][1] = "byte"
  /\ todo' = [todo EXCEPT ![x] = SubSeq(@, n + 1, Len(@))]
  /\ sent' = sent \union Numbers(s, "byte")
  /\ UNCHANGED <<next, called, lost>>

Finalize(x) ==
  /\ todo[x] # <<>> /\ Head(todo[x])[1] = "fin"
  /\ todo' = [todo EXCEPT ![x] = Tail(@)]
  /\ called' = called \union {Head(todo[x])[2]}
  /\ UNCHANGED <<next, sent, lost>>

Migrate(x, y) ==
  /\ x # y
  /\ todo' = [todo EXCEPT ![x] = <<>>, ![y] = @ \o todo[x]]
  /\ UNCHANGED <<next, sent, called, lost>>

Reset(x) ==
  /\ todo' = [todo EXCEPT ![x] = <<>>]
  /\ called' = called \union Numbers(todo[x], "fin")
  /\ lost' = lost \union Numbers(todo[x], "byte")
  /\ UNCHANGED <<next, sent>>

Next ==
  \/ \E x \in Xfers : Push(x) \/ Finalize(x) \/ Reset(x)
  \/ \E x \in Xfers : \E n \in 1..Len(todo[x]) : Send(x, n)
  \/ \E x, y \in Xfers : Migrate(x, y)

Spec == Init /\ [][Next]_vars
=============================================================================
