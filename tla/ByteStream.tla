----------------------------- MODULE ByteStream -----------------------------
(***************************************************************************)
(* What a stream_buffer promises: bytes come out in the order in which     *)
(* they went in, and the bytes that a reader has taken and holds a         *)
(* reference for stay as they were until the reference is dropped.  Bytes  *)
(* are numbered in the order of their arrival.  The promise may become     *)
(* void, and from then on says nothing.                                    *)
(***************************************************************************)
EXTENDS Naturals, Sequences

CONSTANTS Refs, MaxBytes

VARIABLES
  next,    \* the number of the next byte
  data,    \* arrived and not used
  given,   \* used since the last release and not lost, as sets of runs
  held,    \* the runs behind each reference
  void     \* the promise has ended

vars == <<next, data, given, held, void>>

Init ==
  /\ next = 1 /\ data = <<>> /\ given = {} /\ held = [r \in Refs |-> {}]
  /\ void = FALSE

Receive(n) ==
  /\ next + n <= MaxBytes + 1
  /\ next' = next + n
  /\ data' = data \o [i \in 1..n |-> next + i - 1]
  /\ UNCHANGED <<given, held>>

Use(n) ==
  /\ n <= Len(data)
  /\ data' = SubSeq(data, n + 1, Len(data))
  /\ given' = given \union {SubSeq(data, 1, n)}
  /\ UNCHANGED <<next, held>>

\* Without a reference, what was used may be lost.
Forget ==
  /\ given' \in SUBSET given
  /\ UNCHANGED <<next, data, held>>

Release(r) ==
  /\ held' = [held EXCEPT ![r] = given]
  /\ given' = {}
  /\ UNCHANGED <<next, data>>

Drop(r) ==
  /\ held' = [held EXCEPT ![r] = {}]
  /\ UNCHANGED <<next, data, given>>

Discard ==
  /\ data' = <<>> /\ given' = {}
  /\ UNCHANGED <<next, held>>

Step ==
  \/ \E n \in 1..MaxBytes : Receive(n) \/ Use(n)
  \/ \E r \in Refs : Release(r) \/ Drop(r)
  \/ Forget \/ Discard

\* The step that ends the promise keeps it.
Void == void' = TRUE /\ UNCHANGED <<next, data, given, held>>

Next ==
  \/ void /\ void'
  \/ ~void /\ Step /\ UNCHANGED void
  \/ ~void /\ Void

Spec == Init /\ [][Next]_vars
=============================================================================
