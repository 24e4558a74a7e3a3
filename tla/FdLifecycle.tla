---------------------------- MODULE FdLifecycle ----------------------------
(***************************************************************************)
(* What the event loop promises to the author of a handler: the life of a  *)
(* descriptor, seen from outside.  A descriptor is opened, its handler is  *)
(* armed, an event is reported and queued, one worker runs the handler for *)
(* it, and that worker alone re-arms or closes the descriptor.  A handler  *)
(* therefore needs no lock of its own.                                     *)
(***************************************************************************)
CONSTANTS
  Workers,    \* the threads that run handlers
  Idents,     \* the descriptors
  Permanent   \* the descriptors that are open from the start

VARIABLES
  phase,      \* where each descriptor is in its life
  runners     \* the workers that run the handler of each descriptor

vars == <<phase, runners>>

Phases == {"closed", "opening", "idle", "queued", "running"}

Init ==
  /\ phase = [i \in Idents |-> IF i \in Permanent THEN "idle" ELSE "closed"]
  /\ runners = [i \in Idents |-> {}]

\* A closed descriptor is given to a new connection ...
Open(i) ==
  /\ phase[i] = "closed"
  /\ phase' = [phase EXCEPT ![i] = "opening"]
  /\ UNCHANGED runners

\* ... and becomes visible to the poller once its handler is in place.
Arm(i) ==
  /\ phase[i] = "opening"
  /\ phase' = [phase EXCEPT ![i] = "idle"]
  /\ UNCHANGED runners

\* One poll reports events of several idle descriptors.
Report(S) ==
  /\ \A i \in S : phase[i] = "idle"
  /\ phase' = [i \in Idents |-> IF i \in S THEN "queued" ELSE phase[i]]
  /\ UNCHANGED runners

\* A worker takes the one event of the descriptor.
Begin(w, i) ==
  /\ phase[i] = "queued" /\ runners[i] = {}
  /\ phase' = [phase EXCEPT ![i] = "running"]
  /\ runners' = [runners EXCEPT ![i] = {w}]

\* The worker that runs the handler, and nobody else, ends the run.
Finish(w, i, p) ==
  /\ phase[i] = "running" /\ runners[i] = {w}
  /\ p \in {"idle", "closed"}
  /\ phase' = [phase EXCEPT ![i] = p]
  /\ runners' = [runners EXCEPT ![i] = {}]

Next ==
  \/ \E i \in Idents : Open(i) \/ Arm(i)
  \/ \E S \in SUBSET Idents : Report(S)
  \/ \E w \in Workers, i \in Idents : Begin(w, i)
  \/ \E w \in Workers, i \in Idents, p \in {"idle", "closed"} : Finish(w, i, p)

Spec == Init /\ [][Next]_vars
=============================================================================
