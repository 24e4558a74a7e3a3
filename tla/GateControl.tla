---------------------------- MODULE GateControl ----------------------------
(***************************************************************************)
(* One connection of the control gate (gate_control.cc).  A message is a   *)
(* length, most significant byte first, and a list of servers, which goes  *)
(* to proxy_client::set_servers as a C string.  The bytes arrive in reads  *)
(* of any size; set_servers, which ProxyClient models, may throw.          *)
(***************************************************************************)
EXTENDS Integers, Sequences, FiniteSetsExt

CONSTANTS
  SizeofLen,  \* sizeof(uint32_t)
  Base,       \* the values of a byte, 256 in the code
  Scripts,    \* the sequences of messages that a client may send
  ReadMax     \* bound of the model: bytes that one read returns

\* The numbers that k bytes hold are those below Power[k].
Power[k \in Nat] == IF k = 0 THEN 1 ELSE Base * Power[k - 1]

ASSUME ControlAssumption ==
  /\ SizeofLen \in Nat \ {0} /\ Base \in Nat \ {0, 1} /\ ReadMax \in Nat \ {0}
  /\ Scripts \subseteq Seq(Seq(Nat)) \ {<<>>}
  /\ \A s \in Scripts : \A j \in 1..Len(s) : Len(s[j]) < Power[SizeofLen]

\* pack('N') of memxyctl and ntohl of the gate, for k bytes, the most significant
\* one in front.
packN[k \in Nat] ==
  [n \in Nat |-> IF k = 0 THEN <<>>
                 ELSE <<(n \div Power[k - 1]) % Base>> \o packN[k - 1][n % Power[k - 1]]]
ntohl[k \in Nat] ==
  [bytes \in Seq(Nat) |-> IF k = 0 \/ bytes = <<>> THEN 0
                          ELSE Head(bytes) * Power[k - 1] + ntohl[k - 1][Tail(bytes)]]

\* What memxyctl sends for a list of servers, and for the last k of several.
Encode(list) == packN[SizeofLen][Len(list)] \o list
Sent[k \in Nat] ==
  [lists \in Seq(Seq(Nat)) |-> IF k \notin 1..Len(lists) THEN <<>>
                               ELSE Encode(lists[Len(lists) - k + 1]) \o Sent[k - 1][lists]]

\* The characters before the first NUL.
CString(body) ==
  LET nul == {i \in DOMAIN body : body[i] = 0}
  IN IF nul = {} THEN body ELSE SubSeq(body, 1, Min(nul) - 1)

VARIABLES
  script,   \* the messages of the client
  wire,     \* bytes sent and not read
  data,     \* m_buffer: bytes read and not used
  pc,
  applied   \* the strings that set_servers got and took

vars == <<script, wire, data, pc, applied>>

Init ==
  /\ script \in Scripts
  /\ wire = Sent[Len(script)][script]
  /\ data = <<>> /\ pc = "idle" /\ applied = <<>>

\* read and buffer_consumed
ReadEvent(n) ==
  /\ pc = "idle" /\ n <= Len(wire)
  /\ data' = data \o SubSeq(wire, 1, n)
  /\ wire' = SubSeq(wire, n + 1, Len(wire))
  /\ pc' = "frame"
  /\ UNCHANGED <<script, applied>>

\* read returns 0 or an error
Hangup ==
  /\ pc = "idle"
  /\ pc' = "closed"
  /\ UNCHANGED <<script, wire, data, applied>>

sz == ntohl[SizeofLen][SubSeq(data, 1, SizeofLen)]

\* The condition of the loop, and of the break in it.
Whole == Len(data) > SizeofLen /\ Len(data) - SizeofLen >= sz

process_body_NotUsed ==
  /\ pc = "frame" /\ Whole
  /\ \/ /\ applied' = Append(applied, CString(SubSeq(data, SizeofLen + 1, SizeofLen + sz)))
        /\ data' = SubSeq(data, sz + 1, Len(data))
        /\ UNCHANGED pc
     \/ pc' = "closed" /\ UNCHANGED <<data, applied>>
  /\ UNCHANGED <<script, wire>>

\* process_body and data_used, or an exception of malloc or of set_servers.
process_body ==
  /\ pc = "frame" /\ Whole
  /\ \/ /\ applied' = Append(applied, CString(SubSeq(data, SizeofLen + 1, SizeofLen + sz)))
        /\ data' = SubSeq(data, SizeofLen + sz + 1, Len(data))
        /\ UNCHANGED pc
     \/ pc' = "closed" /\ UNCHANGED <<data, applied>>
  /\ UNCHANGED <<script, wire>>

FrameEnd_OnePerRead ==
  /\ pc = "frame"
  /\ pc' = "idle"
  /\ UNCHANGED <<script, wire, data, applied>>

\* The end of the loop, by its condition or by the break.
FrameEnd ==
  /\ pc = "frame" /\ ~Whole
  /\ pc' = "idle"
  /\ UNCHANGED <<script, wire, data, applied>>

Finish ==
  /\ pc = "closed" \/ (pc = "idle" /\ wire = <<>>)
  /\ UNCHANGED vars

Next ==
  \/ \E n \in 1..ReadMax : ReadEvent(n)
  \/ process_body \/ FrameEnd \/ Hangup \/ Finish

Spec == Init /\ [][Next]_vars

-----------------------------------------------------------------------------
(* Properties                                                              *)

\* However the bytes are cut, set_servers gets the lists that were sent, in
\* their order and up to their first NUL (gate_control.cc:82-93, 106-122).
AppliedInOrder ==
  /\ Len(applied) <= Len(script)
  /\ \A j \in DOMAIN applied : applied[j] = CString(script[j])

\* The messages that can be handled at once: all, except that the last one,
\* when it is empty, waits for more bytes (line 82 asks for more than a length).
Handleable ==
  IF script[Len(script)] = <<>> THEN Len(script) - 1 ELSE Len(script)

\* When the handler has read everything and waits, it has handled every message
\* but an empty one at the end.
NothingHeldBack ==
  pc = "idle" /\ wire = <<>> => Len(applied) = Handleable

=============================================================================
