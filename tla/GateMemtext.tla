---------------------------- MODULE GateMemtext ----------------------------
(***************************************************************************)
(* One connection of the memcached text gate (gate_memtext*.cc): what      *)
(* read_event does with the bytes of a client that sends a script of       *)
(* requests, how the bytes are cut into reads, and the request handlers    *)
(* with the replies they commit.                                           *)
(*                                                                         *)
(* One thread at a time is in read_event (EventOwnership of WavyCore) and  *)
(* replies are bytes of WavyOut, so that here a reply is one element of a  *)
(* sequence.  libmemcached is external: a call may end in any of Errors,   *)
(* the value of a key is the key, and the keys of a memcached_mget come    *)
(* back in any order.                                                      *)
(***************************************************************************)
EXTENDS MemtextParser, FiniteSets

CONSTANTS
  Scripts,   \* the sequences of items that the client may send
  MultiMax,  \* MEMTEXT_MULTI_MAX
  ReadMax,   \* bound of the model: symbols that one read returns
  Errors     \* the memcached_return codes, other than success, of a call

ASSUME GateAssumption == MultiMax \in Nat /\ ReadMax \in Nat \ {0}

-----------------------------------------------------------------------------
(* The client.  An item is a request and the way it is written; a Bad one  *)
(* is no line of the protocol.                                             *)

Item(cmd, keys, nums, block, noreply, space) ==
  [cmd |-> cmd, keys |-> keys, nums |-> nums, block |-> block,
   noreply |-> noreply, space |-> space]

Bad(line) == Item("bad", <<line>>, <<>>, <<>>, FALSE, FALSE)

Spaced(words) == FlattenSeq([i \in 1..Len(words) |-> <<"SP">> \o words[i]])

Stores(q) == q.cmd \in Commands.storage \union Commands.cas

\* A store has a block, which may be empty.
Encode(q) ==
  IF q.cmd = "bad" THEN q.keys[1]
  ELSE <<q.cmd>> \o Spaced(q.keys \o q.nums)
       \o (IF q.noreply THEN <<"SP", "noreply">> ELSE <<>>)
       \o (IF q.space THEN <<"SP">> ELSE <<>>) \o <<"CR", "LF">>
       \o (IF Stores(q) THEN q.block \o <<"CR", "LF">> ELSE <<>>)

\* What an item asks of a callback: the numbers are flags, exptime and bytes for
\* a storage command, and exptime for delete.
Meaning(q) ==
  LET n == [i \in 1..Len(q.nums) |-> Value(q.nums[i])]
  IN [cmd     |-> q.cmd,
      keys    |-> q.keys,
      data    |-> q.block,
      flags   |-> IF Stores(q) THEN n[1] % Wrap16 ELSE 0,
      exptime |-> CASE Stores(q)    -> n[2] % Wrap32
                    [] Len(n) = 1   -> n[1] % Wrap32
                    [] OTHER        -> 0,
      noreply |-> q.noreply]

-----------------------------------------------------------------------------

VARIABLES
  script,   \* what the client sends
  wire,     \* symbols sent and not read
  data,     \* m_buffer: the data that is not used
  off,      \* m_off
  ctx,      \* m_parser
  pc,       \* where the thread of the handler is
  why,      \* why the connection was closed
  r,        \* the request given to a callback
  get,      \* request_get_multi: keys asked, answers left, index, values
  log,      \* the requests that the parser gave to a callback, in order
  replies,  \* the replies committed, each with the number of its request
  spilled   \* a fetched key was longer than the one it was written over

vars == <<script, wire, data, off, ctx, pc, why, r, get, log, replies, spilled>>

buffer == <<wire, data, off, ctx>>
client == <<script, wire>>

NoGet == [asked |-> <<>>, left |-> {}, i |-> 1, multi |-> <<>>]
NoRequest == [cmd |-> "get", pos |-> <<>>, len |-> <<>>, data |-> <<>>,
              flags |-> 0, exptime |-> 0, value |-> 0, noreply |-> FALSE]
NoValue == <<>>

Init ==
  /\ script \in Scripts
  /\ wire = FlattenSeq([j \in 1..Len(script) |-> Encode(script[j])])
  /\ data = <<>> /\ off = 0 /\ ctx = memtext_init
  /\ pc = "idle" /\ why = "open"
  /\ r = NoRequest /\ get = NoGet
  /\ log = <<>> /\ replies = <<>> /\ spilled = FALSE

Close(reason) == pc' = "closed" /\ why' = reason

-----------------------------------------------------------------------------
(* handler::read_event and memtext_execute                                 *)

ReadEvent(n) ==
  /\ pc = "idle" /\ n <= Len(wire)
  /\ data' = data \o SubSeq(wire, 1, n)
  /\ wire' = SubSeq(wire, n + 1, Len(wire))
  /\ pc' = "execute"
  /\ UNCHANGED <<script, off, ctx, why, r, get, log, replies, spilled>>

\* read returns 0 or an error
Hangup ==
  /\ pc = "idle"
  /\ Close("hangup")
  /\ UNCHANGED <<script, buffer, r, get, log, replies, spilled>>

KeyText(q, i) == Text(data, q.pos[i], q.len[i])

\* The callbacks of the constructor; the other entries are NULL.
Callbacks == {"get", "gets", "set", "delete"}

Execute ==
  /\ pc = "execute" /\ off < Len(data)
  /\ LET c == Feed(ctx, data, off)
         q == Request(c, data)
     IN /\ ctx' = c
        /\ \/ /\ c.at = Error
              /\ Close("parse error")
              /\ UNCHANGED <<off, r, log>>
           \/ /\ c.at # Error /\ ~Finished(c, ctx)
              /\ off' = off + 1
              /\ UNCHANGED <<pc, why, r, log>>
           \/ /\ Finished(c, ctx) /\ c.command \notin Callbacks
              /\ Close("no callback")
              /\ UNCHANGED <<off, r, log>>
           \/ /\ Finished(c, ctx) /\ c.command \in Callbacks
              /\ log' = Append(log, [cmd |-> q.cmd,
                                     keys |-> [i \in DOMAIN q.pos |-> KeyText(q, i)],
                                     data |-> q.data, flags |-> q.flags, exptime |-> q.exptime,
                                     noreply |-> q.noreply])
              /\ r' = q
              /\ off' = off + 1 /\ pc' = "request"
              /\ UNCHANGED why
  /\ UNCHANGED <<client, data, get, replies, spilled>>

ExecuteEnd_NotUsed ==
  /\ pc = "execute" /\ off = Len(data)
  /\ pc' = "idle"
  /\ UNCHANGED <<client, data, off, ctx, why, r, get, log, replies, spilled>>

\* The end of the data: used up when it is the end of a request.
ExecuteEnd ==
  /\ pc = "execute" /\ off = Len(data)
  /\ IF ctx.at = Start
     THEN data' = SubSeq(data, off + 1, Len(data)) /\ off' = 0
     ELSE UNCHANGED <<data, off>>
  /\ pc' = "idle"
  /\ UNCHANGED <<client, ctx, why, r, get, log, replies, spilled>>

-----------------------------------------------------------------------------
(* The request handlers                                                    *)

Reply(text, items) == Append(replies, [to |-> Len(log), text |-> text, items |-> items])
send_static(text) == replies' = Reply(text, <<>>)

ErrorText(err) ==
  CASE err = "NOTSTORED"    -> "NOT_STORED"
    [] err = "DELETED"      -> "DELETED"
    [] err = "NOTFOUND"     -> "NOT_FOUND"
    [] err = "CLIENT_ERROR" -> "CLIENT_ERROR"
    [] err = "NO_SERVERS"   -> "SERVER_ERROR no server"
    [] err = "SERVER_ERROR" -> "SERVER_ERROR"
    [] OTHER                -> "SERVER_ERROR unknown error"

send_error(err) == send_static(ErrorText(err))

Return == pc' = "execute" /\ UNCHANGED why

\* proxy_client::get or an allocation throws: out of memtext_execute and of
\* read_event.
Throw ==
  /\ pc \in {"request", "reply"}
  /\ Close("exception")
  /\ UNCHANGED <<script, buffer, r, get, log, replies, spilled>>

Retrieves == r.cmd \in {"get", "gets"}

request_get_single ==
  /\ pc = "request" /\ Retrieves /\ Len(r.pos) = 1
  /\ \/ \E err \in Errors \ {"NOTFOUND"} : send_error(err)
     \/ send_static("END")
     \/ replies' = Reply("VALUE", <<[key |-> KeyText(r, 1), val |-> KeyText(r, 1)]>>)
  /\ Return
  /\ UNCHANGED <<script, buffer, r, get, log, spilled>>

\* Up to the call of memcached_mget.
request_get_multi ==
  /\ pc = "request" /\ Retrieves /\ Len(r.pos) # 1
  /\ LET asked == [i \in DOMAIN r.pos |-> KeyText(r, i)]
     IN \/ /\ Len(r.pos) > MultiMax
           /\ send_error("CLIENT_ERROR")
           /\ Return
           /\ UNCHANGED get
        \/ /\ Len(r.pos) <= MultiMax
           /\ \E err \in Errors : send_error(err)
           /\ Return
           /\ UNCHANGED get
        \/ /\ Len(r.pos) <= MultiMax
           /\ get' = [asked |-> asked, left |-> DOMAIN asked, i |-> 1,
                      multi |-> [i \in DOMAIN asked |-> NoValue]]
           /\ pc' = "fetch"
           /\ UNCHANGED <<why, replies>>
  /\ UNCHANGED <<script, buffer, r, log, spilled>>

\* memcached_fetch writes text over the data at pos.
Overwritten(pos, text) ==
  [x \in DOMAIN data |-> IF x - pos \in DOMAIN text THEN text[x - pos] ELSE data[x]]

Fetching == pc = "fetch" /\ get.i <= Len(r.pos)

Fetch_KeepsLength(j) ==
  /\ Fetching /\ j \in get.left
  /\ LET k == get.asked[j]
     IN /\ data' = Overwritten(r.pos[get.i], k)
        /\ spilled' = (spilled \/ Len(k) > r.len[get.i])
        /\ get' = [get EXCEPT !.left = @ \ {j}, !.multi[get.i] = k, !.i = @ + 1]
  /\ UNCHANGED <<client, off, ctx, pc, why, r, log, replies>>

\* The answer for the j-th key asked, in the i-th turn of the loop.
Fetch(j) ==
  /\ Fetching /\ j \in get.left
  /\ LET k == get.asked[j]
     IN /\ data' = Overwritten(r.pos[get.i], k)
        /\ r' = [r EXCEPT !.len[get.i] = Len(k)]
        /\ spilled' = (spilled \/ Len(k) > r.len[get.i])
        /\ get' = [get EXCEPT !.left = @ \ {j}, !.multi[get.i] = k, !.i = @ + 1]
  /\ UNCHANGED <<client, off, ctx, pc, why, log, replies>>

FetchNotFound ==
  /\ Fetching
  /\ get' = [get EXCEPT !.i = @ + 1]
  /\ UNCHANGED <<script, buffer, pc, why, r, log, replies, spilled>>

FetchError(err) ==
  /\ Fetching /\ err \notin {"NOTFOUND", "END"}
  /\ send_error(err)
  /\ Return
  /\ UNCHANGED <<script, buffer, r, get, log, spilled>>

\* MEMCACHED_END, or every turn of the loop taken.
FetchEnd ==
  /\ pc = "fetch"
  /\ pc' = "reply"
  /\ UNCHANGED <<script, buffer, why, r, get, log, replies, spilled>>

Found == {i \in DOMAIN get.multi : get.multi[i] # NoValue}

\* The headers are made of the keys as they are in the data now.
MultiReply ==
  /\ pc = "reply"
  /\ IF Found = {} THEN send_static("END")
     ELSE replies' = Reply("VALUE",
            LET turns == SetToSortSeq(Found, <)
            IN [x \in DOMAIN turns |-> [key |-> KeyText(r, turns[x]), val |-> get.multi[turns[x]]]])
  /\ Return
  /\ UNCHANGED <<script, buffer, r, get, log, spilled>>

\* The end of request_set and of request_delete.
Answer(text) ==
  /\ pc = "request"
  /\ \/ r.noreply /\ UNCHANGED replies
     \/ ~r.noreply /\ send_static(text)
     \/ ~r.noreply /\ \E err \in Errors : send_error(err)
  /\ Return
  /\ UNCHANGED <<script, buffer, r, get, log, spilled>>

request_set == r.cmd = "set" /\ Answer("STORED")

request_delete == r.cmd = "delete" /\ Answer("DELETED")

-----------------------------------------------------------------------------

Finish ==
  /\ pc = "closed" \/ (pc = "idle" /\ wire = <<>>)
  /\ UNCHANGED vars

Step ==
  \/ Execute \/ ExecuteEnd
  \/ request_get_single \/ request_get_multi \/ request_set \/ request_delete
  \/ \E j \in 1..(MultiMax + 1) : Fetch(j)
  \/ FetchNotFound \/ FetchEnd \/ MultiReply
  \/ \E err \in Errors : FetchError(err)

Next ==
  \/ \E n \in 1..ReadMax : ReadEvent(n)
  \/ Step \/ Throw \/ Hangup \/ Finish

Spec == Init /\ [][Next]_vars

-----------------------------------------------------------------------------
(* Properties                                                              *)

\* The variables stay within their types, and the positions that the parser
\* keeps within the data.
TypeOK ==
  /\ pc \in {"idle", "execute", "request", "fetch", "reply", "closed"}
  /\ off \in 0..Len(data)
  /\ \A i \in DOMAIN data : data[i] \in Symbols
  /\ Keys(ctx) \in 0..MaxMultiGet
  /\ \A i \in DOMAIN r.pos : pc = "request" => r.pos[i] + r.len[i] <= off
  /\ get.left \subseteq DOMAIN get.asked

Good(q) == q.cmd # "bad"

\* However the bytes are cut into reads and however many requests one read
\* holds, the requests that the parser makes of them are those that the client
\* wrote, in order and with their keys, data and numbers: marks taken in one
\* read are good in the next one (gate_memtext.cc:102-112).  Excluded is a
\* connection on which memcached_fetch wrote over the input.
RequestsFaithful ==
  ~spilled => /\ Len(log) <= Len(script)
              /\ \A j \in DOMAIN log : Good(script[j]) /\ log[j] = Meaning(script[j])

\* A reply that a request may get.
Suits(q, reply) ==
  CASE reply.text = "VALUE"  ->
         /\ KindOf(q.cmd) = "retrieval" /\ reply.items # <<>>
         /\ \A x \in DOMAIN reply.items :
              reply.items[x].key = reply.items[x].val /\ reply.items[x].key \in Range(q.keys)
    [] reply.text = "END"    -> KindOf(q.cmd) = "retrieval"
    [] reply.text = "STORED" -> q.cmd = "set"
    [] OTHER                 -> reply.text \in {ErrorText(e) : e \in Errors \union {"CLIENT_ERROR", "DELETED"}}

Handled ==
  IF pc \in {"request", "fetch", "reply"} \/ why = "exception" THEN 1..(Len(log) - 1) ELSE DOMAIN log

\* Every request that was handled got one reply, in the order of the requests,
\* and none if it says noreply; a VALUE pairs a key of the request with its
\* own value, although the fetch loop hands answers to keys of other
\* positions (gate_memtext_retrieval.cc:166-232).
RepliesMatch ==
  ~spilled => /\ \A x \in DOMAIN replies : Suits(script[replies[x].to], replies[x])
              /\ \A x, y \in DOMAIN replies : x < y => replies[x].to < replies[y].to
              /\ \A j \in Handled : (\E x \in DOMAIN replies : replies[x].to = j) <=> ~script[j].noreply

\* The grammar has no store of no bytes, which is a request of the protocol
\* (memtext.rl:221: bytes does not begin with 0).
EmptyStore(q) == Stores(q) /\ q.nums[3] = <<"0">>

\* A connection is given up for its input only at the first thing that is not
\* a request of the protocol, is a store of no bytes (memtext.rl:221), or that
\* memxy has no callback for; every request before it reached its callback.
NoFalseError ==
  LET q == script[Len(log) + 1]
  IN ~spilled => /\ why = "parse error" => ~Good(q) \/ EmptyStore(q)
                 /\ why = "no callback" => Good(q) /\ q.cmd \notin Callbacks

\* When the handler has read everything and waits, every request is handled:
\* none is left in the buffer until the client sends more.
NothingHeldBack ==
  (pc = "idle" /\ wire = <<>> /\ ~spilled) => Len(log) = Len(script) /\ data = <<>>

\* A line with more than MEMTEXT_MAX_MULTI_GET keys (memtext.h:26) is an error
\* of the parser and never reaches a callback (memtext.rl:73).
LimitRefused ==
  \A j \in DOMAIN log : Good(script[j]) => Len(script[j].keys) <= MaxMultiGet
=============================================================================
