--------------------------- MODULE MemtextParser ---------------------------
(***************************************************************************)
(* The parser of the memcached text protocol (memproto/memtext.rl): the    *)
(* deterministic machine that Ragel makes of the grammar, the context it   *)
(* keeps between two calls, and the actions of its transitions.            *)
(*                                                                         *)
(* The input is a sequence of symbols.  A command word and "noreply" are   *)
(* one symbol each (no action happens inside of a word); the other symbols *)
(* stand for one character.  Positions are relative to the start of the    *)
(* data, as the marks of the code are.                                     *)
(***************************************************************************)
EXTENDS Integers, Sequences, SequencesExt

CONSTANTS
  MaxMultiGet,  \* MEMTEXT_MAX_MULTI_GET
  NumBufMax,    \* NUM_BUF_MAX
  MaxULong,     \* 2^64 - 1 in the code: the largest number strtoul returns
  Wrap32,       \* 2^32 in the code: the width of exptime, which also has to hold a
                \* position in the data (take it larger than those)
  Wrap16        \* 2^16 in the code: the width of flags in a request

ASSUME ParserAssumption ==
  /\ MaxMultiGet \in Nat \ {0} /\ NumBufMax \in Nat \ {0} /\ MaxULong \in Nat \ {0}
  /\ Wrap32 \in Nat \ {0} /\ Wrap16 \in Nat \ {0}

Commands ==
  [retrieval |-> {"get", "gets"},
   storage   |-> {"set", "add", "replace", "append", "prepend"},
   cas       |-> {"cas"},
   delete    |-> {"delete"},
   numeric   |-> {"incr", "decr"}]

Kinds == DOMAIN Commands
Words == UNION {Commands[k] : k \in Kinds}
KindOf(word) == CHOOSE k \in Kinds : word \in Commands[k]

NonZero   == {"1", "2"}
Digits    == NonZero \union {"0"}
DigitValue == [d \in Digits |-> CASE d = "0" -> 0 [] d = "1" -> 1 [] d = "2" -> 2]
Letters   == {"a", "b"}
KeyChars  == Words \union Digits \union Letters \union {"noreply"}
Symbols   == KeyChars \union {"SP", "CR", "LF", "NUL"}

-----------------------------------------------------------------------------
(* The machine.  A place is a part of the line and how far the machine is  *)
(* in it; a row says what a symbol does there.                             *)

Row(from, on, do, to) == [from |-> from, on |-> on, do |-> do, to |-> to]

Start     == <<"command", "start">>   \* also the final state of the machine
WordEnd   == <<"command", "end">>
KeyStart  == <<"key", "start">>
KeyMore   == <<"key", "more">>
LineEnd   == <<"line", "end">>
InData    == <<"data", "more">>
DataEnd   == <<"data", "end">>
DataCR    == <<"data", "cr">>
Error     == <<"command", "error">>

\* A decimal number; "0" alone where zero is TRUE.  exits: what follows it.
Number(f, zero, exits) ==
  LET start == <<f, "start">>
      more  == <<f, "more">>
      alone == <<f, "zero">>
      Out(s) == {Row(s, {e[1]}, <<<<"set", f>>>>, e[2]) : e \in exits}
  IN {Row(start, NonZero, <<<<"mark", f>>>>, more), Row(more, Digits, <<>>, more)}
     \union Out(more)
     \union (IF zero THEN {Row(start, {"0"}, <<<<"mark", f>>>>, alone)} \union Out(alone) ELSE {})

\* The word noreply before the end of the line.
Noreply ==
  {Row(<<"noreply", "start">>, {"noreply"}, <<>>, <<"noreply", "more">>),
   Row(<<"noreply", "more">>, {"CR"}, <<<<"noreply">>>>, LineEnd)}

\* The block of data after the line of a storage command.
DataBlock(do) ==
  {Row(LineEnd, {"LF"}, <<<<"data_start">>>>, InData),
   Row(DataEnd, {"CR"}, <<>>, DataCR),
   Row(DataCR, {"LF"}, <<<<do>>>>, Start)}

\* The optional space before the end of the line, for apr_memcache.
StorageSpace ==
  {Row(<<"noreply", "start">>, {"CR"}, <<>>, LineEnd),
   Row(<<"noreply", "more">>, {"SP"}, <<<<"noreply">>>>, <<"space", "more">>),
   Row(<<"space", "more">>, {"CR"}, <<>>, LineEnd)}

AfterKey ==
  [retrieval |->
     {Row(KeyMore, {"SP"}, <<<<"key">>>>, <<"key", "next">>),
      Row(<<"key", "next">>, KeyChars, <<<<"incr_key">>, <<"mark_key">>>>, KeyMore),
      Row(<<"key", "next">>, {"CR"}, <<>>, LineEnd),
      Row(KeyMore, {"CR"}, <<<<"key">>>>, LineEnd),
      Row(LineEnd, {"LF"}, <<<<"do_retrieval">>>>, Start)},
   storage |->
     {Row(KeyMore, {"SP"}, <<<<"key">>>>, <<"flags", "start">>)}
     \union Number("flags", TRUE, {<<"SP", <<"exptime", "start">>>>})
     \union Number("exptime", TRUE, {<<"SP", <<"bytes", "start">>>>})
     \union Number("bytes", FALSE, {<<"SP", <<"noreply", "start">>>>, <<"CR", LineEnd>>})
     \union Noreply \union StorageSpace \union DataBlock("do_storage"),
   cas |->
     {Row(KeyMore, {"SP"}, <<<<"key">>>>, <<"flags", "start">>)}
     \union Number("flags", TRUE, {<<"SP", <<"exptime", "start">>>>})
     \union Number("exptime", TRUE, {<<"SP", <<"bytes", "start">>>>})
     \union Number("bytes", FALSE, {<<"SP", <<"cas_unique", "start">>>>})
     \union Number("cas_unique", TRUE, {<<"SP", <<"noreply", "start">>>>, <<"CR", LineEnd>>})
     \union Noreply \union DataBlock("do_cas"),
   delete |->
     {Row(KeyMore, {"SP"}, <<<<"key">>>>, <<"exptime", "start">>),
      Row(KeyMore, {"CR"}, <<<<"key">>>>, LineEnd),
      Row(<<"exptime", "start">>, {"noreply"}, <<>>, <<"noreply", "more">>),
      Row(LineEnd, {"LF"}, <<<<"do_delete">>>>, Start)}
     \union Number("exptime", TRUE, {<<"SP", <<"noreply", "start">>>>, <<"CR", LineEnd>>})
     \union Noreply,
   numeric |->
     {Row(KeyMore, {"SP"}, <<<<"key">>>>, <<"cas_unique", "start">>),
      Row(LineEnd, {"LF"}, <<<<"do_numeric">>>>, Start)}
     \union Number("cas_unique", TRUE, {<<"SP", <<"noreply", "start">>>>, <<"CR", LineEnd>>})
     \union Noreply]

\* The row for symbol ch at a place of a command, as a set of at most one.
Rows(kind, at, ch) ==
  {r \in AfterKey[kind] \union
         {Row(WordEnd, {"SP"}, <<>>, KeyStart),
          Row(KeyStart, KeyChars, <<<<"mark_key">>>>, KeyMore),
          Row(KeyMore, KeyChars, <<>>, KeyMore)}
     : r.from = at /\ ch \in r.on}

-----------------------------------------------------------------------------
(* The context.  key_pos, key_len and keys lie one behind the other, as in *)
(* the struct: an index of MaxMultiGet reaches the next of them.           *)

KeyPos(i) == i
KeyLen(i) == MaxMultiGet + i
KeysCell  == 2 * MaxMultiGet

memtext_init ==
  [at |-> Start, stack |-> Start, command |-> "get",
   cells |-> [i \in 0..KeysCell |-> 0],
   flags |-> 0, exptime |-> 0, bytes |-> 0, cas_unique |-> 0,
   noreply |-> FALSE, data_pos |-> 0, data_len |-> 0, data_count |-> 0]

Keys(ctx) == ctx.cells[KeysCell]
Failed(ctx) == [ctx EXCEPT !.at = Error]

\* The n symbols of data from position pos; what is beyond the data is not
\* there to be read.
Text(data, pos, n) == SubSeq(data, pos + 1, IF pos + n > Len(data) THEN Len(data) ELSE pos + n)

\* strtoul and strtoull: a number that is too large is the largest one.
Value(text) ==
  LET n == FoldLeft(LAMBDA v, d : 10 * v + DigitValue[d], 0, text)
  IN IF n > MaxULong THEN MaxULong ELSE n

reset_KeepsExptime(ctx) == [ctx EXCEPT !.cells[KeysCell] = 0, !.noreply = FALSE]

reset(ctx) == [ctx EXCEPT !.cells[KeysCell] = 0, !.noreply = FALSE, !.exptime = 0]

mark_key(ctx, p) == [ctx EXCEPT !.cells[KeyPos(Keys(ctx))] = p]

key(ctx, p) == [ctx EXCEPT !.cells[KeyLen(Keys(ctx))] = p - ctx.cells[KeyPos(Keys(ctx))]]

incr_key(ctx) ==
  LET c == [ctx EXCEPT !.cells[KeysCell] = @ + 1]
  IN IF Keys(c) > MaxMultiGet THEN Failed(c) ELSE c

\* A number is kept in the field that had its mark.
Store(ctx, f, v) == [ctx EXCEPT ![f] = IF f = "exptime" THEN v % Wrap32 ELSE v]

SET_INTEGER(ctx, f, data, p) ==
  LET text == Text(data, ctx[f], p - ctx[f])
      c    == Store(ctx, f, Value(text))
  IN CASE text[1] = "0"                         -> Store(ctx, f, 0)
       [] text[1] # "0" /\ Len(text) > NumBufMax -> Failed(ctx)
       [] OTHER                                  -> IF c[f] = 0 THEN Failed(c) ELSE c

data_start(ctx, p) ==
  [ctx EXCEPT !.data_pos = p + 1, !.data_count = ctx.bytes, !.stack = DataEnd]

data_char_OneMore(ctx, p) ==
  LET c == [ctx EXCEPT !.data_count = @ - 1]
  IN IF ctx.data_count = 0
     THEN [c EXCEPT !.data_len = p + 1 - ctx.data_pos, !.at = ctx.stack]
     ELSE c

data_char(ctx, p) ==
  LET c == [ctx EXCEPT !.data_count = @ - 1]
  IN IF c.data_count = 0
     THEN [c EXCEPT !.data_len = p + 1 - ctx.data_pos, !.at = ctx.stack]
     ELSE c

\* One action of a transition.  What the do_ actions hand to a callback is
\* Request, below; do_retrieval counts the last key.
Do(ctx, a, data, p) ==
  CASE ctx.at = Error           -> ctx
    [] a[1] = "mark_key"        -> mark_key(ctx, p)
    [] a[1] = "key"             -> key(ctx, p)
    [] a[1] = "incr_key"        -> incr_key(ctx)
    [] a[1] = "mark"            -> Store(ctx, a[2], p)
    [] a[1] = "set"             -> SET_INTEGER(ctx, a[2], data, p)
    [] a[1] = "noreply"         -> [ctx EXCEPT !.noreply = TRUE]
    [] a[1] = "data_start"      -> data_start(ctx, p)
    [] a[1] = "do_retrieval"    -> [ctx EXCEPT !.cells[KeysCell] = @ + 1]
    [] OTHER                    -> ctx

\* What the parser does with the symbol at position p: the context after it.
Feed(ctx, data, p) ==
  LET ch   == data[p + 1]
      rows == Rows(KindOf(ctx.command), ctx.at, ch)
      r    == CHOOSE x \in rows : TRUE
  IN CASE ctx.at = InData                     -> data_char(ctx, p)
       [] ctx.at = Start /\ ch \in Words      -> [reset(ctx) EXCEPT !.command = ch, !.at = WordEnd]
       [] ctx.at \notin {InData, Start} /\ rows # {} ->
            FoldLeft(LAMBDA c, a : Do(c, a, data, p), [ctx EXCEPT !.at = r.to], r.do)
       [] OTHER                               -> Failed(ctx)

\* The command whose last symbol was just fed.
Finished(ctx, before) == ctx.at = Start /\ before.at \in {LineEnd, DataCR}

\* The request that the do_ action makes of the context: the keys as
\* positions in the data, like the pointers of the code.  do_cas fills the last
\* two fields in the wrong order: noreply gets the number, the number noreply.
Request(ctx, data) ==
  LET k == KindOf(ctx.command)
      n == IF k = "retrieval" THEN Keys(ctx) ELSE 1
      stores == k \in {"storage", "cas"}
  IN [cmd     |-> ctx.command,
      pos     |-> [i \in 1..n |-> ctx.cells[KeyPos(i - 1)]],
      len     |-> [i \in 1..n |-> ctx.cells[KeyLen(i - 1)]],
      data    |-> IF stores THEN Text(data, ctx.data_pos, ctx.data_len) ELSE <<>>,
      flags   |-> IF stores THEN ctx.flags % Wrap16 ELSE 0,
      exptime |-> IF stores \/ k = "delete" THEN ctx.exptime ELSE 0,
      value   |-> CASE k = "numeric" -> ctx.cas_unique
                    [] k = "cas"     -> IF ctx.noreply THEN 1 ELSE 0
                    [] OTHER         -> 0,
      noreply |-> CASE k = "retrieval" -> FALSE
                    [] k = "cas"       -> ctx.cas_unique # 0
                    [] OTHER           -> ctx.noreply]
=============================================================================
