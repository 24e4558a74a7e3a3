--------------------------- MODULE MCGateMemtext ---------------------------
EXTENDS GateMemtext

MCErrors == {"NOTSTORED", "NOTFOUND", "NO_SERVERS"}

Get(keys)  == Item("get", keys, <<>>, <<>>, FALSE, FALSE)
A  == <<"a">>
AB == <<"a", "b">>
N(cmd) == <<cmd, "1">>   \* a key that begins like a command

\* get and gets with a key, several, too many, and the space of libmemcached
Two     == Get(<<A, AB>>)
TwoRev  == Get(<<AB, A>>)
Gets3   == Item("gets", <<A, <<"b">>, A>>, <<>>, <<>>, FALSE, TRUE)
One     == Get(<<N("get")>>)

\* a block with the end of a line in it; a quiet set; numbers that wrap
SetCRLF == Item("set", <<A>>, <<<<"0">>, <<"2">>, <<"2">>>>, <<"CR", "LF">>, FALSE, FALSE)
SetQuiet == Item("set", <<AB>>, <<<<"1", "0">>, <<"0">>, <<"1">>>>, <<"set">>, TRUE, TRUE)

\* a block of no bytes; numbers larger than strtoul can return
SetEmpty == Item("set", <<A>>, <<<<"0">>, <<"0">>, <<"0">>>>, <<>>, FALSE, FALSE)
SetLarge == Item("set", <<A>>, <<<<"2", "0", "1">>, <<"2", "0", "0">>, <<"1">>>>, <<"b">>, TRUE, FALSE)

Del      == Item("delete", <<A>>, <<>>, <<>>, FALSE, FALSE)
DelQuiet == Item("delete", <<A>>, <<>>, <<>>, TRUE, FALSE)
DelTime  == Item("delete", <<A>>, <<<<"1", "1">>>>, <<>>, TRUE, FALSE)

Add  == Item("add", <<A>>, <<<<"1">>, <<"1">>, <<"1">>>>, <<"b">>, FALSE, FALSE)
Cas  == Item("cas", <<A>>, <<<<"1">>, <<"1">>, <<"1">>, <<"2">>>>, <<"b">>, TRUE, FALSE)
Incr == Item("incr", <<AB>>, <<<<"2">>>>, <<>>, TRUE, FALSE)

NoKey    == Bad(<<"get", "CR", "LF">>)
LongNum  == Bad(<<"delete", "SP", "a", "SP", "1", "1", "1", "1", "CR", "LF">>)
Zero     == Bad(<<"delete", "SP", "a", "SP", "1", "0", "0", "CR", "LF">>)

MCScripts ==
  {<<Two, SetQuiet, Del>>, <<TwoRev, Two>>, <<SetQuiet, Gets3>>, <<SetCRLF, One, DelTime>>,
   <<DelTime, DelQuiet>>, <<Del, Cas>>, <<SetQuiet, Incr>>, <<Add, Del>>,
   <<SetLarge, SetEmpty>>, <<Del, SetEmpty>>, <<One, NoKey>>, <<LongNum, Del>>, <<DelQuiet, Zero>>}

LimitScripts == {<<Get(<<A, A>>), Get(<<A, A, A>>)>>}
=============================================================================
