------------------------------- MODULE MCPuts -------------------------------
(***************************************************************************)
(* Puts for TLC: every number of a short word in every format by itself,   *)
(* and every text of up to three items.                                    *)
(***************************************************************************)
EXTENDS Puts

Called(by, items, args) == [by |-> by, items |-> items, args |-> args]

Items ==
  {<<"a">>, <<"2">>} \cup {<<"%", letter>> : letter \in {"d", "q", "x", "b", "c", "s", "%"}} \cup
  {<<"%", "m", "0">>, <<"%", "m", "2">>}
Texts == UNION {[1 .. n -> Items] : n \in 0 .. 3}
SomeArguments == <<300, 7, 1000>>

AllCalls ==
  {Called("puts", <<<<"%", f>>>>, <<n>>) : f \in DOMAIN Formats, n \in 0 .. WORD64 - 1} \cup
  {Called("monitor_put_dec", << >>, <<n>>) : n \in 0 .. WORD32 - 1} \cup
  {Called("monitor_put_hex", << >>, <<n>>) : n \in 0 .. WORD64 - 1} \cup
  {Called(by, t, SomeArguments) : by \in {"puts", "INFO"}, t \in Texts} \cup
  {Called("puts_with_va", Append(t, <<"%">>), SomeArguments) : t \in Texts}
=============================================================================
