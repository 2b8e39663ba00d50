------------------------- MODULE MCSourceCollection -------------------------
(***************************************************************************)
(* A small instance of SourceCollection for TLC.  Rows a and b are good and *)
(* ab relates their records, number names a by a number; x is malformed, odd  *)
(* so that its issue is too long, again repeats the key of a, big is over the *)
(* limit of a record, the key of long is too long.                          *)
(***************************************************************************)
EXTENDS SourceCollection

Rows == {"a", "b", "ab", "number", "x", "odd", "again", "big", "long"}

Big == {"big"}

Text(key) == <<key, "string">>
Digits(key) == <<key, "number">>

TooLong == {Text("long")}
LongIssue == {"odd"}

Good(keys, links) == [malformed |-> FALSE, keys |-> keys, links |-> links, bytes |-> 2]

Outputs == [r \in Rows |->
    CASE r \in {"a", "b", "big", "long"} -> Good(<<Text(r)>>, <<>>)
      [] r = "again" -> Good(<<Text("a")>>, <<>>)
      [] r = "ab" -> Good(<<>>, << <<Text("a"), Text("b")>> >>)
      [] r = "number" -> Good(<<>>, << <<Digits("a"), Text("a")>> >>)
      [] r \in {"x", "odd"} ->
            [Good(<<Text(r)>>, << <<Text(r), Text(r)>> >>) EXCEPT !.malformed = TRUE]]

AllKinds == {"offset", "single", "httpCsv", "localCsv"}

Contents == {<<"a", "b", "ab", "x">>, <<"b", "again", "a">>, <<"a", "ab">>, <<"a", "number">>,
             <<"long", "big">>, <<"b", "odd">>, <<>>}

=============================================================================
