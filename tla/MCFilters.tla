----------------------------- MODULE MCFilters -----------------------------
(***************************************************************************)
(* A small instance of Filters: two names around xPL in the order of the   *)
(* file, a source or value name given, empty, cut or absent.  And samples  *)
(* for FilterMatch: sources complete, partial, cut, with an empty part, in *)
(* capitals; senders that share beginnings, a device with separators.      *)
(***************************************************************************)
EXTENDS FilterMatch

MCNames == 1 .. 3
MCTwice == {<<1, 3>>}
MCGiven == {{}, {"source"}, Keys}
MCEmpty == <<>>
MCCut == <<"a", "-", "b">>
MCTexts == {<<"a", "-", "b", ".", "i", ":", "d">>, Empty, Cut}
MCCurrrent == <<"c">>

MCLower == [c \in {"a", "A", "b", "i", "d", "-", ".", ":", "*", "nul"} |-> IF c = "A" THEN "a" ELSE c]

MCSources == {
  <<>>, <<"*">>, <<"a">>, <<"a", "*">>, <<"a", "-">>, <<"A", "-", "b">>, <<"a", "-", "*", ".", "i">>,
  <<"a", "-", "b", ".", "i", ":", "d">>, <<"a", "-", "b", ".", "*", ":", "d", "*">>,
  <<"a", "b", "-", "b", ".", "i", ":", "d", "-", "d">>, <<"a", "-", "b", ".", "i", ":">>}

Sender(v, m, i, d) == [vendor |-> v, module |-> m, instance |-> i, device |-> d]

MCMessages == {
  Sender(<<"a">>, <<"b">>, <<"i">>, <<"d">>), Sender(<<"a">>, <<"b">>, <<"i">>, <<"d", "d">>),
  Sender(<<"a">>, <<"b">>, <<"i", "i">>, <<"d">>), Sender(<<"a", "b">>, <<"b">>, <<"i">>, <<"d", "-", "d">>)}
=============================================================================
