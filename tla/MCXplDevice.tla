---------------------------- MODULE MCXplDevice ----------------------------
(***************************************************************************)
(* A small instance of XplDevice: two names, a port that a hub may have    *)
(* taken, heartbeats every second without a configuration and every one or *)
(* two with one (a minute is one second).                                  *)
(***************************************************************************)
EXTENDS XplDevice

CONSTANTS home, office, tooLong, g1, g2

Message(k, t) == [kind |-> k, target |-> t]
Response(t, v) == [kind |-> "config.response", target |-> t, values |-> v]

\* A new name and a longer interval, empty values, the old name with an
\* interval below the least and an empty group between two, a rejected name.
Responses ==
  {Response(All, [newconf |-> <<office, home>>, interval |-> <<4>>]),
   Response(home, [newconf |-> <<Blank>>, interval |-> <<Blank>>, group |-> <<g1, g2>>]),
   Response(All, [newconf |-> <<home>>, interval |-> <<0>>, group |-> <<g2, Blank, g1>>]),
   Response(All, [newconf |-> <<tooLong>>])}

MCMessages ==
  {[kind |-> "unreadable"], [kind |-> "misaddressed"], Message("hbeat.request", office),
   Message("advanceconfig", All)} \cup Responses
=============================================================================
