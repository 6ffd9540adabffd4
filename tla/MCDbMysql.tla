----------------------------- MODULE MCDbMysql -----------------------------
(***************************************************************************)
(* A small instance of DbMysql: one device, two seconds, three values of   *)
(* which one cannot be quoted, and a server that admits two connections.   *)
(***************************************************************************)
EXTENDS DbMysql

CONSTANTS lamp, v1, v2, odd

MCKeys == {lamp} \X (1 .. 2)
MCQuotable == MCKeys \X {v1, v2}
=============================================================================
