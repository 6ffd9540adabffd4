------------------------------ MODULE Capteurs ------------------------------
(***************************************************************************)
(* The table `capteurs' as its users may rely on it: the specification of  *)
(* DbMysql and DbSqlite.  The primary key is (id, dateheure), a device and *)
(* a second.  A row is a reading that some call asked to store, under its  *)
(* own key; once there it stays as it is.  Any reading may be lost.        *)
(* All this ends with the first statement whose text does not say what was *)
(* meant, for the drivers put texts between quotes as they come: what the  *)
(* table holds then is up to the text.                                     *)
(***************************************************************************)
CONSTANTS
  Keys,    \* pairs of a device and a second
  Values,  \* what a reading can say
  Unknown  \* the table, once some text has decided what it holds

VARIABLES
  asked,   \* the readings that calls were asked to store: pairs of key and value
  rows     \* the table: a value for some of the keys; or Unknown

\* The table with another row.
WithRow(k, v) == [x \in DOMAIN rows \cup {k} |-> IF x = k THEN v ELSE rows[x]]

Init == asked = {} /\ rows = <<>>

Ask(k, v) ==
  /\ asked' = asked \cup {<<k, v>>}
  /\ UNCHANGED rows

Store(k, v) ==
  /\ <<k, v>> \in asked /\ rows # Unknown /\ k \notin DOMAIN rows
  /\ rows' = WithRow(k, v)
  /\ UNCHANGED asked

Garble == rows' = Unknown /\ UNCHANGED asked

Next == Garble \/ \E k \in Keys, v \in Values : Ask(k, v) \/ Store(k, v)

Spec == Init /\ [][Next]_<<asked, rows>>
=============================================================================
