--------------------------- MODULE MCQueryAnswers ---------------------------
(***************************************************************************)
(* A small instance of QueryAnswers: every table of a device over a few    *)
(* seconds, every period in them and every `numbervalue' up to one more    *)
(* than the longest period, so that spans of length 0 occur.               *)
(***************************************************************************)
EXTENDS QueryAnswers

Number(n) == [kind |-> "number", n |-> n]
HIGH == [kind |-> "switch", n |-> 1]
LOW == [kind |-> "switch", n |-> 0]
Text == [kind |-> "text", n |-> 0]

FourSeconds == 0 .. 3
Mixed == {Number(-3), Number(2), HIGH, LOW, Text}
=============================================================================
