------------------------------ MODULE CacheFile ------------------------------
(***************************************************************************)
(* The text format of the cache file (src/src/CacheFile.cpp) and the dates *)
(* it is written with (src/src/DateHelper.cpp).                            *)
(*                                                                         *)
(* A reading is written as one line, "date time canonic value", and read   *)
(* back with four `>>' extractions, which split on white space.  The file  *)
(* is therefore the sequence of its words (tokens); a line ending is one   *)
(* more separator.  A name or a value is the sequence of its words: "21.5" *)
(* has one, "very hot" two; a canonic name ends in the device of the       *)
(* message, any text at all.                                               *)
(***************************************************************************)
EXTENDS Integers, Sequences

CONSTANTS
  Canonics,   \* "source:device" names, sequences of words
  Words,      \* the words names and values are made of
  Blank,      \* the empty string
  Times,      \* the seconds the clock can show
  DstShift    \* what ToDate subtracts from a date ToString printed

(***************************************************************************)
(* DateHelper::ToDate reads every date as daylight saving time             *)
(* (tm_isdst = 1), so a date printed in winter, in a zone that has summer  *)
(* time, comes back one hour early.  DstShift is that hour; it is 0 in     *)
(* summer and in zones without summer time.                                *)
(***************************************************************************)
ASSUME CacheFileAssumption ==
  /\ Times \subseteq Nat
  /\ DstShift \in Nat
  /\ Canonics # {} /\ Canonics \subseteq Seq(Words)

Token == {Blank} \cup Words \cup ({"date", "time"} \X Times)

Record == [canonic : Seq(Token), value : Seq(Token), time : Int]

\* The words CacheFile::Write appends to the file for reading r.
Line(r) == << <<"date", r.time>>, <<"time", r.time>> >> \o r.canonic \o r.value

\* "date time" -> time_t; what is not a date gives 0, which the drivers'
\* toSQLDate replaces by the current second.
ToDate(date, time, now) ==
  IF \E t \in Times : date = <<"date", t>> /\ time = <<"time", t>>
    THEN date[2] - DstShift
    ELSE now

(***************************************************************************)
(* The k-th of the four extractions that start after `at' tokens.  At the  *)
(* end of the file an extraction fails and the string keeps what the       *)
(* previous round of the loop left in it; before any round it is empty.    *)
(***************************************************************************)
Extract(file, at, k) ==
  IF at + k <= Len(file)  THEN file[at + k]
  ELSE IF at = 0          THEN Blank
  ELSE file[at + k - 4]

\* The reading one round of CacheFile::Transfert hands to the driver.
ReadBack(file, at, now) ==
  [canonic |-> <<Extract(file, at, 3)>>,
   value   |-> <<Extract(file, at, 4)>>,
   time    |-> ToDate(Extract(file, at, 1), Extract(file, at, 2), now)]

\* All the rounds Transfert would make from position `at' on.
Unread(file, at, now) ==
  [i \in 1 .. (Len(file) - at + 3) \div 4 |-> ReadBack(file, at + 4 * (i - 1), now)]
=============================================================================
