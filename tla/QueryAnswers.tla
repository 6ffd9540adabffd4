---------------------------- MODULE QueryAnswers ----------------------------
(***************************************************************************)
(* The answer to a `getvalues' command: CmndGetValues reads the rows of a  *)
(* device in a period, looks at the first one to see what kind of values   *)
(* they are, and divides the period into buckets, one message for each     *)
(* that holds a reading (CmndGetValuesNum, CmndGetValuesBool), or sends    *)
(* the first readings as they are (CmndGetValuesAlpha).                    *)
(*                                                                         *)
(* A round of a loop is a step.  The vector of rows and its iterator are   *)
(* the set of seconds not yet read: rows come ordered by time, and a       *)
(* device has one row a second.                                            *)
(***************************************************************************)
EXTENDS Integers, Sequences, FiniteSetsExt, Functions

CONSTANTS
  Seconds,    \* the seconds rows and requests name
  Values,     \* what a row can hold: its kind and the number strtod makes of it
  NoExtreme,  \* 65535: what vmin and -vmax start from
  DstShift,   \* what ToDate takes off the second of a winter's row: an hour
  MaxNumber   \* bound of the model: the largest `numbervalue' asked for

Kinds == {"number", "switch", "text"}

\* HIGH and LOW are the switch values 1 and 0.
ASSUME QueryAssumption ==
  /\ Seconds \subseteq Nat /\ IsFiniteSet(Seconds)
  /\ Values \subseteq [kind : Kinds, n : Int]
  /\ \A v \in Values : v.kind = "switch" => v.n \in {0, 1}
  /\ NoExtreme \in Nat \ {0} /\ DstShift \in Nat /\ MaxNumber \in Nat \ {0}

VARIABLES
  table,    \* the rows of the device: a value for some of the seconds
  pc,       \* "idle", "rounds" or "return"
  kind,     \* the kind of the first row found
  first,    \* tStart as CmndGetValues read it
  last,     \* tEnd as CmndGetValues read it
  number,   \* numberValue
  shift,    \* what ToDate takes off the rows of the period: 0 in summer
  unread,   \* the rows from the iterator on, by their second
  from,     \* tStart of the running round
  round,    \* i
  sent      \* the messages sent

request == <<kind, first, last, number, shift>>
locals == <<request, unread, from, round, sent>>
vars == <<table, pc, locals>>

Init ==
  /\ \E recorded \in SUBSET Seconds : table \in [recorded -> Values]
  /\ pc = "idle" /\ kind = "text" /\ first = 0 /\ last = 0 /\ number = 1 /\ shift = 0
  /\ unread = {} /\ from = 0 /\ round = 0 /\ sent = <<>>

-----------------------------------------------------------------------------
(* The second the program reads from a row: ToDate of the stored text. *)
Read(t) == t - shift

\* RequestValues: the rows of the period.
Rows(start, end) == {t \in DOMAIN table : start <= t /\ t <= end}

\* The rows are answered by the kind of the first; no rows, no answer.
Found(rows) ==
  IF rows = {} THEN pc' = "return" /\ kind' = "text"
  ELSE pc' = "rounds" /\ kind' = table[Min(rows)].kind

\* mutated GetValues
GetValuesUnchecked(start, end, asked) ==
  /\ pc = "idle"
  /\ Found(Rows(start, end))
  /\ first' = start /\ last' = end /\ shift' \in {0, DstShift}
  /\ number' = asked
  /\ unread' = Rows(start, end)
  /\ from' = start /\ round' = 0
  /\ UNCHANGED <<table, sent>>

\* The command, up to the choice of the answer; a missing or senseless
\* `numbervalue' counts as 1.
GetValues(start, end, asked) ==
  /\ pc = "idle"
  /\ Found(Rows(start, end))
  /\ first' = start /\ last' = end /\ shift' \in {0, DstShift}
  /\ number' = IF asked < 1 THEN 1 ELSE asked
  /\ unread' = Rows(start, end)
  /\ from' = start /\ round' = 0
  /\ UNCHANGED <<table, sent>>

Width == (last - first) \div number

ToWithoutLast == from + Width - 1  \* mutated To

\* tEnd of a round: the last bucket is one second longer.
To == from + Width - 1 + (IF round = number - 1 THEN 1 ELSE 0)

\* mutated Taken
TakenFromAnywhere == {t \in unread : \A u \in unread : u <= t => Read(u) <= To}

\* What the inner loop reads: rows in a row, as long as they are in the bucket.
Taken == {t \in unread : \A u \in unread : u <= t => Read(u) \in from .. To}

Numbers(rows) == {table[t].n : t \in rows}
Total(rows) == SumFunctionOnSet([t \in rows |-> table[t].n], rows)

\* The extremes start from values that stand for `none' and are reported as 0.
LowestBelow(limit, rows) ==
  LET m == Min(Numbers(rows) \cup {limit}) IN IF m = limit THEN 0 ELSE m
HighestAbove(limit, rows) ==
  LET m == Max(Numbers(rows) \cup {limit}) IN IF m = limit THEN 0 ELSE m

\* The mean is sent rounded to a decimal; here it is the sum and the count.
NumberAnswer ==
  [time |-> from,
   value |-> [sum |-> Total(Taken), count |-> Cardinality(Taken)],
   min |-> LowestBelow(NoExtreme, Taken), max |-> HighestAbove(-NoExtreme, Taken)]

\* mutated SwitchAnswer
SwitchAnswerOnTie ==
  [time |-> from,
   value |-> IF Total(Taken) >= Cardinality(Taken) \div 2 THEN 1 ELSE 0,
   min |-> LowestBelow(2, Taken), max |-> HighestAbove(-1, Taken)]

SwitchAnswer ==
  [time |-> from,
   value |-> IF Total(Taken) > Cardinality(Taken) \div 2 THEN 1 ELSE 0,
   min |-> LowestBelow(2, Taken), max |-> HighestAbove(-1, Taken)]

\* One round of CmndGetValuesNum or CmndGetValuesBool: no message for a
\* bucket without readings.
BucketRound(answer) ==
  /\ sent' = IF Taken = {} THEN sent ELSE Append(sent, answer)
  /\ unread' = unread \ Taken
  /\ from' = To + 1 /\ round' = round + 1
  /\ pc' = IF round' = number THEN "return" ELSE "rounds"
  /\ UNCHANGED <<table, request>>

NumberRound == pc = "rounds" /\ kind = "number" /\ BucketRound(NumberAnswer)
SwitchRound == pc = "rounds" /\ kind = "switch" /\ BucketRound(SwitchAnswer)

\* mutated TextRound
TextRoundUnlimited ==
  /\ pc = "rounds" /\ kind = "text"
  /\ LET t == Min(unread) IN
       /\ sent' = Append(sent, [time |-> Read(t), value |-> table[t]])
       /\ unread' = unread \ {t}
  /\ round' = round + 1
  /\ pc' = IF unread' = {} THEN "return" ELSE "rounds"
  /\ UNCHANGED <<table, request, from>>

\* One round of CmndGetValuesAlpha: a message for each reading.
TextRound ==
  /\ pc = "rounds" /\ kind = "text"
  /\ LET t == Min(unread) IN
       /\ sent' = Append(sent, [time |-> Read(t), value |-> table[t]])
       /\ unread' = unread \ {t}
  /\ round' = round + 1
  /\ pc' = IF unread' = {} \/ round' = number THEN "return" ELSE "rounds"
  /\ UNCHANGED <<table, request, from>>

\* CmndGetValues returns; nothing is kept.
Return ==
  /\ pc = "return" /\ pc' = "idle"
  /\ kind' = "text" /\ first' = 0 /\ last' = 0 /\ number' = 1 /\ shift' = 0
  /\ unread' = {} /\ from' = 0 /\ round' = 0 /\ sent' = <<>>
  /\ UNCHANGED table

Next ==
  \/ \E start, end \in Seconds, asked \in 0 .. MaxNumber : GetValues(start, end, asked)
  \/ NumberRound \/ SwitchRound \/ TextRound \/ Return

Spec == Init /\ [][Next]_vars

-----------------------------------------------------------------------------
(* Properties *)

\* The messages of an answer.
Message ==
  CASE kind = "text"   -> [time : Int, value : Values]
    [] kind = "switch" -> [time : Int, value : {0, 1}, min : Int, max : Int]
    [] kind = "number" -> [time : Int, value : [sum : Int, count : Nat], min : Int, max : Int]

\* The values the variables can hold.
TypeOK ==
  /\ DOMAIN table \subseteq Seconds /\ table \in [DOMAIN table -> Values]
  /\ pc \in {"idle", "rounds", "return"} /\ kind \in Kinds
  /\ first \in Nat /\ last \in Nat /\ number \in 1 .. MaxNumber /\ shift \in {0, DstShift}
  /\ unread \subseteq DOMAIN table
  /\ from \in Nat /\ round \in 0 .. number
  /\ sent \in Seq(Message)

(***************************************************************************)
(* A numeric query is answered but for the readings of the last seconds,   *)
(* fewer than `number', that the division of the period drops, or not at   *)
(* all.  In winter ToDate reads every row an hour early: when that moves a *)
(* reading before the period, no span gets past it and nothing is sent.    *)
(***************************************************************************)
AllButRemainderOrNothing ==
  pc = "return" /\ kind # "text" =>
    LET rows == Rows(first, last)
    IN IF \E t \in rows : Read(t) < first
       THEN sent = <<>> /\ unread = rows
       ELSE unread = {t \in rows : Read(t) > first + number * Width}

(***************************************************************************)
(* The messages of a numeric query are those of the definition: the period *)
(* is cut into `number' spans of equal length, the last one second longer, *)
(* and for each span with readings, in order, there is a message with its  *)
(* first second, the sum and number of its readings and their extremes.    *)
(***************************************************************************)
Span(j) ==
  LET start == first + j * Width
      length == IF j = number - 1 THEN Width + 1 ELSE Width
  IN {t \in DOMAIN table : start <= t /\ t < start + length}

\* The spans with readings, and the message of one of them.
UsedSpans == {j \in 0 .. number - 1 : Span(j) # {}}
MessageOf(j) == sent[Cardinality({k \in UsedSpans : k <= j})]

AnswersDescribeSpans ==
  shift = 0 /\ pc = "return" /\ kind = "number" =>
    /\ Len(sent) = Cardinality(UsedSpans)
    /\ \A j \in UsedSpans :
         LET a == MessageOf(j)
             values == Numbers(Span(j))
         IN /\ a.time = first + j * Width
            /\ a.value.count = Cardinality(Span(j)) /\ a.value.sum = Total(Span(j))
            /\ a.min \in values /\ \A v \in values : a.min <= v
            /\ a.max \in values /\ \A v \in values : v <= a.max

(***************************************************************************)
(* The messages about a switch are those of the same spans, in order, each *)
(* with the first second of its span.  One says HIGH exactly when most of  *)
(* the readings of its span were HIGH, although CmndGetValuesBool compares *)
(* with half of the count rounded down, and reports a value that occurred  *)
(* as minimum and as maximum.                                              *)
(***************************************************************************)
SwitchAnswersAreMajorities ==
  shift = 0 /\ pc = "return" /\ kind = "switch" =>
    /\ Len(sent) = Cardinality(UsedSpans)
    /\ \A j \in UsedSpans :
         LET a == MessageOf(j)
             high == {t \in Span(j) : table[t] = [kind |-> "switch", n |-> 1]}
             low == {t \in Span(j) : table[t] = [kind |-> "switch", n |-> 0]}
         IN /\ a.time = first + j * Width
            /\ Span(j) = high \cup low =>
                 /\ a.value = IF Cardinality(high) > Cardinality(low) THEN 1 ELSE 0
                 /\ a.min = IF low # {} THEN 0 ELSE 1
                 /\ a.max = IF high # {} THEN 1 ELSE 0

(***************************************************************************)
(* A query for a device whose first reading of the period is a text is     *)
(* answered with the first `number' readings of the period, or with all of *)
(* them when there are fewer: one message each, in order of time, with the *)
(* value stored.  A period without readings is answered with none.         *)
(***************************************************************************)
Rank(t) == Cardinality({u \in Rows(first, last) : u <= t})

TextAnswersAreFirst ==
  pc = "return" /\ kind = "text" =>
    /\ Len(sent) = Min({number, Cardinality(Rows(first, last))})
    /\ \A t \in Rows(first, last) :
         Rank(t) <= number => sent[Rank(t)] = [time |-> Read(t), value |-> table[t]]
=============================================================================
