------------------------- MODULE QueryAnswersProofs -------------------------
(***************************************************************************)
(* What the rounds of a query answer keep, for every table, period and     *)
(* number of spans.                                                        *)
(***************************************************************************)
EXTENDS QueryAnswers, Sums

(***************************************************************************)
(* In summer no reading is passed over and none is counted twice: those    *)
(* not yet answered are the ones from the first second of the running      *)
(* round on, so every earlier reading of the period was in an earlier      *)
(* span.  tStart follows tEnd, and the iterator follows both.              *)
(***************************************************************************)
InStep ==
  shift = 0 /\ pc # "idle" /\ kind # "text" => unread = Rows(from, last)

\* The numbers a query works with; a period with readings does not end
\* before it begins.
Typed ==
  /\ pc \in {"idle", "rounds", "return"}
  /\ DOMAIN table \subseteq Seconds
  /\ first \in Nat /\ last \in Nat /\ number \in Nat \ {0}
  /\ from \in Nat /\ round \in Nat
  /\ pc = "rounds" => first <= last

\* Where the running round begins.
Position ==
  pc # "idle" /\ kind # "text" =>
    IF pc = "rounds" THEN round < number /\ from = first + round * Width
    ELSE from = first + number * Width + 1

IInv == Typed /\ Position /\ InStep

\* The length of a span is a natural number.
LEMMA WidthIsNat ==
  ASSUME Typed, pc = "rounds"
  PROVE  Width \in Nat /\ To \in Int /\ To + 1 \in Nat
<1>1. last - first \in Nat /\ number \in Nat \ {0}
  BY DEF Typed
<1>2. Width \in Nat
  BY <1>1 DEF Width
<1> QED BY <1>2 DEF To, Typed

\* Without a shift, a round whose rows start at its first second takes
\* those up to its last.
LEMMA TakenUpTo ==
  ASSUME shift = 0, Typed, pc = "rounds", unread = Rows(from, last)
  PROVE  /\ Taken = {t \in DOMAIN table : from <= t /\ t <= last /\ t <= To}
         /\ unread \ Taken = Rows(To + 1, last)
<1>1. To \in Int /\ from \in Nat /\ last \in Nat /\ from <= To + 1
  <2>1. Width \in Nat
    BY WidthIsNat
  <2> QED BY <2>1, WidthIsNat DEF To, Typed
<1>2. \A t \in DOMAIN table : t \in Nat /\ Read(t) = t
  <2>1. DOMAIN table \subseteq Nat
    BY QueryAssumption DEF Typed
  <2>2. \A t \in Nat : t - 0 = t
    OBVIOUS
  <2> QED BY <2>1, <2>2 DEF Read
<1>3. Taken = {t \in unread : t <= To}
  BY <1>1, <1>2 DEF Taken, Rows
<1>4. ASSUME NEW t \in DOMAIN table
      PROVE  (from <= t /\ t <= last /\ ~(t <= To)) <=> (To + 1 <= t /\ t <= last)
  <2>1. t \in Nat
    BY <1>2
  <2> QED BY <1>1, <2>1
<1>5. unread \ Taken = {t \in DOMAIN table : from <= t /\ t <= last /\ ~(t <= To)}
  BY <1>3 DEF Rows
<1> QED BY <1>3, <1>4, <1>5 DEF Rows

\* A round leaves the invariant as it found it.
LEMMA RoundKeeps ==
  ASSUME IInv, pc = "rounds", kind # "text", NEW answer, BucketRound(answer)
  PROVE  IInv'
<1> DEFINE W == Width
<1>1. W \in Nat /\ To \in Int /\ To + 1 \in Nat
  BY WidthIsNat DEF IInv
<1>2. /\ UNCHANGED <<table, kind, first, last, number, shift>>
      /\ Width' = W
      /\ from' = To + 1 /\ round' = round + 1
      /\ pc' = IF round + 1 = number THEN "return" ELSE "rounds"
  BY DEF BucketRound, request, Width
<1>3. Typed'
  BY <1>1, <1>2 DEF IInv, Typed
<1>4. Position'
  <2>1. from = first + round * W /\ round < number /\ round \in Nat /\ number \in Nat /\ first \in Nat
    BY DEF IInv, Position, Typed
  <2>2. (round + 1) * W = round * W + W /\ round * W \in Nat
    BY <1>1, <2>1
  <2>3. CASE round + 1 = number
    <3>1. number * W = (round + 1) * W /\ round = number - 1
      BY <2>1, <2>3
    <3>2. To = from + W
      BY <1>1, <2>1, <2>2, <3>1 DEF To
    <3> HIDE DEF W
    <3>3. from' = first + number * W + 1
      BY <1>1, <1>2, <2>1, <2>2, <3>1, <3>2
    <3> QED BY <1>2, <2>3, <3>3 DEF Position
  <2>4. CASE round + 1 # number
    <3>1. round # number - 1 /\ round + 1 < number
      BY <2>1, <2>4
    <3>2. To = from + W - 1
      BY <1>1, <2>1, <2>2, <3>1 DEF To
    <3> HIDE DEF W
    <3>3. from' = first + (round + 1) * W
      BY <1>1, <1>2, <2>1, <2>2, <3>2
    <3> QED BY <1>2, <2>4, <3>1, <3>3 DEF Position
  <2> QED BY <2>3, <2>4
<1>5. InStep'
  <2>1. shift = 0 => unread \ Taken = Rows(To + 1, last)
    BY TakenUpTo DEF IInv, InStep
  <2>2. Rows(To + 1, last) = Rows(from, last)'
    BY <1>2 DEF Rows
  <2> QED BY <2>1, <2>2 DEF InStep, BucketRound, request
<1> QED BY <1>3, <1>4, <1>5 DEF IInv

LEMMA Initially == ASSUME Init PROVE IInv
BY QueryAssumption DEF Init, IInv, Typed, Position, InStep

\* Every step keeps the invariant.
LEMMA Kept == ASSUME IInv, [Next]_vars PROVE IInv'
<1>1. CASE UNCHANGED vars
  BY <1>1 DEF vars, locals, request, IInv, Typed, Position, InStep, Rows, Width
<1>2. ASSUME NEW start \in Seconds, NEW end \in Seconds, NEW asked \in 0 .. MaxNumber,
             GetValues(start, end, asked)
      PROVE  IInv'
  <2>1. /\ start \in Nat /\ end \in Nat /\ asked \in Nat
        /\ first' = start /\ last' = end /\ from' = start /\ round' = 0
        /\ table' = table /\ number' \in Nat \ {0}
        /\ unread' = Rows(start, end)
    BY <1>2, QueryAssumption DEF GetValues
  <2>2. CASE Rows(start, end) = {}
    BY <1>2, <2>1, <2>2 DEF GetValues, Found, IInv, Typed, Position, InStep
  <2>3. CASE Rows(start, end) # {}
    <3>1. start <= end /\ pc' = "rounds"
      <4>1. PICK t \in DOMAIN table : start <= t /\ t <= end
        BY <2>3 DEF Rows
      <4>2. t \in Nat
        BY QueryAssumption DEF IInv, Typed
      <4>3. start <= end
        BY <2>1, <4>1, <4>2
      <4> QED BY <1>2, <2>3, <4>3 DEF GetValues, Found
    <3>2. Typed'
      BY <2>1, <3>1 DEF IInv, Typed
    <3>3. Position'
      <4>1. Width' = (end - start) \div number'
        BY <2>1 DEF Width
      <4>2. end - start \in Nat
        BY <2>1, <3>1
      <4>3. \A a \in Nat, b \in Nat \ {0} : a \div b \in Nat
        OBVIOUS
      <4>4. Width' \in Nat
        BY <2>1, <4>1, <4>2, <4>3
      <4>5. \A w \in Nat : start = start + 0 * w
        BY <2>1
      <4>6. from' = first' + round' * Width'
        BY <2>1, <4>4, <4>5
      <4>7. round' < number'
        BY <2>1
      <4> QED BY <3>1, <4>6, <4>7 DEF Position
    <3>4. InStep'
      BY <2>1 DEF InStep, Rows
    <3> QED BY <3>2, <3>3, <3>4 DEF IInv
  <2> QED BY <2>2, <2>3
<1>3. CASE NumberRound
  BY <1>3, RoundKeeps DEF NumberRound
<1>4. CASE SwitchRound
  BY <1>4, RoundKeeps DEF SwitchRound
<1>5. CASE TextRound
  BY <1>5 DEF TextRound, request, IInv, Typed, Position, InStep
<1>6. CASE Return
  BY <1>6 DEF Return, IInv, Typed, Position, InStep
<1> QED BY <1>1, <1>2, <1>3, <1>4, <1>5, <1>6 DEF Next

-----------------------------------------------------------------------------
(* Sums and extremes of readings *)

\* What the extremes of some rows are, and when they are reported as they are.
LEMMA Extremes ==
  ASSUME TypeOK, NEW rows \in SUBSET DOMAIN table, NEW limit \in Int
  PROVE  /\ IsFiniteSet(rows) /\ Cardinality(rows) \in Nat /\ Total(rows) \in Int
         /\ LowestBelow(limit, rows) \in Int /\ HighestAbove(limit, rows) \in Int
         /\ rows # {} /\ (\A n \in Numbers(rows) : n < limit) =>
              /\ LowestBelow(limit, rows) \in Numbers(rows)
              /\ \A n \in Numbers(rows) : LowestBelow(limit, rows) <= n
         /\ rows # {} /\ (\A n \in Numbers(rows) : n > limit) =>
              /\ HighestAbove(limit, rows) \in Numbers(rows)
              /\ \A n \in Numbers(rows) : n <= HighestAbove(limit, rows)
<1>1. IsFiniteSet(rows) /\ Cardinality(rows) \in Nat
  BY QueryAssumption, FS_Subset, FS_CardinalityType DEF TypeOK
<1>2. \A t \in rows : table[t].n \in Int
  BY QueryAssumption DEF TypeOK
<1>3. Total(rows) \in Int
  <2> DEFINE f == [t \in rows |-> table[t].n]
  <2>1. \A t \in rows : f[t] \in Int
    BY <1>2
  <2> HIDE DEF f
  <2>2. SumFunctionOnSet(f, rows) \in Int
    BY <1>1, <2>1, SumTakes
  <2> QED BY <2>2 DEF Total, f
<1>4. IsFiniteSet(Numbers(rows)) /\ Numbers(rows) \subseteq Int /\ (rows # {} => Numbers(rows) # {})
  <2> DEFINE f == [t \in rows |-> table[t].n]
  <2>1. f \in Surjection(rows, Numbers(rows))
    BY DEF Surjection, Numbers
  <2>2. IsFiniteSet(Numbers(rows))
    <3> HIDE DEF f
    <3> QED BY <1>1, <2>1, FS_Surjection
  <2> QED BY <1>2, <2>2 DEF Numbers
<1> DEFINE B == Numbers(rows) \cup {limit}
<1>5. B \in SUBSET Int /\ IsFiniteSet(B) /\ B # {}
  <2>1. IsFiniteSet(B)
    BY <1>4, FS_AddElement
  <2> QED BY <1>4, <2>1
<1>6. /\ Min(B) \in B /\ \A n \in B : Min(B) <= n
      /\ Max(B) \in B /\ \A n \in B : n <= Max(B)
  <2> HIDE DEF B
  <2> QED BY <1>5, FiniteBounds
<1>7. /\ LowestBelow(limit, rows) = IF Min(B) = limit THEN 0 ELSE Min(B)
      /\ HighestAbove(limit, rows) = IF Max(B) = limit THEN 0 ELSE Max(B)
  BY Zenon DEF LowestBelow, HighestAbove
<1>8. limit \in B /\ \A n \in Numbers(rows) : n \in B
  OBVIOUS
<1>9. \A n \in B : n = limit \/ n \in Numbers(rows)
  OBVIOUS
<1> DEFINE low == Min(B)
           high == Max(B)
<1>10. low \in Int /\ high \in Int
  BY <1>5, <1>6
<1> HIDE DEF B, low, high
<1>11. ASSUME NEW m \in Numbers(rows), \A n \in Numbers(rows) : n < limit
       PROVE  low # limit
  <2>1. low <= m /\ m < limit /\ m \in Int
    BY <1>4, <1>6, <1>8, <1>11 DEF low
  <2> QED BY <1>10, <2>1
<1>12. ASSUME NEW m \in Numbers(rows), \A n \in Numbers(rows) : n > limit
       PROVE  high # limit
  <2>1. m <= high /\ m > limit /\ m \in Int
    BY <1>4, <1>6, <1>8, <1>12 DEF high
  <2> QED BY <1>10, <2>1
<1>13. LowestBelow(limit, rows) \in Int /\ HighestAbove(limit, rows) \in Int
  BY <1>7, <1>10 DEF low, high
<1>14. ASSUME rows # {}, \A n \in Numbers(rows) : n < limit
       PROVE  /\ LowestBelow(limit, rows) \in Numbers(rows)
              /\ \A n \in Numbers(rows) : LowestBelow(limit, rows) <= n
  <2>1. low # limit
    BY <1>4, <1>11, <1>14
  <2>2. LowestBelow(limit, rows) = low
    BY <1>7, <2>1 DEF low
  <2> QED BY <1>6, <1>8, <1>9, <2>1, <2>2 DEF low
<1>15. ASSUME rows # {}, \A n \in Numbers(rows) : n > limit
       PROVE  /\ HighestAbove(limit, rows) \in Numbers(rows)
              /\ \A n \in Numbers(rows) : n <= HighestAbove(limit, rows)
  <2>1. high # limit
    BY <1>4, <1>12, <1>15
  <2>2. HighestAbove(limit, rows) = high
    BY <1>7, <2>1 DEF high
  <2> QED BY <1>6, <1>8, <1>9, <2>1, <2>2 DEF high
<1> QED BY <1>1, <1>3, <1>13, <1>14, <1>15

-----------------------------------------------------------------------------
(***************************************************************************)
(* Types.  A message has the form its kind of reading asks for, and while  *)
(* readings are sent as they are there is one to send.                     *)
(***************************************************************************)
TypeInv ==
  /\ TypeOK
  /\ pc = "idle" => sent = <<>>
  /\ pc = "rounds" => round < number /\ (kind = "text" => unread # {})

LEMMA TypeInit == Init => TypeInv
<1> SUFFICES ASSUME Init PROVE TypeInv
  OBVIOUS
<1>1. DOMAIN table \subseteq Seconds /\ table \in [DOMAIN table -> Values]
  BY DEF Init
<1>2. sent = <<>> /\ <<>> \in Seq(Message)
  BY DEF Init
<1>3. number \in 1 .. MaxNumber
  BY QueryAssumption DEF Init
<1> QED BY <1>1, <1>2, <1>3 DEF Init, TypeInv, TypeOK, Kinds

\* A round of buckets sends a message of the form of its kind, or none.
LEMMA RoundTypes ==
  ASSUME TypeInv, IInv, pc = "rounds", kind # "text", NEW answer, answer \in Message,
         BucketRound(answer)
  PROVE  TypeInv'
<1>1. /\ UNCHANGED <<table, kind, first, last, number, shift>>
      /\ round' = round + 1 /\ unread' = unread \ Taken /\ from' = To + 1
      /\ pc' = IF round' = number THEN "return" ELSE "rounds"
      /\ sent' = IF Taken = {} THEN sent ELSE Append(sent, answer)
  BY DEF BucketRound, request
<1>2. sent' \in Seq(Message)
  BY <1>1, AppendProperties DEF TypeInv, TypeOK
<1>3. Message' = Message
  BY <1>1 DEF Message
<1>4. from' \in Nat
  BY <1>1, WidthIsNat DEF IInv
<1>5. round' \in 0 .. number /\ (pc' = "rounds" => round' < number)
  BY <1>1 DEF TypeInv, TypeOK
<1> QED BY <1>1, <1>2, <1>3, <1>4, <1>5 DEF TypeInv, TypeOK

LEMMA TypeStep == TypeInv /\ IInv /\ [Next]_vars => TypeInv'
<1> SUFFICES ASSUME TypeInv, IInv, [Next]_vars PROVE TypeInv'
  OBVIOUS
<1>1. CASE UNCHANGED vars
  BY <1>1 DEF vars, locals, request, TypeInv, TypeOK, Message
<1>2. ASSUME NEW start \in Seconds, NEW end \in Seconds, NEW asked \in 0 .. MaxNumber,
             GetValues(start, end, asked)
      PROVE  TypeInv'
  <2>1. /\ start \in Nat /\ end \in Nat
        /\ first' = start /\ last' = end /\ from' = start /\ round' = 0
        /\ table' = table /\ sent' = <<>>
        /\ unread' = Rows(start, end)
    BY <1>2, QueryAssumption DEF GetValues, TypeInv
  <2>2. number' \in 1 .. MaxNumber /\ shift' \in {0, DstShift}
    BY <1>2, QueryAssumption DEF GetValues
  <2>3. sent' \in Seq(Message')
    BY <2>1
  <2>4. \/ pc' = "return" /\ kind' = "text"
        \/ pc' = "rounds" /\ kind' \in Kinds /\ Rows(start, end) # {}
    <3>1. CASE Rows(start, end) = {}
      BY <1>2, <3>1 DEF GetValues, Found
    <3>2. CASE Rows(start, end) # {}
      <4>1. Rows(start, end) \in SUBSET Nat
        BY QueryAssumption DEF Rows, TypeInv, TypeOK
      <4>2. Min(Rows(start, end)) \in DOMAIN table
        BY <3>2, <4>1, LeastNatural DEF Rows
      <4>3. table[Min(Rows(start, end))].kind \in Kinds
        BY <4>2, QueryAssumption DEF TypeInv, TypeOK
      <4> QED BY <1>2, <3>2, <4>3 DEF GetValues, Found
    <3> QED BY <3>1, <3>2
  <2>5. unread' \subseteq DOMAIN table
    BY <2>1 DEF Rows
  <2>6. 0 \in 0 .. number' /\ 0 < number'
    BY <2>2
  <2> QED BY <2>1, <2>2, <2>3, <2>4, <2>5, <2>6 DEF TypeInv, TypeOK, Kinds
<1>3. CASE NumberRound
  <2>1. /\ Taken \in SUBSET DOMAIN table /\ from \in Int
        /\ NoExtreme \in Int /\ -NoExtreme \in Int
    BY QueryAssumption DEF Taken, TypeInv, TypeOK
  <2>2. /\ Total(Taken) \in Int /\ Cardinality(Taken) \in Nat
        /\ LowestBelow(NoExtreme, Taken) \in Int /\ HighestAbove(-NoExtreme, Taken) \in Int
    BY <2>1, Extremes DEF TypeInv
  <2>3. NumberAnswer \in Message
    BY <1>3, <2>1, <2>2 DEF NumberRound, NumberAnswer, Message
  <2> QED BY <1>3, <2>3, RoundTypes DEF NumberRound
<1>4. CASE SwitchRound
  <2>1. Taken \in SUBSET DOMAIN table /\ from \in Int /\ 2 \in Int /\ -1 \in Int
    BY DEF Taken, TypeInv, TypeOK
  <2>2. LowestBelow(2, Taken) \in Int /\ HighestAbove(-1, Taken) \in Int
    BY <2>1, Extremes DEF TypeInv
  <2>3. SwitchAnswer \in Message
    BY <1>4, <2>1, <2>2 DEF SwitchRound, SwitchAnswer, Message
  <2> QED BY <1>4, <2>3, RoundTypes DEF SwitchRound
<1>5. CASE TextRound
  <2> DEFINE t == Min(unread)
  <2>1. t \in unread /\ t \in Nat /\ t \in DOMAIN table
    <3>1. unread \in SUBSET Nat /\ unread # {} /\ unread \subseteq DOMAIN table
      BY <1>5, QueryAssumption DEF TextRound, TypeInv, TypeOK
    <3>2. t \in unread
      BY <3>1, LeastNatural
    <3> QED BY <3>1, <3>2
  <2>2. /\ sent' = Append(sent, [time |-> Read(t), value |-> table[t]])
        /\ unread' = unread \ {t} /\ round' = round + 1
        /\ pc' = IF unread' = {} \/ round' = number THEN "return" ELSE "rounds"
        /\ UNCHANGED <<table, kind, first, last, number, shift, from>>
        /\ pc = "rounds" /\ kind = "text"
    BY <1>5 DEF TextRound, request
  <2> HIDE DEF t
  <2>3. [time |-> Read(t), value |-> table[t]] \in Message
    <3>1. Read(t) \in Int
      BY <2>1, QueryAssumption DEF Read, TypeInv, TypeOK
    <3>2. table[t] \in Values
      BY <2>1 DEF TypeInv, TypeOK
    <3> QED BY <2>2, <3>1, <3>2 DEF Message
  <2>4. sent' \in Seq(Message) /\ Message' = Message
    BY <2>2, <2>3, AppendProperties DEF TypeInv, TypeOK, Message
  <2>5. round' \in 0 .. number /\ (pc' = "rounds" => round' < number /\ unread' # {})
    BY <2>2 DEF TypeInv, TypeOK
  <2> QED BY <2>2, <2>4, <2>5 DEF TypeInv, TypeOK
<1>6. CASE Return
  <2>1. 1 \in 1 .. MaxNumber /\ <<>> \in Seq(Message')
    BY QueryAssumption
  <2> QED BY <1>6, <2>1 DEF Return, TypeInv, TypeOK, Kinds
<1> QED BY <1>1, <1>2, <1>3, <1>4, <1>5, <1>6 DEF Next

-----------------------------------------------------------------------------
(***************************************************************************)
(* Answers.  After n rounds there is one message for each of the first n   *)
(* spans that has readings, in the order of the spans, and it says what    *)
(* the property of its kind asks of it.                                    *)
(***************************************************************************)
Used(n) == {j \in 0 .. n - 1 : Span(j) # {}}

\* Where the message of span j stands after n rounds.
PlaceOf(n, j) == Cardinality({k \in Used(n) : k <= j})

NumberSaid(a, j) ==
  /\ a.time = first + j * Width
  /\ a.value.count = Cardinality(Span(j)) /\ a.value.sum = Total(Span(j))
  /\ a.min \in Numbers(Span(j)) /\ \A v \in Numbers(Span(j)) : a.min <= v
  /\ a.max \in Numbers(Span(j)) /\ \A v \in Numbers(Span(j)) : v <= a.max

HighIn(j) == {t \in Span(j) : table[t] = [kind |-> "switch", n |-> 1]}
LowIn(j) == {t \in Span(j) : table[t] = [kind |-> "switch", n |-> 0]}

SwitchSaid(a, j) ==
  /\ a.time = first + j * Width
  /\ Span(j) = HighIn(j) \cup LowIn(j) =>
       /\ a.value = IF Cardinality(HighIn(j)) > Cardinality(LowIn(j)) THEN 1 ELSE 0
       /\ a.min = IF LowIn(j) # {} THEN 0 ELSE 1
       /\ a.max = IF HighIn(j) # {} THEN 1 ELSE 0

\* The numbers that the sentinels of the extremes do not hide.
Ordinary == \A v \in Values : -NoExtreme < v.n /\ v.n < NoExtreme

Said(a, j) == IF kind = "number" THEN Ordinary => NumberSaid(a, j) ELSE SwitchSaid(a, j)

AnswersInv ==
  shift = 0 /\ pc # "idle" /\ kind # "text" =>
    /\ pc = "return" => round = number
    /\ Len(sent) = Cardinality(Used(round))
    /\ \A j \in Used(round) : Said(sent[PlaceOf(round, j)], j)

\* A round reads its span.
LEMMA TakenIsSpan ==
  ASSUME shift = 0, TypeInv, IInv, pc = "rounds", kind # "text"
  PROVE  Taken = Span(round)
<1>1. /\ first \in Nat /\ last \in Nat /\ number \in Nat \ {0} /\ round \in Nat
      /\ round < number /\ from = first + round * Width /\ first <= last
      /\ Width \in Nat /\ unread = Rows(from, last)
  BY WidthIsNat DEF IInv, Typed, Position, InStep, TypeInv
<1>2. Taken = {t \in DOMAIN table : from <= t /\ t <= last /\ t <= To}
  BY <1>1, TakenUpTo, QueryAssumption DEF IInv
<1>3. number * Width <= last - first
  <2>1. \A a \in Nat, b \in Nat \ {0} : b * (a \div b) <= a
    OBVIOUS
  <2>2. last - first \in Nat
    BY <1>1
  <2> QED BY <1>1, <2>1, <2>2 DEF Width
<1> DEFINE W == Width
<1>4. round * W + W <= number * W /\ round * W \in Nat /\ number * W \in Nat
  <2>1. W \in Nat
    BY <1>1
  <2> HIDE DEF W
  <2>2. (number - 1 - round) * W \in Nat
    BY <1>1, <2>1
  <2>3. (number - 1 - round) * W = number * W - W - round * W
    BY <1>1, <2>1
  <2>4. round * W \in Nat /\ number * W \in Nat
    BY <1>1, <2>1
  <2> QED BY <2>1, <2>2, <2>3, <2>4
<1>5. To <= last
  <2>1. To = from + W - 1 + (IF round = number - 1 THEN 1 ELSE 0)
    BY DEF To
  <2>2. from = first + round * W /\ number * W <= last - first /\ W \in Nat
    BY <1>1, <1>3
  <2> DEFINE a == round * W
             b == number * W
  <2>3. a \in Nat /\ b \in Nat /\ a + W <= b /\ from = first + a /\ b <= last - first
    BY <1>4, <2>2
  <2> HIDE DEF W, a, b
  <2> QED BY <1>1, <2>1, <2>2, <2>3
<1>6. ASSUME NEW t \in DOMAIN table
      PROVE  (from <= t /\ t <= last /\ t <= To)
               <=> (from <= t /\ t < from + (IF round = number - 1 THEN W + 1 ELSE W))
  <2>1. t \in Nat
    BY QueryAssumption DEF TypeInv, TypeOK
  <2>2. from \in Nat /\ W \in Nat
    BY <1>1 DEF IInv, Typed
  <2>3. To = from + W - 1 + (IF round = number - 1 THEN 1 ELSE 0)
    BY DEF To
  <2> HIDE DEF W
  <2>4. CASE round = number - 1
    BY <1>1, <1>5, <2>1, <2>2, <2>3, <2>4
  <2>5. CASE round # number - 1
    BY <1>1, <1>5, <2>1, <2>2, <2>3, <2>5
  <2> QED BY <2>4, <2>5
<1>7. Span(round) = {t \in DOMAIN table :
                       from <= t /\ t < from + (IF round = number - 1 THEN W + 1 ELSE W)}
  BY <1>1 DEF Span
<1> QED BY <1>2, <1>6, <1>7

\* The spans with readings among the first ones.
LEMMA UsedNext ==
  ASSUME NEW n \in Nat
  PROVE  /\ IsFiniteSet(Used(n)) /\ Cardinality(Used(n)) \in Nat /\ n \notin Used(n)
         /\ Used(n + 1) = IF Span(n) = {} THEN Used(n) ELSE Used(n) \cup {n}
         /\ Used(0) = {}
         /\ \A j \in Used(n) :
              /\ PlaceOf(n, j) \in 1 .. Cardinality(Used(n))
              /\ PlaceOf(n + 1, j) = PlaceOf(n, j)
         /\ Span(n) # {} => PlaceOf(n + 1, n) = Cardinality(Used(n)) + 1
<1>1. IsFiniteSet(Used(n)) /\ Cardinality(Used(n)) \in Nat /\ n \notin Used(n)
  <2>1. IsFiniteSet(0 .. n - 1) /\ Used(n) \in SUBSET (0 .. n - 1)
    BY FS_Interval DEF Used
  <2>2. n \notin 0 .. n - 1
    OBVIOUS
  <2> QED BY <2>1, <2>2, FS_Subset, FS_CardinalityType
<1>2. 0 .. n = (0 .. n - 1) \cup {n} /\ n + 1 - 1 = n
  OBVIOUS
<1>3. Used(n + 1) = IF Span(n) = {} THEN Used(n) ELSE Used(n) \cup {n}
  BY <1>2 DEF Used
<1>4. Used(0) = {}
  BY DEF Used
<1>5. \A j \in Used(n) : j \in Nat /\ j < n
  BY DEF Used
<1>6. ASSUME NEW j \in Used(n) PROVE PlaceOf(n, j) \in 1 .. Cardinality(Used(n))
  <2> DEFINE K == {k \in Used(n) : k <= j}
  <2>1. K \in SUBSET Used(n) /\ j \in K
    BY <1>5
  <2> HIDE DEF K
  <2>2. /\ IsFiniteSet(K) /\ Cardinality(K) <= Cardinality(Used(n)) /\ Cardinality(K) \in Nat
        /\ Cardinality(K) # 0
    BY <1>1, <2>1, FS_Subset, FS_EmptySet, FS_CardinalityType
  <2> QED BY <1>1, <2>2 DEF PlaceOf, K
<1>7. ASSUME NEW j \in Used(n) PROVE PlaceOf(n + 1, j) = PlaceOf(n, j)
  <2>1. j \in Nat /\ ~ (n <= j)
    BY <1>5
  <2>2. {k \in Used(n + 1) : k <= j} = {k \in Used(n) : k <= j}
    BY <1>3, <2>1
  <2> QED BY <2>2 DEF PlaceOf
<1>8. ASSUME Span(n) # {} PROVE PlaceOf(n + 1, n) = Cardinality(Used(n)) + 1
  <2>1. Used(n + 1) = Used(n) \cup {n}
    BY <1>3, <1>8
  <2>2. \A k \in Used(n + 1) : k <= n
    BY <1>5, <2>1
  <2>3. {k \in Used(n + 1) : k <= n} = Used(n) \cup {n}
    BY <2>1, <2>2
  <2>4. Cardinality(Used(n) \cup {n}) = Cardinality(Used(n)) + 1
    BY <1>1, FS_AddElement
  <2> QED BY <2>3, <2>4 DEF PlaceOf
<1> QED BY <1>1, <1>3, <1>4, <1>6, <1>7, <1>8

\* A round adds what it has to say of its span, if there is anything.
LEMMA RoundSays ==
  ASSUME shift = 0, TypeInv, IInv, AnswersInv, pc = "rounds", kind # "text",
         NEW answer, BucketRound(answer), Span(round) # {} => Said(answer, round)
  PROVE  AnswersInv'
<1>1. /\ UNCHANGED <<table, kind, first, last, number>>
      /\ round' = round + 1 /\ pc' = IF round' = number THEN "return" ELSE "rounds"
      /\ sent' = IF Span(round) = {} THEN sent ELSE Append(sent, answer)
      /\ round \in Nat
  BY TakenIsSpan DEF BucketRound, request, IInv, Typed
<1>2. /\ \A j : Span(j)' = Span(j)
      /\ \A n : Used(n)' = Used(n)
      /\ \A n, j : PlaceOf(n, j)' = PlaceOf(n, j)
      /\ \A a, j : Said(a, j)' = Said(a, j)
  BY <1>1 DEF Span, Used, PlaceOf, Said, NumberSaid, SwitchSaid, HighIn, LowIn, Numbers, Total, Width
<1>3. /\ Len(sent) = Cardinality(Used(round)) /\ sent \in Seq(Message)
      /\ \A j \in Used(round) : Said(sent[PlaceOf(round, j)], j)
  BY DEF AnswersInv, TypeInv, TypeOK
<1>4. /\ Len(sent') = Cardinality(Used(round + 1))
      /\ \A j \in Used(round + 1) : Said(sent'[PlaceOf(round + 1, j)], j)
  <2>1. CASE Span(round) = {}
    <3>1. Used(round + 1) = Used(round) /\ \A j \in Used(round) : PlaceOf(round + 1, j) = PlaceOf(round, j)
      BY <1>1, <2>1, UsedNext
    <3> QED BY <1>1, <1>3, <2>1, <3>1
  <2>2. CASE Span(round) # {}
    <3>1. /\ Len(sent') = Len(sent) + 1 /\ sent'[Len(sent) + 1] = answer
          /\ \A i \in 1 .. Len(sent) : sent'[i] = sent[i]
      <4>1. sent' = Append(sent, answer)
        BY <1>1, <2>2
      <4> QED BY <1>3, <4>1
    <3>2. /\ Used(round + 1) = Used(round) \cup {round} /\ round \notin Used(round)
          /\ IsFiniteSet(Used(round))
          /\ \A j \in Used(round) : /\ PlaceOf(round, j) \in 1 .. Cardinality(Used(round))
                                   /\ PlaceOf(round + 1, j) = PlaceOf(round, j)
          /\ PlaceOf(round + 1, round) = Cardinality(Used(round)) + 1
      BY <1>1, <2>2, UsedNext
    <3>3. Cardinality(Used(round + 1)) = Cardinality(Used(round)) + 1
      BY <3>2, FS_AddElement
    <3>4. \A j \in Used(round) : Said(sent'[PlaceOf(round + 1, j)], j)
      BY <1>3, <3>1, <3>2
    <3>5. Said(sent'[PlaceOf(round + 1, round)], round)
      BY <1>3, <2>2, <3>1, <3>2
    <3> QED BY <1>3, <3>1, <3>2, <3>3, <3>4, <3>5
  <2> QED BY <2>1, <2>2
<1> HIDE DEF Said, PlaceOf, Used
<1>5. /\ Len(sent') = Cardinality(Used(round)')
      /\ \A j \in Used(round)' : Said(sent[PlaceOf(round, j)], j)'
  BY <1>1, <1>2, <1>4
<1>6. pc' = "return" => round' = number'
  BY <1>1
<1> QED BY <1>5, <1>6 DEF AnswersInv

\* The message of a bucket of numbers describes its span.
LEMMA NumbersSaid ==
  ASSUME TypeInv, NEW rows \in SUBSET DOMAIN table, rows # {}, Ordinary
  PROVE  /\ LowestBelow(NoExtreme, rows) \in Numbers(rows)
         /\ \A v \in Numbers(rows) : LowestBelow(NoExtreme, rows) <= v
         /\ HighestAbove(-NoExtreme, rows) \in Numbers(rows)
         /\ \A v \in Numbers(rows) : v <= HighestAbove(-NoExtreme, rows)
<1>1. NoExtreme \in Int /\ -NoExtreme \in Int
  BY QueryAssumption
<1>2. \A n \in Numbers(rows) : n < NoExtreme /\ n > -NoExtreme
  BY <1>1, QueryAssumption DEF Numbers, Ordinary, TypeInv, TypeOK
<1> QED BY <1>1, <1>2, Extremes DEF TypeInv

\* The message of a bucket of a switch says what most of its span said.
LEMMA SwitchesSaid ==
  ASSUME TypeInv, NEW j, Span(j) # {}, Span(j) = HighIn(j) \cup LowIn(j)
  PROVE  /\ (Total(Span(j)) > Cardinality(Span(j)) \div 2)
               <=> (Cardinality(HighIn(j)) > Cardinality(LowIn(j)))
         /\ LowestBelow(2, Span(j)) = IF LowIn(j) # {} THEN 0 ELSE 1
         /\ HighestAbove(-1, Span(j)) = IF HighIn(j) # {} THEN 1 ELSE 0
<1> DEFINE rows == Span(j)
           f == [t \in rows |-> table[t].n]
<1>1. rows \in SUBSET DOMAIN table /\ 2 \in Int /\ -1 \in Int
  BY DEF Span
<1>2. /\ \A t \in HighIn(j) : t \in rows /\ table[t].n = 1
      /\ \A t \in LowIn(j) : t \in rows /\ table[t].n = 0
      /\ \A t \in rows : t \in HighIn(j) \/ t \in LowIn(j)
  BY DEF HighIn, LowIn
<1>3. IsFiniteSet(rows)
  BY <1>1, Extremes DEF TypeInv
<1>4. HighIn(j) \in SUBSET rows /\ LowIn(j) \in SUBSET rows /\ HighIn(j) \cap LowIn(j) = {}
  BY <1>2
<1>5. Total(rows) = Cardinality(HighIn(j))
  <2>1. \A t \in rows : f[t] \in {0, 1}
    BY <1>2
  <2>2. {t \in rows : f[t] = 1} = HighIn(j)
    BY <1>2
  <2>3. SumFunctionOnSet(f, rows) = Cardinality({t \in rows : f[t] = 1})
    <3> HIDE DEF f, rows
    <3> QED BY <1>3, <2>1, SumCounts
  <2> HIDE DEF f
  <2> QED BY <2>2, <2>3 DEF Total, f
<1> HIDE DEF f, rows
<1>6. PICK h \in Nat : Cardinality(HighIn(j)) = h
  BY <1>3, <1>4, FS_Subset, FS_CardinalityType
<1>7. PICK l \in Nat : Cardinality(LowIn(j)) = l
  BY <1>3, <1>4, FS_Subset, FS_CardinalityType
<1>8. Cardinality(rows) = h + l
  <2>1. IsFiniteSet(HighIn(j)) /\ IsFiniteSet(LowIn(j))
    BY <1>3, <1>4, FS_Subset
  <2>2. Cardinality(HighIn(j) \cup LowIn(j)) = h + l - Cardinality({})
    BY <1>4, <1>6, <1>7, <2>1, FS_Union
  <2> QED BY <1>6, <1>7, <2>2, FS_EmptySet DEF rows
<1>9. (h > (h + l) \div 2) <=> (h > l)
  OBVIOUS
<1>10. (Total(rows) > Cardinality(rows) \div 2)
               <=> (Cardinality(HighIn(j)) > Cardinality(LowIn(j)))
  BY <1>5, <1>6, <1>7, <1>8, <1>9
<1>11. \A n : n \in Numbers(rows) <=> (n = 1 /\ HighIn(j) # {}) \/ (n = 0 /\ LowIn(j) # {})
  <2>1. \A t \in rows : table[t].n \in Numbers(rows)
    BY DEF Numbers
  <2>2. \A n \in Numbers(rows) : \E t \in rows : n = table[t].n
    BY DEF Numbers
  <2> QED BY <1>2, <2>1, <2>2
<1>12. rows # {}
  BY DEF rows
<1>13. /\ LowestBelow(2, rows) \in Numbers(rows)
       /\ \A n \in Numbers(rows) : LowestBelow(2, rows) <= n
  <2>1. \A n \in Numbers(rows) : n < 2
    BY <1>11
  <2> QED BY <1>1, <1>12, <2>1, Extremes DEF TypeInv
<1>14. /\ HighestAbove(-1, rows) \in Numbers(rows)
       /\ \A n \in Numbers(rows) : n <= HighestAbove(-1, rows)
  <2>1. \A n \in Numbers(rows) : n > -1
    BY <1>11
  <2> QED BY <1>1, <1>12, <2>1, Extremes DEF TypeInv
<1>15. LowestBelow(2, rows) = IF LowIn(j) # {} THEN 0 ELSE 1
  <2>1. ~ (1 <= 0)
    OBVIOUS
  <2> QED BY <1>11, <1>13, <2>1
<1>16. HighestAbove(-1, rows) = IF HighIn(j) # {} THEN 1 ELSE 0
  <2>1. ~ (1 <= 0)
    OBVIOUS
  <2> QED BY <1>11, <1>14, <2>1
<1> QED BY <1>10, <1>15, <1>16 DEF rows

\* AnswersInv is inductive.
LEMMA AnswersStep == TypeInv /\ IInv /\ AnswersInv /\ [Next]_vars => AnswersInv'
<1> SUFFICES ASSUME shift' = 0, TypeInv, IInv, AnswersInv, [Next]_vars PROVE AnswersInv'
  BY DEF AnswersInv
<1>1. CASE UNCHANGED vars
  <2>1. UNCHANGED <<table, kind, first, last, number, shift, pc, round, sent>>
    BY <1>1 DEF vars, locals, request
  <2>2. /\ \A n : Used(n)' = Used(n)
        /\ \A n, j : PlaceOf(n, j)' = PlaceOf(n, j)
        /\ \A a, j : Said(a, j)' = Said(a, j)
    BY <2>1 DEF Span, Used, PlaceOf, Said, NumberSaid, SwitchSaid, HighIn, LowIn, Numbers, Total, Width
  <2> HIDE DEF Said, PlaceOf, Used
  <2>3. /\ Used(round)' = Used(round)
        /\ \A j \in Used(round) : Said(sent[PlaceOf(round, j)], j)' = Said(sent[PlaceOf(round, j)], j)
    BY <2>1, <2>2
  <2> QED BY <2>1, <2>3 DEF AnswersInv
<1>2. ASSUME NEW start \in Seconds, NEW end \in Seconds, NEW asked \in 0 .. MaxNumber,
             GetValues(start, end, asked)
      PROVE  AnswersInv'
  <2>1. sent' = <<>> /\ round' = 0
    BY <1>2 DEF GetValues, TypeInv
  <2>2. Used(0)' = {}
    BY DEF Used
  <2>3. Used(round)' = {}
    BY <2>1, <2>2 DEF Used
  <2>4. pc' = "return" => kind' = "text"
    BY <1>2 DEF GetValues, Found
  <2> HIDE DEF Used
  <2>5. Len(sent') = Cardinality({})
    BY <2>1, FS_EmptySet
  <2> QED BY <2>3, <2>4, <2>5 DEF AnswersInv
<1>3. CASE NumberRound
  <2>1. pc = "rounds" /\ kind = "number" /\ BucketRound(NumberAnswer) /\ shift = 0
    BY <1>3 DEF NumberRound, BucketRound, request
  <2>2. Taken = Span(round)
    BY <2>1, TakenIsSpan
  <2>3. ASSUME Span(round) # {}, Ordinary PROVE NumberSaid(NumberAnswer, round)
    <3>1. Span(round) \in SUBSET DOMAIN table
      BY DEF Span
    <3>2. from = first + round * Width
      BY <2>1 DEF IInv, Position
    <3>3. /\ LowestBelow(NoExtreme, Span(round)) \in Numbers(Span(round))
          /\ \A v \in Numbers(Span(round)) : LowestBelow(NoExtreme, Span(round)) <= v
          /\ HighestAbove(-NoExtreme, Span(round)) \in Numbers(Span(round))
          /\ \A v \in Numbers(Span(round)) : v <= HighestAbove(-NoExtreme, Span(round))
      BY <2>3, <3>1, NumbersSaid
    <3>4. NumberAnswer =
            [time |-> from,
             value |-> [sum |-> Total(Span(round)), count |-> Cardinality(Span(round))],
             min |-> LowestBelow(NoExtreme, Span(round)), max |-> HighestAbove(-NoExtreme, Span(round))]
      BY <2>2 DEF NumberAnswer
    <3> QED BY <3>2, <3>3, <3>4 DEF NumberSaid
  <2>4. Span(round) # {} => Said(NumberAnswer, round)
    BY <2>1, <2>3 DEF Said
  <2> QED BY <2>1, <2>4, RoundSays
<1>4. CASE SwitchRound
  <2>1. pc = "rounds" /\ kind = "switch" /\ BucketRound(SwitchAnswer) /\ shift = 0
    BY <1>4 DEF SwitchRound, BucketRound, request
  <2>2. Taken = Span(round)
    BY <2>1, TakenIsSpan
  <2>3. ASSUME Span(round) # {} PROVE SwitchSaid(SwitchAnswer, round)
    <3>1. SwitchAnswer =
            [time |-> from,
             value |-> IF Total(Span(round)) > Cardinality(Span(round)) \div 2 THEN 1 ELSE 0,
             min |-> LowestBelow(2, Span(round)), max |-> HighestAbove(-1, Span(round))]
      BY <2>2 DEF SwitchAnswer
    <3>2. ASSUME Span(round) = HighIn(round) \cup LowIn(round)
          PROVE  /\ (Total(Span(round)) > Cardinality(Span(round)) \div 2)
                       <=> (Cardinality(HighIn(round)) > Cardinality(LowIn(round)))
                 /\ LowestBelow(2, Span(round)) = IF LowIn(round) # {} THEN 0 ELSE 1
                 /\ HighestAbove(-1, Span(round)) = IF HighIn(round) # {} THEN 1 ELSE 0
      BY <2>3, <3>2, SwitchesSaid
    <3>3. from = first + round * Width
      BY <2>1 DEF IInv, Position
    <3> QED BY <3>1, <3>2, <3>3 DEF SwitchSaid
  <2>4. Span(round) # {} => Said(SwitchAnswer, round)
    BY <2>1, <2>3 DEF Said
  <2> QED BY <2>1, <2>4, RoundSays
<1>5. CASE TextRound
  BY <1>5 DEF TextRound, request, AnswersInv
<1>6. CASE Return
  BY <1>6 DEF Return, AnswersInv
<1> QED BY <1>1, <1>2, <1>3, <1>4, <1>5, <1>6 DEF Next

-----------------------------------------------------------------------------
(***************************************************************************)
(* Texts.  After n rounds the n earliest readings of the period have been  *)
(* sent, each at the place its rank gives it, and the others are unread.   *)
(***************************************************************************)
Asked == Rows(first, last)

Reading(t) == [time |-> Read(t), value |-> table[t]]

TextInv ==
  pc # "idle" /\ kind = "text" =>
    /\ unread \subseteq Asked
    /\ \A t \in Asked \ unread, u \in unread : t < u
    /\ round = Cardinality(Asked \ unread) /\ Len(sent) = round
    /\ \A t \in Asked \ unread : sent[Rank(t)] = Reading(t)
    /\ pc = "return" => unread = {} \/ round = number

\* The rank of a reading among those of a period: within the readings up to
\* it, and one more than their number for the next.
LEMMA Ranks ==
  ASSUME TypeOK, NEW sentNow \in SUBSET Asked,
         \A t \in sentNow, u \in Asked \ sentNow : t < u
  PROVE  /\ IsFiniteSet(Asked) /\ IsFiniteSet(sentNow)
         /\ Cardinality(Asked) \in Nat /\ Cardinality(sentNow) \in Nat
         /\ Cardinality(sentNow) <= Cardinality(Asked)
         /\ \A t \in sentNow : Rank(t) \in 1 .. Cardinality(sentNow)
         /\ \A t \in Asked \ sentNow :
              /\ Rank(t) \in Nat /\ Rank(t) > Cardinality(sentNow)
              /\ (\A u \in Asked \ sentNow : t <= u) => Rank(t) = Cardinality(sentNow) + 1
<1>1. Asked \in SUBSET Nat /\ IsFiniteSet(Asked)
  <2>1. Asked \in SUBSET Seconds
    BY DEF Asked, Rows, TypeOK
  <2> QED BY <2>1, QueryAssumption, FS_Subset
<1>2. /\ IsFiniteSet(sentNow) /\ Cardinality(sentNow) \in Nat /\ Cardinality(Asked) \in Nat
      /\ Cardinality(sentNow) <= Cardinality(Asked)
  BY <1>1, FS_Subset, FS_CardinalityType
<1>3. ASSUME NEW t \in sentNow PROVE Rank(t) \in 1 .. Cardinality(sentNow)
  <2> DEFINE K == {u \in Asked : u <= t}
  <2>1. t \in Nat /\ \A u \in Asked : u \in Nat
    BY <1>1
  <2>2. K \in SUBSET sentNow /\ t \in K
    <3>1. ASSUME NEW u \in K PROVE u \in sentNow
      <4>1. u \in Nat /\ u \in Asked /\ ~ (t < u)
        BY <2>1
      <4> QED BY <4>1
    <3>2. t <= t /\ t \in Asked
      BY <2>1
    <3> QED BY <3>1, <3>2
  <2>3. K # {}
    BY <2>2
  <2>4. Rank(t) = Cardinality(K)
    BY DEF Rank, Asked
  <2> HIDE DEF K
  <2>5. /\ Cardinality(K) <= Cardinality(sentNow) /\ Cardinality(K) \in Nat
        /\ Cardinality(K) # 0
    BY <1>2, <2>2, <2>3, FS_Subset, FS_EmptySet, FS_CardinalityType
  <2> QED BY <1>2, <2>4, <2>5
<1>4. ASSUME NEW t \in Asked \ sentNow
      PROVE  /\ Rank(t) \in Nat /\ Rank(t) > Cardinality(sentNow)
             /\ (\A u \in Asked \ sentNow : t <= u) => Rank(t) = Cardinality(sentNow) + 1
  <2> DEFINE K == {u \in Asked : u <= t}
             T == sentNow \cup {t}
  <2>1. t \in Nat /\ \A u \in Asked : u \in Nat
    BY <1>1
  <2>2. T \in SUBSET K /\ K \in SUBSET Asked
    BY <2>1
  <2>3. ASSUME \A u \in Asked \ sentNow : t <= u PROVE K = T
    <3>1. \A u \in K : u \in sentNow \/ u = t
      BY <2>1, <2>3
    <3> QED BY <2>2, <3>1
  <2>4. Cardinality(T) = Cardinality(sentNow) + 1
    BY <1>2, FS_AddElement
  <2>5. Rank(t) = Cardinality(K)
    BY DEF Rank, Asked
  <2> HIDE DEF K, T
  <2>6. Cardinality(T) <= Cardinality(K) /\ Cardinality(K) \in Nat
    BY <1>1, <2>2, FS_Subset, FS_CardinalityType
  <2> QED BY <1>2, <2>3, <2>4, <2>5, <2>6
<1> QED BY <1>1, <1>2, <1>3, <1>4

\* A round of texts sends the earliest reading not yet sent.
LEMMA TextRoundKeeps == ASSUME TypeInv, TextInv, TextRound PROVE TextInv'
<1> DEFINE t == Min(unread)
           done == Asked \ unread
<1>1. /\ t \in unread /\ \A u \in unread : t <= u
      /\ unread \in SUBSET Nat /\ unread \subseteq DOMAIN table
  <2>1. unread \in SUBSET Nat /\ unread # {} /\ unread \subseteq DOMAIN table
    BY QueryAssumption DEF TextRound, TypeInv, TypeOK
  <2> QED BY <2>1, LeastNatural
<1>2. /\ sent' = Append(sent, Reading(t))
      /\ unread' = unread \ {t} /\ round' = round + 1
      /\ pc' = IF unread' = {} \/ round' = number THEN "return" ELSE "rounds"
      /\ UNCHANGED <<table, kind, first, last, number, shift>>
      /\ pc = "rounds" /\ kind = "text"
  BY DEF TextRound, request, Reading
<1>3. /\ unread \subseteq Asked
      /\ \A d \in done, u \in unread : d < u
      /\ round = Cardinality(done) /\ Len(sent) = round
      /\ \A d \in done : sent[Rank(d)] = Reading(d)
  BY <1>2 DEF TextInv
<1>4. /\ Asked' = Asked
      /\ \A d : Rank(d)' = Rank(d)
      /\ \A d : Reading(d)' = Reading(d)
  BY <1>2 DEF Asked, Rows, Rank, Reading, Read
<1>5. Asked \ unread' = done \cup {t} /\ t \notin done
  BY <1>1, <1>2, <1>3
<1>6. /\ Rank(t) = round + 1 /\ round \in Nat
      /\ \A d \in done : Rank(d) \in 1 .. round
      /\ Cardinality(done \cup {t}) = round + 1
  <2>1. /\ done \in SUBSET Asked /\ Asked \ done = unread
    BY <1>3
  <2> HIDE DEF done, t
  <2>2. \A d \in done, u \in Asked \ done : d < u
    BY <1>3, <2>1
  <2>3. t \in Asked \ done /\ \A u \in Asked \ done : t <= u
    BY <1>1, <2>1
  <2>4. /\ IsFiniteSet(done) /\ Cardinality(done) \in Nat
        /\ \A d \in done : Rank(d) \in 1 .. Cardinality(done)
        /\ Rank(t) = Cardinality(done) + 1
    BY <2>1, <2>2, <2>3, Ranks DEF TypeInv
  <2>5. Cardinality(done \cup {t}) = Cardinality(done) + 1
    BY <1>5, <2>4, FS_AddElement
  <2> QED BY <1>3, <2>4, <2>5
<1>7. /\ Len(sent') = round + 1 /\ sent'[round + 1] = Reading(t)
      /\ \A i \in 1 .. round : sent'[i] = sent[i]
  <2>1. sent \in Seq(Message)
    BY DEF TypeInv, TypeOK
  <2> DEFINE r == Reading(t)
  <2>2. sent' = Append(sent, r) /\ Len(sent) = round
    BY <1>2, <1>3
  <2> HIDE DEF r
  <2>3. /\ Len(sent') = Len(sent) + 1 /\ sent'[Len(sent) + 1] = r
        /\ \A i \in 1 .. Len(sent) : sent'[i] = sent[i]
    BY <2>1, <2>2
  <2> QED BY <2>2, <2>3 DEF r
<1> HIDE DEF t, done, Reading, Rank, Asked
<1>8. \A d \in done \cup {t} : sent'[Rank(d)] = Reading(d)
  BY <1>3, <1>6, <1>7
<1>9. \A d \in done \cup {t}, u \in unread \ {t} : d < u
  <2>1. \A u \in unread \ {t} : t < u
    BY <1>1
  <2> QED BY <1>3, <2>1
<1>10. (Asked \ unread)' = done \cup {t}
  BY <1>4, <1>5
<1>11. unread' \subseteq Asked' /\ \A d \in (Asked \ unread)', u \in unread' : d < u
  BY <1>2, <1>3, <1>4, <1>9, <1>10
<1>12. round' = Cardinality(Asked \ unread)' /\ Len(sent') = round'
  BY <1>2, <1>6, <1>7, <1>10
<1>13. \A d \in (Asked \ unread)' : sent'[Rank(d)'] = Reading(d)'
  BY <1>4, <1>8, <1>10
<1>14. pc' = "return" => unread' = {} \/ round' = number'
  BY <1>2
<1> QED BY <1>11, <1>12, <1>13, <1>14 DEF TextInv

\* TextInv is inductive.
LEMMA TextStep == TypeInv /\ IInv /\ TextInv /\ [Next]_vars => TextInv'
<1> SUFFICES ASSUME TypeInv, IInv, TextInv, [Next]_vars PROVE TextInv'
  OBVIOUS
<1>1. CASE UNCHANGED vars
  BY <1>1 DEF vars, locals, request, TextInv, Asked, Rows, Rank, Reading, Read
<1>2. ASSUME NEW start \in Seconds, NEW end \in Seconds, NEW asked \in 0 .. MaxNumber,
             GetValues(start, end, asked)
      PROVE  TextInv'
  <2>1. /\ unread' = Rows(start, end) /\ first' = start /\ last' = end
        /\ table' = table /\ sent' = <<>> /\ round' = 0
    BY <1>2 DEF GetValues, TypeInv
  <2>2. unread' = Asked' /\ (Asked \ unread)' = {}
    BY <2>1 DEF Asked, Rows
  <2>3. pc' = "return" => unread' = {}
    BY <1>2, <2>1 DEF GetValues, Found
  <2>4. Cardinality({}) = 0 /\ Len(<<>>) = 0
    BY FS_EmptySet
  <2> QED BY <2>1, <2>2, <2>3, <2>4 DEF TextInv
<1>3. CASE NumberRound
  BY <1>3 DEF NumberRound, BucketRound, request, TextInv
<1>4. CASE SwitchRound
  BY <1>4 DEF SwitchRound, BucketRound, request, TextInv
<1>5. CASE TextRound
  BY <1>5, TextRoundKeeps
<1>6. CASE Return
  BY <1>6 DEF Return, TextInv
<1> QED BY <1>1, <1>2, <1>3, <1>4, <1>5, <1>6 DEF Next

\* What TextInv says of a complete answer is what the property says.
LEMMA TextComplete == TypeOK /\ TextInv => TextAnswersAreFirst
<1> SUFFICES ASSUME TypeOK, TextInv, pc = "return", kind = "text"
             PROVE  /\ Len(sent) = Min({number, Cardinality(Asked)})
                    /\ \A t \in Asked : Rank(t) <= number => sent[Rank(t)] = Reading(t)
  BY DEF TextAnswersAreFirst, Asked, Reading
<1> DEFINE done == Asked \ unread
<1>1. /\ done \in SUBSET Asked /\ Asked \ done = unread
      /\ \A d \in done, u \in unread : d < u
      /\ Len(sent) = Cardinality(done)
      /\ \A d \in done : sent[Rank(d)] = Reading(d)
      /\ unread = {} \/ Cardinality(done) = number
  BY DEF TextInv
<1> HIDE DEF done
<1>2. /\ Cardinality(Asked) \in Nat /\ Cardinality(done) \in Nat
      /\ Cardinality(done) <= Cardinality(Asked)
      /\ \A t \in unread : Rank(t) > Cardinality(done) /\ Rank(t) \in Nat
  BY <1>1, Ranks
<1>3. number \in Nat /\ Cardinality(done) <= number
  BY DEF TypeOK, TextInv, done
<1>4. unread = {} => Cardinality(done) = Cardinality(Asked)
  BY <1>1 DEF done
<1> DEFINE B == {number, Cardinality(Asked)}
<1>5. Min(B) \in B /\ \A n \in B : Min(B) <= n
  BY <1>2, <1>3, LeastNatural
<1>6. Len(sent) = Min(B)
  <2>1. Min(B) = number \/ Min(B) = Cardinality(Asked)
    BY <1>5
  <2>2. Min(B) <= number /\ Min(B) <= Cardinality(Asked)
    BY <1>5
  <2> HIDE DEF B
  <2> QED BY <1>1, <1>2, <1>3, <1>4, <2>1, <2>2
<1>7. ASSUME NEW t \in Asked, Rank(t) <= number PROVE sent[Rank(t)] = Reading(t)
  <2>1. t \in done
    BY <1>1, <1>2, <1>3, <1>7
  <2> QED BY <1>1, <2>1
<1> QED BY <1>6, <1>7

-----------------------------------------------------------------------------
(***************************************************************************)
(* Winter.  A reading that the shift moves before the period stops every   *)
(* round; without one, the unread readings are those read as of the        *)
(* running round or later.                                                 *)
(***************************************************************************)
Early == \E t \in Asked : Read(t) < first

ShiftInv ==
  pc # "idle" /\ kind # "text" =>
    IF Early THEN unread = Asked /\ sent = <<>>
    ELSE unread = {t \in Asked : Read(t) >= from}

\* A round does not pass an early reading, and without one it reads up to its end.
LEMMA ShiftedRound ==
  ASSUME TypeOK, IInv, ShiftInv, pc = "rounds", kind # "text"
  PROVE  IF Early THEN Taken = {}
         ELSE unread \ Taken = {t \in Asked : Read(t) >= To + 1}
<1>1. first \in Nat /\ from \in Nat /\ To \in Int /\ first <= from /\ from <= To + 1
  <2>1. Width \in Nat /\ To \in Int
    BY WidthIsNat DEF IInv
  <2>2. from = first + round * Width /\ round \in Nat /\ first \in Nat /\ from \in Nat
    BY DEF IInv, Position, Typed
  <2>3. round * Width \in Nat
    BY <2>1, <2>2
  <2>4. first <= from
    BY <2>2, <2>3
  <2>5. from <= To + 1
    BY <2>1, <2>2 DEF To
  <2> QED BY <2>1, <2>2, <2>4, <2>5
<1>2. /\ \A t \in Asked : Read(t) \in Int
      /\ \A t, u \in Asked : (u <= t => Read(u) <= Read(t)) /\ (u <= t \/ t <= u)
  <2>1. Asked \in SUBSET Nat /\ shift \in Nat
    BY QueryAssumption DEF Asked, Rows, TypeOK
  <2> QED BY <2>1 DEF Read
<1>3. CASE Early
  <2>1. PICK e \in Asked : Read(e) < first
    BY <1>3 DEF Early
  <2>2. unread = Asked
    BY <1>3 DEF ShiftInv
  <2>3. ASSUME NEW t \in unread PROVE t \notin Taken
    <3>1. CASE e <= t
      <4>1. Read(e) \notin from .. To
        BY <1>1, <1>2, <2>1
      <4> QED BY <2>1, <2>2, <3>1, <4>1 DEF Taken
    <3>2. CASE t <= e
      <4>1. Read(t) <= Read(e) /\ Read(t) \in Int /\ Read(e) \in Int /\ t <= t
        BY <1>2, <2>1, <2>2, <3>2
      <4>2. Read(t) \notin from .. To
        BY <1>1, <2>1, <4>1
      <4> QED BY <2>3, <4>1, <4>2 DEF Taken
    <3> QED BY <1>2, <2>1, <2>2, <3>1, <3>2
  <2>4. Taken \subseteq unread
    BY DEF Taken
  <2> QED BY <1>3, <2>3, <2>4
<1>4. CASE ~Early
  <2>1. unread = {t \in Asked : Read(t) >= from}
    BY <1>4 DEF ShiftInv
  <2>2. Taken = {t \in unread : Read(t) <= To}
    <3>1. ASSUME NEW t \in unread
          PROVE  (\A u \in unread : u <= t => Read(u) \in from .. To) <=> Read(t) <= To
      <4>1. t \in Asked /\ t <= t
        BY <1>2, <2>1
      <4>2. ASSUME \A u \in unread : u <= t => Read(u) \in from .. To PROVE Read(t) <= To
        BY <4>1, <4>2
      <4>3. ASSUME Read(t) <= To, NEW u \in unread, u <= t PROVE Read(u) \in from .. To
        <5>1. u \in Asked /\ Read(u) >= from
          BY <2>1
        <5>2. Read(u) <= Read(t) /\ Read(u) \in Int /\ Read(t) \in Int
          BY <1>2, <4>1, <4>3, <5>1
        <5> QED BY <1>1, <4>3, <5>1, <5>2
      <4> QED BY <4>2, <4>3
    <3> QED BY <3>1 DEF Taken
  <2>3. ASSUME NEW t \in Asked
        PROVE  (Read(t) >= from /\ ~(Read(t) <= To)) <=> Read(t) >= To + 1
    <3>1. Read(t) \in Int
      BY <1>2
    <3> QED BY <1>1, <3>1
  <2>4. unread \ Taken = {t \in Asked : Read(t) >= from /\ ~(Read(t) <= To)}
    BY <2>1, <2>2
  <2> QED BY <1>4, <2>3, <2>4
<1> QED BY <1>3, <1>4

\* ShiftInv is inductive.
LEMMA ShiftStep == TypeInv /\ IInv /\ ShiftInv /\ [Next]_vars => ShiftInv'
<1> SUFFICES ASSUME TypeInv, IInv, ShiftInv, [Next]_vars PROVE ShiftInv'
  OBVIOUS
<1>1. CASE UNCHANGED vars
  BY <1>1 DEF vars, locals, request, ShiftInv, Early, Asked, Rows, Read
<1>2. ASSUME NEW start \in Seconds, NEW end \in Seconds, NEW asked \in 0 .. MaxNumber,
             GetValues(start, end, asked)
      PROVE  ShiftInv'
  <2>1. /\ unread' = Rows(start, end) /\ first' = start /\ last' = end
        /\ table' = table /\ sent' = <<>> /\ from' = start
        /\ start \in Nat /\ shift' \in Nat
    BY <1>2, QueryAssumption DEF GetValues, TypeInv
  <2>2. unread' = Asked' /\ Asked' \in SUBSET Nat
    BY <2>1, QueryAssumption DEF Asked, Rows, TypeInv, TypeOK
  <2>3. \A t \in Asked' : Read(t)' = t - shift' /\ t - shift' \in Int
    BY <2>1, <2>2 DEF Read
  <2>4. ASSUME ~Early' PROVE Asked' = {t \in Asked' : Read(t)' >= from'}
    <3>1. \A t \in Asked' : ~ (Read(t)' < first')
      BY <2>4 DEF Early
    <3> QED BY <2>1, <2>3, <3>1
  <2> QED BY <2>1, <2>2, <2>4 DEF ShiftInv
<1>3. ASSUME pc = "rounds", kind # "text", NEW answer, BucketRound(answer)
      PROVE  ShiftInv'
  <2>1. /\ UNCHANGED <<table, kind, first, last, shift>>
        /\ sent' = IF Taken = {} THEN sent ELSE Append(sent, answer)
        /\ unread' = unread \ Taken /\ from' = To + 1
    BY <1>3 DEF BucketRound, request
  <2>2. Asked' = Asked /\ (\A t : Read(t)' = Read(t)) /\ (Early' <=> Early)
    BY <2>1 DEF Asked, Rows, Read, Early
  <2>3. IF Early THEN Taken = {} ELSE unread \ Taken = {t \in Asked : Read(t) >= To + 1}
    BY <1>3, ShiftedRound DEF TypeInv
  <2>4. Early => unread = Asked /\ sent = <<>>
    BY <1>3 DEF ShiftInv
  <2> QED BY <2>1, <2>2, <2>3, <2>4 DEF ShiftInv
<1>4. CASE NumberRound
  BY <1>3, <1>4 DEF NumberRound
<1>5. CASE SwitchRound
  BY <1>3, <1>5 DEF SwitchRound
<1>6. CASE TextRound
  BY <1>6 DEF TextRound, request, ShiftInv
<1>7. CASE Return
  BY <1>7 DEF Return, ShiftInv
<1> QED BY <1>1, <1>2, <1>4, <1>5, <1>6, <1>7 DEF Next

\* What ShiftInv says of a complete answer is what the property says.
LEMMA ShiftComplete == TypeOK /\ IInv /\ ShiftInv => AllButRemainderOrNothing
<1> SUFFICES ASSUME TypeOK, IInv, ShiftInv, pc = "return", kind # "text"
             PROVE  IF Early THEN sent = <<>> /\ unread = Asked
                    ELSE unread = {t \in Asked : Read(t) > first + number * Width}
  BY Zenon DEF AllButRemainderOrNothing, Early, Asked
<1>1. from = first + number * Width + 1 /\ from \in Nat
  BY DEF IInv, Position, Typed
<1> DEFINE spans == first + number * Width
<1>2. spans \in Int
  BY DEF TypeOK, Width
<1>3. \A t \in Asked : Read(t) \in Int
  BY QueryAssumption DEF Asked, Rows, Read, TypeOK
<1> HIDE DEF spans
<1>4. from = spans + 1
  BY <1>1 DEF spans
<1>5. \A t \in Asked : Read(t) >= from <=> Read(t) > spans
  BY <1>2, <1>3, <1>4
<1> QED BY <1>5 DEF ShiftInv, spans

-----------------------------------------------------------------------------
(* What follows for every behaviour *)

\* The variables hold what TypeOK says in every reachable state.
THEOREM TypeCorrect == Spec => []TypeOK
<1>1. Init => TypeInv /\ IInv
  BY Initially, TypeInit
<1>2. TypeInv /\ IInv /\ [Next]_vars => (TypeInv /\ IInv)'
  BY TypeStep, Kept
<1>3. TypeInv => TypeOK
  BY DEF TypeInv
<1> QED BY <1>1, <1>2, <1>3, PTL DEF Spec

(***************************************************************************)
(* In every reachable state of a query answer the unread readings are      *)
(* those from the running round on: nothing is skipped or counted twice.   *)
(***************************************************************************)
THEOREM RoundsInStep == Spec => []InStep
<1>1. Init => IInv
  BY Initially
<1>2. IInv /\ [Next]_vars => IInv'
  BY Kept
<1>3. IInv => InStep
  BY DEF IInv
<1> QED BY <1>1, <1>2, <1>3, PTL DEF Spec

\* Nothing but the remainder is left out in summer.
OnlyRemainderMissed ==
  shift = 0 /\ pc = "return" /\ kind # "text" =>
    unread = Rows(first + number * Width + 1, last)

(***************************************************************************)
(* Whatever the period and the number of spans, in summer a query leaves   *)
(* out only the readings of the seconds the division of the period drops.  *)
(***************************************************************************)
THEOREM RemainderMissed == Spec => []OnlyRemainderMissed
<1>1. Init => IInv
  BY Initially
<1>2. IInv /\ [Next]_vars => IInv'
  BY Kept
<1>3. IInv => OnlyRemainderMissed
  BY DEF IInv, Typed, Position, InStep, OnlyRemainderMissed
<1> QED BY <1>1, <1>2, <1>3, PTL DEF Spec

\* What AnswersInv says of a complete answer is what the properties say.
LEMMA AnswersComplete ==
  ASSUME AnswersInv, shift = 0, pc = "return", kind # "text"
  PROVE  /\ Len(sent) = Cardinality(UsedSpans)
         /\ \A j \in UsedSpans : Said(MessageOf(j), j)
<1>1. round = number
  BY DEF AnswersInv
<1>2. Used(round) = UsedSpans
  BY <1>1 DEF Used, UsedSpans
<1>3. \A j : MessageOf(j) = sent[PlaceOf(round, j)]
  BY <1>2 DEF MessageOf, PlaceOf
<1> HIDE DEF Said
<1> QED BY <1>2, <1>3 DEF AnswersInv

LEMMA AnswersAlways == Spec => []AnswersInv
<1>1. Init => TypeInv /\ IInv /\ AnswersInv
  BY Initially, TypeInit DEF Init, AnswersInv
<1>2. TypeInv /\ IInv /\ AnswersInv /\ [Next]_vars => (TypeInv /\ IInv /\ AnswersInv)'
  BY TypeStep, Kept, AnswersStep
<1> QED BY <1>1, <1>2, PTL DEF Spec

(***************************************************************************)
(* The messages of a numeric query describe the spans of its period,       *)
(* whatever the table, the period and the division: for readings that the  *)
(* sentinels of the extremes cannot be mistaken for.                       *)
(***************************************************************************)
THEOREM AnswersDescribe == ASSUME Ordinary PROVE Spec => []AnswersDescribeSpans
<1>1. AnswersInv => AnswersDescribeSpans
  <2> SUFFICES ASSUME AnswersInv, shift = 0, pc = "return", kind = "number"
               PROVE  /\ Len(sent) = Cardinality(UsedSpans)
                      /\ \A j \in UsedSpans : NumberSaid(MessageOf(j), j)
    BY Zenon DEF AnswersDescribeSpans, NumberSaid
  <2> QED BY AnswersComplete DEF Said
<1> QED BY <1>1, AnswersAlways, PTL

(***************************************************************************)
(* There is a message for each span of a switch that has readings, in      *)
(* order, and it says what most of them said, whatever the table, the      *)
(* period and the division.                                                *)
(***************************************************************************)
THEOREM SwitchAnswersMajority == Spec => []SwitchAnswersAreMajorities
<1>1. AnswersInv => SwitchAnswersAreMajorities
  <2> SUFFICES ASSUME AnswersInv, shift = 0, pc = "return", kind = "switch"
               PROVE  /\ Len(sent) = Cardinality(UsedSpans)
                      /\ \A j \in UsedSpans : SwitchSaid(MessageOf(j), j)
    BY Zenon DEF SwitchAnswersAreMajorities, SwitchSaid, HighIn, LowIn
  <2> QED BY AnswersComplete DEF Said
<1> QED BY <1>1, AnswersAlways, PTL

(***************************************************************************)
(* The readings of a text device are answered as they are stored, the      *)
(* first `number' of the period in order, whatever the table, the period,  *)
(* the number asked for and the shift of the stored dates.                 *)
(***************************************************************************)
THEOREM TextAnswersFirst == Spec => []TextAnswersAreFirst
<1>1. Init => TypeInv /\ IInv /\ TextInv
  BY Initially, TypeInit DEF Init, TextInv
<1>2. TypeInv /\ IInv /\ TextInv /\ [Next]_vars => (TypeInv /\ IInv /\ TextInv)'
  BY TypeStep, Kept, TextStep
<1>3. TypeInv /\ TextInv => TextAnswersAreFirst
  BY TextComplete DEF TypeInv
<1> QED BY <1>1, <1>2, <1>3, PTL DEF Spec

(***************************************************************************)
(* Whatever ToDate takes off the dates, a numeric query is answered in     *)
(* full or not at all, for every table, period and number of spans.        *)
(***************************************************************************)
THEOREM EarlyReadingStops == Spec => []AllButRemainderOrNothing
<1>1. Init => TypeInv /\ IInv /\ ShiftInv
  BY Initially, TypeInit DEF Init, ShiftInv
<1>2. TypeInv /\ IInv /\ ShiftInv /\ [Next]_vars => (TypeInv /\ IInv /\ ShiftInv)'
  BY TypeStep, Kept, ShiftStep
<1>3. TypeInv /\ IInv /\ ShiftInv => AllButRemainderOrNothing
  BY ShiftComplete DEF TypeInv
<1> QED BY <1>1, <1>2, <1>3, PTL DEF Spec
=============================================================================
