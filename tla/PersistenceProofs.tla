-------------------------- MODULE PersistenceProofs --------------------------
(***************************************************************************)
(* Theorems about CacheFile, Persistence and Recording, for every value of *)
(* their constants.                                                        *)
(***************************************************************************)
EXTENDS Recording, Sums

LEMMA Offsets == Times \subseteq Nat /\ DstShift \in Nat
BY CacheFileAssumption

USE Offsets

-----------------------------------------------------------------------------
(***************************************************************************)
(* What the cache file gives back.  A file made of whole lines of readings *)
(* whose name and value are one word each, printed and read at the same    *)
(* offset from UTC, is read back as those readings, one per round of       *)
(* CacheFile::Transfert.                                                   *)
(***************************************************************************)

\* The readings a line of four words can carry.
Plain == [canonic : {<<w>> : w \in Words}, value : {<<w>> : w \in Words}, time : Times]

\* Words 4n+1 .. 4n+4 of the file are the line of reading r.
LineAt(f, n, r) ==
  /\ f[4*n + 1] = <<"date", r.time>> /\ f[4*n + 2] = <<"time", r.time>>
  /\ r.canonic = <<f[4*n + 3]>> /\ r.value = <<f[4*n + 4]>>

\* The file holds k lines.
Lines(f, k) == Len(f) = 4 * k /\ \A n \in 0 .. k - 1 : \E r \in Plain : LineAt(f, n, r)

\* A line has four words, in the order Transfert reads them.
LEMMA PlainLine ==
  ASSUME NEW r \in Plain
  PROVE  /\ Len(Line(r)) = 4 /\ Line(r) \in Seq(Token)
         /\ Line(r)[1] = <<"date", r.time>> /\ Line(r)[2] = <<"time", r.time>>
         /\ r.canonic = <<Line(r)[3]>> /\ r.value = <<Line(r)[4]>>
<1>1. PICK name \in Words, w \in Words : r.canonic = <<name>> /\ r.value = <<w>>
  BY DEF Plain
<1>2. w \in Token /\ name \in Token
      /\ <<"date", r.time>> \in Token /\ <<"time", r.time>> \in Token
  BY DEF Plain, Token
<1> DEFINE d == << <<"date", r.time>>, <<"time", r.time>> >>
           a == << <<"date", r.time>>, <<"time", r.time>>, name >>
           b == <<w>>
<1>3. a \in Seq(Token) /\ Len(a) = 3 /\ b \in Seq(Token) /\ Len(b) = 1
      /\ a[1] = <<"date", r.time>> /\ a[2] = <<"time", r.time>> /\ a[3] = name /\ b[1] = w
  BY <1>2
<1>4. Line(r) = a \o b
  <2>1. d \o <<name>> = a
    <3> DEFINE e == <<name>>
    <3>1. d \in Seq(Token) /\ Len(d) = 2 /\ e \in Seq(Token) /\ Len(e) = 1
          /\ d[1] = a[1] /\ d[2] = a[2] /\ e[1] = a[3]
      BY <1>2
    <3> HIDE DEF d, e, a
    <3>2. /\ d \o e \in Seq(Token) /\ Len(d \o e) = Len(d) + Len(e)
          /\ \A i \in 1 .. Len(d) + Len(e) :
                (d \o e)[i] = IF i <= Len(d) THEN d[i] ELSE e[i - Len(d)]
      BY <3>1, ConcatProperties, Zenon
    <3>3. /\ d \o e \in Seq(Token) /\ Len(d \o e) = 3
          /\ (d \o e)[1] = d[1] /\ (d \o e)[2] = d[2] /\ (d \o e)[3] = e[1]
      BY <3>1, <3>2
    <3>4. \A i \in 1 .. 3 : i = 1 \/ i = 2 \/ i = 3
      OBVIOUS
    <3>5. d \o e = a
      BY <1>3, <3>1, <3>3, <3>4, SeqEqual
    <3>6. QED
      BY <3>5 DEF e
  <2>2. Line(r) = d \o r.canonic \o r.value
    BY DEF Line
  <2>3. QED
    BY <1>1, <2>1, <2>2
<1> HIDE DEF a, b
<1>5. /\ a \o b \in Seq(Token) /\ Len(a \o b) = 4
      /\ (a \o b)[1] = a[1] /\ (a \o b)[2] = a[2] /\ (a \o b)[3] = a[3] /\ (a \o b)[4] = b[1]
  <2>1. /\ a \o b \in Seq(Token) /\ Len(a \o b) = Len(a) + Len(b)
        /\ \A i \in 1 .. Len(a) + Len(b) :
              (a \o b)[i] = IF i <= Len(a) THEN a[i] ELSE b[i - Len(a)]
    BY <1>3, ConcatProperties, Zenon
  <2>2. QED
    BY <1>3, <2>1
<1>6. QED
  BY <1>1, <1>3, <1>4, <1>5

\* A round that starts at a line reads that line, whatever the clock shows.
LEMMA ReadLine ==
  ASSUME DstShift = 0, NEW f, NEW n \in Nat, NEW r \in Plain, NEW now,
         LineAt(f, n, r), 4 * n + 4 <= Len(f), Len(f) \in Nat
  PROVE  ReadBack(f, 4 * n, now) = r
<1>1. /\ Extract(f, 4 * n, 1) = <<"date", r.time>> /\ Extract(f, 4 * n, 2) = <<"time", r.time>>
      /\ Extract(f, 4 * n, 3) = f[4 * n + 3] /\ Extract(f, 4 * n, 4) = f[4 * n + 4]
  BY DEF Extract, LineAt
<1>2. r.time \in Times /\ r.time \in Nat
  BY DEF Plain
<1>3. ToDate(<<"date", r.time>>, <<"time", r.time>>, now) = r.time
  BY <1>2 DEF ToDate
<1>4. r = [canonic |-> r.canonic, value |-> r.value, time |-> r.time]
  BY DEF Plain
<1>5. r.canonic = <<f[4 * n + 3]>> /\ r.value = <<f[4 * n + 4]>>
  BY DEF LineAt
<1>6. QED
  BY <1>1, <1>3, <1>4, <1>5 DEF ReadBack

\* What is unread after m of k lines is the readings of the other lines.
LEMMA UnreadLines ==
  ASSUME NEW f, NEW k \in Nat, NEW m \in 0 .. k, NEW now, Len(f) = 4 * k
  PROVE  Unread(f, 4 * m, now) = [i \in 1 .. k - m |-> ReadBack(f, 4 * (m + i - 1), now)]
<1>1. (Len(f) - 4 * m + 3) \div 4 = k - m
  OBVIOUS
<1>2. \A i \in 1 .. k - m : 4 * m + 4 * (i - 1) = 4 * (m + i - 1)
  OBVIOUS
<1>3. QED
  BY <1>1, <1>2 DEF Unread

\* They are readings, and do not depend on the clock.
LEMMA UnreadType ==
  ASSUME DstShift = 0, NEW f, NEW k \in Nat, NEW m \in 0 .. k, NEW now, Lines(f, k)
  PROVE  /\ Unread(f, 4 * m, now) \in Seq(Plain)
         /\ Len(Unread(f, 4 * m, now)) = k - m
         /\ \A other : Unread(f, 4 * m, other) = Unread(f, 4 * m, now)
<1>1. ASSUME NEW i \in 1 .. k - m, NEW other
      PROVE  ReadBack(f, 4 * (m + i - 1), other) \in Plain
             /\ ReadBack(f, 4 * (m + i - 1), other) = ReadBack(f, 4 * (m + i - 1), now)
  <2>1. m + i - 1 \in 0 .. k - 1 /\ m + i - 1 \in Nat
    OBVIOUS
  <2>2. PICK r \in Plain : LineAt(f, m + i - 1, r)
    BY <2>1 DEF Lines
  <2>3. ReadBack(f, 4 * (m + i - 1), other) = r /\ ReadBack(f, 4 * (m + i - 1), now) = r
    BY <2>1, <2>2, ReadLine DEF Lines
  <2>4. QED
    BY <2>3
<1>2. k - m \in Nat
  OBVIOUS
<1>3. \A other : Unread(f, 4 * m, other) = [i \in 1 .. k - m |-> ReadBack(f, 4 * (m + i - 1), other)]
  BY UnreadLines DEF Lines
<1>4. [i \in 1 .. k - m |-> ReadBack(f, 4 * (m + i - 1), now)] \in [1 .. k - m -> Plain]
  BY <1>1
<1>5. Unread(f, 4 * m, now) \in [1 .. k - m -> Plain]
  BY <1>3, <1>4
<1>6. Unread(f, 4 * m, now) \in Seq(Plain)
  BY <1>2, <1>5, SeqDef
<1>7. Len(Unread(f, 4 * m, now)) = k - m
  BY <1>2, <1>5, <1>6, LenProperties
<1>8. ASSUME NEW other PROVE Unread(f, 4 * m, other) = Unread(f, 4 * m, now)
  BY <1>1, <1>3
<1>9. QED
  BY <1>6, <1>7, <1>8

\* A round takes the oldest unread reading.
LEMMA UnreadAdvance ==
  ASSUME DstShift = 0, NEW f, NEW k \in Nat, NEW m \in Nat, m < k, NEW now, Lines(f, k)
  PROVE  /\ Unread(f, 4 * m, now) # <<>>
         /\ Head(Unread(f, 4 * m, now)) = ReadBack(f, 4 * m, now)
         /\ Tail(Unread(f, 4 * m, now)) = Unread(f, 4 * m + 4, now)
<1>1. PICK n \in 0 .. k : n = m + 1
  OBVIOUS
<1> DEFINE u == Unread(f, 4 * m, now)
           v == Unread(f, 4 * n, now)
<1>2. m \in 0 .. k /\ Len(f) = 4 * k
  BY DEF Lines
<1>3. u = [i \in 1 .. k - m |-> ReadBack(f, 4 * (m + i - 1), now)]
  BY <1>2, UnreadLines
<1>4. v = [i \in 1 .. k - n |-> ReadBack(f, 4 * (n + i - 1), now)]
  BY <1>2, UnreadLines
<1>5. u \in Seq(Plain) /\ Len(u) = k - m
  BY <1>2, UnreadType
<1>6. v \in Seq(Plain) /\ Len(v) = k - n
  BY UnreadType
<1> HIDE DEF u, v
<1>7. u # <<>> /\ Head(u) = ReadBack(f, 4 * m, now)
  BY <1>3, <1>5
<1>8. Tail(u) \in Seq(Plain) /\ Len(Tail(u)) = k - n
      /\ \A i \in 1 .. k - n : Tail(u)[i] = u[i + 1]
  BY <1>1, <1>5, <1>7, HeadTailProperties
<1>9. ASSUME NEW i \in 1 .. k - n PROVE u[i + 1] = v[i]
  <2>1. i + 1 \in 1 .. k - m /\ 4 * (m + (i + 1) - 1) = 4 * (n + i - 1)
    BY <1>1
  <2>2. QED
    BY <1>3, <1>4, <2>1
<1>10. Tail(u) = v
  BY <1>6, <1>8, <1>9, SeqEqual
<1>11. 4 * n = 4 * m + 4
  BY <1>1
<1>12. QED
  BY <1>7, <1>10, <1>11 DEF u, v

\* Writing a line adds its reading behind the unread ones.
LEMMA UnreadWrite ==
  ASSUME DstShift = 0, NEW f \in Seq(Token), NEW k \in Nat, NEW m \in 0 .. k, NEW now,
         Lines(f, k), NEW r \in Plain
  PROVE  /\ Lines(f \o Line(r), k + 1)
         /\ Unread(f \o Line(r), 4 * m, now) = Append(Unread(f, 4 * m, now), r)
<1> DEFINE g == f \o Line(r)
           u == Unread(f, 4 * m, now)
           v == Unread(g, 4 * m, now)
<1>1. /\ g \in Seq(Token) /\ Len(g) = 4 * (k + 1)
      /\ \A i \in 1 .. 4 * k : g[i] = f[i]
      /\ \A i \in 1 .. 4 : g[4 * k + i] = Line(r)[i]
  <2>1. Line(r) \in Seq(Token) /\ Len(Line(r)) = 4 /\ Len(f) = 4 * k
    BY PlainLine DEF Lines
  <2>2. /\ g \in Seq(Token) /\ Len(g) = 4 * k + 4
        /\ \A i \in 1 .. 4 * k + 4 : g[i] = IF i <= 4 * k THEN f[i] ELSE Line(r)[i - 4 * k]
    <3>1. /\ g \in Seq(Token) /\ Len(g) = Len(f) + Len(Line(r))
          /\ \A i \in 1 .. Len(f) + Len(Line(r)) :
                g[i] = IF i <= Len(f) THEN f[i] ELSE Line(r)[i - Len(f)]
      BY <2>1, ConcatProperties, Zenon
    <3>2. QED
      BY <2>1, <3>1, Zenon
  <2> HIDE DEF g
  <2>3. ASSUME NEW i \in 1 .. 4 PROVE g[4 * k + i] = Line(r)[i]
    <3>1. 4 * k + i \in 1 .. 4 * k + 4 /\ ~(4 * k + i <= 4 * k) /\ 4 * k + i - 4 * k = i
      OBVIOUS
    <3>2. QED
      BY <2>2, <3>1
  <2>4. QED
    BY <2>2, <2>3
<1>2. LineAt(g, k, r)
  <2> HIDE DEF g
  <2>1. g[4*k + 1] = Line(r)[1] /\ g[4*k + 2] = Line(r)[2]
        /\ g[4*k + 3] = Line(r)[3] /\ g[4*k + 4] = Line(r)[4]
    BY <1>1
  <2>2. QED
    BY <2>1, PlainLine DEF LineAt
<1>3. ASSUME NEW n \in 0 .. k - 1, NEW s \in Plain, LineAt(f, n, s) PROVE LineAt(g, n, s)
  <2>1. 4*n + 1 \in 1 .. 4*k /\ 4*n + 2 \in 1 .. 4*k /\ 4*n + 3 \in 1 .. 4*k /\ 4*n + 4 \in 1 .. 4*k
    OBVIOUS
  <2>2. QED
    BY <1>1, <1>3, <2>1 DEF LineAt
<1>4. Lines(g, k + 1)
  <2>1. ASSUME NEW n \in 0 .. k PROVE \E s \in Plain : LineAt(g, n, s)
    <3>1. CASE n = k
      BY <1>2, <3>1
    <3>2. CASE n \in 0 .. k - 1
      BY <1>3, <3>2 DEF Lines
    <3>3. QED
      BY <3>1, <3>2
  <2>2. QED
    BY <1>1, <2>1 DEF Lines
<1>5. ASSUME NEW i \in 1 .. k - m
      PROVE  ReadBack(g, 4 * (m + i - 1), now) = ReadBack(f, 4 * (m + i - 1), now)
  <2>1. m + i - 1 \in 0 .. k - 1 /\ m + i - 1 \in Nat
    OBVIOUS
  <2>2. PICK s \in Plain : LineAt(f, m + i - 1, s)
    BY <2>1 DEF Lines
  <2>3. LineAt(g, m + i - 1, s)
    BY <1>3, <2>1, <2>2
  <2>4. 4 * (m + i - 1) + 4 <= Len(f) /\ 4 * (m + i - 1) + 4 <= Len(g)
        /\ Len(f) \in Nat /\ Len(g) \in Nat
    BY <1>1, <2>1 DEF Lines
  <2>5. ReadBack(f, 4 * (m + i - 1), now) = s /\ ReadBack(g, 4 * (m + i - 1), now) = s
    BY <2>1, <2>2, <2>3, <2>4, ReadLine
  <2>6. QED
    BY <2>5
<1>6. ReadBack(g, 4 * (m + (k + 1 - m) - 1), now) = r
  <2> HIDE DEF g
  <2>1. 4 * (m + (k + 1 - m) - 1) = 4 * k
    OBVIOUS
  <2>2. 4 * k + 4 <= Len(g) /\ Len(g) \in Nat
    BY <1>1
  <2>3. ReadBack(g, 4 * k, now) = r
    BY <1>2, <2>2, ReadLine
  <2>4. QED
    BY <2>1, <2>3
<1>7. /\ u \in Seq(Plain) /\ Len(u) = k - m
      /\ v \in Seq(Plain) /\ Len(v) = k + 1 - m
  <2>1. m \in 0 .. k + 1
    OBVIOUS
  <2>2. QED
    BY <1>4, <2>1, UnreadType
<1>8. /\ \A i \in 1 .. k - m : u[i] = ReadBack(f, 4 * (m + i - 1), now)
      /\ \A i \in 1 .. k + 1 - m : v[i] = ReadBack(g, 4 * (m + i - 1), now)
  <2>1. u = [i \in 1 .. k - m |-> ReadBack(f, 4 * (m + i - 1), now)]
    BY UnreadLines DEF Lines
  <2>2. v = [i \in 1 .. k + 1 - m |-> ReadBack(g, 4 * (m + i - 1), now)]
    <3>1. PICK j \in Nat : j = k + 1
      OBVIOUS
    <3>2. Len(g) = 4 * j /\ m \in 0 .. j
      BY <1>1, <3>1
    <3> HIDE DEF g
    <3>3. v = [i \in 1 .. j - m |-> ReadBack(g, 4 * (m + i - 1), now)]
      BY <3>2, UnreadLines
    <3>4. QED
      BY <3>1, <3>3
  <2>3. QED
    BY <2>1, <2>2
<1> HIDE DEF g, u, v
<1>9. /\ Append(u, r) \in Seq(Plain) /\ Len(Append(u, r)) = k - m + 1
      /\ \A i \in 1 .. k - m : Append(u, r)[i] = u[i]
      /\ Append(u, r)[k - m + 1] = r
  BY <1>7, AppendProperties
<1>10. \A i \in 1 .. k + 1 - m : v[i] = Append(u, r)[i]
  <2>1. v[k + 1 - m] = r
    BY <1>6, <1>8
  <2>2. \A i \in 1 .. k - m : v[i] = u[i]
    BY <1>5, <1>8
  <2>3. QED
    BY <1>9, <2>1, <2>2
<1>11. v = Append(u, r)
  BY <1>7, <1>9, <1>10, SeqEqual
<1>12. QED
  BY <1>4, <1>11 DEF g, u, v

-----------------------------------------------------------------------------
(* The operators *)

USE PersistenceAssumption

\* A reading can stand where a row of the database can.
LEMMA ReadingIsRecord == Reading \subseteq Record
<1>1. Words \subseteq Token
  BY DEF Token
<1>2. Seq(Words) \subseteq Seq(Token)
  BY <1>1, SeqMonotonic
<1>3. Values \subseteq Seq(Token) /\ Canonics \subseteq Seq(Token) /\ Times \subseteq Int
  BY <1>2, CacheFileAssumption
<1>4. QED
  BY <1>3 DEF Reading, Record

\* Sizes of texts and readings are natural numbers.
LEMMA SizeType ==
  ASSUME NEW r \in Reading
  PROVE  ReadingSize(r) \in Nat
BY DEF Reading, ReadingSize, TextSize

\* The words of a line are words of the file.
LEMMA LineType ==
  ASSUME NEW r \in Reading
  PROVE  Line(r) \in Seq(Token)
<1>1. <<"date", r.time>> \in Token /\ <<"time", r.time>> \in Token
  BY DEF Reading, Token
<1>2. << <<"date", r.time>>, <<"time", r.time>> >> \in Seq(Token)
  BY <1>1
<1>3. r.canonic \in Seq(Token) /\ r.value \in Seq(Token)
  BY ReadingIsRecord DEF Record
<1>4. QED
  BY <1>2, <1>3, ConcatProperties DEF Line

\* What Transfert reads has the shape of a row, even from a damaged file.
LEMMA ReadBackType ==
  ASSUME NEW f \in Seq(Token), NEW p \in Nat, NEW now \in Times,
         p = 0 \/ p >= 4, p < Len(f)
  PROVE  ReadBack(f, p, now) \in Record
<1>1. ASSUME NEW k \in 1 .. 4 PROVE Extract(f, p, k) \in Token
  <2>1. CASE p + k <= Len(f)
    BY <2>1, ElementOfSeq DEF Extract
  <2>2. CASE p + k > Len(f) /\ p = 0
    BY <2>2 DEF Extract, Token
  <2>3. CASE p + k > Len(f) /\ p >= 4
    <3>1. p + k - 4 \in 1 .. Len(f)
      BY <2>3
    <3>2. QED
      BY <2>3, <3>1, ElementOfSeq DEF Extract
  <2>4. QED
    BY <2>1, <2>2, <2>3
<1>2. ToDate(Extract(f, p, 1), Extract(f, p, 2), now) \in Int
  BY DEF ToDate
<1>3. <<Extract(f, p, 3)>> \in Seq(Token) /\ <<Extract(f, p, 4)>> \in Seq(Token)
  BY <1>1
<1>4. QED
  BY <1>1, <1>2, <1>3 DEF ReadBack, Record

-----------------------------------------------------------------------------
(* Type correctness *)

(***************************************************************************)
(* TypeOK is not inductive: Configure reads the request as a setting, so   *)
(* there must be one; Extract reads the words of the previous round, so    *)
(* there must have been one.                                               *)
(***************************************************************************)
TypeInv ==
  /\ TypeOK
  /\ pc \in {"idle", "off", "segv"} => why = "add"
  /\ pc \in {"query", "configure", "exit"} => why = pc
  /\ why = "configure" => request \in Configs
  /\ at = 0 \/ at >= 4

LEMMA InitTypeInv == Init => TypeInv
BY DEF Init, TypeInv, TypeOK

LEMMA DieType ==
  ASSUME TypeInv, NEW how \in {"off", "segv"}, Die(how),
         received' \in Seq(Reading), offered' \in Seq(Record), seen' \in Seq(Record),
         loss' \in {"none", "possible"}
  PROVE  TypeInv'
BY DEF TypeInv, TypeOK, Die

LEMMA FileWriteType ==
  ASSUME TypeInv, NEW r \in Reading, FileWrite(r)
  PROVE  /\ stream' \in {"good", "bad"} /\ loss' \in {"none", "possible"} /\ file' \in Seq(Token)
         /\ fileSize' \in 0 .. Modulus - 1
<1>1. file \o Line(r) \in Seq(Token)
  BY LineType, ConcatProperties DEF TypeInv, TypeOK
<1>2. (fileSize + ReadingSize(r) + LineOverhead) % Modulus \in 0 .. Modulus - 1
  <2>1. fileSize \in Nat /\ ReadingSize(r) \in Nat /\ LineOverhead \in Nat /\ Modulus \in Nat \ {0}
    BY SizeType DEF TypeInv, TypeOK
  <2>2. fileSize + ReadingSize(r) + LineOverhead \in Nat
    BY <2>1
  <2>3. \A n \in Nat : n % Modulus \in 0 .. Modulus - 1
    BY <2>1
  <2>4. QED
    BY <2>2, <2>3
<1>3. stream' \in {"good", "bad"} /\ loss' \in {"none", "possible"}
  <2>1. stream \in {"good", "bad"} /\ loss \in {"none", "possible"}
    BY DEF TypeInv, TypeOK
  <2>2. stream' \in {"bad", stream} /\ loss' \in {"possible", loss}
    BY DEF FileWrite
  <2>3. QED
    BY <2>1, <2>2
<1>4. file' \in Seq(Token)
  <2>1. file \in Seq(Token)
    BY DEF TypeInv, TypeOK
  <2>2. file' \in {file, file \o Line(r)}
    BY DEF FileWrite
  <2>3. QED
    BY <1>1, <2>1, <2>2
<1>5. QED
  BY <1>2, <1>3, <1>4 DEF FileWrite

LEMMA FillType == TypeInv /\ Fill => TypeInv'
<1> SUFFICES ASSUME TypeInv, Fill PROVE TypeInv'
  OBVIOUS
<1>1. Head(mem) \in Reading /\ Tail(mem) \in Seq(Reading)
  BY HeadTailProperties DEF TypeInv, TypeOK, Fill
<1>2. /\ stream' \in {"good", "bad"} /\ loss' \in {"none", "possible"} /\ file' \in Seq(Token)
      /\ fileSize' \in 0 .. Modulus - 1
  BY <1>1, FileWriteType DEF Fill
<1>3. at' = at /\ fileMax' = fileMax
  BY DEF Fill, FileWrite
<1>4. QED
  BY <1>1, <1>2, <1>3 DEF TypeInv, TypeOK, Fill, control, wiring

LEMMA MemRazType ==
  ASSUME TypeInv, MemRaz
  PROVE  mem' \in Seq(Reading) /\ memSize' \in 0 .. Modulus - 1 /\ memMax' \in 0 .. Modulus - 1
<1>1. 0 \in 0 .. Modulus - 1
  OBVIOUS
<1>2. QED
  BY <1>1 DEF TypeInv, TypeOK, MemRaz

LEMMA FillEndType == TypeInv /\ FillEnd => TypeInv'
<1> SUFFICES ASSUME TypeInv, FillEnd PROVE TypeInv'
  OBVIOUS
<1>1. mem' \in Seq(Reading) /\ memSize' \in 0 .. Modulus - 1 /\ memMax' \in 0 .. Modulus - 1
  BY MemRazType DEF FillEnd
<1>2. QED
  BY <1>1 DEF TypeInv, TypeOK, FillEnd, wiring, fileVars, history

LEMMA DrainMemType == TypeInv /\ DrainMem => TypeInv'
<1> SUFFICES ASSUME TypeInv, DrainMem PROVE TypeInv'
  OBVIOUS
<1>1. Head(mem) \in Record /\ Tail(mem) \in Seq(Reading)
  BY HeadTailProperties, ReadingIsRecord DEF TypeInv, TypeOK, DrainMem
<1>2. CASE NullCall /\ UNCHANGED received
  BY <1>2, DieType DEF NullCall, TypeInv, TypeOK
<1>3. CASE offered' = Append(offered, Head(mem)) /\ ~NullCall
  <2>1. offered' \in Seq(Record)
    BY <1>1, <1>3, AppendProperties DEF TypeInv, TypeOK
  <2>2. QED
    BY <1>1, <1>3, <2>1 DEF TypeInv, TypeOK, DrainMem, control, wiring, fileVars
<1>4. QED
  BY <1>2, <1>3 DEF DrainMem

LEMMA DrainMemEndType == TypeInv /\ DrainMemEnd => TypeInv'
<1> SUFFICES ASSUME TypeInv, DrainMemEnd PROVE TypeInv'
  OBVIOUS
<1>1. mem' \in Seq(Reading) /\ memSize' \in 0 .. Modulus - 1 /\ memMax' \in 0 .. Modulus - 1
  BY MemRazType DEF DrainMemEnd
<1>2. /\ pc' \in {"idle", "query", "configure", "exit"}
      /\ pc' = "idle" => why = "add"
      /\ pc' \in {"query", "configure", "exit"} => why = pc'
  BY DEF TypeInv, TypeOK, DrainMemEnd, After
<1>3. QED
  BY <1>1, <1>2 DEF TypeInv, TypeOK, DrainMemEnd, wiring, fileVars, history

LEMMA DrainFileType == TypeInv /\ DrainFile => TypeInv'
<1> SUFFICES ASSUME TypeInv, DrainFile PROVE TypeInv'
  OBVIOUS
<1>1. ReadBack(file, at, clock) \in Record
  BY ReadBackType DEF TypeInv, TypeOK, DrainFile, Readable
<1>2. CASE NullCall /\ UNCHANGED received
  BY <1>2, DieType DEF NullCall, TypeInv, TypeOK
<1>3. CASE offered' = Append(offered, ReadBack(file, at, clock)) /\ ~NullCall
  <2>1. offered' \in Seq(Record)
    BY <1>1, <1>3, AppendProperties DEF TypeInv, TypeOK
  <2>2. at' \in Nat /\ at' >= 4
    BY <1>3 DEF TypeInv, TypeOK, DrainFile
  <2>3. QED
    BY <1>3, <2>1, <2>2 DEF TypeInv, TypeOK, DrainFile, control, wiring, memVars
<1>4. QED
  BY <1>2, <1>3 DEF DrainFile

LEMMA DrainFileEndType == TypeInv /\ DrainFileEnd => TypeInv'
<1> SUFFICES ASSUME TypeInv, DrainFileEnd PROVE TypeInv'
  OBVIOUS
<1>1. /\ file' \in Seq(Token) /\ at' = 0 /\ stream' = "good"
      /\ fileSize' \in 0 .. Modulus - 1 /\ fileMax' \in 0 .. Modulus - 1
  BY DEF DrainFileEnd, FileRaz, TypeInv, TypeOK
<1>2. pc' \in {"idle", "query", "configure", "exit"} /\ why' = why
      /\ (pc' = "idle" => why = "add") /\ (pc' # "idle" => pc' = why)
  BY DEF DrainFileEnd, After, TypeInv, TypeOK
<1>3. QED
  BY <1>1, <1>2 DEF TypeInv, TypeOK, DrainFileEnd, wiring, memVars, history

LEMMA PersistanceAddType ==
  ASSUME TypeInv, NEW canonic \in Canonics, NEW value \in Values,
         PersistanceAdd(canonic, value)
  PROVE  TypeInv'
<1> DEFINE r == [canonic |-> canonic, value |-> value, time |-> clock]
<1>1. r \in Reading /\ r \in Record
  BY ReadingIsRecord DEF Reading, TypeInv, TypeOK
<1>2. received' \in Seq(Reading)
  BY <1>1, AppendProperties DEF PersistanceAdd, TypeInv, TypeOK
<1>3. CASE AddToDriver(r)
  <2>1. CASE NullCall
    BY <1>2, <2>1, DieType DEF NullCall, TypeInv, TypeOK
  <2>2. CASE ~NullCall
    <3> HIDE DEF r
    <3>0. offered' = Append(offered, r)
      BY <1>3, <2>2 DEF AddToDriver
    <3>1. offered' \in Seq(Record)
      BY <1>1, <3>0, AppendProperties DEF TypeInv, TypeOK
    <3>2. UNCHANGED <<control, saved, wiring, memVars, fileVars, clock, seen, loss>>
      BY <1>3, <2>2, Zenon DEF AddToDriver
    <3>3. QED
      BY <1>2, <3>1, <3>2 DEF TypeInv, TypeOK, control, wiring, memVars, fileVars
  <2>3. QED
    BY <2>1, <2>2
<1>4. CASE AddToMemory(r)
  <2>1. mem' \in Seq(Reading)
    BY <1>1, <1>4, AppendProperties DEF AddToMemory, MemAdd, TypeInv, TypeOK
  <2>2. memSize' \in 0 .. Modulus - 1 /\ memMax' = memMax
    <3>1. memSize \in Nat /\ ReadingSize(r) \in Nat
      BY <1>1, SizeType DEF TypeInv, TypeOK
    <3>2. (memSize + ReadingSize(r) + SizeofTime) % Modulus \in 0 .. Modulus - 1
      BY <3>1
    <3>3. QED
      BY <1>4, <3>2 DEF AddToMemory, MemAdd
  <2>3. pc' \in {"idle", "drainMem", "fill"}
    BY <1>4 DEF AddToMemory, FlushFrom, TypeInv, TypeOK
  <2>4. why' = "add"
    BY <1>4 DEF AddToMemory, PersistanceAdd, TypeInv, TypeOK
  <2>5. QED
    BY <1>2, <1>4, <2>1, <2>2, <2>3, <2>4 DEF AddToMemory, TypeInv, TypeOK, wiring, fileVars
<1>5. CASE AddToFile(r)
  <2>1. pc' \in {"idle", "drainFile"} /\ why' = "add"
    BY <1>5 DEF AddToFile, FlushFrom, PersistanceAdd, TypeInv, TypeOK
  <2>2. at' = at /\ fileMax' = fileMax
    BY <1>5 DEF AddToFile, FileWrite
  <2>3. QED
    BY <1>1, <1>2, <1>5, <2>1, <2>2, FileWriteType
       DEF AddToFile, TypeInv, TypeOK, wiring, memVars
<1>6. QED
  BY <1>3, <1>4, <1>5 DEF PersistanceAdd

LEMMA StartFlushType ==
  ASSUME TypeInv, NEW reason \in {"query", "configure", "exit"}, StartFlush(reason),
         request' \in Configs \cup {NoConfig},
         reason = "configure" => request' \in Configs
  PROVE  TypeInv'
<1>1. pc' \in {"fill", "drainMem", "drainFile", reason} /\ why' = reason
  BY DEF StartFlush, FlushFrom, After, TypeInv, TypeOK
<1>2. QED
  BY <1>1 DEF StartFlush, TypeInv, TypeOK, wiring, memVars, fileVars, history

LEMMA AnswerType == TypeInv /\ Answer => TypeInv'
<1> SUFFICES ASSUME TypeInv, Answer PROVE TypeInv'
  OBVIOUS
<1>1. CASE NullCall /\ UNCHANGED received
  BY <1>1, DieType DEF NullCall, TypeInv, TypeOK
<1>2. CASE ~NullCall
  BY <1>2 DEF Answer, TypeInv, TypeOK, wiring, memVars, fileVars
<1>3. QED
  BY <1>1, <1>2 DEF Answer

LEMMA ConfigureType == TypeInv /\ Configure => TypeInv'
<1> SUFFICES ASSUME TypeInv, Configure PROVE TypeInv'
  OBVIOUS
<1>1. /\ request \in Configs
      /\ SizesRead(request.mem) \subseteq Int /\ SizesRead(request.file) \subseteq Int
  BY DEF TypeInv, TypeOK, Configure, SizesRead
<1>2. PICK size \in SizesRead(request.mem), most \in SizesRead(request.file) :
        CreateMemory(size) /\ CreateFile(size, most)
  BY DEF Configure
<1>3. size \in Int /\ size * Kilo \in Int /\ most * Kilo \in Int
  BY <1>1, <1>2
<1>4. mem' = <<>> /\ memSize' = 0 /\ memMax' \in 0 .. Modulus - 1
  BY <1>2, <1>3 DEF CreateMemory
<1>5. /\ l1' \in {"none", "memory", "file"} /\ l2' \in {"none", "file"}
      /\ l2' = "file" => l1' = "memory"
      /\ at' = 0 /\ stream' = "good" /\ fileSize' = 0
  BY <1>2 DEF CreateFile, NoFile, FileAt
<1>6. fileMax' \in 0 .. Modulus - 1 /\ file' \in Seq(Token)
  <2>1. (most * Kilo) % Modulus \in 0 .. Modulus - 1
    BY <1>3
  <2>2. fileMax' \in {0, (most * Kilo) % Modulus} /\ (file' = <<>> \/ file' = file)
    BY <1>2 DEF CreateFile, NoFile, FileAt
  <2>3. fileMax' \in 0 .. Modulus - 1
    <3>1. 0 \in 0 .. Modulus - 1
      OBVIOUS
    <3>2. QED
      BY <2>1, <2>2, <3>1
  <2>4. file' \in Seq(Token)
    <3>1. <<>> \in Seq(Token) /\ file \in Seq(Token)
      BY DEF TypeInv, TypeOK
    <3>2. QED
      BY <2>2, <3>1, Zenon
  <2>5. QED
    BY <2>3, <2>4
<1>7. driver' \in {"null", "open"} /\ saved' = request
      /\ pc' = "idle" /\ why' = "add" /\ request' = NoConfig
  BY DEF Configure, OpenDriver
<1>8. UNCHANGED <<clock, received, offered, seen, loss>>
  BY DEF Configure, history
<1>9. fileSize' \in 0 .. Modulus - 1 /\ memSize' \in 0 .. Modulus - 1 /\ mem' \in Seq(Reading)
  BY <1>4, <1>5
<1>10. at' \in Nat /\ (at' = 0 \/ at' >= 4)
  BY <1>5
<1>11. QED
  BY <1>1, <1>4, <1>5, <1>6, <1>7, <1>8, <1>9, <1>10 DEF TypeInv, TypeOK

LEMMA StartType == TypeInv /\ Start => TypeInv'
BY DEF TypeInv, TypeOK, Start, Running, wiring, memVars, fileVars, history

LEMMA TickType == TypeInv /\ Tick => TypeInv'
BY DEF TypeInv, TypeOK, Tick, control, wiring, memVars, fileVars, history

LEMMA DeathType ==
  TypeInv /\ (Crash \/ ConfigureThrows \/ Exit) => TypeInv'
BY DieType DEF TypeInv, TypeOK, Crash, ConfigureThrows, Exit, history

LEMMA NextTypeInv == TypeInv /\ [Next]_vars => TypeInv'
<1> SUFFICES ASSUME TypeInv, [Next]_vars PROVE TypeInv'
  OBVIOUS
<1>1. CASE Daemon
  BY <1>1, FillType, FillEndType, DrainMemType, DrainMemEndType, DrainFileType,
     DrainFileEndType, AnswerType, ConfigureType, DeathType DEF Daemon
<1>2. ASSUME NEW canonic \in Canonics, NEW value \in Values, PersistanceAdd(canonic, value)
      PROVE  TypeInv'
  BY <1>2, PersistanceAddType
<1>3. ASSUME NEW c \in Configs, Reconfigure(c) PROVE TypeInv'
  BY <1>3, StartFlushType DEF Reconfigure
<1>4. CASE Query \/ Stop
  BY <1>4, StartFlushType DEF Query, Stop, TypeInv, TypeOK
<1>5. CASE Crash \/ Start \/ Tick
  BY <1>5, DeathType, StartType, TickType
<1>6. CASE UNCHANGED vars
  BY <1>6 DEF vars, control, wiring, memVars, fileVars, history, TypeInv, TypeOK
<1>7. QED
  BY <1>1, <1>2, <1>3, <1>4, <1>5, <1>6 DEF Next

(***************************************************************************)
(* The variables hold what TypeOK says in every state of every behaviour.  *)
(***************************************************************************)
THEOREM TypeInvariant == Spec => []TypeInv
BY InitTypeInv, NextTypeInv, PTL DEF Spec

THEOREM TypeCorrect == Spec => []TypeOK
<1>1. TypeInv => TypeOK
  BY DEF TypeInv
<1>2. QED
  BY <1>1, TypeInvariant, PTL

-----------------------------------------------------------------------------
(* Calls *)

\* What a transfer has to do is a natural number, more than 0 before a round of it.
LEMMA ToDoIsNat ==
  ASSUME TypeOK
  PROVE  /\ ToDo \in Nat /\ Phase \in 0 .. 3
         /\ mem # <<>> => Len(mem) \in Nat /\ Len(Tail(mem)) = Len(mem) - 1
<1>1. Len(mem) \in Nat /\ Len(file) \in Nat /\ at \in Nat
  BY DEF TypeOK
<1>2. mem # <<>> => Len(Tail(mem)) = Len(mem) - 1
  BY DEF TypeOK
<1>3. pc = "drainFile" /\ Readable => Len(file) - at \in Nat
  BY <1>1 DEF Readable
<1>4. ToDo \in Nat
  BY <1>1, <1>3 DEF ToDo
<1> QED BY <1>1, <1>2, <1>4 DEF Phase

(***************************************************************************)
(* Every step of a running call brings it nearer to its end: it moves on   *)
(* to a later phase, or leaves the transfer it is in less to do.           *)
(***************************************************************************)
LEMMA AdvanceStep ==
  ASSUME TypeInv, [Next]_vars, vars' # vars, Phase # 0
  PROVE  Advances
<1> USE DEF TypeInv, Advances
<1>1. pc \in {"fill", "drainMem", "drainFile", "query", "configure", "exit"}
  BY DEF Phase
<1>2. CASE Fill
  <2>1. /\ pc = "fill" /\ pc' = pc /\ mem # <<>> /\ mem' = Tail(mem)
    BY <1>2 DEF Fill, control
  <2>2. Phase' = Phase /\ ToDo' = Len(Tail(mem)) /\ ToDo = Len(mem)
    BY <2>1 DEF Phase, ToDo
  <2>3. Len(mem) \in Nat /\ Len(Tail(mem)) = Len(mem) - 1
    BY <2>1, ToDoIsNat
  <2> QED BY <2>2, <2>3
<1>3. CASE FillEnd
  BY <1>3 DEF FillEnd, Phase
<1>4. CASE DrainMem
  <2>1. CASE NullCall
    BY <1>4, <2>1 DEF DrainMem, NullCall, Die, Phase
  <2>2. CASE ~NullCall
    <3>1. /\ pc = "drainMem" /\ pc' = pc /\ mem # <<>> /\ mem' = Tail(mem)
      BY <1>4, <2>2 DEF DrainMem, control
    <3>2. Phase' = Phase /\ ToDo' = Len(Tail(mem)) /\ ToDo = Len(mem)
      BY <3>1 DEF Phase, ToDo
    <3>3. Len(mem) \in Nat /\ Len(Tail(mem)) = Len(mem) - 1
      BY <3>1, ToDoIsNat
    <3> QED BY <3>2, <3>3
  <2> QED BY <2>1, <2>2
<1>5. CASE DrainMemEnd
  BY <1>5 DEF DrainMemEnd, After, TypeOK, Phase
<1>6. CASE DrainFile
  <2>1. CASE NullCall
    BY <1>6, <2>1 DEF DrainFile, NullCall, Die, Phase
  <2>2. CASE ~NullCall
    <3>1. /\ pc = "drainFile" /\ pc' = pc /\ Readable /\ at' = at + 4
          /\ UNCHANGED <<file, stream>>
      BY <1>6, <2>2 DEF DrainFile, control
    <3>2. Len(file) \in Nat /\ at \in Nat /\ at < Len(file)
      BY <3>1 DEF TypeOK, Readable
    <3>3. /\ Phase' = Phase /\ ToDo = Len(file) - at
          /\ ToDo' = IF Readable' THEN Len(file) - (at + 4) ELSE 0
      BY <3>1 DEF Phase, ToDo
    <3>4. ToDo' < ToDo
      BY <3>2, <3>3
    <3> QED BY <3>3, <3>4
  <2> QED BY <2>1, <2>2
<1>7. CASE DrainFileEnd
  BY <1>7 DEF DrainFileEnd, After, TypeOK, Phase
<1>8. CASE Answer
  BY <1>8 DEF Answer, NullCall, Die, Phase
<1>9. CASE Configure
  BY <1>9 DEF Configure, Phase
<1>10. CASE ConfigureThrows \/ Exit \/ Crash
  BY <1>1, <1>10 DEF ConfigureThrows, Exit, Crash, Die, Phase
<1>11. CASE Tick
  <2>1. clock' = clock + 1 /\ clock \in Nat
    BY <1>11 DEF Tick, TypeOK
  <2>2. UNCHANGED <<Phase, ToDo>>
    BY <1>11 DEF Tick, Phase, ToDo, Readable, control, memVars, fileVars
  <2> QED BY <2>1, <2>2
<1>12. ASSUME NEW reason, StartFlush(reason) PROVE FALSE
  BY <1>1, <1>12 DEF StartFlush
<1>13. ~Start /\ \A canonic, value : ~PersistanceAdd(canonic, value)
  BY <1>1 DEF Start, Running, PersistanceAdd
<1> QED BY <1>2, <1>3, <1>4, <1>5, <1>6, <1>7, <1>8, <1>9, <1>10, <1>11, <1>12, <1>13
        DEF Next, Daemon, Reconfigure, Query, Stop

(***************************************************************************)
(* No call can go on for ever taking steps: each step of the daemon lowers *)
(* the pair of its phase and what is left to do in it, two natural         *)
(* numbers, whatever the caches hold and the disk and the driver do.       *)
(***************************************************************************)
THEOREM StepsAdvanceCalls == Spec => CallsAdvance
<1>1. ASSUME TypeInv, [Next]_vars
      PROVE  [Phase # 0 => Advances]_vars
  BY <1>1, AdvanceStep
<1> QED BY <1>1, TypeInvariant, PTL DEF Spec, CallsAdvance

-----------------------------------------------------------------------------
(***************************************************************************)
(* No reading is lost, duplicated, reordered or altered on its way through *)
(* the caches: Conservation and QuerySeesEverything are invariants, and    *)
(* Persistence implements RecordLog, for readings the cache file can carry *)
(* (values of one word, dates that are read as they were printed).         *)
(***************************************************************************)

\* The readings the cache file carries unaltered.
Carried == DstShift = 0 /\ \A text \in Canonics \cup Values : Len(text) = 1

-----------------------------------------------------------------------------
(* The inductive invariant *)

\* Which containers may hold readings, by what is running.
Place ==
  /\ l1 # "memory" => mem = <<>>
  /\ pc \notin {"idle", "fill", "drainMem"} => mem = <<>>
  /\ pc \in {"query", "configure", "exit"} => ~FileInUse \/ file = <<>>
  /\ pc = "drainMem" => l1 = "memory" /\ l2 = "none"
  /\ pc = "fill" => l2 = "file"
  /\ pc = "drainFile" => FileInUse
  /\ pc # "drainFile" => at = 0
  /\ stream = "bad" => loss = "possible"
  /\ pc \in {"off", "segv"} => l1 = "none"

\* The file is made of whole lines, and whole lines have been read.
FileOfLines == \E k \in Nat : \E m \in 0 .. k : Lines(file, k) /\ at = 4 * m

Inv == TypeInv /\ Place /\ FileOfLines

-----------------------------------------------------------------------------
(* Sequences *)

LEMMA AppendBehind ==
  ASSUME NEW S, NEW s \in Seq(S), NEW t \in Seq(S), NEW e \in S
  PROVE  s \o Append(t, e) = Append(s \o t, e)
<1>1. s \o t \in Seq(S) /\ <<e>> \in Seq(S)
  BY ConcatProperties
<1>2. Append(t, e) = t \o <<e>> /\ Append(s \o t, e) = (s \o t) \o <<e>>
  BY <1>1, AppendIsConcat
<1>3. QED
  BY <1>1, <1>2, ConcatAssociative

LEMMA MoveHead ==
  ASSUME NEW S, NEW s \in Seq(S), NEW t \in Seq(S), t # <<>>
  PROVE  Append(s, Head(t)) \o Tail(t) = s \o t
<1>1. Head(t) \in S /\ Tail(t) \in Seq(S) /\ <<Head(t)>> \in Seq(S)
  BY HeadTailProperties
<1>2. <<Head(t)>> \o Tail(t) = t
  <2>1. Len(Tail(t)) = Len(t) - 1 /\ \A i \in 1 .. Len(Tail(t)) : Tail(t)[i] = t[i + 1]
        /\ Len(t) \in Nat \ {0}
    BY HeadTailProperties, EmptySeq
  <2>2. /\ <<Head(t)>> \o Tail(t) \in Seq(S) /\ Len(<<Head(t)>> \o Tail(t)) = Len(t)
        /\ \A i \in 1 .. Len(t) : (<<Head(t)>> \o Tail(t))[i] =
              IF i <= 1 THEN <<Head(t)>>[i] ELSE Tail(t)[i - 1]
    <3>1. Len(<<Head(t)>>) = 1
      OBVIOUS
    <3>2. 1 + Len(Tail(t)) = Len(t)
      BY <2>1
    <3>3. QED
      BY <1>1, <3>1, <3>2, ConcatProperties
  <2>3. \A i \in 1 .. Len(t) : (<<Head(t)>> \o Tail(t))[i] = t[i]
    BY <2>1, <2>2
  <2>4. QED
    BY <2>2, <2>3, SeqEqual
<1>3. Append(s, Head(t)) = s \o <<Head(t)>>
  BY <1>1, AppendIsConcat
<1>4. (s \o <<Head(t)>>) \o Tail(t) = s \o (<<Head(t)>> \o Tail(t))
  BY <1>1, ConcatAssociative
<1>5. QED
  BY <1>2, <1>3, <1>4

-----------------------------------------------------------------------------
(* What waits *)

LEMMA CarriedReadings == Carried => Reading \subseteq Plain
<1> SUFFICES ASSUME Carried PROVE Reading \subseteq Plain
  OBVIOUS
<1>1. ASSUME NEW v \in Canonics \cup Values PROVE v \in {<<w>> : w \in Words}
  <2>1. v \in Seq(Words) /\ Len(v) = 1
    BY CacheFileAssumption DEF Carried
  <2>2. v[1] \in Words
    <3>1. 1 \in 1 .. Len(v)
      BY <2>1
    <3>2. QED
      BY <2>1, <3>1, ElementOfSeq, Zenon
  <2>3. <<v[1]>> \in Seq(Words) /\ Len(<<v[1]>>) = 1 /\ <<v[1]>>[1] = v[1]
    BY <2>2
  <2>4. v = <<v[1]>>
    BY <2>1, <2>3, SeqEqual
  <2>5. QED
    BY <2>2, <2>4
<1>2. QED
  BY <1>1 DEF Reading, Plain

LEMMA PlainIsRecord == Plain \subseteq Record
<1> SUFFICES ASSUME NEW r \in Plain PROVE r \in Record
  OBVIOUS
<1>1. PICK name \in Words, w \in Words : r.canonic = <<name>> /\ r.value = <<w>>
  BY DEF Plain
<1>2. w \in Token /\ name \in Token
  BY DEF Token
<1>3. <<name>> \in Seq(Token) /\ <<w>> \in Seq(Token) /\ r.time \in Int
  <2>1. r.time \in Times
    BY DEF Plain
  <2>2. r.time \in Int
    <3>1. Times \subseteq Int
      BY CacheFileAssumption
    <3>2. QED
      BY <2>1, <3>1, Zenon
  <2>3. <<name>> \in Seq(Token) /\ <<w>> \in Seq(Token)
    BY <1>2
  <2>4. QED
    BY <2>2, <2>3
<1>4. r = [canonic |-> r.canonic, value |-> r.value, time |-> r.time]
  BY DEF Plain
<1>5. QED
  BY <1>1, <1>2, <1>3, <1>4 DEF Record

LEMMA PendingType ==
  ASSUME Carried, Inv
  PROVE  InFile \in Seq(Record) /\ mem \in Seq(Record) /\ Pending \in Seq(Record)
<1>1. PICK k \in Nat : \E m \in 0 .. k : Lines(file, k) /\ at = 4 * m
  BY DEF Inv, FileOfLines
<1>2. PICK m \in 0 .. k : Lines(file, k) /\ at = 4 * m
  BY <1>1
<1>3. Unread(file, at, clock) \in Seq(Plain)
  BY <1>2, UnreadType DEF Carried
<1>4. InFile \in Seq(Plain)
  BY <1>3 DEF InFile
<1>5. InFile \in Seq(Record)
  BY <1>4, PlainIsRecord, SeqMonotonic
<1>6. mem \in Seq(Record)
  BY ReadingIsRecord, SeqMonotonic DEF Inv, TypeInv, TypeOK
<1>7. QED
  BY <1>5, <1>6, ConcatProperties DEF Pending

\* An emptied file holds nothing.
LEMMA UnreadEmpty ==
  ASSUME Carried, NEW now
  PROVE  Unread(<<>>, 0, now) = <<>>
<1>1. PICK k \in Nat : k = 0
  OBVIOUS
<1>2. PICK m \in 0 .. k : m = 0
  BY <1>1
<1>3. Lines(<<>>, k)
  BY <1>1 DEF Lines
<1>4. Unread(<<>>, 4 * m, now) \in Seq(Plain) /\ Len(Unread(<<>>, 4 * m, now)) = k - m
  BY <1>3, UnreadType DEF Carried
<1>5. 4 * m = 0 /\ k - m = 0
  BY <1>1, <1>2
<1>6. QED
  BY <1>4, <1>5, EmptySeq

-----------------------------------------------------------------------------
(* The file stays made of lines *)

LEMMA InitInv == Carried /\ Init => Inv
<1> SUFFICES ASSUME Carried, Init PROVE Inv
  OBVIOUS
<1>1. Place
  BY DEF Init, Place, FileInUse
<1>2. Lines(file, 0)
  BY DEF Init, Lines
<1>3. FileOfLines
  <2>1. PICK k \in Nat : k = 0
    OBVIOUS
  <2>2. PICK m \in 0 .. k : m = 0
    BY <2>1
  <2>3. Lines(file, k) /\ at = 4 * m
    BY <1>2, <2>1, <2>2 DEF Init
  <2>4. QED
    BY <2>3 DEF FileOfLines
<1>4. QED
  BY <1>1, <1>3, InitTypeInv DEF Inv

\* Reading starts again, or the file is left alone.
LEMMA SameFile ==
  ASSUME FileOfLines, file' = file, at' = at \/ at' = 0
  PROVE  FileOfLines'
<1>1. PICK k \in Nat : \E m \in 0 .. k : Lines(file, k) /\ at = 4 * m
  BY DEF FileOfLines
<1>2. PICK m \in 0 .. k : Lines(file, k) /\ at = 4 * m
  BY <1>1
<1>3. Lines(file', k)
  BY <1>2
<1>4. CASE at' = at
  BY <1>2, <1>3, <1>4 DEF FileOfLines
<1>5. CASE at' = 0
  <2>1. PICK z \in 0 .. k : z = 0
    OBVIOUS
  <2>2. at' = 4 * z
    BY <1>5, <2>1
  <2>3. QED
    BY <1>3, <2>2 DEF FileOfLines
<1>6. QED
  BY <1>4, <1>5

LEMMA NewFile ==
  ASSUME file' = <<>>, at' = 0
  PROVE  FileOfLines'
<1>1. PICK k \in Nat : k = 0
  OBVIOUS
<1>2. PICK m \in 0 .. k : m = 0
  BY <1>1
<1>3. Lines(file', k)
  BY <1>1 DEF Lines
<1>4. at' = 4 * m
  BY <1>2
<1>5. QED
  BY <1>3, <1>4 DEF FileOfLines

\* One round of Transfert leaves the position at the start of a line, and
\* hands over the oldest reading of the file.
LEMMA NextLine ==
  ASSUME Carried, FileOfLines, file' = file, at' = at + 4, at < Len(file)
  PROVE  /\ FileOfLines'
         /\ Unread(file, at, clock) # <<>>
         /\ Head(Unread(file, at, clock)) = ReadBack(file, at, clock)
         /\ Tail(Unread(file, at, clock)) = Unread(file, at', clock)
<1>1. PICK k \in Nat : \E m \in 0 .. k : Lines(file, k) /\ at = 4 * m
  BY DEF FileOfLines
<1>2. PICK m \in 0 .. k : Lines(file, k) /\ at = 4 * m
  BY <1>1
<1>3. m \in Nat /\ m < k
  BY <1>2 DEF Lines
<1>4. PICK n \in 0 .. k : n = m + 1
  BY <1>3
<1>5. at' = 4 * n
  BY <1>2, <1>4
<1>6. Lines(file', k)
  BY <1>2
<1>7. FileOfLines'
  BY <1>5, <1>6 DEF FileOfLines
<1>8. DstShift = 0 /\ at' = 4 * m + 4
  BY <1>2 DEF Carried
<1>9. /\ Unread(file, 4 * m, clock) # <<>>
      /\ Head(Unread(file, 4 * m, clock)) = ReadBack(file, 4 * m, clock)
      /\ Tail(Unread(file, 4 * m, clock)) = Unread(file, 4 * m + 4, clock)
  BY ONLY <1>2, <1>3, <1>8, UnreadAdvance, Zenon
<1>10. QED
  BY <1>2, <1>7, <1>8, <1>9

\* Writing a reading keeps the lines, and puts the reading behind the others
\* unless the stream has failed.
LEMMA FileWriteLines ==
  ASSUME Carried, Inv, NEW r \in Reading, FileWrite(r)
  PROVE  /\ FileOfLines'
         /\ stream' = "good" =>
              /\ stream = "good" /\ loss' = loss
              /\ Unread(file', at', clock) = Append(Unread(file, at, clock), r)
         /\ stream' = "bad" => loss' = "possible" /\ file' = file
<1>1. PICK k \in Nat : \E m \in 0 .. k : Lines(file, k) /\ at = 4 * m
  BY DEF Inv, FileOfLines
<1>2. PICK m \in 0 .. k : Lines(file, k) /\ at = 4 * m
  BY <1>1
<1>3. r \in Plain /\ DstShift = 0
  BY CarriedReadings DEF Carried
<1>4. file \in Seq(Token) /\ stream \in {"good", "bad"}
  BY DEF Inv, TypeInv, TypeOK
<1>5. /\ Lines(file \o Line(r), k + 1)
      /\ Unread(file \o Line(r), 4 * m, clock) = Append(Unread(file, 4 * m, clock), r)
  BY ONLY <1>2, <1>3, <1>4, UnreadWrite, Zenon
<1>6. at' = at /\ stream' \in {"bad", stream}
      /\ loss' = (IF stream' = "bad" THEN "possible" ELSE loss)
      /\ file' = (IF stream' = "bad" THEN file ELSE file \o Line(r))
  BY DEF FileWrite
<1>7. CASE stream' = "bad"
  <2>1. file' = file /\ at' = at /\ FileOfLines
    BY <1>6, <1>7 DEF Inv
  <2>2. FileOfLines'
    BY <2>1, SameFile
  <2>3. QED
    BY <1>6, <1>7, <2>2
<1>8. CASE stream' # "bad"
  <2>1. stream = "good" /\ stream' = "good" /\ loss' = loss /\ file' = file \o Line(r)
    BY <1>4, <1>6, <1>8
  <2>2. PICK j \in Nat : j = k + 1
    OBVIOUS
  <2>3. m \in 0 .. j /\ Lines(file', j)
    BY <1>5, <2>1, <2>2
  <2>4. at' = 4 * m
    BY <1>2, <1>6
  <2>5. FileOfLines'
    BY <2>3, <2>4 DEF FileOfLines
  <2>6. QED
    BY <1>2, <1>5, <1>6, <2>1, <2>5
<1>9. QED
  BY <1>7, <1>8

-----------------------------------------------------------------------------
(* The invariant is kept *)

LEMMA DieInv ==
  ASSUME Inv, NEW how \in {"off", "segv"}, Die(how)
  PROVE  Place' /\ FileOfLines'
<1>1. Place'
  BY DEF Die, Place, FileInUse
<1>2. FileOfLines'
  BY SameFile DEF Die, Inv
<1>3. QED
  BY <1>1, <1>2

LEMMA FillInv == Carried /\ Inv /\ Fill => Place' /\ FileOfLines'
<1> SUFFICES ASSUME Carried, Inv, Fill PROVE Place' /\ FileOfLines'
  OBVIOUS
<1>1. Head(mem) \in Reading
  BY HeadTailProperties DEF Inv, TypeInv, TypeOK, Fill
<1>2. FileOfLines' /\ (stream' = "bad" => loss' = "possible")
  BY <1>1, FileWriteLines DEF Fill
<1>3. at' = at /\ pc' = pc /\ l1' = l1 /\ l2' = l2
  BY DEF Fill, FileWrite, control, wiring
<1>4. Place'
  BY <1>2, <1>3 DEF Fill, Inv, TypeInv, TypeOK, Place
<1>5. QED
  BY <1>2, <1>4

LEMMA FillEndInv == Inv /\ FillEnd => Place' /\ FileOfLines'
<1> SUFFICES ASSUME Inv, FillEnd PROVE Place' /\ FileOfLines'
  OBVIOUS
<1>1. Place'
  BY DEF FillEnd, MemRaz, Inv, TypeInv, TypeOK, Place, FileInUse, wiring, fileVars, history
<1>2. FileOfLines'
  BY SameFile DEF FillEnd, Inv, fileVars
<1>3. QED
  BY <1>1, <1>2

LEMMA DrainMemInv == Inv /\ DrainMem => Place' /\ FileOfLines'
<1> SUFFICES ASSUME Inv, DrainMem PROVE Place' /\ FileOfLines'
  OBVIOUS
<1>1. CASE NullCall
  BY <1>1, DieInv DEF NullCall
<1>2. CASE ~NullCall
  <2>1. Place'
    BY <1>2 DEF DrainMem, Inv, TypeInv, TypeOK, Place, control, wiring, fileVars
  <2>2. FileOfLines'
    BY <1>2, SameFile DEF DrainMem, Inv, fileVars
  <2>3. QED
    BY <2>1, <2>2
<1>3. QED
  BY <1>1, <1>2

LEMMA DrainMemEndInv == Inv /\ DrainMemEnd => Place' /\ FileOfLines'
<1> SUFFICES ASSUME Inv, DrainMemEnd PROVE Place' /\ FileOfLines'
  OBVIOUS
<1>1. Place'
  BY DEF DrainMemEnd, MemRaz, After, Inv, TypeInv, TypeOK, Place, FileInUse,
         wiring, fileVars, history
<1>2. FileOfLines'
  BY SameFile DEF DrainMemEnd, Inv, fileVars
<1>3. QED
  BY <1>1, <1>2

LEMMA DrainFileInv == Carried /\ Inv /\ DrainFile => Place' /\ FileOfLines'
<1> SUFFICES ASSUME Carried, Inv, DrainFile PROVE Place' /\ FileOfLines'
  OBVIOUS
<1>1. CASE NullCall
  BY <1>1, DieInv DEF NullCall
<1>2. CASE ~NullCall
  <2>1. Place'
    BY <1>2 DEF DrainFile, Inv, TypeInv, TypeOK, Place, FileInUse, control, wiring, memVars
  <2>2. FileOfLines'
    BY <1>2, NextLine DEF DrainFile, Readable, Inv
  <2>3. QED
    BY <2>1, <2>2
<1>3. QED
  BY <1>1, <1>2

LEMMA DrainFileEndInv == Inv /\ DrainFileEnd => Place' /\ FileOfLines'
<1> SUFFICES ASSUME Inv, DrainFileEnd PROVE Place' /\ FileOfLines'
  OBVIOUS
<1>1. /\ pc' \in {"idle", "query", "configure", "exit"}
      /\ mem' = mem /\ l1' = l1 /\ mem = <<>> /\ l1 # "none"
      /\ file' = <<>> /\ at' = 0 /\ stream' = "good"
  BY DEF DrainFileEnd, FileRaz, After, Inv, TypeInv, TypeOK, Place, FileInUse, wiring, memVars
<1>2. Place'
  BY <1>1 DEF Place
<1>3. FileOfLines'
  BY <1>1, NewFile
<1>4. QED
  BY <1>2, <1>3

LEMMA PersistanceAddInv ==
  ASSUME Carried, Inv, NEW canonic \in Canonics, NEW value \in Values,
         PersistanceAdd(canonic, value)
  PROVE  Place' /\ FileOfLines'
<1> DEFINE r == [canonic |-> canonic, value |-> value, time |-> clock]
<1>1. r \in Reading
  BY DEF Reading, Inv, TypeInv, TypeOK
<1>2. CASE AddToDriver(r)
  <2>1. CASE NullCall
    BY <2>1, DieInv DEF NullCall
  <2>2. CASE ~NullCall
    <3>1. UNCHANGED <<control, saved, wiring, memVars, fileVars, clock, seen, loss>>
      BY <1>2, <2>2, Zenon DEF AddToDriver
    <3>2. Place'
      BY <3>1 DEF Inv, Place, FileInUse, control, wiring, memVars, fileVars
    <3>3. FileOfLines'
      BY <3>1, SameFile DEF Inv, fileVars
    <3>4. QED
      BY <3>2, <3>3
  <2>3. QED
    BY <2>1, <2>2
<1>3. CASE AddToMemory(r)
  <2>1. Place'
    BY <1>3 DEF PersistanceAdd, AddToMemory, FlushFrom, Inv, TypeInv, TypeOK, Place, FileInUse,
                wiring, fileVars
  <2>2. FileOfLines'
    BY <1>3, SameFile DEF AddToMemory, Inv, fileVars
  <2>3. QED
    BY <2>1, <2>2
<1>4. CASE AddToFile(r)
  <2> HIDE DEF r
  <2>1. FileOfLines' /\ (stream' = "bad" => loss' = "possible")
    BY <1>1, <1>4, FileWriteLines DEF AddToFile
  <2>2. at' = at
    BY <1>4 DEF AddToFile, FileWrite
  <2>3. Place'
    BY <1>4, <2>1, <2>2
       DEF PersistanceAdd, AddToFile, FlushFrom, Inv, TypeInv, TypeOK, Place, FileInUse,
           wiring, memVars
  <2>4. QED
    BY <2>1, <2>3
<1>5. QED
  BY <1>2, <1>3, <1>4 DEF PersistanceAdd

LEMMA StartFlushInv ==
  ASSUME Inv, NEW reason \in {"query", "configure", "exit"}, StartFlush(reason)
  PROVE  Place' /\ FileOfLines'
<1>1. Place'
  BY DEF StartFlush, FlushFrom, After, Inv, TypeInv, TypeOK, Place, FileInUse,
         wiring, memVars, fileVars, history
<1>2. FileOfLines'
  BY SameFile DEF StartFlush, Inv, fileVars
<1>3. QED
  BY <1>1, <1>2

LEMMA AnswerInv == Inv /\ Answer => Place' /\ FileOfLines'
<1> SUFFICES ASSUME Inv, Answer PROVE Place' /\ FileOfLines'
  OBVIOUS
<1>1. CASE NullCall
  BY <1>1, DieInv DEF NullCall
<1>2. CASE ~NullCall
  <2>1. Place'
    BY <1>2 DEF Answer, Inv, TypeInv, TypeOK, Place, FileInUse, wiring, memVars, fileVars
  <2>2. FileOfLines'
    BY <1>2, SameFile DEF Answer, Inv, fileVars
  <2>3. QED
    BY <2>1, <2>2
<1>3. QED
  BY <1>1, <1>2

LEMMA ConfigureInv == Inv /\ Configure => Place' /\ FileOfLines'
<1> SUFFICES ASSUME Inv, Configure PROVE Place' /\ FileOfLines'
  OBVIOUS
<1>1. PICK size \in SizesRead(request.mem), most \in SizesRead(request.file) :
        CreateMemory(size) /\ CreateFile(size, most)
  BY DEF Configure
<1>2. pc' = "idle" /\ mem' = <<>> /\ at' = 0 /\ stream' = "good" /\ file' \in {<<>>, file}
  BY <1>1 DEF Configure, CreateMemory, CreateFile, NoFile, FileAt
<1>3. Place'
  BY <1>2 DEF Place
<1>4. FileOfLines'
  BY <1>2, SameFile, NewFile DEF Inv
<1>5. QED
  BY <1>3, <1>4

LEMMA StartInv == Inv /\ Start => Place' /\ FileOfLines'
<1> SUFFICES ASSUME Inv, Start PROVE Place' /\ FileOfLines'
  OBVIOUS
<1>1. Place'
  BY DEF Start, Running, Inv, TypeInv, TypeOK, Place, FileInUse, wiring, memVars, fileVars, history
<1>2. FileOfLines'
  BY SameFile DEF Start, Inv, fileVars
<1>3. QED
  BY <1>1, <1>2

LEMMA TickInv == Inv /\ (Tick \/ UNCHANGED vars) => Place' /\ FileOfLines'
<1> SUFFICES ASSUME Inv, Tick \/ UNCHANGED vars PROVE Place' /\ FileOfLines'
  OBVIOUS
<1>1. UNCHANGED <<control, wiring, memVars, fileVars, history>>
  BY DEF Tick, vars
<1>2. Place'
  BY <1>1 DEF Inv, Place, FileInUse, control, wiring, memVars, fileVars, history
<1>3. FileOfLines'
  BY <1>1, SameFile DEF Inv, fileVars
<1>4. QED
  BY <1>2, <1>3

LEMMA NextInv == Carried /\ Inv /\ [Next]_vars => Inv'
<1> SUFFICES ASSUME Carried, Inv, [Next]_vars PROVE Inv'
  OBVIOUS
<1>1. CASE Daemon
  BY <1>1, FillInv, FillEndInv, DrainMemInv, DrainMemEndInv, DrainFileInv, DrainFileEndInv,
     AnswerInv, ConfigureInv, DieInv, NextTypeInv DEF Daemon, ConfigureThrows, Exit, Inv
<1>2. ASSUME NEW canonic \in Canonics, NEW value \in Values, PersistanceAdd(canonic, value)
      PROVE  Inv'
  BY <1>2, PersistanceAddInv, NextTypeInv DEF Inv
<1>3. ASSUME NEW c \in Configs, Reconfigure(c) PROVE Inv'
  BY <1>3, StartFlushInv, NextTypeInv DEF Reconfigure, Inv
<1>4. CASE Query \/ Stop
  BY <1>4, StartFlushInv, NextTypeInv DEF Query, Stop, Inv
<1>5. CASE Crash \/ Start
  BY <1>5, DieInv, StartInv, NextTypeInv DEF Crash, Inv
<1>6. CASE Tick \/ UNCHANGED vars
  BY <1>6, TickInv, NextTypeInv DEF Inv
<1>7. QED
  BY <1>1, <1>2, <1>3, <1>4, <1>5, <1>6 DEF Next

-----------------------------------------------------------------------------
(* What a step does to the readings that wait, and to the history *)

\* Nothing moves.
Keeps == UNCHANGED <<Pending, offered, seen, received>>

\* The oldest waiting reading goes to the driver.
Moves == Log!Offer /\ UNCHANGED received

Accepts(r) == Log!Accept(r) /\ received' = Append(received, r)

Writes(r) == Log!WriteThrough(r) /\ received' = Append(received, r)

Answers == Log!Answer /\ UNCHANGED received

Loses == \E n \in 0 .. Len(Pending) : Log!Lose(n) /\ loss' = "possible"

Effect ==
  \/ Keeps \/ Moves \/ Answers \/ Loses
  \/ \E r \in Reading : Accepts(r) \/ Writes(r)

\* What the file holds does not depend on the clock.
LEMMA SameInFile ==
  ASSUME Carried, Inv, UNCHANGED <<l1, l2, file, at, stream>>
  PROVE  InFile' = InFile
<1>1. PICK k \in Nat : \E m \in 0 .. k : Lines(file, k) /\ at = 4 * m
  BY DEF Inv, FileOfLines
<1>2. PICK m \in 0 .. k : Lines(file, k) /\ at = 4 * m
  BY <1>1
<1>3. DstShift = 0
  BY DEF Carried
<1>4. \A now : Unread(file, 4 * m, now) = Unread(file, 4 * m, clock)
  BY ONLY <1>2, <1>3, UnreadType, Zenon
<1>5. Unread(file, at, clock') = Unread(file, at, clock)
  BY <1>2, <1>4
<1>6. QED
  BY <1>5 DEF InFile, FileInUse

\* When a flush is over nothing waits.
LEMMA NothingWaits ==
  ASSUME Carried, Inv, pc \in {"query", "configure", "exit"} \/ l1 = "none"
  PROVE  Pending = <<>>
<1>1. mem = <<>> /\ (~FileInUse \/ (file = <<>> /\ at = 0))
  BY DEF Inv, TypeInv, TypeOK, Place, FileInUse
<1>2. InFile = <<>>
  BY <1>1, UnreadEmpty DEF InFile
<1>3. QED
  BY <1>1, <1>2 DEF Pending

\* The process dies, and what waited with it.
LEMMA DieLoses ==
  ASSUME Carried, Inv, NEW how \in {"off", "segv"}, Die(how),
         loss' = "possible", UNCHANGED <<offered, seen>>
  PROVE  Loses
<1>1. Pending' = <<>>
  BY DEF Die, Pending, InFile, FileInUse
<1>2. Degraded'
  BY DEF Die, Degraded, Running
<1>3. Pending \in Seq(Record)
  BY PendingType
<1>4. Len(Pending) \in Nat
  BY <1>3, LenProperties
<1>5. SubSeq(Pending, Len(Pending) + 1, Len(Pending)) = <<>>
  BY <1>3, <1>4
<1>6. Log!Lose(Len(Pending))
  BY <1>1, <1>2, <1>5 DEF Log!Lose
<1>7. QED
  BY <1>4, <1>6 DEF Loses

LEMMA FillEffect == Carried /\ Inv /\ Fill => Keeps \/ Loses
<1> SUFFICES ASSUME Carried, Inv, Fill PROVE Keeps \/ Loses
  OBVIOUS
<1>1. mem \in Seq(Reading) /\ mem # <<>> /\ mem' = Tail(mem) /\ FileWrite(Head(mem))
      /\ UNCHANGED <<clock, received, offered, seen, l1, l2>>
  BY DEF Fill, Inv, TypeInv, TypeOK, wiring
<1>2. Head(mem) \in Reading /\ Head(mem) \in Record
  BY <1>1, HeadTailProperties, ReadingIsRecord
<1>3. InFile \in Seq(Record) /\ mem \in Seq(Record) /\ Pending \in Seq(Record)
  BY PendingType
<1>4. FileInUse /\ FileInUse'
  BY <1>1 DEF Fill, Inv, Place, FileInUse
<1>5. CASE stream' = "good"
  <2>1. stream = "good" /\ Unread(file', at', clock) = Append(Unread(file, at, clock), Head(mem))
    BY <1>1, <1>2, <1>5, FileWriteLines
  <2>2. InFile' = Append(InFile, Head(mem))
    BY <1>1, <1>4, <1>5, <2>1 DEF InFile
  <2>3. Pending' = Pending
    BY <1>1, <1>3, <2>2, MoveHead DEF Pending
  <2>4. QED
    BY <1>1, <2>3 DEF Keeps
<1>6. CASE stream' # "good"
  <2>1. stream' = "bad" /\ loss' = "possible"
    BY <1>1, <1>2, <1>6, FileWriteLines, FileWriteType DEF Inv
  <2>2. InFile' = <<>>
    BY <2>1 DEF InFile
  <2>3. Pending' = Tail(mem)
    BY <1>1, <1>3, <2>2, ConcatEmptySeq, HeadTailProperties DEF Pending
  <2>4. Len(InFile) \in Nat /\ Len(mem) \in Nat \ {0} /\ Len(Pending) = Len(InFile) + Len(mem)
    BY <1>1, <1>3, LenProperties, ConcatProperties, EmptySeq DEF Pending
  <2>5. Len(InFile) + 1 \in 0 .. Len(Pending)
    BY <2>4
  <2>6. SubSeq(Pending, Len(InFile) + 1 + 1, Len(Pending)) = Tail(mem)
    BY <1>1, <1>3, <2>4 DEF Pending
  <2>7. Degraded'
    BY <2>1 DEF Degraded
  <2>8. Log!Lose(Len(InFile) + 1)
    BY <1>1, <2>3, <2>6, <2>7 DEF Log!Lose
  <2>9. QED
    BY <2>1, <2>5, <2>8 DEF Loses
<1>7. QED
  BY <1>5, <1>6

LEMMA FillEndEffect == Carried /\ Inv /\ (FillEnd \/ DrainMemEnd) => Keeps
<1> SUFFICES ASSUME Carried, Inv, FillEnd \/ DrainMemEnd PROVE Keeps
  OBVIOUS
<1>1. UNCHANGED <<l1, l2, file, at, stream, received, offered, seen>> /\ mem' = mem
  BY DEF FillEnd, DrainMemEnd, MemRaz, wiring, fileVars, history
<1>2. InFile' = InFile
  BY <1>1, SameInFile
<1>3. QED
  BY <1>1, <1>2 DEF Keeps, Pending

LEMMA DrainMemEffect == Carried /\ Inv /\ DrainMem => Moves \/ Loses
<1> SUFFICES ASSUME Carried, Inv, DrainMem PROVE Moves \/ Loses
  OBVIOUS
<1>1. CASE NullCall
  BY <1>1, DieLoses DEF NullCall
<1>2. CASE ~NullCall
  <2>1. /\ mem # <<>> /\ offered' = Append(offered, Head(mem)) /\ mem' = Tail(mem)
        /\ UNCHANGED <<pc, stream, l1, l2, received, seen>>
    BY <1>2 DEF DrainMem, control, wiring, fileVars
  <2>2. ~FileInUse /\ ~FileInUse'
    BY <2>1 DEF DrainMem, Inv, Place, FileInUse
  <2>3. mem \in Seq(Record) /\ Tail(mem) \in Seq(Record)
    BY <2>1, PendingType, HeadTailProperties
  <2>4. Pending = mem /\ Pending' = Tail(mem)
    BY <2>1, <2>2, <2>3, ConcatEmptySeq DEF Pending, InFile
  <2>5. Degraded' = Degraded
    BY <2>1 DEF Degraded, Running
  <2>6. QED
    BY <2>1, <2>4, <2>5 DEF Moves, Log!Offer
<1>3. QED
  BY <1>1, <1>2

LEMMA DrainFileEffect == Carried /\ Inv /\ DrainFile => Moves \/ Loses
<1> SUFFICES ASSUME Carried, Inv, DrainFile PROVE Moves \/ Loses
  OBVIOUS
<1>1. CASE NullCall
  BY <1>1, DieLoses DEF NullCall
<1>2. CASE ~NullCall
  <2>1. /\ stream = "good" /\ at < Len(file) /\ pc = "drainFile"
        /\ offered' = Append(offered, ReadBack(file, at, clock)) /\ at' = at + 4
        /\ UNCHANGED <<pc, stream, clock, file, l1, l2, mem, received, seen>>
    BY <1>2 DEF DrainFile, Readable, control, wiring, memVars
  <2>2. FileInUse /\ FileInUse' /\ mem = <<>> /\ mem' = <<>>
    BY <2>1 DEF Inv, Place, FileInUse
  <2>3. /\ Unread(file, at, clock) # <<>>
        /\ Head(Unread(file, at, clock)) = ReadBack(file, at, clock)
        /\ Tail(Unread(file, at, clock)) = Unread(file, at', clock)
    BY <2>1, NextLine DEF Inv
  <2>4. InFile = Unread(file, at, clock) /\ InFile' = Unread(file, at', clock)
    BY <2>1, <2>2 DEF InFile
  <2>5. InFile \in Seq(Record) /\ Tail(InFile) \in Seq(Record)
    BY <2>3, <2>4, PendingType, HeadTailProperties
  <2>6. Pending = InFile /\ Pending' = Tail(InFile)
    BY <2>2, <2>3, <2>4, <2>5, ConcatEmptySeq DEF Pending
  <2>7. Degraded' = Degraded
    BY <2>1 DEF Degraded, Running
  <2>8. QED
    BY <2>1, <2>3, <2>4, <2>6, <2>7 DEF Moves, Log!Offer
<1>3. QED
  BY <1>1, <1>2

\* The loop of Transfert ends when nothing is left, or nothing can be read.
LEMMA DrainFileEndEffect == Carried /\ Inv /\ DrainFileEnd => Keeps
<1> SUFFICES ASSUME Carried, Inv, DrainFileEnd PROVE Keeps
  OBVIOUS
<1>1. /\ file' = <<>> /\ at' = 0 /\ UNCHANGED <<mem, received, offered, seen>>
      /\ mem = <<>> /\ ~Readable
  BY DEF DrainFileEnd, FileRaz, memVars, history, Inv, Place
<1>2. InFile' = <<>>
  <2>1. \A now : Unread(<<>>, 0, now) = <<>>
    BY UnreadEmpty
  <2>2. QED
    BY <1>1, <2>1 DEF InFile
<1>3. InFile = <<>>
  <2>1. CASE stream # "good"
    BY <2>1 DEF InFile
  <2>2. CASE stream = "good"
    <3>1. PICK k \in Nat : \E m \in 0 .. k : Lines(file, k) /\ at = 4 * m
      BY DEF Inv, FileOfLines
    <3>2. PICK m \in 0 .. k : Lines(file, k) /\ at = 4 * m
      BY <3>1
    <3>3. k - m = 0
      BY <1>1, <2>2, <3>2 DEF Readable, Lines
    <3>4. DstShift = 0
      BY DEF Carried
    <3>5. Unread(file, 4 * m, clock) \in Seq(Plain) /\ Len(Unread(file, 4 * m, clock)) = k - m
      BY <3>2, <3>4, UnreadType, Zenon
    <3>6. Unread(file, at, clock) = <<>>
      BY <3>2, <3>3, <3>5, EmptySeq
    <3>7. QED
      BY <3>6 DEF InFile
  <2>3. QED
    BY <2>1, <2>2
<1>4. QED
  BY <1>1, <1>2, <1>3 DEF Keeps, Pending

LEMMA PersistanceAddEffect ==
  ASSUME Carried, Inv, NEW canonic \in Canonics, NEW value \in Values,
         PersistanceAdd(canonic, value)
  PROVE  Loses \/ \E r \in Reading : Accepts(r) \/ Writes(r)
<1> DEFINE r == [canonic |-> canonic, value |-> value, time |-> clock]
<1>1. r \in Reading /\ r \in Record
  BY ReadingIsRecord DEF Reading, Inv, TypeInv, TypeOK
<1>2. received' = Append(received, r)
  BY DEF PersistanceAdd
<1>3. AddToDriver(r) \/ AddToMemory(r) \/ AddToFile(r)
  BY DEF PersistanceAdd
<1>4. pc = "idle"
  BY DEF PersistanceAdd
<1>5. InFile \in Seq(Record) /\ mem \in Seq(Record) /\ Pending \in Seq(Record)
  BY PendingType
<1> HIDE DEF r
<1>6. CASE AddToDriver(r)
  <2>1. CASE NullCall
    BY <2>1, DieLoses DEF NullCall
  <2>2. CASE ~NullCall
    <3>1. offered' = Append(offered, r)
          /\ UNCHANGED <<control, saved, wiring, memVars, fileVars, clock, seen, loss>>
      BY <1>6, <2>2, Zenon DEF AddToDriver
    <3>2. UNCHANGED <<pc, l1, l2, mem, file, at, stream, seen>>
      BY <3>1 DEF control, wiring, memVars, fileVars
    <3>3. Pending = <<>>
      BY <1>6, NothingWaits DEF AddToDriver
    <3>4. Pending' = Pending
      BY <3>2, SameInFile DEF Pending
    <3>5. Degraded' = Degraded
      BY <3>2 DEF Degraded, Running
    <3>6. QED
      BY <1>1, <1>2, <3>1, <3>2, <3>3, <3>4, <3>5 DEF Writes, Log!WriteThrough
  <2>3. QED
    BY <2>1, <2>2
<1>7. CASE AddToMemory(r)
  <2>1. mem' = Append(mem, r) /\ UNCHANGED <<l1, l2, file, at, stream, offered, seen>>
    BY <1>7 DEF AddToMemory, MemAdd, wiring, fileVars
  <2>2. Pending' = Append(Pending, r)
    BY <1>1, <1>5, <2>1, SameInFile, AppendBehind DEF Pending
  <2>3. Degraded' = Degraded
    <3>1. pc' \in {"idle", "drainMem", "fill"}
      BY <1>7 DEF AddToMemory, FlushFrom, Inv, TypeInv, TypeOK
    <3>2. Running /\ Running'
      BY <1>4, <3>1 DEF Running
    <3>3. QED
      BY <2>1, <3>2 DEF Degraded
  <2>4. QED
    BY <1>1, <1>2, <2>1, <2>2, <2>3 DEF Accepts, Log!Accept
<1>8. CASE AddToFile(r)
  <2>1. FileWrite(r) /\ UNCHANGED <<l1, l2, mem, clock, offered, seen>>
        /\ pc' \in {"idle", "drainFile"} /\ mem = <<>> /\ FileInUse /\ FileInUse'
    BY <1>8 DEF AddToFile, FlushFrom, FileInUse, Inv, Place, wiring, memVars
  <2>2. CASE stream' = "good"
    <3>1. stream = "good" /\ Unread(file', at', clock) = Append(Unread(file, at, clock), r)
      BY <1>1, <2>1, <2>2, FileWriteLines
    <3>2. InFile' = Append(InFile, r)
      BY <2>1, <2>2, <3>1 DEF InFile
    <3>3. Append(InFile, r) \in Seq(Record)
      BY <1>1, <1>5, AppendProperties
    <3>4. Pending' = Append(Pending, r)
      BY <1>5, <2>1, <3>2, <3>3, ConcatEmptySeq DEF Pending
    <3>5. Degraded' = Degraded
      BY <1>4, <2>1, <2>2, <3>1 DEF Degraded, Running
    <3>6. QED
      BY <1>1, <1>2, <2>1, <3>4, <3>5 DEF Accepts, Log!Accept
  <2>3. CASE stream' # "good"
    <3>1. stream' = "bad" /\ loss' = "possible"
      BY <1>1, <2>1, <2>3, FileWriteLines, FileWriteType DEF Inv
    <3>2. Pending' = <<>>
      BY <2>1, <3>1 DEF Pending, InFile
    <3>3. Len(Pending) \in Nat /\ SubSeq(Pending, Len(Pending) + 1, Len(Pending)) = <<>>
      BY <1>5, LenProperties, SubSeqEmpty
    <3>4. Degraded'
      BY <3>1 DEF Degraded
    <3>5. Log!Lose(Len(Pending))
      BY <2>1, <3>2, <3>3, <3>4 DEF Log!Lose
    <3>6. QED
      BY <3>1, <3>3, <3>5 DEF Loses
  <2>4. QED
    BY <2>2, <2>3
<1>9. QED
  BY <1>3, <1>6, <1>7, <1>8

LEMMA StartFlushEffect ==
  ASSUME Carried, Inv, NEW reason \in {"query", "configure", "exit"}, StartFlush(reason)
  PROVE  Keeps
<1>1. UNCHANGED <<l1, l2, mem, file, at, stream, received, offered, seen>>
  BY DEF StartFlush, wiring, memVars, fileVars, history
<1>2. QED
  BY <1>1, SameInFile DEF Keeps, Pending

LEMMA AnswerEffect == Carried /\ Inv /\ Answer => Answers \/ Loses
<1> SUFFICES ASSUME Carried, Inv, Answer PROVE Answers \/ Loses
  OBVIOUS
<1>1. CASE NullCall
  BY <1>1, DieLoses DEF NullCall
<1>2. CASE ~NullCall
  <2>1. /\ seen' = offered /\ pc = "query" /\ pc' = "idle"
        /\ UNCHANGED <<l1, l2, mem, file, at, stream, received, offered>>
    BY <1>2 DEF Answer, wiring, memVars, fileVars
  <2>2. Pending = <<>> /\ Pending' = Pending
    BY <2>1, NothingWaits, SameInFile DEF Pending
  <2>3. Degraded' = Degraded
    BY <2>1 DEF Degraded, Running
  <2>4. QED
    BY <2>1, <2>2, <2>3 DEF Answers, Log!Answer
<1>3. QED
  BY <1>1, <1>2

\* Settings are applied, and processes end, only once the flush is over.
LEMMA ConfigureEffect ==
  Carried /\ Inv /\ (Configure \/ ConfigureThrows \/ Exit) => Keeps
<1> SUFFICES ASSUME Carried, Inv, Configure \/ ConfigureThrows \/ Exit PROVE Keeps
  OBVIOUS
<1>1. Pending = <<>>
  BY NothingWaits DEF Configure, ConfigureThrows, Exit
<1>2. UNCHANGED <<received, offered, seen>>
  BY DEF Configure, ConfigureThrows, Exit, history
<1>3. CASE Configure
  <2>1. PICK size \in SizesRead(request.mem), most \in SizesRead(request.file) :
        CreateMemory(size) /\ CreateFile(size, most)
    BY <1>3 DEF Configure
  <2>2. mem' = <<>> /\ at' = 0 /\ (file' = <<>> \/ ~FileInUse')
    BY <2>1 DEF CreateMemory, CreateFile, NoFile, FileAt, FileInUse
  <2>3. \A now : Unread(<<>>, 0, now) = <<>>
    BY UnreadEmpty
  <2>4. Pending' = <<>>
    BY <2>2, <2>3 DEF Pending, InFile
  <2>5. QED
    BY <1>1, <1>2, <2>4 DEF Keeps
<1>4. CASE ~Configure
  <2>1. Pending' = <<>>
    BY <1>4 DEF ConfigureThrows, Exit, Die, Pending, InFile, FileInUse
  <2>2. QED
    BY <1>1, <1>2, <2>1 DEF Keeps
<1>5. QED
  BY <1>3, <1>4

LEMMA NextEffect == Carried /\ Inv /\ [Next]_vars => Effect
<1> SUFFICES ASSUME Carried, Inv, [Next]_vars PROVE Effect
  OBVIOUS
<1>1. CASE Daemon
  BY <1>1, FillEffect, FillEndEffect, DrainMemEffect, DrainFileEffect, DrainFileEndEffect,
     AnswerEffect, ConfigureEffect DEF Daemon, Effect
<1>2. ASSUME NEW canonic \in Canonics, NEW value \in Values, PersistanceAdd(canonic, value)
      PROVE  Effect
  BY <1>2, PersistanceAddEffect DEF Effect
<1>3. CASE (\E c \in Configs : Reconfigure(c)) \/ Query \/ Stop
  BY <1>3, StartFlushEffect DEF Reconfigure, Query, Stop, Effect
<1>4. CASE Crash
  BY <1>4, DieLoses DEF Crash, Effect
<1>5. CASE Start \/ Tick \/ UNCHANGED vars
  <2>1. UNCHANGED <<l1, l2, mem, file, at, stream, received, offered, seen>>
    BY <1>5 DEF Start, Tick, vars, wiring, memVars, fileVars, history
  <2>2. QED
    BY <2>1, SameInFile DEF Keeps, Pending, Effect
<1>6. QED
  BY <1>1, <1>2, <1>3, <1>4, <1>5 DEF Next

-----------------------------------------------------------------------------
(* The theorems *)

\* What was lost stays lost.
LEMMA LossStays == [Next]_vars /\ loss' = "none" => loss = "none"
<1> SUFFICES ASSUME [Next]_vars, loss' = "none" PROVE loss = "none"
  OBVIOUS
<1>1. CASE Daemon
  BY <1>1 DEF Daemon, Fill, FileWrite, FillEnd, DrainMem, DrainMemEnd, DrainFile, DrainFileEnd,
     Answer, Configure, ConfigureThrows, Exit, NullCall, history
<1>2. ASSUME NEW canonic \in Canonics, NEW value \in Values, PersistanceAdd(canonic, value)
      PROVE  loss = "none"
  BY <1>2 DEF PersistanceAdd, AddToDriver, AddToMemory, AddToFile, FileWrite, NullCall
<1>3. CASE (\E c \in Configs : Reconfigure(c)) \/ Query \/ Stop
  BY <1>3 DEF Reconfigure, Query, Stop, StartFlush, history
<1>4. CASE Crash \/ Start \/ Tick \/ UNCHANGED vars
  BY <1>4 DEF Crash, Start, Tick, vars, history
<1>5. QED
  BY <1>1, <1>2, <1>3, <1>4 DEF Next

LEMMA ConservationStep ==
  Carried /\ Inv /\ Conservation /\ [Next]_vars => Conservation'
<1> SUFFICES ASSUME Carried, Inv, Conservation, [Next]_vars, loss' = "none"
             PROVE  received' = offered' \o Pending'
  BY DEF Conservation
<1>1. received = offered \o Pending
  BY LossStays DEF Conservation
<1>2. Pending \in Seq(Record) /\ offered \in Seq(Record) /\ received \in Seq(Record)
  BY <1>1, PendingType, ConcatProperties DEF Inv, TypeInv, TypeOK
<1>3. CASE Keeps \/ Answers
  BY <1>1, <1>3 DEF Keeps, Answers, Log!Answer
<1>4. CASE Moves
  BY <1>1, <1>2, <1>4, MoveHead DEF Moves, Log!Offer
<1>5. CASE Loses
  BY <1>5 DEF Loses
<1>6. ASSUME NEW r \in Reading, Accepts(r) PROVE received' = offered' \o Pending'
  <2>1. r \in Record
    BY ReadingIsRecord
  <2>2. received' = Append(received, r) /\ Pending' = Append(Pending, r) /\ offered' = offered
    BY <1>6 DEF Accepts, Log!Accept
  <2>3. offered \o Append(Pending, r) = Append(offered \o Pending, r)
    BY <1>2, <2>1, AppendBehind
  <2>4. QED
    BY <1>1, <2>2, <2>3, Zenon
<1>7. ASSUME NEW r \in Reading, Writes(r) PROVE received' = offered' \o Pending'
  <2>1. r \in Record
    BY ReadingIsRecord
  <2>2. received' = Append(received, r) /\ Pending = <<>> /\ Pending' = <<>>
        /\ offered' = Append(offered, r)
    BY <1>7 DEF Writes, Log!WriteThrough
  <2>3. received = offered /\ Append(offered, r) \in Seq(Record)
    BY <1>1, <1>2, <2>1, <2>2, ConcatEmptySeq, AppendProperties
  <2>4. QED
    BY <2>2, <2>3, ConcatEmptySeq
<1>8. QED
  BY <1>3, <1>4, <1>5, <1>6, <1>7, NextEffect DEF Effect

LEMMA InitConservation == Carried /\ Init => Conservation
<1> SUFFICES ASSUME Carried, Init PROVE received = offered \o Pending
  BY DEF Conservation
<1>1. Pending = <<>>
  BY NothingWaits, InitInv DEF Init
<1>2. <<>> \in Seq(Record)
  OBVIOUS
<1>3. QED
  BY <1>1, <1>2, ConcatEmptySeq DEF Init

(***************************************************************************)
(* Inv holds in every reachable state.                                     *)
(***************************************************************************)
THEOREM Invariant == ASSUME Carried PROVE Spec => []Inv
<1>1. Init => Inv
  BY InitInv
<1>2. Inv /\ [Next]_vars => Inv'
  BY NextInv
<1>3. QED
  BY <1>1, <1>2, PTL DEF Spec

(***************************************************************************)
(* No reading is lost, duplicated, reordered or altered by the caches      *)
(* unless the process crashes or the disk fills up, whatever the settings, *)
(* the sizes and the order of readings, queries and reconfigurations.      *)
(***************************************************************************)
THEOREM Conserved == ASSUME Carried PROVE Spec => []Conservation
<1>1. Init => Conservation
  BY InitConservation
<1>2. Inv /\ Conservation /\ [Next]_vars => Conservation'
  BY ConservationStep
<1>3. QED
  BY <1>1, <1>2, Invariant, PTL DEF Spec

(***************************************************************************)
(* A query sees every reading that was received before it.                 *)
(***************************************************************************)
THEOREM QueriesSeeEverything == ASSUME Carried PROVE Spec => []QuerySeesEverything
<1>1. Inv /\ Conservation => QuerySeesEverything
  <2> SUFFICES ASSUME Inv, Conservation, pc = "query", loss = "none" PROVE offered = received
    BY DEF QuerySeesEverything
  <2>1. Pending = <<>>
    BY NothingWaits
  <2>2. received = offered \o <<>> /\ offered \in Seq(Record)
    BY <2>1 DEF Conservation, Inv, TypeInv, TypeOK
  <2>3. QED
    BY <2>2, ConcatEmptySeq
<1>2. QED
  BY <1>1, Invariant, Conserved, PTL

LEMMA LogInit == Carried /\ Init => Log!Init
<1> SUFFICES ASSUME Carried, Init PROVE Log!Init
  OBVIOUS
<1>1. Pending = <<>>
  BY NothingWaits, InitInv DEF Init
<1>2. Degraded \in BOOLEAN
  BY DEF Degraded
<1>3. QED
  BY <1>1, <1>2 DEF Init, Log!Init

LEMMA LogNext == Carried /\ Inv /\ [Next]_vars => [Log!Next]_(Log!vars)
<1> SUFFICES ASSUME Carried, Inv, [Next]_vars PROVE [Log!Next]_(Log!vars)
  OBVIOUS
<1>1. CASE Keeps
  <2>1. UNCHANGED <<Pending, offered, seen>>
    BY <1>1 DEF Keeps
  <2>2. CASE ~Degraded'
    BY <2>1, <2>2 DEF Log!Next, Log!Recover
  <2>3. CASE Degraded'
    <3>1. Pending \in Seq(Record) /\ 0 \in 0 .. Len(Pending)
      BY PendingType, LenProperties
    <3>2. SubSeq(Pending, 0 + 1, Len(Pending)) = Pending
      BY <3>1
    <3>3. Log!Lose(0)
      BY <2>1, <2>3, <3>2 DEF Log!Lose
    <3>4. QED
      BY <3>1, <3>3 DEF Log!Next
  <2>4. QED
    BY <2>2, <2>3
<1>2. CASE Moves \/ Answers \/ Loses
  BY <1>2 DEF Moves, Answers, Loses, Log!Next
<1>3. ASSUME NEW r \in Reading, Accepts(r) \/ Writes(r) PROVE [Log!Next]_(Log!vars)
  BY <1>3 DEF Accepts, Writes, Log!Next
<1>4. QED
  BY <1>1, <1>2, <1>3, NextEffect DEF Effect

(***************************************************************************)
(* The daemon implements the write-behind log of RecordLog, across crashes *)
(* and full disks too: readings are only ever lost oldest first, never     *)
(* offered twice, and no query is answered while a reading waits.          *)
(***************************************************************************)
THEOREM Refinement == ASSUME Carried PROVE Spec => LogSpec
<1>1. Init => Log!Init
  BY LogInit
<1>2. Inv /\ [Next]_vars => [Log!Next]_(Log!vars)
  BY LogNext
<1>3. QED
  BY <1>1, <1>2, Invariant, PTL DEF Spec, LogSpec, Log!Spec

-----------------------------------------------------------------------------
(***************************************************************************)
(* The size counters.  CachesWithinLimits is an invariant as long as the   *)
(* limits leave the counters room (CountersHaveRoom): memSize and fileSize *)
(* are exactly what the caches weigh, although a transfer empties the      *)
(* memory cache long before Raz restarts its counter, and adds to the      *)
(* file's counter what its disk may have refused.                          *)
(***************************************************************************)

LEMMA WeightType ==
  ASSUME CountersHaveRoom, NEW r \in Reading
  PROVE  /\ MemoryWeight(r) \in Nat /\ FileWeight(r) \in Nat
         /\ FileWeight(r) <= 2 * MemoryWeight(r)
<1>1. ReadingSize(r) \in Nat /\ ReadingSize(r) >= 2 * SizeofString
  BY DEF Reading, ReadingSize, TextSize
<1> QED BY <1>1 DEF MemoryWeight, FileWeight, CountersHaveRoom

LEMMA HeldNothing == MemoryHeld(<<>>) = 0 /\ FileHeld(<<>>) = 0
<1>1. \A f : DOMAIN f = {} => SumFunction(f) = 0
  BY FS_EmptySet, SumUnfold DEF SumFunction
<1> QED BY <1>1 DEF MemoryHeld, FileHeld

LEMMA HeldType ==
  ASSUME CountersHaveRoom, NEW s \in Seq(Reading)
  PROVE  /\ MemoryHeld(s) \in Nat /\ FileHeld(s) \in Nat
         /\ FileHeld(s) <= 2 * MemoryHeld(s)
<1> DEFINE f == [i \in DOMAIN s |-> FileWeight(s[i])]
           g == [i \in DOMAIN s |-> MemoryWeight(s[i])]
<1>1. DOMAIN s = 1 .. Len(s) /\ Len(s) \in Nat
  BY LenProperties
<1>2. \A i \in DOMAIN s : s[i] \in Reading
  BY <1>1, ElementOfSeq
<1>3. \A i \in DOMAIN s : f[i] \in Nat /\ g[i] \in Nat /\ f[i] <= 2 * g[i]
  BY <1>2, WeightType
<1>4. IsFiniteSet(DOMAIN s)
  BY <1>1, FS_Interval
<1>5. /\ FileHeld(s) = SumFunctionOnSet(f, DOMAIN s)
      /\ MemoryHeld(s) = SumFunctionOnSet(g, DOMAIN s)
  BY DEF FileHeld, MemoryHeld, SumFunction
<1> HIDE DEF f, g
<1>6. SumFunctionOnSet(f, DOMAIN s) \in Nat /\ SumFunctionOnSet(g, DOMAIN s) \in Nat
  BY <1>3, <1>4, SumNatural
<1>7. SumFunctionOnSet(f, DOMAIN s) <= 2 * SumFunctionOnSet(g, DOMAIN s)
  <2>1. \A i \in DOMAIN s : f[i] \in Int /\ g[i] \in Int /\ f[i] <= 2 * g[i]
    BY <1>3
  <2> QED BY <1>4, <2>1, SumAtMostTwice
<1> QED BY <1>5, <1>6, <1>7

LEMMA HeldMore ==
  ASSUME CountersHaveRoom, NEW s \in Seq(Reading), NEW r \in Reading
  PROVE  /\ MemoryHeld(Append(s, r)) = MemoryHeld(s) + MemoryWeight(r)
         /\ FileHeld(Append(s, r)) = FileHeld(s) + FileWeight(r)
<1> DEFINE t == Append(s, r)
           n == Len(s)
           f == [i \in DOMAIN s |-> FileWeight(s[i])]
           g == [i \in DOMAIN s |-> MemoryWeight(s[i])]
           ff == [i \in DOMAIN t |-> FileWeight(t[i])]
           gg == [i \in DOMAIN t |-> MemoryWeight(t[i])]
<1>1. DOMAIN s = 1 .. n /\ n \in Nat
  BY LenProperties
<1>2. /\ t \in Seq(Reading) /\ Len(t) = n + 1 /\ DOMAIN t = 1 .. n + 1
      /\ t[n + 1] = r /\ \A i \in 1 .. n : t[i] = s[i]
  BY AppendProperties, LenProperties
<1>3. \A i \in 1 .. n + 1 : t[i] \in Reading
  BY <1>2, ElementOfSeq
<1>4. /\ FileHeld(s) = SumFunctionOnSet(f, 1 .. n) /\ MemoryHeld(s) = SumFunctionOnSet(g, 1 .. n)
      /\ FileHeld(t) = SumFunctionOnSet(ff, 1 .. n + 1)
      /\ MemoryHeld(t) = SumFunctionOnSet(gg, 1 .. n + 1)
  <2> HIDE DEF t, n
  <2> QED BY <1>1, <1>2 DEF FileHeld, MemoryHeld, SumFunction
<1> HIDE DEF t, n
<1>5. \A i \in 1 .. n + 1 : ff[i] \in Int /\ gg[i] \in Int
  BY <1>2, <1>3, WeightType
<1>6. \A i \in 1 .. n : f[i] = ff[i] /\ g[i] = gg[i]
  BY <1>1, <1>2
<1>7. n + 1 \in 1 .. n + 1
  BY <1>1
<1>8. ff[n + 1] = FileWeight(r) /\ gg[n + 1] = MemoryWeight(r)
  BY <1>2, <1>7
<1> HIDE DEF f, g, ff, gg
<1>9. SumFunctionOnSet(ff, 1 .. n + 1) = SumFunctionOnSet(f, 1 .. n) + ff[n + 1]
  BY <1>1, <1>5, <1>6, SumLonger
<1>10. SumFunctionOnSet(gg, 1 .. n + 1) = SumFunctionOnSet(g, 1 .. n) + gg[n + 1]
  BY <1>1, <1>5, <1>6, SumLonger
<1> QED BY <1>4, <1>8, <1>9, <1>10 DEF t

LEMMA HeldLess ==
  ASSUME CountersHaveRoom, NEW s \in Seq(Reading), s # <<>>
  PROVE  FileHeld(s) = FileWeight(Head(s)) + FileHeld(Tail(s))
<1> DEFINE t == Tail(s)
           n == Len(t)
           f == [i \in DOMAIN s |-> FileWeight(s[i])]
           g == [i \in DOMAIN t |-> FileWeight(t[i])]
<1>1. /\ t \in Seq(Reading) /\ Head(s) = s[1] /\ Len(t) = Len(s) - 1
      /\ \A i \in 1 .. Len(t) : t[i] = s[i + 1]
  BY HeadTailProperties
<1>2. DOMAIN s = 1 .. n + 1 /\ DOMAIN t = 1 .. n /\ n \in Nat
  <2>1. Len(s) \in Nat /\ DOMAIN s = 1 .. Len(s) /\ Len(t) \in Nat /\ DOMAIN t = 1 .. Len(t)
    BY <1>1, LenProperties
  <2> HIDE DEF t
  <2> QED BY <1>1, <2>1
<1> HIDE DEF t, n
<1>3. \A i \in 1 .. n + 1 : s[i] \in Reading
  <2>1. Len(s) = n + 1
    BY <1>2, LenProperties DEF n
  <2> QED BY <2>1, ElementOfSeq
<1>4. FileHeld(s) = SumFunctionOnSet(f, 1 .. n + 1) /\ FileHeld(t) = SumFunctionOnSet(g, 1 .. n)
  BY <1>2 DEF FileHeld, SumFunction
<1>5. \A i \in 1 .. n + 1 : f[i] \in Int
  BY <1>2, <1>3, WeightType
<1>6. \A i \in 1 .. n : g[i] = f[i + 1]
  <2> SUFFICES ASSUME NEW i \in 1 .. n PROVE g[i] = f[i + 1]
    OBVIOUS
  <2>1. i \in DOMAIN t /\ i + 1 \in DOMAIN s
    BY <1>2
  <2>2. t[i] = s[i + 1]
    BY <1>1 DEF n
  <2> QED BY <2>1, <2>2
<1>7. f[1] = FileWeight(Head(s))
  <2>1. 1 \in DOMAIN s
    BY <1>2
  <2> QED BY <1>1, <2>1
<1> HIDE DEF f, g
<1>8. SumFunctionOnSet(f, 1 .. n + 1) = f[1] + SumFunctionOnSet(g, 1 .. n)
  BY <1>2, <1>5, <1>6, SumShorter
<1> QED BY <1>4, <1>7, <1>8 DEF t

-----------------------------------------------------------------------------
(* The inductive invariant of the counters *)

\* There is room for a full memory cache and one more reading, in the file.
Room == l1 # "none" => \A r \in Reading : fileMax + 2 * (memMax + MemoryWeight(r)) < Modulus

\* memSize lags behind the cache while it is being emptied.
MemoryCounted ==
  pc \notin {"fill", "drainMem"} => memSize = MemoryHeld(mem) /\ memSize <= memMax

\* fileSize does not follow the reading of the file; a batch fits.
FileCounted ==
  /\ pc \notin {"fill", "drainFile"} => fileSize <= fileMax
  /\ pc = "fill" => fileSize + FileHeld(mem) < Modulus
  /\ pc # "drainFile" /\ stream = "good" =>
       InFile \in Seq(Reading) /\ fileSize = FileHeld(InFile)

Counters == Room /\ MemoryCounted /\ FileCounted

LEMMA BothAtMost ==
  ASSUME NEW a \in Int, NEW b \in Int, NEW c \in Int, NEW d \in Int, a <= b, c <= d
  PROVE  a + c <= b + d
OBVIOUS

\* Below the modulus % changes nothing.
LEMMA NoWrap ==
  ASSUME NEW n \in Nat, n < Modulus
  PROVE  n % Modulus = n
OBVIOUS

LEMMA DieCounters ==
  ASSUME NEW how \in {"off", "segv"}, Die(how)
  PROVE  Counters'
<1>1. /\ pc' = how /\ l1' = "none" /\ mem' = <<>> /\ memSize' = 0 /\ memMax' = 0
      /\ fileSize' = 0 /\ fileMax' = 0
  BY DEF Die
<1>2. InFile' = <<>>
  BY DEF Die, InFile, FileInUse
<1>3. <<>> \in Seq(Reading)
  OBVIOUS
<1>4. Room' /\ MemoryCounted'
  BY <1>1, HeldNothing DEF Room, MemoryCounted
<1>5. FileCounted'
  BY <1>1, <1>2, <1>3, HeldNothing DEF FileCounted
<1> QED BY <1>4, <1>5 DEF Counters

\* What Add and Fill do to the file and its counter, when there is room.
LEMMA FileWriteCounts ==
  ASSUME Carried, CountersHaveRoom, Inv, NEW r \in Reading, FileWrite(r),
         FileInUse, UNCHANGED <<l1, l2, clock>>, fileSize + FileWeight(r) < Modulus,
         stream = "good" => InFile \in Seq(Reading) /\ fileSize = FileHeld(InFile)
  PROVE  /\ fileSize' = fileSize + FileWeight(r) /\ fileMax' = fileMax
         /\ stream' = "good" => InFile' \in Seq(Reading) /\ fileSize' = FileHeld(InFile')
<1>1. fileSize' = fileSize + FileWeight(r) /\ fileMax' = fileMax
  <2>1. fileSize \in Nat /\ FileWeight(r) \in Nat
    BY WeightType DEF Inv, TypeInv, TypeOK
  <2>2. (fileSize + FileWeight(r)) % Modulus = fileSize + FileWeight(r)
    BY <2>1, NoWrap
  <2>3. ReadingSize(r) \in Nat /\ LineOverhead \in Nat
    BY SizeType
  <2>4. fileSize + ReadingSize(r) + LineOverhead = fileSize + FileWeight(r)
    BY <2>1, <2>3 DEF FileWeight
  <2> QED BY <2>2, <2>4 DEF FileWrite
<1>2. ASSUME stream' = "good" PROVE InFile' \in Seq(Reading) /\ fileSize' = FileHeld(InFile')
  <2>1. stream = "good" /\ Unread(file', at', clock) = Append(Unread(file, at, clock), r)
    BY <1>2, FileWriteLines
  <2>2. InFile' = Append(InFile, r)
    BY <1>2, <2>1 DEF InFile, FileInUse
  <2>3. InFile \in Seq(Reading) /\ fileSize = FileHeld(InFile)
    BY <2>1
  <2>4. Append(InFile, r) \in Seq(Reading)
    BY <2>3, AppendProperties
  <2>5. FileHeld(Append(InFile, r)) = FileHeld(InFile) + FileWeight(r)
    BY <2>3, HeldMore
  <2> QED BY <1>1, <2>2, <2>3, <2>4, <2>5
<1> QED BY <1>1, <1>2

LEMMA FillCounters ==
  Carried /\ CountersHaveRoom /\ Inv /\ Counters /\ Fill => Counters'
<1> SUFFICES ASSUME Carried, CountersHaveRoom, Inv, Counters, Fill PROVE Counters'
  OBVIOUS
<1>1. /\ mem \in Seq(Reading) /\ mem # <<>> /\ mem' = Tail(mem) /\ FileWrite(Head(mem))
      /\ pc = "fill" /\ UNCHANGED <<pc, l1, l2, clock, memMax>>
  BY DEF Fill, Inv, TypeInv, TypeOK, control, wiring
<1>2. Head(mem) \in Reading /\ Tail(mem) \in Seq(Reading)
  BY <1>1, HeadTailProperties
<1>3. /\ FileHeld(mem) = FileWeight(Head(mem)) + FileHeld(Tail(mem))
      /\ FileHeld(Tail(mem)) \in Nat /\ FileWeight(Head(mem)) \in Nat /\ fileSize \in Nat
      /\ Modulus \in Nat
  <2>1. fileSize \in Nat /\ Modulus \in Nat
    BY DEF Inv, TypeInv, TypeOK
  <2> QED BY <1>1, <1>2, <2>1, HeldLess, HeldType, WeightType
<1>4. fileSize + FileHeld(mem) < Modulus
  BY <1>1 DEF Counters, FileCounted
<1>5. fileSize + FileWeight(Head(mem)) < Modulus
  BY <1>3, <1>4
<1>6. FileInUse
  BY <1>1 DEF Inv, Place, FileInUse
<1>7. stream = "good" => InFile \in Seq(Reading) /\ fileSize = FileHeld(InFile)
  BY <1>1 DEF Counters, FileCounted
<1>8. /\ fileSize' = fileSize + FileWeight(Head(mem)) /\ fileMax' = fileMax
      /\ stream' = "good" => InFile' \in Seq(Reading) /\ fileSize' = FileHeld(InFile')
  BY <1>1, <1>2, <1>5, <1>6, <1>7, FileWriteCounts
<1>9. Room' /\ MemoryCounted'
  BY <1>1, <1>8 DEF Counters, Room, MemoryCounted
<1>10. fileSize' + FileHeld(mem') < Modulus
  <2>1. fileSize' + FileHeld(Tail(mem)) < Modulus
    BY <1>3, <1>4, <1>8
  <2> QED BY <1>1, <2>1
<1>11. FileCounted'
  BY <1>1, <1>8, <1>10 DEF FileCounted
<1> QED BY <1>9, <1>11 DEF Counters

LEMMA FillEndCounters ==
  Carried /\ Inv /\ Counters /\ (FillEnd \/ DrainMemEnd) => Counters'
<1> SUFFICES ASSUME Carried, Inv, Counters, FillEnd \/ DrainMemEnd PROVE Counters'
  OBVIOUS
<1>1. /\ UNCHANGED <<l1, l2, file, at, stream, fileSize, fileMax, memMax>>
      /\ mem' = <<>> /\ memSize' = 0
  BY DEF FillEnd, DrainMemEnd, MemRaz, wiring, fileVars, history
<1>2. InFile' = InFile
  BY <1>1, SameInFile
<1>3. pc' \notin {"fill", "drainMem"} /\ 0 <= memMax
  <2>1. After(why) \in {"idle", "query", "configure", "exit"}
    BY DEF After, Inv, TypeInv, TypeOK
  <2>2. pc' \in {"idle", "drainFile", After(why)}
    BY DEF FillEnd, DrainMemEnd
  <2>3. memMax \in 0 .. Modulus - 1
    BY DEF Inv, TypeInv, TypeOK
  <2> QED BY <2>1, <2>2, <2>3
<1>4. Room' /\ MemoryCounted'
  BY <1>1, <1>3, HeldNothing DEF Counters, Room, MemoryCounted
<1>5. pc' # "drainFile" => fileSize <= fileMax
  <2>1. CASE FillEnd
    BY <2>1 DEF FillEnd, FileIsFull, Inv, TypeInv, TypeOK
  <2>2. CASE DrainMemEnd
    BY <2>2 DEF DrainMemEnd, Counters, FileCounted
  <2> QED BY <2>1, <2>2
<1>6. pc # "drainFile"
  BY DEF FillEnd, DrainMemEnd
<1>7. FileCounted'
  BY <1>1, <1>2, <1>3, <1>5, <1>6 DEF Counters, FileCounted
<1> QED BY <1>4, <1>7 DEF Counters

LEMMA DrainMemCounters == Carried /\ Inv /\ Counters /\ DrainMem => Counters'
<1> SUFFICES ASSUME Carried, Inv, Counters, DrainMem PROVE Counters'
  OBVIOUS
<1>1. CASE NullCall
  BY <1>1, DieCounters DEF NullCall
<1>2. CASE ~NullCall
  <2>1. /\ UNCHANGED <<pc, l1, l2, file, at, stream, fileSize, fileMax, memMax>>
        /\ pc = "drainMem"
    BY <1>2 DEF DrainMem, control, wiring, fileVars
  <2>2. InFile' = InFile
    BY <2>1, SameInFile
  <2> QED BY <2>1, <2>2 DEF Counters, Room, MemoryCounted, FileCounted
<1> QED BY <1>1, <1>2

LEMMA DrainFileCounters == Carried /\ Inv /\ Counters /\ DrainFile => Counters'
<1> SUFFICES ASSUME Carried, Inv, Counters, DrainFile PROVE Counters'
  OBVIOUS
<1>1. CASE NullCall
  BY <1>1, DieCounters DEF NullCall
<1>2. CASE ~NullCall
  <2>1. UNCHANGED <<pc, l1, mem, memSize, memMax, fileSize, fileMax>> /\ pc = "drainFile"
    BY <1>2 DEF DrainFile, control, wiring, memVars
  <2> QED BY <2>1 DEF Counters, Room, MemoryCounted, FileCounted
<1> QED BY <1>1, <1>2

LEMMA DrainFileEndCounters == Carried /\ Inv /\ Counters /\ DrainFileEnd => Counters'
<1> SUFFICES ASSUME Carried, Inv, Counters, DrainFileEnd PROVE Counters'
  OBVIOUS
<1>1. /\ file' = <<>> /\ at' = 0 /\ fileSize' = 0
      /\ UNCHANGED <<l1, mem, memSize, memMax, fileMax>> /\ pc = "drainFile"
  BY DEF DrainFileEnd, FileRaz, memVars, wiring
<1>2. InFile' = <<>>
  <2>1. \A now : Unread(<<>>, 0, now) = <<>>
    BY UnreadEmpty
  <2> QED BY <1>1, <2>1 DEF InFile
<1>3. pc' # "fill" /\ 0 <= fileMax /\ <<>> \in Seq(Reading)
  BY DEF DrainFileEnd, After, Inv, TypeInv, TypeOK
<1>4. Room' /\ MemoryCounted'
  BY <1>1 DEF Counters, Room, MemoryCounted
<1>5. FileCounted'
  BY <1>1, <1>2, <1>3, HeldNothing DEF FileCounted
<1> QED BY <1>4, <1>5 DEF Counters

LEMMA PersistanceAddCounters ==
  ASSUME Carried, CountersHaveRoom, Inv, Counters,
         NEW canonic \in Canonics, NEW value \in Values, PersistanceAdd(canonic, value)
  PROVE  Counters'
<1> DEFINE r == [canonic |-> canonic, value |-> value, time |-> clock]
<1>1. r \in Reading
  BY DEF Reading, Inv, TypeInv, TypeOK
<1>2. AddToDriver(r) \/ AddToMemory(r) \/ AddToFile(r)
  BY DEF PersistanceAdd
<1> HIDE DEF r
<1>3. /\ pc = "idle" /\ memSize = MemoryHeld(mem) /\ memSize <= memMax /\ fileSize <= fileMax
      /\ stream = "good" => InFile \in Seq(Reading) /\ fileSize = FileHeld(InFile)
  BY DEF PersistanceAdd, Counters, MemoryCounted, FileCounted
<1>4. memSize \in Nat /\ memMax \in Nat /\ fileSize \in Nat /\ fileMax \in Nat /\ Modulus \in Nat
  BY DEF Inv, TypeInv, TypeOK
<1>5. MemoryWeight(r) \in Nat /\ FileWeight(r) \in Nat /\ FileWeight(r) <= 2 * MemoryWeight(r)
  BY <1>1, WeightType
<1>6. CASE AddToDriver(r)
  <2>1. CASE NullCall
    BY <2>1, DieCounters DEF NullCall
  <2>2. CASE ~NullCall
    <3>1. UNCHANGED <<control, saved, wiring, memVars, fileVars, clock, seen, loss>>
      BY <1>6, <2>2, Zenon DEF AddToDriver
    <3>2. UNCHANGED <<pc, l1, l2, mem, memSize, memMax, file, at, stream, fileSize, fileMax>>
      BY <3>1 DEF control, wiring, memVars, fileVars
    <3>3. InFile' = InFile
      BY <3>2, SameInFile
    <3> QED BY <3>2, <3>3 DEF Counters, Room, MemoryCounted, FileCounted
  <2> QED BY <2>1, <2>2
<1>7. CASE AddToMemory(r)
  <2>1. /\ mem' = Append(mem, r) /\ memSize' = (memSize + ReadingSize(r) + SizeofTime) % Modulus
        /\ UNCHANGED <<l1, l2, file, at, stream, fileSize, fileMax, memMax>> /\ l1 = "memory"
        /\ pc' = IF memSize' > memMax THEN FlushFrom("add") ELSE "idle"
    BY <1>7 DEF AddToMemory, MemAdd, wiring, fileVars
  <2>2. fileMax + 2 * (memMax + MemoryWeight(r)) < Modulus
    BY <1>1, <2>1 DEF Counters, Room
  <2>3. memSize' = memSize + MemoryWeight(r)
    <3>1. memSize + MemoryWeight(r) < Modulus
      BY <1>3, <1>4, <1>5, <2>2
    <3>2. (memSize + MemoryWeight(r)) % Modulus = memSize + MemoryWeight(r)
      BY <1>4, <1>5, <3>1, NoWrap
    <3>3. memSize + ReadingSize(r) + SizeofTime = memSize + MemoryWeight(r)
      BY <1>1, <1>4, SizeType DEF MemoryWeight
    <3> QED BY <2>1, <3>2, <3>3
  <2>4. mem \in Seq(Reading) /\ Append(mem, r) \in Seq(Reading)
    BY <1>1, AppendProperties DEF Inv, TypeInv, TypeOK
  <2>5. memSize' = MemoryHeld(mem')
    BY <1>1, <1>3, <2>1, <2>3, <2>4, HeldMore
  <2>6. fileSize' + FileHeld(mem') < Modulus
    <3>1. /\ MemoryHeld(mem') \in Nat /\ FileHeld(mem') \in Nat
          /\ FileHeld(mem') <= 2 * MemoryHeld(mem')
      BY <2>1, <2>4, HeldType
    <3>2. MemoryHeld(mem') <= memMax + MemoryWeight(r) /\ fileSize' <= fileMax /\ fileSize' \in Nat
      BY <1>3, <1>4, <1>5, <2>1, <2>3, <2>5
    <3>3. FileHeld(mem') <= 2 * (memMax + MemoryWeight(r))
      BY <1>4, <1>5, <3>1, <3>2
    <3>4. fileSize' + FileHeld(mem') <= fileMax + 2 * (memMax + MemoryWeight(r))
      <4>1. 2 * (memMax + MemoryWeight(r)) \in Nat
        BY <1>4, <1>5
      <4> QED BY <1>4, <3>1, <3>2, <3>3, <4>1, BothAtMost
    <3>5. fileMax + 2 * (memMax + MemoryWeight(r)) \in Nat
      BY <1>4, <1>5
    <3>6. fileSize' + FileHeld(mem') \in Nat
      BY <3>1, <3>2
    <3> QED BY <1>4, <2>2, <3>4, <3>5, <3>6
  <2>7. /\ pc' \in {"idle", "fill", "drainMem"}
        /\ pc' = "idle" => memSize' <= memMax
    <3>1. FlushFrom("add") \in {"fill", "drainMem"}
      BY <2>1 DEF FlushFrom, Inv, TypeInv, TypeOK
    <3>2. memSize' \in Nat
      BY <1>4, <1>5, <2>3
    <3> QED BY <1>4, <2>1, <3>1, <3>2
  <2>8. InFile' = InFile
    BY <2>1, SameInFile
  <2>9. Room' /\ MemoryCounted'
    BY <2>1, <2>5, <2>7 DEF Counters, Room, MemoryCounted
  <2>10. FileCounted'
    BY <1>3, <2>1, <2>6, <2>7, <2>8 DEF FileCounted
  <2> QED BY <2>9, <2>10 DEF Counters
<1>8. CASE AddToFile(r)
  <2>1. /\ FileWrite(r) /\ UNCHANGED <<l1, l2, mem, memSize, memMax, clock>> /\ l1 = "file"
        /\ pc' = IF fileSize' > fileMax THEN FlushFrom("add") ELSE "idle"
    BY <1>8 DEF AddToFile, wiring, memVars
  <2>2. fileMax + 2 * (memMax + MemoryWeight(r)) < Modulus
    BY <1>1, <2>1 DEF Counters, Room
  <2>3. fileSize + FileWeight(r) < Modulus
    BY <1>3, <1>4, <1>5, <2>2
  <2>4. FileInUse
    BY <2>1 DEF FileInUse
  <2>5. /\ fileSize' = fileSize + FileWeight(r) /\ fileMax' = fileMax
        /\ stream' = "good" => InFile' \in Seq(Reading) /\ fileSize' = FileHeld(InFile')
    BY <1>1, <1>3, <2>1, <2>3, <2>4, FileWriteCounts
  <2>6. pc' \in {"idle", "drainFile"} /\ (pc' = "idle" => fileSize' <= fileMax)
    <3>1. FlushFrom("add") = "drainFile"
      BY <2>1 DEF FlushFrom
    <3>2. fileSize' \in Nat
      BY <1>4, <1>5, <2>5
    <3> QED BY <1>4, <2>1, <3>1, <3>2
  <2>7. Room' /\ MemoryCounted'
    BY <1>3, <2>1, <2>5 DEF Counters, Room, MemoryCounted
  <2>8. FileCounted'
    BY <2>5, <2>6 DEF FileCounted
  <2> QED BY <2>7, <2>8 DEF Counters
<1> QED BY <1>2, <1>6, <1>7, <1>8

LEMMA StartFlushCounters ==
  ASSUME Carried, CountersHaveRoom, Inv, Counters,
         NEW reason \in {"query", "configure", "exit"}, StartFlush(reason)
  PROVE  Counters'
<1>1. /\ UNCHANGED <<l1, l2, mem, memSize, memMax, file, at, stream, fileSize, fileMax>>
      /\ pc = "idle" /\ pc' = FlushFrom(reason)
  BY DEF StartFlush, wiring, memVars, fileVars
<1>2. InFile' = InFile
  BY <1>1, SameInFile
<1>3. Room' /\ MemoryCounted'
  BY <1>1 DEF Counters, Room, MemoryCounted
<1>4. ASSUME pc' = "fill" PROVE fileSize + FileHeld(mem) < Modulus
  <2>1. fileSize \in Nat /\ fileMax \in Nat /\ memMax \in Nat /\ fileSize < Modulus /\ Modulus \in Nat
    BY DEF Inv, TypeInv, TypeOK
  <2>2. mem \in Seq(Reading) /\ memSize = MemoryHeld(mem) /\ memSize <= memMax /\ fileSize <= fileMax
    BY <1>1 DEF Inv, TypeInv, TypeOK, Counters, MemoryCounted, FileCounted
  <2>3. CASE mem = <<>>
    BY <2>1, <2>3, HeldNothing
  <2>4. CASE mem # <<>>
    <3>1. PICK r \in Reading : TRUE
      BY <2>2, <2>4, HeadTailProperties
    <3>2. l1 # "none"
      BY <1>1, <1>4 DEF FlushFrom, After
    <3>3. fileMax + 2 * (memMax + MemoryWeight(r)) < Modulus /\ MemoryWeight(r) \in Nat
      BY <3>1, <3>2, WeightType DEF Counters, Room
    <3>4. FileHeld(mem) \in Nat /\ MemoryHeld(mem) \in Nat /\ FileHeld(mem) <= 2 * MemoryHeld(mem)
      BY <2>2, HeldType
    <3> QED BY <2>1, <2>2, <3>3, <3>4
  <2> QED BY <2>3, <2>4
<1>5. FileCounted'
  BY <1>1, <1>2, <1>4 DEF Counters, FileCounted
<1> QED BY <1>3, <1>5 DEF Counters

LEMMA AnswerCounters == Carried /\ Inv /\ Counters /\ Answer => Counters'
<1> SUFFICES ASSUME Carried, Inv, Counters, Answer PROVE Counters'
  OBVIOUS
<1>1. CASE NullCall
  BY <1>1, DieCounters DEF NullCall
<1>2. CASE ~NullCall
  <2>1. /\ UNCHANGED <<l1, l2, mem, memSize, memMax, file, at, stream, fileSize, fileMax>>
        /\ pc = "query" /\ pc' = "idle"
    BY <1>2 DEF Answer, wiring, memVars, fileVars
  <2>2. InFile' = InFile
    BY <2>1, SameInFile
  <2> QED BY <2>1, <2>2 DEF Counters, Room, MemoryCounted, FileCounted
<1> QED BY <1>1, <1>2

\* Settings whose limits leave room make caches with room.
LEMMA ConfigureCounters ==
  Carried /\ CountersHaveRoom /\ Inv /\ Configure => Counters'
<1> SUFFICES ASSUME Carried, CountersHaveRoom, Inv, Configure PROVE Counters'
  OBVIOUS
<1>1. PICK size \in SizesRead(request.mem), most \in SizesRead(request.file) :
        CreateMemory(size) /\ CreateFile(size, most)
  BY DEF Configure
<1>2. /\ pc' = "idle" /\ mem' = <<>> /\ memSize' = 0 /\ memMax' = Limit(size)
      /\ at' = 0 /\ fileSize' = 0 /\ fileMax' \in {0, Limit(most)}
      /\ file' = <<>> \/ ~FileInUse'
  BY <1>1 DEF Configure, CreateMemory, CreateFile, NoFile, FileAt, FileInUse, Limit
<1>3. request \in Configs
  BY DEF Configure, Inv, TypeInv
<1>4. size \in Int /\ most \in Int
  BY <1>1, <1>3 DEF SizesRead
<1>5. Limit(size) \in Nat /\ Limit(most) \in Nat
  <2> SUFFICES ASSUME NEW z \in Int PROVE Limit(z) \in Nat
    BY <1>4
  <2>1. CASE z > 0
    <3>1. z * Kilo \in Nat
      BY <2>1
    <3>2. \A n \in Nat : n % Modulus \in Nat
      OBVIOUS
    <3> QED BY <2>1, <3>1, <3>2 DEF Limit
  <2>2. CASE ~(z > 0)
    BY <2>2 DEF Limit
  <2> QED BY <2>1, <2>2
<1>6. Room'
  <2> SUFFICES ASSUME NEW r \in Reading PROVE fileMax' + 2 * (memMax' + MemoryWeight(r)) < Modulus
    BY DEF Room
  <2>1. Limit(most) + 2 * (Limit(size) + MemoryWeight(r)) < Modulus
    BY <1>1, <1>3 DEF CountersHaveRoom
  <2>2. MemoryWeight(r) \in Nat
    BY WeightType
  <2>3. 0 + 2 * (Limit(size) + MemoryWeight(r)) < Modulus
    BY <1>5, <2>1, <2>2
  <2> QED BY <1>2, <2>1, <2>3
<1>7. MemoryCounted'
  BY <1>2, <1>5, HeldNothing DEF MemoryCounted
<1>8. InFile' = <<>>
  <2>1. \A now : Unread(<<>>, 0, now) = <<>>
    BY UnreadEmpty
  <2> QED BY <1>2, <2>1 DEF InFile
<1>9. FileCounted'
  <2>1. <<>> \in Seq(Reading) /\ 0 <= fileMax'
    BY <1>2, <1>5
  <2> QED BY <1>2, <1>8, <2>1, HeldNothing DEF FileCounted
<1> QED BY <1>6, <1>7, <1>9 DEF Counters

LEMMA StartCounters == Carried /\ Inv /\ Counters /\ Start => Counters'
<1> SUFFICES ASSUME Carried, Inv, Counters, Start PROVE Counters'
  OBVIOUS
<1>1. /\ UNCHANGED <<l1, l2, mem, memSize, memMax, file, at, stream, fileSize, fileMax>>
      /\ pc \in {"off", "segv"} /\ pc' \in {"idle", "configure"}
  BY DEF Start, Running, wiring, memVars, fileVars
<1>2. InFile' = InFile
  BY <1>1, SameInFile
<1> QED BY <1>1, <1>2 DEF Counters, Room, MemoryCounted, FileCounted

LEMMA TickCounters ==
  Carried /\ Inv /\ Counters /\ (Tick \/ UNCHANGED vars) => Counters'
<1> SUFFICES ASSUME Carried, Inv, Counters, Tick \/ UNCHANGED vars PROVE Counters'
  OBVIOUS
<1>1. UNCHANGED <<pc, l1, l2, mem, memSize, memMax, file, at, stream, fileSize, fileMax>>
  BY DEF Tick, vars, control, wiring, memVars, fileVars
<1>2. InFile' = InFile
  BY <1>1, SameInFile
<1> QED BY <1>1, <1>2 DEF Counters, Room, MemoryCounted, FileCounted

LEMMA NextCounters ==
  Carried /\ CountersHaveRoom /\ Inv /\ Counters /\ [Next]_vars => Counters'
<1> SUFFICES ASSUME Carried, CountersHaveRoom, Inv, Counters, [Next]_vars PROVE Counters'
  OBVIOUS
<1>1. CASE Daemon
  BY <1>1, FillCounters, FillEndCounters, DrainMemCounters, DrainFileCounters,
     DrainFileEndCounters, AnswerCounters, ConfigureCounters, DieCounters
     DEF Daemon, ConfigureThrows, Exit
<1>2. ASSUME NEW canonic \in Canonics, NEW value \in Values, PersistanceAdd(canonic, value)
      PROVE  Counters'
  BY <1>2, PersistanceAddCounters
<1>3. ASSUME NEW c \in Configs, Reconfigure(c) PROVE Counters'
  BY <1>3, StartFlushCounters DEF Reconfigure
<1>4. CASE Query \/ Stop
  BY <1>4, StartFlushCounters DEF Query, Stop
<1>5. CASE Crash \/ Start
  BY <1>5, DieCounters, StartCounters DEF Crash
<1>6. CASE Tick \/ UNCHANGED vars
  BY <1>6, TickCounters
<1> QED BY <1>1, <1>2, <1>3, <1>4, <1>5, <1>6 DEF Next

LEMMA InitCounters == Init => Counters
<1> SUFFICES ASSUME Init PROVE Counters
  OBVIOUS
<1>1. /\ pc = "off" /\ l1 = "none" /\ l2 = "none" /\ mem = <<>> /\ memSize = 0 /\ memMax = 0
      /\ fileSize = 0 /\ fileMax = 0 /\ <<>> \in Seq(Reading)
  BY DEF Init
<1>2. InFile = <<>>
  BY <1>1 DEF InFile, FileInUse
<1> QED BY <1>1, <1>2, HeldNothing DEF Counters, Room, MemoryCounted, FileCounted

(***************************************************************************)
(* Between two messages the caches hold no more than they were configured  *)
(* for and their counters say what they hold, whatever was received,       *)
(* flushed, refused by the disk or reconfigured before, as long as the     *)
(* limits of every setting leave the counters room below 2^32.             *)
(***************************************************************************)
THEOREM WithinLimits == ASSUME Carried, CountersHaveRoom PROVE Spec => []CachesWithinLimits
<1>1. Init => Counters
  BY InitCounters
<1>2. Inv /\ Counters /\ [Next]_vars => Counters'
  BY NextCounters
<1>3. Counters => CachesWithinLimits
  BY DEF Counters, MemoryCounted, FileCounted, CachesWithinLimits
<1> QED BY <1>1, <1>2, <1>3, Invariant, PTL DEF Spec

-----------------------------------------------------------------------------
(***************************************************************************)
(* The daemon and its driver (Recording).  Every step of the composition   *)
(* is a step of the daemon or none, so what holds of the daemon holds      *)
(* here.                                                                   *)
(***************************************************************************)

LEMMA DaemonStep == [RecordingNext]_allVars => [Next]_vars
<1>1. CASE Within
  BY <1>1 DEF Within, Next, Daemon
<1>2. CASE Store
  BY <1>2 DEF Store, Next, Daemon
<1>3. CASE Request \/ Wire
  BY <1>3 DEF Request, Wire, Next, Daemon
<1>4. CASE Proceed \/ CloseDriver
  BY <1>4 DEF Proceed, CloseDriver, DiesWithDriver, Next
<1>5. CASE Construct \/ UNCHANGED allVars
  BY <1>5 DEF Construct, allVars
<1>6. CASE Process
  BY <1>6 DEF Process, Next, Daemon
<1>7. CASE World
  BY <1>7 DEF World, Next
<1>8. QED
  BY <1>1, <1>2, <1>3, <1>4, <1>5, <1>6, <1>7 DEF RecordingNext

(***************************************************************************)
(* The daemon with a SQLite driver below it is the daemon of Persistence:  *)
(* a driver that fails, or dies, is one of the ends Persistence allows.    *)
(***************************************************************************)
THEOREM RecordingIsDaemon == RecordingSpec => Spec
<1>1. RecordingInit => Init
  BY DEF RecordingInit
<1>2. QED
  BY <1>1, DaemonStep, PTL DEF RecordingSpec, Spec

-----------------------------------------------------------------------------
(* What the driver is doing *)

\* Only Configure constructs a driver, and only a constructor throws.
Attached ==
  /\ ~Running => driver = "null"
  /\ step \in {"connect", "execute", "disconnect", "throw"} /\ call.op = "create" => pc = "configure"
  /\ step = "throw" => call.op = "create"
  /\ step \in {"connect", "execute", "disconnect", "throw"}
       => call.op \in {"create", "select", "insert"}

\* A reading given to the driver is the last of those it was given.
LEMMA LastGiven ==
  ASSUME TypeInv, NEW r \in Record, offered' = Append(offered, r)
  PROVE  /\ offered' # offered /\ offered' \in Seq(Record)
         /\ Len(offered) \in Nat /\ Len(offered') = Len(offered) + 1
         /\ offered'[Len(offered')] = r /\ Last(offered') = r
         /\ \A i \in 1 .. Len(offered) : offered'[i] = offered[i]
<1>1. offered \in Seq(Record) /\ Len(offered) \in Nat
  BY LenProperties DEF TypeInv, TypeOK
<1>2. /\ offered' \in Seq(Record) /\ Len(offered') = Len(offered) + 1
      /\ offered'[Len(offered) + 1] = r
      /\ \A i \in 1 .. Len(offered) : offered'[i] = offered[i]
  BY <1>1, AppendProperties
<1>3. Len(offered') # Len(offered)
  BY <1>1, <1>2
<1>4. QED
  BY <1>1, <1>2, <1>3 DEF Last

\* A step of Store hands a reading over, goes through a null driver, or
\* leaves the reading in a cache.
LEMMA StoreCases ==
  ASSUME TypeInv, Store
  PROVE  /\ pc \in {"idle", "drainMem", "drainFile"}
         /\ \/ /\ driver = "open" /\ driver' = driver /\ pc' = pc
               /\ \E r \in Record : offered' = Append(offered, r)
            \/ driver = "null" /\ driver' = "null" /\ pc' = "segv" /\ offered' = offered
            \/ driver' = driver /\ pc' \in {"idle", "drainMem", "fill", "drainFile"} /\ offered' = offered
<1>1. CASE DrainMem
  <2>1. mem \in Seq(Record) /\ mem # <<>>
    BY <1>1, ReadingIsRecord, SeqMonotonic DEF DrainMem, TypeInv, TypeOK
  <2>2. Head(mem) \in Record
    BY <2>1, HeadTailProperties
  <2>3. QED
    BY <1>1, <2>2 DEF DrainMem, NullCall, Die, control, wiring
<1>2. CASE DrainFile
  <2>1. ReadBack(file, at, clock) \in Record
    BY <1>2, ReadBackType DEF DrainFile, TypeInv, TypeOK, Readable
  <2>2. QED
    BY <1>2, <2>1 DEF DrainFile, NullCall, Die, control, wiring
<1>3. ASSUME NEW canonic \in Canonics, NEW value \in Values, PersistanceAdd(canonic, value)
      PROVE  /\ pc \in {"idle", "drainMem", "drainFile"}
             /\ \/ /\ driver = "open" /\ driver' = driver /\ pc' = pc
                   /\ \E r \in Record : offered' = Append(offered, r)
                \/ driver = "null" /\ driver' = "null" /\ pc' = "segv" /\ offered' = offered
                \/ driver' = driver /\ pc' \in {"idle", "drainMem", "fill", "drainFile"} /\ offered' = offered
  <2> DEFINE r == [canonic |-> canonic, value |-> value, time |-> clock]
  <2>1. r \in Record
    BY ReadingIsRecord DEF Reading, TypeInv, TypeOK
  <2>2. pc = "idle" /\ (AddToDriver(r) \/ AddToMemory(r) \/ AddToFile(r))
    BY <1>3 DEF PersistanceAdd
  <2> HIDE DEF r
  <2>3. CASE AddToDriver(r)
    BY <2>1, <2>2, <2>3 DEF AddToDriver, NullCall, Die, control, wiring
  <2>4. CASE AddToMemory(r) \/ AddToFile(r)
    BY <2>2, <2>4 DEF AddToMemory, AddToFile, FlushFrom, After, wiring, TypeInv, TypeOK
  <2>5. QED
    BY <2>2, <2>3, <2>4
<1>4. QED
  BY <1>1, <1>2, <1>3 DEF Store

LEMMA CoupledInit == RecordingInit => Fits /\ Attached
<1> SUFFICES ASSUME RecordingInit PROVE Fits /\ Attached
  OBVIOUS
<1>1. pc = "off" /\ driver = "null" /\ step = "absent" /\ rebuilt = FALSE
  BY DEF RecordingInit, Init, Sqlite!Init
<1>2. QED
  BY <1>1 DEF Fits, Attached, Running

LEMMA CoupledWithin ==
  ASSUME TypeInv, Fits, Attached, Within
  PROVE  Fits' /\ Attached'
<1>1. UNCHANGED <<step, call, rebuilt, driver>> /\ step \in {"absent", "idle"}
  BY DEF Within, dbVars, DriverFree, Fill, FillEnd, DrainMemEnd, DrainFileEnd, Query, Stop,
     Reconfigure, StartFlush, wiring
<1>2. /\ pc \notin {"off", "segv", "configure"}
      /\ pc' \in {"idle", "fill", "drainMem", "drainFile", "query", "configure", "exit"}
  BY DEF Within, Fill, FillEnd, DrainMemEnd, DrainFileEnd, Query, Stop,
     Reconfigure, StartFlush, FlushFrom, After, control, TypeInv, TypeOK
<1>3. QED
  BY <1>1, <1>2 DEF Fits, Attached, Running

LEMMA CoupledStore ==
  ASSUME TypeInv, Fits, Attached, Store
  PROVE  Fits' /\ Attached'
<1>0. /\ DriverFree /\ rebuilt' = rebuilt /\ pc \in {"idle", "drainMem", "drainFile"}
  BY StoreCases DEF Store
<1>1. ~rebuilt /\ (driver = "open" <=> step # "absent")
  BY <1>0 DEF Fits, Running
<1>2. CASE driver = "open" /\ driver' = driver /\ pc' = pc /\ (\E r \in Record : offered' = Append(offered, r))
  <2>1. Sqlite!Write(Key(Last(offered')), Last(offered').value)
    BY <1>2, LastGiven DEF Store
  <2>2. step' \in {"connect", "execute"} /\ call'.op = "insert"
    BY <2>1 DEF Sqlite!Write, Sqlite!Begin
  <2>3. QED
    BY <1>0, <1>1, <1>2, <2>2 DEF Fits, Attached, Running
<1>3. CASE offered' = offered
  <2>1. UNCHANGED <<step, call>>
    BY <1>3 DEF Store, dbVars
  <2>2. step \in {"absent", "idle"}
    BY <1>0 DEF DriverFree
  <2>3. \/ driver = "null" /\ driver' = "null" /\ pc' = "segv"
        \/ driver' = driver /\ pc' \in {"idle", "drainMem", "fill", "drainFile"}
    BY <1>3, StoreCases, LastGiven
  <2>4. QED
    BY <1>0, <1>1, <2>1, <2>2, <2>3 DEF Fits, Attached, Running
<1>4. QED
  BY <1>2, <1>3, StoreCases

LEMMA CoupledRequest ==
  ASSUME TypeInv, Fits, Attached, Request
  PROVE  Fits' /\ Attached'
<1>0. DriverFree /\ Answer /\ rebuilt' = rebuilt /\ pc = "query"
  BY DEF Request, Answer
<1>1. ~rebuilt /\ (driver = "open" <=> step # "absent")
  BY <1>0 DEF Fits, Running
<1>2. CASE driver = "open"
  <2>1. step' = "connect" /\ call'.op = "select"
    BY <1>2 DEF Request, Sqlite!Request, Sqlite!Begin
  <2>2. pc' = "idle" /\ driver' = driver
    BY <1>0, <1>2 DEF Answer, NullCall, wiring
  <2>3. QED
    BY <1>0, <1>1, <1>2, <2>1, <2>2 DEF Fits, Attached, Running
<1>3. CASE driver # "open"
  <2>1. UNCHANGED <<step, call>> /\ step \in {"absent", "idle"}
    BY <1>0, <1>3 DEF Request, dbVars, DriverFree
  <2>2. pc' = "segv" /\ driver' = "null"
    BY <1>0, <1>3 DEF Answer, NullCall, Die
  <2>3. QED
    BY <1>0, <1>1, <1>3, <2>1, <2>2 DEF Fits, Attached, Running
<1>4. QED
  BY <1>2, <1>3

\* How a call of the driver moves on.
LEMMA ProceedSteps ==
  ASSUME Fits, Attached, Proceed
  PROVE  /\ step \in {"connect", "execute", "disconnect", "throw"}
         /\ call' = call \/ step' \in {"idle", "absent", "segv"}
         /\ step = "throw" => step' = "absent"
         /\ step # "throw" => step' \in {"connect", "execute", "disconnect", "throw", "idle", "segv"}
         /\ step' \in {"throw", "absent"} => call.op = "create"
         /\ step \in {"connect", "execute"} /\ call.op = "insert" => step' \in {"execute", "idle"}
         /\ step' \in {"connect", "execute"} => step = "connect"
         /\ step' = "segv" => step = "disconnect" \/ (call.op = "select" /\ rows' = Unknown)
<1>1. CASE Sqlite!Dial
  BY <1>1 DEF Sqlite!Dial, Sqlite!Step, Attached
<1>2. CASE Sqlite!Execute
  <2>1. step = "execute" /\ call.op \in {"create", "select", "insert"} /\ step' \in Sqlite!Result
        /\ (call' = call \/ step' \in {"idle", "absent", "segv"})
    BY <1>2 DEF Sqlite!Execute, Sqlite!Step, Attached
  <2>2. CASE call.op = "insert"
    BY <2>1, <2>2 DEF Sqlite!Result
  <2>3. CASE call.op = "create"
    BY <2>1, <2>3 DEF Sqlite!Result
  <2>4. CASE call.op = "select"
    BY <2>1, <2>4 DEF Sqlite!Result
  <2>5. QED
    BY <2>1, <2>2, <2>3, <2>4
<1>3. CASE Sqlite!End \/ Sqlite!Throw
  BY <1>3 DEF Sqlite!End, Sqlite!Throw, Sqlite!Step, Attached
<1>4. QED
  BY <1>1, <1>2, <1>3 DEF Proceed

LEMMA CoupledProceed ==
  ASSUME TypeInv, Fits, Attached, Proceed
  PROVE  Fits' /\ Attached'
<1>1. CASE step' = "segv"
  <2>1. rebuilt' = FALSE /\ pc' = "off" /\ driver' = "null"
    BY <1>1, ProceedSteps DEF Proceed, DiesWithDriver, Crash, Die
  <2>2. QED
    BY <1>1, <2>1 DEF Fits, Attached, Running
<1>2. CASE step' # "segv"
  <2>1. UNCHANGED <<pc, driver, rebuilt>>
    BY <1>2 DEF Proceed, DiesWithDriver, vars, control, wiring
  <2>2. Running
    BY ProceedSteps DEF Fits
  <2>3. step' \in {"throw", "absent"} => pc = "configure"
    BY ProceedSteps DEF Attached
  <2>4. Fits'
    BY <1>2, <2>1, <2>2, <2>3, ProceedSteps DEF Fits, Running
  <2>5. Attached'
    BY <1>2, <2>1, <2>2, <2>3, ProceedSteps DEF Attached, Running
  <2>6. QED
    BY <2>4, <2>5
<1>3. QED
  BY <1>1, <1>2

LEMMA CoupledConfigure ==
  ASSUME TypeInv, Fits, Attached, CloseDriver \/ Construct \/ Wire
  PROVE  Fits' /\ Attached'
<1>0. pc = "configure"
  BY DEF CloseDriver, Construct, Wire
<1>1. CASE CloseDriver
  <2>1. step' \in {"absent", "segv"}
    BY <1>1 DEF CloseDriver, Sqlite!Destroy
  <2>2. CASE step' = "segv"
    <3>1. rebuilt' = FALSE /\ pc' = "off" /\ driver' = "null"
      BY <1>1, <2>2 DEF CloseDriver, DiesWithDriver, Crash, Die
    <3>2. QED
      BY <2>1, <2>2, <3>1 DEF Fits, Attached, Running
  <2>3. CASE step' = "absent"
    <3>1. UNCHANGED <<pc, driver, rebuilt>>
      BY <1>1, <2>3 DEF CloseDriver, DiesWithDriver, vars, control, wiring
    <3>2. QED
      BY <1>0, <2>1, <2>3, <3>1 DEF Fits, Attached, Running
  <2>4. QED
    BY <2>1, <2>2, <2>3
<1>2. CASE Construct
  <2>1. step' = "connect" /\ call'.op = "create" /\ UNCHANGED <<pc, driver>>
    BY <1>2 DEF Construct, Sqlite!Create, Sqlite!Begin, vars, control, wiring
  <2>2. QED
    BY <1>0, <2>1 DEF Fits, Attached, Running
<1>3. CASE Wire
  <2>1. /\ step \in {"absent", "idle"} /\ UNCHANGED <<step, call>> /\ rebuilt' = FALSE
        /\ pc' = "idle" /\ driver' = IF step = "idle" THEN "open" ELSE "null"
    BY <1>3 DEF Wire, DriverFree, Configure, dbVars
  <2>2. QED
    BY <2>1 DEF Fits, Attached, Running
<1>4. QED
  BY <1>1, <1>2, <1>3

LEMMA CoupledProcess ==
  ASSUME TypeInv, Fits, Attached, Process
  PROVE  Fits' /\ Attached'
<1>1. step' = "absent" /\ rebuilt' = FALSE
  BY DEF Process, Gone
<1>2. \/ pc' = "off" /\ driver' = "null"
      \/ ~Running /\ pc' \in {"idle", "configure"} /\ driver' = driver
  BY DEF Process, Crash, Exit, Start, Die, wiring
<1>3. QED
  BY <1>1, <1>2 DEF Fits, Attached, Running

LEMMA CoupledStep == TypeInv /\ Fits /\ Attached /\ [RecordingNext]_allVars => Fits' /\ Attached'
<1> SUFFICES ASSUME TypeInv, Fits, Attached, [RecordingNext]_allVars PROVE Fits' /\ Attached'
  OBVIOUS
<1>1. CASE World \/ UNCHANGED allVars
  <2>1. UNCHANGED <<pc, driver, step, call, rebuilt>>
    BY <1>1 DEF World, Sqlite!FileChanges, Sqlite!running, Tick, allVars, vars, control, wiring, dbVars
  <2>2. QED
    BY <2>1 DEF Fits, Attached, Running
<1>2. QED
  BY <1>1, CoupledWithin, CoupledStore, CoupledRequest, CoupledProceed, CoupledConfigure, CoupledProcess
     DEF RecordingNext

LEMMA RecordingTypes == RecordingSpec => []TypeInv
  BY RecordingIsDaemon, TypeInvariant, PTL

LEMMA CouplingHolds == RecordingSpec => [](Fits /\ Attached)
  BY CoupledInit, CoupledStep, RecordingTypes, PTL DEF RecordingSpec

\* An insertion opens the file itself and closes it; what is read is open; a
\* Connect never finds a live handle, and a handle that is closed is one that
\* could not be opened.
Handles ==
  /\ step \in {"idle", "absent"} => ~opened
  /\ step \in {"idle", "absent", "connect"} => handle # "live"
  /\ leaked \subseteq {"throw"}
  /\ handle = "closed" => unopened
  /\ step = "connect" /\ call.op = "insert" => closing
  /\ step = "execute" => handle = "live" /\ (call.op = "insert" => closing)
  /\ step = "disconnect" => call.op # "insert"
  /\ served => database = "free"

LEMMA HandlesStep == Fits /\ Attached /\ Handles /\ [RecordingNext]_allVars => Handles'
<1> SUFFICES ASSUME Fits, Attached, Handles, [RecordingNext]_allVars PROVE Handles'
  OBVIOUS
<1>1. CASE UNCHANGED dbVars
  BY <1>1 DEF dbVars, Handles
<1>2. ASSUME NEW k, NEW v, Sqlite!Write(k, v) PROVE Handles'
  BY <1>2 DEF Sqlite!Write, Sqlite!Begin, Sqlite!driver, Handles
<1>3. CASE Sqlite!Create \/ Sqlite!Request
  <2>1. /\ step' = "connect" /\ call'.op \in {"create", "select"}
        /\ served' = (database = "free") /\ UNCHANGED <<database, handle, leaked, unopened>>
        /\ step \in {"absent", "idle"}
    BY <1>3 DEF Sqlite!Create, Sqlite!Request, Sqlite!Begin, Sqlite!driver
  <2>2. QED
    BY <2>1 DEF Handles
<1>4. CASE Sqlite!Dial
  <2> DEFINE openable == database # "unopenable"
  <2>1. /\ UNCHANGED <<database, leaked>> /\ call.op \in {"create", "select", "insert"}
        /\ served' => served
        /\ step' = "execute" <=> openable
        /\ step' \in {"execute", "connect", "disconnect", "idle", "throw"}
        /\ step' # "idle" => call' = call
        /\ step' \in {"connect", "disconnect"} => call.op = "select"
        /\ handle' = (IF openable THEN "live" ELSE "closed")
        /\ (opened' <=> openable) /\ (unopened' <=> ~openable)
        /\ call.op = "insert" /\ step' # "idle" => closing'
    BY <1>4 DEF Sqlite!Dial, Sqlite!Connect, Sqlite!Openable, Sqlite!Lose, Sqlite!Step, Attached, Handles
  <2> HIDE DEF openable
  <2>2. QED
    BY <2>1 DEF Handles
<1>5. CASE Sqlite!Execute
  <2>1. /\ step = "execute" /\ call.op \in {"create", "select", "insert"} /\ handle = "live"
        /\ step' \in {"idle", "throw", "disconnect", "segv"}
        /\ step' = "disconnect" => call.op # "insert"
        /\ step' = "idle" => call.op = "insert" /\ closing
    BY <1>5 DEF Sqlite!Execute, Sqlite!Result, Attached, Handles
  <2>2. /\ UNCHANGED <<database, leaked>> /\ (served' => served)
        /\ step' \in {"throw", "disconnect"} => call' = call
        /\ closing => handle' = "null" /\ opened' = FALSE
        /\ handle' \in {handle, "null"}
    BY <1>5, <2>1 DEF Sqlite!Execute, Sqlite!Disconnect, Sqlite!Step, Sqlite!driver
  <2>3. QED
    BY <2>1, <2>2 DEF Handles
<1>6. CASE Sqlite!End \/ Sqlite!Throw \/ Sqlite!Destroy
  <2>1. /\ handle' = "null" /\ opened' = FALSE /\ step' \in {"idle", "absent", "segv"}
        /\ served' = FALSE /\ leaked' \subseteq {"throw"}
    BY <1>6 DEF Sqlite!End, Sqlite!Throw, Sqlite!Destroy, Sqlite!Disconnect, Sqlite!Step, Sqlite!Lose, Handles
  <2>2. QED
    BY <2>1 DEF Handles
<1>7. CASE Sqlite!FileChanges
  BY <1>7 DEF Sqlite!FileChanges, Sqlite!running, Sqlite!driver, Handles
<1>8. CASE Gone
  BY <1>8 DEF Gone, Handles
<1>9. QED
  BY <1>1, <1>2, <1>3, <1>4, <1>5, <1>6, <1>7, <1>8 DEF RecordingNext, allVars,
     Within, Store, Request, Proceed, CloseDriver, Construct, Wire, Process, World

LEMMA HandlesHold == RecordingSpec => []Handles
<1>1. RecordingInit => Handles
  BY DEF RecordingInit, Sqlite!Init, Handles
<1>2. QED
  BY <1>1, HandlesStep, CouplingHolds, PTL DEF RecordingSpec

(***************************************************************************)
(* The driver and the daemon never lose step: the daemon waits for the     *)
(* call it made, a driver is there exactly when the daemon holds one, and  *)
(* neither outlives the process; between two calls the driver has no file  *)
(* open, and only a constructor that threw has left one open.              *)
(***************************************************************************)
THEOREM DriverCoupled == RecordingSpec => []Coupled
<1>1. Fits /\ Handles => Coupled
  BY DEF Coupled, Sqlite!ClosedBetweenCalls, Handles
<1>2. QED
  BY <1>1, CouplingHolds, HandlesHold, PTL

(***************************************************************************)
(* No order of calls closes a handle twice that has been opened: a         *)
(* Disconnect kills the process only after a sqlite3_open that failed.     *)
(***************************************************************************)
THEOREM DoubleCloses == RecordingSpec => DiesOnlyUnopened
<1>1. ASSUME Fits, Attached, Handles, [RecordingNext]_allVars, step # "segv", step' = "segv"
      PROVE  unopened \/ rows' = Unknown
  <2>1. CASE Proceed
    <3>1. CASE step = "disconnect"
      BY <1>1, <2>1, <3>1 DEF Proceed, Sqlite!Dial, Sqlite!Execute, Sqlite!End, Sqlite!Throw, Handles
    <3>2. CASE step # "disconnect"
      BY <1>1, <2>1, <3>2, ProceedSteps
    <3>3. QED
      BY <3>1, <3>2
  <2>2. CASE CloseDriver
    BY <1>1, <2>2 DEF CloseDriver, Sqlite!Destroy, Handles
  <2>3. CASE Store \/ Request \/ Construct
    BY <1>1, <2>3 DEF Store, Request, Construct, Sqlite!Write, Sqlite!Request, Sqlite!Create, Sqlite!Begin, dbVars
  <2>4. CASE Within \/ Wire \/ Process \/ World \/ UNCHANGED allVars
    BY <1>1, <2>4 DEF Within, Wire, Process, Gone, World, Sqlite!FileChanges, Sqlite!running, allVars, dbVars
  <2>5. QED
    BY <1>1, <2>1, <2>2, <2>3, <2>4 DEF RecordingNext
<1>2. UNCHANGED allVars => UNCHANGED Sqlite!vars
  BY DEF allVars, dbVars, Sqlite!vars, Sqlite!running, Sqlite!driver
<1>3. ASSUME Fits /\ Attached, Handles, [RecordingNext]_allVars
      PROVE  [step # "segv" /\ step' = "segv" => unopened \/ rows' = Unknown]_(Sqlite!vars)
  BY <1>1, <1>3
<1>4. QED
  BY <1>3, CouplingHolds, HandlesHold, PTL DEF RecordingSpec, DiesOnlyUnopened, Sqlite!DiesOnlyUnopened

-----------------------------------------------------------------------------
(***************************************************************************)
(* What the table holds.  Between two insertions it holds the readings     *)
(* offered (Linked); while one runs, all but the last, which is the one    *)
(* being inserted.                                                         *)
(***************************************************************************)

\* HoldsFirst of a table and hindered keys, for the first n readings of s.
HoldsUpTo(table, missed, s, n) ==
  /\ DOMAIN table \subseteq {Key(s[i]) : i \in 1 .. n}
  /\ \A i \in 1 .. n : Key(s[i]) \notin missed =>
       /\ Key(s[i]) \in DOMAIN table
       /\ (\A j \in 1 .. i - 1 : Key(s[j]) # Key(s[i])) => table[Key(s[i])] = s[i].value

Linked ==
  loss = "none" /\ rows # Unknown =>
    IF Inserting
      THEN /\ Len(offered) \in Nat \ {0}
           /\ call.key = Key(Last(offered)) /\ call.value = Last(offered).value
           /\ HoldsUpTo(rows, hindered, offered, Len(offered) - 1)
      ELSE HoldsUpTo(rows, hindered, offered, Len(offered))

\* A query is executed when everything received has been offered.
Requested ==
  step \in {"connect", "execute", "disconnect"} /\ call.op = "select" /\ loss = "none"
    => offered = received

LEMMA HoldsAll ==
  ASSUME TypeInv
  PROVE  HoldsUpTo(rows, hindered, offered, Len(offered)) <=> HoldsFirst(offered)
<1>1. DOMAIN offered = 1 .. Len(offered)
  BY LenProperties DEF TypeInv, TypeOK
<1>2. QED
  BY <1>1 DEF HoldsUpTo, HoldsFirst

\* One more reading in the sequence changes nothing for those before it.
LEMMA HoldsFewer ==
  ASSUME NEW table, NEW missed, NEW s, NEW t, NEW n \in Nat, \A i \in 1 .. n : t[i] = s[i],
         HoldsUpTo(table, missed, s, n)
  PROVE  HoldsUpTo(table, missed, t, n)
<1>1. {Key(t[i]) : i \in 1 .. n} = {Key(s[i]) : i \in 1 .. n}
  OBVIOUS
<1>2. ASSUME NEW i \in 1 .. n, Key(t[i]) \notin missed
      PROVE  /\ Key(t[i]) \in DOMAIN table
             /\ (\A j \in 1 .. i - 1 : Key(t[j]) # Key(t[i])) => table[Key(t[i])] = t[i].value
  <2>1. \A j \in 1 .. i - 1 : j \in 1 .. n
    OBVIOUS
  <2>2. t[i] = s[i] /\ \A j \in 1 .. i - 1 : t[j] = s[j]
    BY <2>1
  <2>3. QED
    BY <1>2, <2>2 DEF HoldsUpTo
<1>3. QED
  BY <1>1, <1>2 DEF HoldsUpTo

\* The row of a reading joins those of the readings before it; or there is
\* one of its device and second already, or its insertion was hindered.
LEMMA HoldsOneMore ==
  ASSUME NEW table, NEW missed, NEW s, NEW n \in Nat \ {0}, HoldsUpTo(table, missed, s, n - 1),
         NEW k, k = Key(s[n]), NEW v, v = s[n].value, NEW new, NEW lost, missed \subseteq lost,
         \/ (k \in DOMAIN table \/ k \in lost) /\ new = table
         \/ /\ k \notin DOMAIN table
            /\ new = [x \in DOMAIN table \cup {k} |-> IF x = k THEN v ELSE table[x]]
  PROVE  HoldsUpTo(new, lost, s, n)
<1>1. \A i \in 1 .. n : i = n \/ i \in 1 .. n - 1
  OBVIOUS
<1>2. n \in 1 .. n /\ \A i \in 1 .. n - 1 : i \in 1 .. n
  OBVIOUS
<1>3. {Key(s[i]) : i \in 1 .. n} = {Key(s[i]) : i \in 1 .. n - 1} \cup {k}
  BY <1>1, <1>2
<1>4. /\ DOMAIN table \subseteq DOMAIN new /\ DOMAIN new \subseteq DOMAIN table \cup {k}
      /\ \A x \in DOMAIN table : new[x] = table[x]
  OBVIOUS
<1>5. ASSUME NEW i \in 1 .. n, Key(s[i]) \notin lost
      PROVE  /\ Key(s[i]) \in DOMAIN new
             /\ (\A j \in 1 .. i - 1 : Key(s[j]) # Key(s[i])) => new[Key(s[i])] = s[i].value
  <2>1. CASE i \in 1 .. n - 1
    <3>1. /\ Key(s[i]) \in DOMAIN table
          /\ (\A j \in 1 .. i - 1 : Key(s[j]) # Key(s[i])) => table[Key(s[i])] = s[i].value
      BY <1>5, <2>1 DEF HoldsUpTo
    <3>2. QED
      BY <1>4, <3>1
  <2>2. CASE i = n
    <3>1. k \in DOMAIN new
      BY <1>4, <1>5, <2>2
    <3>2. (\A j \in 1 .. i - 1 : Key(s[j]) # Key(s[i])) => k \notin DOMAIN table
      BY <2>2 DEF HoldsUpTo
    <3>3. k \notin DOMAIN table => new[k] = v
      BY <1>5, <2>2
    <3>4. QED
      BY <2>2, <3>1, <3>2, <3>3
  <2>3. QED
    BY <1>1, <2>1, <2>2
<1>6. QED
  BY <1>3, <1>4, <1>5 DEF HoldsUpTo

LEMMA LinkedInit == RecordingInit => Linked /\ Requested
<1> SUFFICES ASSUME RecordingInit PROVE Linked /\ Requested
  OBVIOUS
<1>1. offered = <<>> /\ rows = <<>> /\ step = "absent"
  BY DEF RecordingInit, Init, Sqlite!Init
<1>2. Len(offered) = 0 /\ DOMAIN rows = {} /\ 1 .. 0 = {}
  BY <1>1
<1>3. HoldsUpTo(rows, hindered, offered, Len(offered))
  BY <1>2 DEF HoldsUpTo
<1>4. QED
  BY <1>1, <1>3 DEF Linked, Inserting, Requested

\* What moves neither the driver's call, nor the table, nor what was offered.
LEMMA LinkedAlone ==
  ASSUME Linked, UNCHANGED <<rows, offered, hindered>>, loss' = "none" => loss = "none",
         \/ UNCHANGED <<step, call>>
         \/ ~Inserting /\ ~Inserting'
  PROVE  Linked'
<1>1. CASE Inserting /\ UNCHANGED <<step, call>>
  <2>1. Inserting'
    BY <1>1 DEF Inserting
  <2>2. QED
    BY <1>1, <2>1 DEF Linked
<1>2. CASE ~Inserting /\ ~Inserting'
  BY <1>2 DEF Linked
<1>3. QED
  BY <1>1, <1>2 DEF Inserting

LEMMA LinkedStore ==
  ASSUME TypeInv, Linked, Store, loss' = "none" => loss = "none"
  PROVE  Linked'
<1>0. ~Inserting /\ hindered' = hindered
  BY DEF Store, DriverFree, Inserting
<1>1. CASE offered' = offered
  BY <1>1, LinkedAlone DEF Store, dbVars
<1>2. ASSUME NEW r \in Record, offered' = Append(offered, r) PROVE Linked'
  <2>1. /\ Len(offered) \in Nat /\ Len(offered') = Len(offered) + 1
        /\ \A i \in 1 .. Len(offered) : offered'[i] = offered[i]
        /\ offered' # offered
    BY <1>2, LastGiven
  <2>2. Sqlite!Write(Key(Last(offered')), Last(offered').value)
    BY <2>1 DEF Store
  <2>3. /\ step' \in {"connect", "execute"} /\ call'.op = "insert" /\ rows' = rows
        /\ call'.key = Key(Last(offered')) /\ call'.value = Last(offered').value
    BY <2>2 DEF Sqlite!Write, Sqlite!Begin
  <2>4. Inserting'
    BY <2>3 DEF Inserting
  <2>5. ASSUME loss' = "none", rows' # Unknown
        PROVE  HoldsUpTo(rows', hindered', offered', Len(offered') - 1)
    <3>1. HoldsUpTo(rows, hindered, offered, Len(offered))
      BY <1>0, <2>3, <2>5 DEF Linked
    <3>2. Len(offered') - 1 = Len(offered)
      BY <2>1
    <3>3. HoldsUpTo(rows, hindered, offered', Len(offered))
      BY ONLY <2>1, <3>1, HoldsFewer
    <3>4. QED
      BY <1>0, <2>3, <3>2, <3>3
  <2>6. QED
    BY <2>1, <2>3, <2>4, <2>5 DEF Linked
<1>3. QED
  BY <1>1, <1>2, StoreCases

\* What the end of an insertion leaves: a row for its key, or the key is
\* one of those the file hindered; unless a text has said something else.
LEMMA InsertionEnds ==
  ASSUME Attached, Handles, Inserting, Proceed, step' = "idle", rows' # Unknown
  PROVE  rows # Unknown /\
         \/ (call.key \in DOMAIN rows \/ call.key \in hindered') /\ rows' = rows
         \/ call.key \notin DOMAIN rows /\ rows' = Sqlite!Table!WithRow(call.key, call.value)
<1>1. /\ Sqlite!InsertEnds /\ call.op = "insert"
      /\ hindered' = IF ~served THEN hindered \cup {call.key} ELSE hindered
  BY DEF Proceed, Inserting, Sqlite!InsertEnds
<1>2. CASE Sqlite!Dial
  <2>1. rows' = rows /\ ~Sqlite!Openable
    BY <1>1, <1>2 DEF Sqlite!Dial
  <2>2. ~served
    BY <2>1 DEF Handles, Sqlite!Openable
  <2>3. QED
    BY <1>1, <2>1, <2>2
<1>3. CASE Sqlite!Execute
  <2>1. /\ rows' = IF Sqlite!Executed /\ call.key \notin DOMAIN rows
                   THEN Sqlite!Table!WithRow(call.key, call.value) ELSE rows
        /\ rows # Unknown
    BY <1>1, <1>3 DEF Sqlite!Execute, Sqlite!Effect, Sqlite!Insert
  <2>2. served => Sqlite!Executed
    BY <1>3 DEF Handles, Sqlite!Execute, Sqlite!Executed
  <2>3. QED
    BY <1>1, <2>1, <2>2
<1>4. QED
  BY <1>2, <1>3 DEF Proceed, Inserting, Sqlite!End, Sqlite!Throw

LEMMA LinkedProceed ==
  ASSUME TypeInv, Fits, Attached, Handles, Linked, Proceed, loss' = "none" => loss = "none"
  PROVE  Linked'
<1>0. offered' = offered /\ (call' = call \/ step' \in {"idle", "absent", "segv"})
  BY ProceedSteps DEF Proceed, DiesWithDriver, Crash, vars, history
<1>1. CASE ~Inserting
  <2>1. rows' = rows \/ rows' = Unknown
    BY <1>1 DEF Proceed, Sqlite!Dial, Sqlite!Execute, Sqlite!Effect, Sqlite!Insert, Sqlite!End,
       Sqlite!Throw, Inserting
  <2>2. ~Inserting'
    BY <1>0, <1>1, ProceedSteps DEF Inserting
  <2>3. ~Sqlite!InsertEnds
    BY <1>1, ProceedSteps DEF Sqlite!InsertEnds, Inserting, Handles, Attached
  <2>4. hindered' = hindered
    BY <2>3 DEF Proceed
  <2>5. QED
    BY <1>0, <1>1, <2>1, <2>2, <2>4 DEF Linked
<1>2. CASE Inserting /\ step' # "idle"
  <2>1. Sqlite!Dial
    BY <1>2 DEF Proceed, Sqlite!Execute, Sqlite!Result, Sqlite!End, Sqlite!Throw, Inserting
  <2>2. rows' = rows /\ call' = call /\ Inserting'
    <3>1. step' = "execute" /\ call.op = "insert"
      BY <1>2, ProceedSteps DEF Inserting
    <3>2. call' = call
      BY <1>0, <3>1
    <3>3. QED
      BY <2>1, <3>1, <3>2 DEF Sqlite!Dial, Inserting
  <2>3. hindered' = hindered
    BY <1>2 DEF Proceed, Sqlite!InsertEnds
  <2>4. QED
    BY <1>0, <1>2, <2>2, <2>3 DEF Linked
<1>3. CASE Inserting /\ step' = "idle"
  <2>1. ~Inserting'
    BY <1>3 DEF Inserting
  <2>2. ASSUME loss' = "none", rows' # Unknown
        PROVE  HoldsUpTo(rows', hindered', offered', Len(offered'))
    <3>0. rows # Unknown
      BY <1>3, <2>2, InsertionEnds
    <3>1. \/ (call.key \in DOMAIN rows \/ call.key \in hindered') /\ rows' = rows
          \/ call.key \notin DOMAIN rows /\ rows' = Sqlite!Table!WithRow(call.key, call.value)
      BY <1>3, <2>2, InsertionEnds
    <3>2. hindered \subseteq hindered'
      BY DEF Proceed
    <3>3. /\ Len(offered) \in Nat \ {0} /\ HoldsUpTo(rows, hindered, offered, Len(offered) - 1)
          /\ call.key = Key(offered[Len(offered)]) /\ call.value = offered[Len(offered)].value
      BY <1>0, <1>3, <2>2, <3>0 DEF Linked, Last
    <3>4. PICK table, new, missed, lost, s, n, k, v :
             /\ table = rows /\ new = rows' /\ missed = hindered /\ lost = hindered'
             /\ s = offered /\ n = Len(offered) /\ k = call.key /\ v = call.value
      OBVIOUS
    <3>5. \/ (k \in DOMAIN table \/ k \in lost) /\ new = table
          \/ /\ k \notin DOMAIN table
             /\ new = [x \in DOMAIN table \cup {k} |-> IF x = k THEN v ELSE table[x]]
      BY <3>1, <3>4 DEF Sqlite!Table!WithRow
    <3>6. /\ n \in Nat \ {0} /\ HoldsUpTo(table, missed, s, n - 1) /\ missed \subseteq lost
          /\ k = Key(s[n]) /\ v = s[n].value
      BY <3>2, <3>3, <3>4
    <3>7. HoldsUpTo(new, lost, s, n)
      BY ONLY <3>5, <3>6, HoldsOneMore
    <3>8. QED
      BY <1>0, <3>4, <3>7
  <2>3. QED
    BY <2>1, <2>2 DEF Linked
<1>4. QED
  BY <1>1, <1>2, <1>3

LEMMA LinkedStep ==
  TypeInv /\ Fits /\ Attached /\ Handles /\ Linked /\ [RecordingNext]_allVars => Linked'
<1> SUFFICES ASSUME TypeInv, Fits, Attached, Handles, Linked, [RecordingNext]_allVars PROVE Linked'
  OBVIOUS
<1>0. loss' = "none" => loss = "none"
  BY DaemonStep, LossStays
<1>1. CASE Within \/ World \/ UNCHANGED allVars
  <2>1. UNCHANGED <<step, call, rows, offered, hindered>>
    BY <1>1 DEF Within, World, Fill, FillEnd, DrainMemEnd, DrainFileEnd, Query, Stop, Reconfigure,
       StartFlush, Tick, Sqlite!FileChanges, Sqlite!running, allVars, vars, history, dbVars
  <2>2. QED
    BY <1>0, <2>1, LinkedAlone
<1>2. CASE Store
  BY <1>0, <1>2, LinkedStore
<1>3. CASE Proceed
  BY <1>0, <1>3, LinkedProceed
<1>4. CASE Request \/ CloseDriver \/ Construct \/ Wire
  <2>1. UNCHANGED <<rows, offered, hindered>>
    BY <1>4 DEF Request, CloseDriver, DiesWithDriver, Crash, Construct, Wire, Answer, NullCall, Configure,
       Sqlite!Request, Sqlite!Destroy, Sqlite!Create, Sqlite!Begin, vars, history, dbVars
  <2>2. ~Inserting /\ ~Inserting'
    BY <1>4 DEF Request, CloseDriver, Construct, Wire, Sqlite!Request, Sqlite!Destroy, Sqlite!Create,
       Sqlite!Begin, DriverFree, Inserting, dbVars
  <2>3. QED
    BY <1>0, <2>1, <2>2, LinkedAlone
<1>5. CASE Process
  <2>1. UNCHANGED <<rows, offered, hindered>> /\ ~Inserting'
    BY <1>5 DEF Process, Gone, Crash, Exit, Start, history, Inserting
  <2>2. CASE ~Inserting
    BY <1>0, <2>1, <2>2, LinkedAlone
  <2>3. CASE Crash
    BY <2>3 DEF Crash, Linked
  <2>4. QED
    BY <1>5, <2>2, <2>3 DEF Process, Start, DriverFree, Inserting, Fits
<1>6. QED
  BY <1>1, <1>2, <1>3, <1>4, <1>5 DEF RecordingNext

(***************************************************************************)
(* No reading of those the driver was given is missing from the table,     *)
(* whatever happened, unless a crash or a full disk took it or the file    *)
(* could not be written when it was inserted; where two share a device and *)
(* a second, the first one stays.  This holds until a statement has said   *)
(* something else than was meant, for a quote in one of its texts.         *)
(***************************************************************************)
THEOREM ReadingsRecorded == RecordingSpec => []Recorded
<1>1. TypeInv /\ Linked => Recorded
  BY HoldsAll DEF Linked, Recorded
<1>2. QED
  BY <1>1, LinkedInit, LinkedStep, CouplingHolds, HandlesHold, RecordingTypes, PTL DEF RecordingSpec

LEMMA RequestedStep ==
  ASSUME Carried, Inv, QuerySeesEverything, Fits, Attached, Requested, [RecordingNext]_allVars
  PROVE  Requested'
<1>0. loss' = "none" => loss = "none"
  BY DaemonStep, LossStays
<1>1. CASE Within \/ Store \/ Construct \/ Wire \/ Process \/ CloseDriver
  <2>1. CASE Store
    <3>1. CASE offered' = offered
      BY <2>1, <3>1 DEF Store, DriverFree, dbVars, Requested
    <3>2. CASE offered' # offered
      BY <2>1, <3>2 DEF Store, Sqlite!Write, Sqlite!Begin, Requested
    <3>3. QED
      BY <3>1, <3>2
  <2>2. CASE Within \/ Wire
    BY <2>2 DEF Within, Wire, DriverFree, dbVars, Requested
  <2>3. CASE Construct
    BY <2>3 DEF Construct, Sqlite!Create, Sqlite!Begin, Requested
  <2>4. CASE Process \/ CloseDriver
    BY <2>4 DEF Process, Gone, CloseDriver, Sqlite!Destroy, Requested
  <2>5. QED
    BY <1>1, <2>1, <2>2, <2>3, <2>4
<1>2. CASE Request
  <2>1. pc = "query" /\ UNCHANGED <<offered, received>>
    BY <1>2 DEF Request, Answer, NullCall
  <2>2. QED
    BY <1>0, <2>1 DEF QuerySeesEverything, Requested
<1>3. CASE Proceed
  <2>1. UNCHANGED <<offered, received>>
    BY <1>3, ProceedSteps DEF Proceed, DiesWithDriver, Crash, vars, history
  <2>2. step' \in {"connect", "execute", "disconnect"} /\ call'.op = "select"
          => step \in {"connect", "execute", "disconnect"} /\ call.op = "select"
    BY <1>3, ProceedSteps DEF Attached
  <2>3. QED
    BY <1>0, <2>1, <2>2 DEF Requested
<1>4. CASE World \/ UNCHANGED allVars
  <2>1. UNCHANGED <<offered, received, step, call>>
    BY <1>4 DEF World, Sqlite!FileChanges, Sqlite!running, Tick, allVars, vars, history, dbVars
  <2>2. QED
    BY <1>0, <2>1 DEF Requested
<1>5. QED
  BY <1>1, <1>2, <1>3, <1>4 DEF RecordingNext

(***************************************************************************)
(* A query is executed on a table that holds every reading received before *)
(* it, whatever the caches are, except one lost by a crash or a full disk, *)
(* or inserted while the file could not be written; until a statement has  *)
(* said something else than was meant.                                     *)
(***************************************************************************)
THEOREM QueriesAnsweredFromAll == ASSUME Carried PROVE RecordingSpec => []AnsweredFromAll
<1>1. RecordingSpec => []Inv /\ []QuerySeesEverything
  BY RecordingIsDaemon, Invariant, QueriesSeeEverything, PTL
<1>2. Inv /\ QuerySeesEverything /\ Fits /\ Attached /\ Requested /\ [RecordingNext]_allVars => Requested'
  BY RequestedStep
<1>3. RecordingSpec => []Requested
  BY <1>1, <1>2, LinkedInit, CouplingHolds, PTL DEF RecordingSpec
<1>4. Requested /\ Recorded => AnsweredFromAll
  BY DEF Requested, Recorded, AnsweredFromAll, Inserting
<1>5. QED
  BY <1>3, <1>4, ReadingsRecorded, PTL

-----------------------------------------------------------------------------
(* Where the rows come from *)

\* What the caches hold and what they let go are readings that came in.
FromReceived == Range(offered) \subseteq Range(received) /\ Range(Pending) \subseteq Range(received)

Asked ==
  /\ \A p \in asked : \E r \in Range(received) : p = <<Key(r), r.value>>
  /\ Inserting => <<call.key, call.value>> \in asked
  /\ rows # Unknown => \A k \in DOMAIN rows : <<k, rows[k]>> \in asked

LEMMA RangeAppend ==
  ASSUME NEW S, NEW s \in Seq(S), NEW r \in S
  PROVE  Range(Append(s, r)) = Range(s) \cup {r}
<1> DEFINE t == Append(s, r)
<1>1. /\ Len(s) \in Nat /\ t \in Seq(S) /\ Len(t) = Len(s) + 1
      /\ t[Len(s) + 1] = r /\ \A i \in 1 .. Len(s) : t[i] = s[i]
  BY AppendProperties, LenProperties
<1>2. DOMAIN s = 1 .. Len(s) /\ DOMAIN t = 1 .. Len(s) + 1
  BY <1>1, LenProperties
<1> HIDE DEF t
<1>3. Range(t) = Range(s) \cup {r}
  <2>1. \A i \in 1 .. Len(s) + 1 : i \in 1 .. Len(s) \/ i = Len(s) + 1
    BY <1>1
  <2>2. Len(s) + 1 \in 1 .. Len(s) + 1 /\ \A i \in 1 .. Len(s) : i \in 1 .. Len(s) + 1
    BY <1>1
  <2>3. QED
    BY <1>1, <1>2, <2>1, <2>2 DEF Range
<1>4. QED
  BY <1>3 DEF t

LEMMA RangeHeadTail ==
  ASSUME NEW S, NEW s \in Seq(S), s # <<>>
  PROVE  Head(s) \in Range(s) /\ Range(Tail(s)) \subseteq Range(s)
<1>1. /\ Len(s) \in Nat \ {0} /\ DOMAIN s = 1 .. Len(s)
      /\ Head(s) = s[1] /\ Tail(s) \in Seq(S) /\ Len(Tail(s)) = Len(s) - 1
      /\ \A i \in 1 .. Len(Tail(s)) : Tail(s)[i] = s[i + 1]
  BY HeadTailProperties, LenProperties, EmptySeq
<1>2. DOMAIN Tail(s) = 1 .. Len(s) - 1
  BY <1>1, LenProperties
<1>3. 1 \in 1 .. Len(s) /\ \A i \in 1 .. Len(s) - 1 : i + 1 \in 1 .. Len(s)
  BY <1>1
<1>4. QED
  BY <1>1, <1>2, <1>3 DEF Range

LEMMA RangeRest ==
  ASSUME NEW S, NEW s \in Seq(S), NEW n \in 0 .. Len(s)
  PROVE  Range(SubSeq(s, n + 1, Len(s))) \subseteq Range(s)
<1> DEFINE l == Len(s)
           m == n + 1
           t == SubSeq(s, m, l)
<1>1. l \in Nat /\ DOMAIN s = 1 .. l /\ n \in 0 .. l
  BY LenProperties
<1>2. m \in Int /\ l \in Int /\ (m <= l \/ m = l + 1)
  BY <1>1
<1>3. \A i \in m .. l : s[i] \in S
  BY <1>1, <1>2
<1> HIDE DEF l, m
<1>4. /\ t \in Seq(S) /\ Len(t) = (IF m <= l THEN l - m + 1 ELSE 0)
      /\ \A i \in 1 .. l - m + 1 : t[i] = s[m + i - 1]
  <2>1. t \in Seq(S)
    BY ONLY <1>2, <1>3, SubSeqProperties
  <2>2. Len(t) = IF m <= l THEN l - m + 1 ELSE 0
    BY ONLY <1>2, <1>3, SubSeqProperties
  <2>3. \A i \in 1 .. l - m + 1 : t[i] = s[m + i - 1]
    BY ONLY <1>2, <1>3, SubSeqProperties
  <2>4. QED
    BY <2>1, <2>2, <2>3
<1> HIDE DEF t
<1>5. DOMAIN t = 1 .. l - m + 1
  BY <1>1, <1>2, <1>4, LenProperties
<1>6. \A i \in 1 .. l - m + 1 : m + i - 1 \in 1 .. l
  BY <1>1 DEF m
<1>7. Range(t) \subseteq Range(s)
  BY <1>1, <1>4, <1>5, <1>6 DEF Range
<1>8. QED
  BY <1>7 DEF t, m, l

\* What is received stays received.
LEMMA ReceivedGrows ==
  ASSUME TypeInv, [Next]_vars
  PROVE  Range(received) \subseteq Range(received')
<1>1. CASE received' = received
  BY <1>1
<1>2. ASSUME NEW canonic \in Canonics, NEW value \in Values, PersistanceAdd(canonic, value)
      PROVE  Range(received) \subseteq Range(received')
  <2>1. PICK r \in Reading : received' = Append(received, r)
    BY <1>2 DEF PersistanceAdd, Reading, TypeInv, TypeOK
  <2>2. QED
    BY <2>1, RangeAppend DEF TypeInv, TypeOK
<1>3. CASE Daemon
  BY <1>1, <1>3 DEF Daemon, Fill, FillEnd, DrainMem, DrainMemEnd, DrainFile, DrainFileEnd,
     Answer, Configure, ConfigureThrows, Exit, history
<1>4. CASE (\E c \in Configs : Reconfigure(c)) \/ Query \/ Stop
  BY <1>1, <1>4 DEF Reconfigure, Query, Stop, StartFlush, history
<1>5. CASE Crash \/ Start \/ Tick \/ UNCHANGED vars
  BY <1>1, <1>5 DEF Crash, Start, Tick, vars, history
<1>6. QED
  BY <1>2, <1>3, <1>4, <1>5 DEF Next

LEMMA FromReceivedInit == Carried /\ Init => FromReceived
<1> SUFFICES ASSUME Carried, Init PROVE FromReceived
  OBVIOUS
<1>1. Pending = <<>>
  BY NothingWaits, InitInv DEF Init
<1>2. offered = <<>> /\ received = <<>>
  BY DEF Init
<1>3. QED
  BY <1>1, <1>2 DEF FromReceived

LEMMA FromReceivedStep ==
  ASSUME Carried, Inv, FromReceived, [Next]_vars
  PROVE  FromReceived'
<1>1. Range(received) \subseteq Range(received')
  BY ReceivedGrows DEF Inv
<1>2. Pending \in Seq(Record) /\ offered \in Seq(Record) /\ received \in Seq(Reading)
  BY PendingType DEF Inv, TypeInv, TypeOK
<1>3. CASE Keeps \/ Answers
  BY <1>1, <1>3 DEF Keeps, Answers, Log!Answer, FromReceived
<1>4. CASE Moves
  <2>1. /\ Pending # <<>> /\ Pending' = Tail(Pending)
        /\ offered' = Append(offered, Head(Pending))
    BY <1>4 DEF Moves, Log!Offer
  <2>2. Head(Pending) \in Range(Pending) /\ Range(Tail(Pending)) \subseteq Range(Pending)
    BY <1>2, <2>1, RangeHeadTail
  <2>3. Head(Pending) \in Record
    BY <1>2, <2>1, HeadTailProperties
  <2>4. Range(offered') = Range(offered) \cup {Head(Pending)}
    BY <1>2, <2>1, <2>3, RangeAppend
  <2>5. QED
    BY <1>1, <2>1, <2>2, <2>4 DEF FromReceived
<1>5. CASE Loses
  <2>1. PICK n \in 0 .. Len(Pending) : Log!Lose(n)
    BY <1>5 DEF Loses
  <2>2. offered' = offered /\ Pending' = SubSeq(Pending, n + 1, Len(Pending))
    BY <2>1 DEF Log!Lose
  <2>3. Range(SubSeq(Pending, n + 1, Len(Pending))) \subseteq Range(Pending)
    BY <1>2, RangeRest
  <2>4. QED
    BY <1>1, <2>2, <2>3 DEF FromReceived
<1>6. ASSUME NEW r \in Reading, Accepts(r) \/ Writes(r) PROVE FromReceived'
  <2>1. r \in Record /\ received' = Append(received, r)
    BY <1>6, ReadingIsRecord DEF Accepts, Writes
  <2>2. Range(received') = Range(received) \cup {r}
    BY <1>2, <2>1, RangeAppend
  <2>3. CASE Accepts(r)
    <3>1. Pending' = Append(Pending, r) /\ offered' = offered
      BY <2>3 DEF Accepts, Log!Accept
    <3>2. Range(Pending') = Range(Pending) \cup {r}
      BY <1>2, <2>1, <3>1, RangeAppend
    <3>3. QED
      BY <2>2, <3>1, <3>2 DEF FromReceived
  <2>4. CASE Writes(r)
    <3>1. Pending' = Pending /\ offered' = Append(offered, r)
      BY <2>4 DEF Writes, Log!WriteThrough
    <3>2. Range(offered') = Range(offered) \cup {r}
      BY <1>2, <2>1, <3>1, RangeAppend
    <3>3. QED
      BY <2>2, <3>1, <3>2 DEF FromReceived
  <2>5. QED
    BY <1>6, <2>3, <2>4
<1>7. QED
  BY <1>3, <1>4, <1>5, <1>6, NextEffect DEF Effect

LEMMA AskedInit == RecordingInit => Asked
<1> SUFFICES ASSUME RecordingInit PROVE Asked
  OBVIOUS
<1>1. asked = {} /\ step = "absent" /\ rows = <<>>
  BY DEF RecordingInit, Sqlite!Init
<1>2. DOMAIN rows = {}
  BY <1>1
<1>3. QED
  BY <1>1, <1>2 DEF Asked, Inserting

\* What moves neither the table nor the driver's call asks for nothing.
LEMMA AskedAlone ==
  ASSUME Asked, UNCHANGED <<rows, asked>>, Range(received) \subseteq Range(received'),
         UNCHANGED <<step, call>> \/ ~Inserting'
  PROVE  Asked'
<1>1. \A p \in asked' : \E r \in Range(received') : p = <<Key(r), r.value>>
  BY DEF Asked
<1>2. Inserting' => <<call'.key, call'.value>> \in asked'
  BY DEF Asked, Inserting
<1>3. rows' # Unknown => \A k \in DOMAIN rows' : <<k, rows'[k]>> \in asked'
  BY DEF Asked
<1>4. QED
  BY <1>1, <1>2, <1>3 DEF Asked

LEMMA AskedStep ==
  ASSUME Carried, Inv, FromReceived', Fits, Attached, Asked, [RecordingNext]_allVars
  PROVE  Asked'
<1>0. TypeInv /\ Range(received) \subseteq Range(received')
  BY DaemonStep, ReceivedGrows DEF Inv
<1>1. CASE Within \/ World \/ UNCHANGED allVars
  <2>1. UNCHANGED <<step, call, rows, asked>>
    BY <1>1 DEF Within, World, Sqlite!FileChanges, Sqlite!running, allVars, dbVars
  <2>2. QED
    BY <1>0, <2>1, AskedAlone
<1>2. CASE Request \/ CloseDriver \/ Construct \/ Wire \/ Process
  <2>1. UNCHANGED <<rows, asked>>
    BY <1>2 DEF Request, CloseDriver, Construct, Wire, Process, Gone,
       Sqlite!Request, Sqlite!Destroy, Sqlite!Create, Sqlite!Begin, dbVars
  <2>2. ~Inserting'
    BY <1>2 DEF Request, CloseDriver, Construct, Wire, Process, Gone, Sqlite!Request, Sqlite!Destroy,
       Sqlite!Create, Sqlite!Begin, DriverFree, Inserting, dbVars
  <2>3. QED
    BY <1>0, <2>1, <2>2, AskedAlone
<1>3. CASE Store
  <2>1. CASE offered' = offered
    BY <1>0, <1>3, <2>1, AskedAlone DEF Store, dbVars
  <2>2. ASSUME NEW r \in Record, offered' = Append(offered, r) PROVE Asked'
    <3>1. offered' # offered /\ Last(offered') = r
      BY <1>0, <2>2, LastGiven
    <3>2. Sqlite!Write(Key(r), r.value)
      BY <1>3, <3>1 DEF Store
    <3>3. /\ asked' = asked \cup {<<Key(r), r.value>>} /\ rows' = rows
          /\ call'.op = "insert" /\ call'.key = Key(r) /\ call'.value = r.value
      BY <3>2 DEF Sqlite!Write, Sqlite!Begin
    <3>4. r \in Range(received')
      <4>1. r \in Range(offered')
        BY <1>0, <2>2, RangeAppend DEF TypeInv, TypeOK
      <4>2. QED
        BY <4>1 DEF FromReceived
    <3>5. \A p \in asked' : \E q \in Range(received') : p = <<Key(q), q.value>>
      BY <1>0, <3>3, <3>4 DEF Asked
    <3>6. QED
      BY <3>3, <3>5 DEF Asked
  <2>3. QED
    BY <1>0, <1>3, <2>1, <2>2, StoreCases
<1>4. CASE Proceed
  <2>1. asked' = asked
    BY <1>4 DEF Proceed, Sqlite!Dial, Sqlite!Execute, Sqlite!End, Sqlite!Throw
  <2>2. Inserting' => Inserting /\ call' = call
    BY <1>4, ProceedSteps DEF Inserting
  <2>3. \/ rows' = rows \/ rows' = Unknown
        \/ Inserting /\ rows # Unknown /\ rows' = Sqlite!Table!WithRow(call.key, call.value)
    BY <1>4 DEF Proceed, Sqlite!Dial, Sqlite!Execute, Sqlite!Effect, Sqlite!Insert, Sqlite!End,
       Sqlite!Throw, Inserting
  <2>4. rows' # Unknown => \A k \in DOMAIN rows' : <<k, rows'[k]>> \in asked
    BY <2>3 DEF Asked, Sqlite!Table!WithRow
  <2>5. \A p \in asked' : \E r \in Range(received') : p = <<Key(r), r.value>>
    BY <1>0, <2>1 DEF Asked
  <2>6. QED
    BY <2>1, <2>2, <2>4, <2>5 DEF Asked
<1>5. QED
  BY <1>1, <1>2, <1>3, <1>4 DEF RecordingNext

(***************************************************************************)
(* README.md:10.  Each row is the device, the second and the value of one  *)
(* message that came in, whatever was killed, locked or lost, until a      *)
(* statement has said something else than was meant.                       *)
(***************************************************************************)
THEOREM RowsComeFromReadings == ASSUME Carried PROVE RecordingSpec => []RowsAreReadings
<1>1. RecordingSpec => []Inv
  BY RecordingIsDaemon, Invariant, PTL
<1>2. RecordingSpec => []FromReceived
  <2>1. RecordingInit => FromReceived
    BY FromReceivedInit DEF RecordingInit
  <2>2. Inv /\ FromReceived /\ [RecordingNext]_allVars => FromReceived'
    BY DaemonStep, FromReceivedStep
  <2>3. QED
    BY <1>1, <2>1, <2>2, PTL DEF RecordingSpec
<1>3. Inv /\ FromReceived' /\ Fits /\ Attached /\ Asked /\ [RecordingNext]_allVars => Asked'
  BY AskedStep
<1>4. RecordingSpec => []Asked
  BY <1>1, <1>2, <1>3, AskedInit, CouplingHolds, PTL DEF RecordingSpec
<1>5. Asked => RowsAreReadings
  <2> SUFFICES ASSUME Asked, rows # Unknown, NEW k \in DOMAIN rows
               PROVE  \E i \in DOMAIN received : Key(received[i]) = k /\ rows[k] = received[i].value
    BY DEF RowsAreReadings
  <2>1. PICK r \in Range(received) : <<k, rows[k]>> = <<Key(r), r.value>>
    BY DEF Asked
  <2>2. QED
    BY <2>1 DEF Range
<1>6. QED
  BY <1>4, <1>5, PTL
=============================================================================
