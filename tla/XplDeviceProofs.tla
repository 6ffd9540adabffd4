--------------------------- MODULE XplDeviceProofs ---------------------------
(***************************************************************************)
(* Theorems about XplDevice, for every value of its constants.             *)
(***************************************************************************)
EXTENDS XplDevice, Sums

-----------------------------------------------------------------------------
(* The operators *)

\* Of a sequence of values the first one is a value, or there is none.
LEMMA ValueType ==
  ASSUME NEW S, NEW item \in Seq(S \cup {Blank})
  PROVE  Value(item) \in S \cup {Blank}
BY HeadTailProperties DEF Value

LEMMA NameValueType ==
  ASSUME NEW i \in Items
  PROVE  Value(i.newconf) \in Names
BY HeadTailProperties DEF Value, Items, Names

\* A response leaves settings.
LEMMA AssignType ==
  ASSUME NEW i \in Items, NEW m \in Messages, m.kind = "config.response"
  PROVE  Assign(i, m.values) \in Items
<1> DEFINE new == Assign(i, m.values)
<1>1. DOMAIN i = {"newconf", "interval", "group"}
  BY DEF Items
<1>2. /\ i["newconf"] \in Seq(Names) /\ i["interval"] \in Seq(Intervals \cup {Blank})
      /\ i["group"] \in Seq(Groups \cup {Blank})
  BY DEF Items
<1>3. \A n \in DOMAIN m.values :
       \/ n = "newconf" /\ m.values[n] \in Seq(Names)
       \/ n = "interval" /\ m.values[n] \in Seq(Intervals \cup {Blank})
       \/ n = "group" /\ m.values[n] \in Seq(Groups \cup {Blank})
  BY XplDeviceAssumption
<1>4. new = [n \in {"newconf", "interval", "group"} |->
               IF n \in DOMAIN m.values THEN m.values[n] ELSE i[n]]
  BY <1>1 DEF Assign
<1>5. /\ new["newconf"] \in Seq(Names) /\ new["interval"] \in Seq(Intervals \cup {Blank})
      /\ new["group"] \in Seq(Groups \cup {Blank})
  BY <1>2, <1>3, <1>4
<1>6. new = [newconf |-> new["newconf"], interval |-> new["interval"], group |-> new["group"]]
  BY <1>4
<1>7. QED
  BY <1>5, <1>6 DEF Items

\* The lines of the settings, and any first part of them, can be in the file.
LEMMA LinesType ==
  ASSUME NEW i \in Items
  PROVE  /\ Lines(i) \in Seq(ConfigLine)
         /\ \A n \in 0 .. Len(Lines(i)) : SubSeq(Lines(i), 1, n) \in Seq(ConfigLine)
<1> DEFINE g == [k \in DOMAIN i.group |-> <<"group", k, i.group[k]>>]
           t == <<<<"interval", 0, Value(i.interval)>>, <<"newconf", 0, Value(i.newconf)>>>>
<1>1. i.group \in Seq(Groups \cup {Blank}) /\ i.interval \in Seq(Intervals \cup {Blank})
        /\ i.newconf \in Seq(Names)
  BY DEF Items
<1>2. DOMAIN i.group = 1 .. Len(i.group) /\ Len(i.group) \in Nat
        /\ \A k \in DOMAIN i.group : i.group[k] \in Groups \cup {Blank}
  BY <1>1, LenProperties, ElementOfSeq
<1>3. \A k \in 1 .. Len(i.group) : <<"group", k, i.group[k]>> \in ConfigLine
  BY <1>2 DEF ConfigLine
<1>4. g \in Seq(ConfigLine)
  <2>1. g \in [1 .. Len(i.group) -> ConfigLine]
    BY <1>2, <1>3
  <2>2. QED
    BY <2>1, <1>2, SeqDef
<1>5. Value(i.interval) \in Intervals \cup {Blank} /\ Value(i.newconf) \in Names
  BY <1>1, ValueType, HeadTailProperties DEF Value, Names
<1>6. <<"interval", 0, Value(i.interval)>> \in ConfigLine /\ <<"newconf", 0, Value(i.newconf)>> \in ConfigLine
  BY <1>5 DEF ConfigLine
<1>7. t \in Seq(ConfigLine)
  BY <1>6
<1>8. Lines(i) \in Seq(ConfigLine)
  <2>1. Lines(i) = g \o t
    BY DEF Lines
  <2>2. QED
    BY <1>4, <1>7, <2>1, ConcatProperties
<1>9. ASSUME NEW n \in 0 .. Len(Lines(i)) PROVE SubSeq(Lines(i), 1, n) \in Seq(ConfigLine)
  <2>1. \A k \in 1 .. n : Lines(i)[k] \in ConfigLine
    BY <1>8, ElementOfSeq, LenProperties
  <2>2. QED
    BY <2>1, SubSeqProperties
<1>10. QED
  BY <1>8, <1>9

\* What the file has for a setting is one of its values.
LEMMA LookupType ==
  ASSUME NEW f \in Seq(ConfigLine), NEW i \in Nat
  PROVE  /\ Lookup(f, "newconf", i) \in Names
         /\ Lookup(f, "interval", i) \in Intervals \cup {Blank}
         /\ Lookup(f, "group", i) \in Groups \cup {Blank}
<1>1. \A l \in ToSet(f) : l \in ConfigLine
  BY LenProperties, ElementOfSeq DEF ToSet
<1>2. ASSUME NEW name, \E l \in ToSet(f) : l[1] = name /\ l[2] = i
      PROVE  \E l \in ConfigLine : l[1] = name /\ Lookup(f, name, i) = l[3]
  <2> DEFINE l == CHOOSE l \in ToSet(f) : l[1] = name /\ l[2] = i
  <2>1. l \in ToSet(f) /\ l[1] = name
    BY <1>2
  <2>2. Lookup(f, name, i) = l[3]
    BY <1>2 DEF Lookup
  <2>3. QED
    BY <1>1, <2>1, <2>2
<1>3. ASSUME NEW name, ~ \E l \in ToSet(f) : l[1] = name /\ l[2] = i
      PROVE  Lookup(f, name, i) = Blank
  BY <1>3, Zenon DEF Lookup
<1>4. \A l \in ConfigLine :
        /\ l[1] = "newconf" => l[3] \in Names
        /\ l[1] = "interval" => l[3] \in Intervals \cup {Blank}
        /\ l[1] = "group" => l[3] \in Groups \cup {Blank}
  BY DEF ConfigLine
<1>5. QED
  BY <1>2, <1>3, <1>4 DEF Names

\* The name that is read back from lines of the settings is theirs, or empty.
LEMMA SavedName ==
  ASSUME NEW i \in Items, NEW n \in 0 .. Len(Lines(i))
  PROVE  Lookup(SubSeq(Lines(i), 1, n), "newconf", 0) \in {Blank, Value(i.newconf)}
<1> DEFINE g == [k \in DOMAIN i.group |-> <<"group", k, i.group[k]>>]
           t == <<<<"interval", 0, Value(i.interval)>>, <<"newconf", 0, Value(i.newconf)>>>>
           f == SubSeq(Lines(i), 1, n)
<1>1. Lines(i) \in Seq(ConfigLine) /\ Len(Lines(i)) \in Nat /\ f \in Seq(ConfigLine)
  BY LinesType, LenProperties
<1>2. Len(f) = n /\ \A k \in 1 .. n : f[k] = Lines(i)[k]
  BY <1>1
<1>3. ASSUME NEW k \in 1 .. Len(Lines(i)), Lines(i)[k][1] = "newconf"
      PROVE  Lines(i)[k][3] = Value(i.newconf)
  <2>1. DOMAIN g = 1 .. Len(g) /\ Len(g) \in Nat /\ g \in Seq(Range(g))
    <3>1. i.group \in Seq(Groups \cup {Blank})
      BY DEF Items
    <3>2. DOMAIN g = 1 .. Len(i.group) /\ Len(i.group) \in Nat
      BY <3>1, LenProperties
    <3>3. g \in [1 .. Len(i.group) -> Range(g)]
      BY <3>2 DEF Range
    <3>4. g \in Seq(Range(g))
      BY <3>2, <3>3, SeqDef
    <3>5. QED
      BY <3>4, LenProperties
  <2>2. Lines(i) = g \o t
    BY DEF Lines
  <2>3. t \in Seq({t[1], t[2]}) /\ Len(t) = 2
    OBVIOUS
  <2>4. /\ k <= Len(g) => Lines(i)[k] = g[k]
        /\ k > Len(g) => Lines(i)[k] = t[k - Len(g)] /\ k - Len(g) \in {1, 2}
    BY <2>1, <2>2, <2>3
  <2>5. k <= Len(g) => g[k][1] = "group"
    BY <2>1
  <2>6. k > Len(g) /\ k - Len(g) = 2
    BY <1>3, <2>4, <2>5
  <2>7. QED
    BY <2>4, <2>6
<1>4. \A l \in ToSet(f) : l[1] = "newconf" => l[3] = Value(i.newconf)
  BY <1>1, <1>2, <1>3, LenProperties DEF ToSet
<1>5. CASE \E l \in ToSet(f) : l[1] = "newconf" /\ l[2] = 0
  <2> DEFINE l == CHOOSE l \in ToSet(f) : l[1] = "newconf" /\ l[2] = 0
  <2>1. l \in ToSet(f) /\ l[1] = "newconf"
    BY <1>5
  <2>2. Lookup(f, "newconf", 0) = l[3]
    BY <1>5 DEF Lookup
  <2>3. QED
    BY <1>4, <2>1, <2>2
<1>6. CASE ~ \E l \in ToSet(f) : l[1] = "newconf" /\ l[2] = 0
  <2>1. Lookup(f, "newconf", 0) = Blank
    BY <1>6, Zenon DEF Lookup
  <2>2. QED
    BY <2>1
<1>7. QED
  BY <1>5, <1>6

\* A process begins with no name and the shortest interval in its settings.
LEMMA FirstSettings ==
  /\ Value(FirstItems.newconf) = Blank
  /\ Value(FirstItems.interval) = HBMin /\ Clamp(HBMin) = HBMin
<1>1. HBMin \in Nat /\ HBMax \in Nat /\ HBMin <= HBMax
  BY XplDeviceAssumption
<1>2. QED
  BY <1>1 DEF FirstItems, Value, Clamp

\* What is read back from the file are settings.
LEMMA LoadedType ==
  ASSUME NEW f \in Seq(ConfigLine)
  PROVE  Loaded(f) \in Items
<1> DEFINE filled == {n \in 0 .. Len(f) : \A i \in 1 .. n : Lookup(f, "group", i) # Blank}
<1>1. Len(f) \in Nat /\ 0 \in filled
  BY LenProperties
<1>2. Max(filled) \in Nat
  <2>1. filled \in SUBSET (0 .. Len(f)) /\ filled # {}
    BY <1>1
  <2>2. Max(filled) \in filled
    BY <1>1, <2>1, GreatestNatural
  <2>3. QED
    BY <2>2
<1> DEFINE g == [i \in 1 .. Max(filled) |-> Lookup(f, "group", i)]
<1>3. g \in Seq(Groups \cup {Blank})
  <2>1. \A i \in 1 .. Max(filled) : Lookup(f, "group", i) \in Groups \cup {Blank}
    BY <1>2, LookupType
  <2> DEFINE n == Max(filled)
  <2>2. n \in Nat /\ g \in [1 .. n -> Groups \cup {Blank}]
    BY <1>2, <2>1
  <2> HIDE DEF g, n
  <2>3. QED
    BY <2>2, SeqDef
<1>4. <<Lookup(f, "newconf", 0)>> \in Seq(Names)
        /\ <<Lookup(f, "interval", 0)>> \in Seq(Intervals \cup {Blank})
  BY LookupType
<1>5. Loaded(f) = [newconf |-> <<Lookup(f, "newconf", 0)>>, interval |-> <<Lookup(f, "interval", 0)>>,
                   group |-> g]
  BY Zenon DEF Loaded
<1>6. QED
  BY <1>3, <1>4, <1>5 DEF Items

\* Two elements stand behind those of a sequence they are joined to.
LEMMA TwoMore ==
  ASSUME NEW S, NEW s \in Seq(S), NEW x \in S, NEW y \in S
  PROVE  /\ Len(s \o <<x, y>>) = Len(s) + 2
         /\ \A k \in 1 .. Len(s) : (s \o <<x, y>>)[k] = s[k]
         /\ (s \o <<x, y>>)[Len(s) + 1] = x /\ (s \o <<x, y>>)[Len(s) + 2] = y
<1>1. <<x, y>> \in Seq(S) /\ Len(<<x, y>>) = 2
  OBVIOUS
<1>2. QED
  BY <1>1, LenProperties

\* A line of the settings is found again under its name and its number.
LEMMA LinesRead ==
  ASSUME NEW i \in Items
  PROVE  /\ Lookup(Lines(i), "newconf", 0) = Value(i.newconf)
         /\ Lookup(Lines(i), "interval", 0) = Value(i.interval)
         /\ \A k \in 1 .. Len(i.group) : Lookup(Lines(i), "group", k) = i.group[k]
         /\ Lookup(Lines(i), "group", Len(i.group) + 1) = Blank
         /\ Len(Lines(i)) = Len(i.group) + 2
<1> DEFINE g == [k \in DOMAIN i.group |-> <<"group", k, i.group[k]>>]
           t == <<<<"interval", 0, Value(i.interval)>>, <<"newconf", 0, Value(i.newconf)>>>>
           n == Len(i.group)
<1>1. n \in Nat /\ DOMAIN i.group = 1 .. n
  <2>1. i.group \in Seq(Groups \cup {Blank})
    BY DEF Items
  <2>2. QED
    BY <2>1, LenProperties
<1>2. g \in Seq(ConfigLine) /\ Len(g) = n /\ \A k \in 1 .. n : g[k] = <<"group", k, i.group[k]>>
  <2>1. i.group \in Seq(Groups \cup {Blank}) /\ \A k \in 1 .. n : i.group[k] \in Groups \cup {Blank}
    <3>1. i.group \in Seq(Groups \cup {Blank})
      BY DEF Items
    <3>2. QED
      BY <3>1, <1>1, ElementOfSeq
  <2>2. g \in [1 .. n -> ConfigLine]
    BY <1>1, <2>1 DEF ConfigLine
  <2>3. g \in Seq(ConfigLine)
    BY <1>1, <2>2, SeqDef
  <2>4. QED
    BY <1>1, <2>3, LenProperties
<1>3. t[1] \in ConfigLine /\ t[2] \in ConfigLine
  <2>1. Value(i.interval) \in Intervals \cup {Blank} /\ Value(i.newconf) \in Names
    BY NameValueType, ValueType DEF Items
  <2>2. QED
    BY <2>1 DEF ConfigLine
<1>4. Lines(i) = g \o <<t[1], t[2]>>
  BY DEF Lines
<1>5. Len(Lines(i)) = n + 2 /\ DOMAIN Lines(i) = 1 .. (n + 2)
  <2>1. Lines(i) \in Seq(ConfigLine)
    BY LinesType
  <2> HIDE DEF g, t
  <2>2. Len(Lines(i)) = n + 2
    BY <1>2, <1>3, <1>4, TwoMore
  <2>3. QED
    BY <2>1, <2>2, LenProperties
<1>6. \A k \in 1 .. (n + 2) :
        /\ k <= n => Lines(i)[k] = <<"group", k, i.group[k]>>
        /\ k = n + 1 => Lines(i)[k] = <<"interval", 0, Value(i.interval)>>
        /\ k = n + 2 => Lines(i)[k] = <<"newconf", 0, Value(i.newconf)>>
  <2>1. t[1] = <<"interval", 0, Value(i.interval)>> /\ t[2] = <<"newconf", 0, Value(i.newconf)>>
    OBVIOUS
  <2> HIDE DEF g, t
  <2>2. /\ \A k \in 1 .. n : Lines(i)[k] = g[k]
        /\ Lines(i)[n + 1] = t[1] /\ Lines(i)[n + 2] = t[2]
    BY <1>2, <1>3, <1>4, TwoMore
  <2>3. \A k \in 1 .. (n + 2) : k <= n => k \in 1 .. n
    BY <1>1
  <2> HIDE DEF n
  <2>4. QED
    BY <1>2, <2>1, <2>2, <2>3
<1>7. ToSet(Lines(i)) = {Lines(i)[k] : k \in 1 .. (n + 2)}
  BY <1>5 DEF ToSet
<1> HIDE DEF g, t, n
<1>8. ASSUME NEW name, NEW k, NEW m \in 1 .. (n + 2),
             Lines(i)[m][1] = name, Lines(i)[m][2] = k,
             \A o \in 1 .. (n + 2) : Lines(i)[o][1] = name /\ Lines(i)[o][2] = k => o = m
      PROVE  Lookup(Lines(i), name, k) = Lines(i)[m][3]
  <2> DEFINE l == CHOOSE l \in ToSet(Lines(i)) : l[1] = name /\ l[2] = k
  <2>1. \E w \in ToSet(Lines(i)) : w[1] = name /\ w[2] = k
    BY <1>7, <1>8
  <2>2. l \in ToSet(Lines(i)) /\ l[1] = name /\ l[2] = k
    BY <2>1
  <2>3. Lookup(Lines(i), name, k) = l[3]
    BY <2>1, Zenon DEF Lookup
  <2> HIDE DEF l
  <2>4. PICK o \in 1 .. (n + 2) : l = Lines(i)[o]
    BY <1>7, <2>2
  <2>5. o = m
    BY <1>8, <2>2, <2>4
  <2>6. QED
    BY <2>3, <2>4, <2>5
<1>9. Lookup(Lines(i), "newconf", 0) = Value(i.newconf)
  <2>1. n + 2 \in 1 .. (n + 2) /\ n + 1 # n + 2
    BY <1>1
  <2>2. \A o \in 1 .. (n + 2) : Lines(i)[o][1] = "newconf" => o = n + 2
    BY <1>1, <1>6
  <2>3. Lines(i)[n + 2] = <<"newconf", 0, Value(i.newconf)>>
    BY <1>6, <2>1
  <2>4. QED
    BY <1>8, <2>1, <2>2, <2>3
<1>10. Lookup(Lines(i), "interval", 0) = Value(i.interval)
  <2>1. n + 1 \in 1 .. (n + 2)
    BY <1>1
  <2>2. \A o \in 1 .. (n + 2) : Lines(i)[o][1] = "interval" => o = n + 1
    BY <1>1, <1>6
  <2>3. Lines(i)[n + 1] = <<"interval", 0, Value(i.interval)>>
    BY <1>6, <2>1
  <2>4. QED
    BY <1>8, <2>1, <2>2, <2>3
<1>11. ASSUME NEW k \in 1 .. n PROVE Lookup(Lines(i), "group", k) = i.group[k]
  <2>1. k \in 1 .. (n + 2)
    BY <1>1
  <2>2. \A o \in 1 .. (n + 2) : Lines(i)[o][1] = "group" /\ Lines(i)[o][2] = k => o = k
    BY <1>1, <1>6
  <2>3. Lines(i)[k] = <<"group", k, i.group[k]>>
    BY <1>1, <1>6, <2>1
  <2>4. QED
    BY <1>8, <2>1, <2>2, <2>3
<1>12. Lookup(Lines(i), "group", n + 1) = Blank
  <2>1. \A o \in 1 .. (n + 2) : ~ (Lines(i)[o][1] = "group" /\ Lines(i)[o][2] = n + 1)
    BY <1>1, <1>6
  <2>2. ~ \E w \in ToSet(Lines(i)) : w[1] = "group" /\ w[2] = n + 1
    BY <1>7, <2>1
  <2>3. QED
    BY <2>2, Zenon DEF Lookup
<1>13. QED
  BY <1>5, <1>9, <1>10, <1>11, <1>12 DEF n

\* What of the settings a file keeps.
Kept(i) == [newconf |-> <<Value(i.newconf)>>, interval |-> <<Value(i.interval)>>,
            group |-> Lasting(i.group)]

\* What is read back from the lines of settings is what a file keeps of them.
LEMMA LinesKeep ==
  ASSUME NEW i \in Items
  PROVE  Loaded(Lines(i)) = Kept(i)
<1> DEFINE n == Len(i.group)
           filled == {m \in 0 .. Len(Lines(i)) : \A k \in 1 .. m : Lookup(Lines(i), "group", k) # Blank}
           lasting == {m \in 0 .. n : \A k \in 1 .. m : i.group[k] # Blank}
<1>1. i.group \in Seq(Groups \cup {Blank}) /\ n \in Nat
  <2>1. i.group \in Seq(Groups \cup {Blank})
    BY DEF Items
  <2>2. QED
    BY <2>1, LenProperties
<1>2. filled = lasting
  <2>1. ASSUME NEW m \in filled PROVE m \in lasting
    <3>1. m \in 0 .. (n + 2) /\ \A k \in 1 .. m : Lookup(Lines(i), "group", k) # Blank
      BY LinesRead
    <3>2. ~ (n + 1 \in 1 .. m)
      BY <3>1, LinesRead
    <3>3. m \in 0 .. n
      BY <1>1, <3>1, <3>2
    <3>4. \A k \in 1 .. m : k \in 1 .. n
      BY <1>1, <3>3
    <3>5. QED
      BY <3>1, <3>3, <3>4, LinesRead
  <2>2. ASSUME NEW m \in lasting PROVE m \in filled
    <3>1. m \in 0 .. (n + 2) /\ \A k \in 1 .. m : k \in 1 .. n
      BY <1>1
    <3>2. QED
      BY <3>1, LinesRead
  <2>3. QED
    BY <2>1, <2>2, Zenon
<1>3. Max(lasting) \in 0 .. n
  <2>1. 0 \in lasting /\ lasting \in SUBSET (0 .. n)
    BY <1>1
  <2>2. Max(lasting) \in lasting
    <3> HIDE DEF lasting
    <3>1. QED
      BY <1>1, <2>1, GreatestNatural
  <2>3. QED
    BY <2>2
<1> DEFINE top == Max(lasting)
<1>4. [k \in 1 .. top |-> Lookup(Lines(i), "group", k)] = SubSeq(i.group, 1, top)
  <2>1. top \in 0 .. n
    BY <1>3
  <2> HIDE DEF top
  <2>2. SubSeq(i.group, 1, top) = [k \in 1 .. top |-> i.group[k]]
    BY <1>1, <2>1
  <2>3. \A k \in 1 .. top : Lookup(Lines(i), "group", k) = i.group[k]
    BY <1>1, <2>1, LinesRead
  <2>4. QED
    BY <2>2, <2>3
<1>5. Loaded(Lines(i)) = [newconf |-> <<Lookup(Lines(i), "newconf", 0)>>,
                          interval |-> <<Lookup(Lines(i), "interval", 0)>>,
                          group |-> [k \in 1 .. Max(filled) |-> Lookup(Lines(i), "group", k)]]
  BY Zenon DEF Loaded
<1>6. Lasting(i.group) = SubSeq(i.group, 1, top)
  BY Zenon DEF Lasting
<1> HIDE DEF filled, lasting, n
<1>7. QED
  BY <1>2, <1>4, <1>5, <1>6, LinesRead DEF Kept

\* Of settings that come from a file the file keeps everything.
LEMMA LoadedKept ==
  ASSUME NEW f \in Seq(ConfigLine)
  PROVE  Kept(Loaded(f)) = Loaded(f)
<1> DEFINE filled == {n \in 0 .. Len(f) : \A i \in 1 .. n : Lookup(f, "group", i) # Blank}
           top == Max(filled)
           g == [i \in 1 .. top |-> Lookup(f, "group", i)]
<1>1. top \in filled
  <2>1. Len(f) \in Nat /\ 0 \in filled /\ filled \in SUBSET (0 .. Len(f))
    BY LenProperties
  <2> HIDE DEF filled
  <2>2. QED
    BY <2>1, GreatestNatural
<1>2. top \in Nat /\ \A i \in 1 .. top : Lookup(f, "group", i) # Blank
  BY <1>1, LenProperties
<1>3. Loaded(f) = [newconf |-> <<Lookup(f, "newconf", 0)>>,
                   interval |-> <<Lookup(f, "interval", 0)>>, group |-> g]
  BY Zenon DEF Loaded
<1> HIDE DEF filled, top
<1>4. Len(g) = top /\ \A i \in 1 .. top : g[i] # Blank
  BY <1>2
<1>5. g \in Seq(Groups \cup {Blank})
  <2>1. Loaded(f).group = g
    BY <1>3
  <2>2. Loaded(f).group \in Seq(Groups \cup {Blank})
    BY LoadedType DEF Items
  <2>3. QED
    BY <2>1, <2>2
<1> HIDE DEF g
<1>6. Lasting(g) = g
  <2> DEFINE lasting == {n \in 0 .. Len(g) : \A i \in 1 .. n : g[i] # Blank}
  <2>1. lasting \in SUBSET (0 .. top) /\ top \in lasting
    BY <1>2, <1>4
  <2>2. Lasting(g) = SubSeq(g, 1, Max(lasting))
    BY Zenon DEF Lasting
  <2> HIDE DEF lasting
  <2>3. Max(lasting) \in 0 .. top /\ top <= Max(lasting)
    BY <1>2, <2>1, GreatestNatural
  <2>4. Max(lasting) = Len(g)
    BY <1>2, <1>4, <2>3
  <2>5. QED
    BY <1>5, <2>2, <2>4, SubSeqFull
<1>7. /\ Value(<<Lookup(f, "newconf", 0)>>) = Lookup(f, "newconf", 0)
      /\ Value(<<Lookup(f, "interval", 0)>>) = Lookup(f, "interval", 0)
  BY DEF Value
<1>8. QED
  BY <1>3, <1>6, <1>7 DEF Kept

\* The interval of a heartbeat stays between the limits.
LEMMA ClampType ==
  ASSUME NEW n \in Int
  PROVE  Clamp(n) \in HBMin .. HBMax
BY XplDeviceAssumption DEF Clamp

LEMMA ClampIdle ==
  ASSUME NEW n \in HBMin .. HBMax
  PROVE  Clamp(n) = n
BY XplDeviceAssumption DEF Clamp

\* A longer interval is longer in seconds.
LEMMA LongerInSeconds ==
  ASSUME NEW m \in Nat, NEW n \in Nat, m <= n, NEW k \in Nat
  PROVE  m * k <= n * k
<1>1. (n - m) * k >= 0
  OBVIOUS
<1>2. (n - m) * k = n * k - m * k
  OBVIOUS
<1>3. m * k \in Nat /\ n * k \in Nat
  OBVIOUS
<1>4. QED
  BY <1>1, <1>2, <1>3

-----------------------------------------------------------------------------
(***************************************************************************)
(* Types.  The heartbeat that is sent must have an interval between the    *)
(* limits, so its invariant is part of the induction; a new name that is   *)
(* about to be tried is a name, and a message that is answered is there.   *)
(***************************************************************************)
Answering == {"end", "greet", "call", "truncate", "write"}

TypeInv ==
  /\ TypeOK /\ BeatTellsTheTruth
  /\ saved \in Seq(ConfigLine) \cup {NoFile}
  /\ pc = "end" => Value(items.newconf) \in Instances \cup Rejected
  /\ pc \in Answering => batch # <<>>

LEMMA TypeInit == Init => TypeInv
<1> SUFFICES ASSUME Init PROVE TypeInv
  OBVIOUS
<1>1. FirstItems \in Items
  BY XplDeviceAssumption DEF FirstItems, Items, Names
<1>2. HBMin \in HBMin .. HBMax /\ Default \in Instances
  BY XplDeviceAssumption
<1>3. <<>> \in Seq(Messages) /\ <<>> \in Seq(Instances)
  OBVIOUS
<1>4. TypeOK
  <2>1. batch \in Seq(Messages) /\ preSend \in Seq(Instances)
    BY <1>3 DEF Init
  <2>2. {reopened, configured, beaten, unheard} \subseteq BOOLEAN
    BY DEF Init
  <2>3. {hbInterval, told} \subseteq HBMin .. HBMax /\ {gap, lag} \subseteq Nat /\ since \in Int
    BY <1>2 DEF Init
  <2>4. port \in Ports \cup {0} /\ items \in Items /\ instance \in Instances
          /\ announced \subseteq Instances /\ abandoned \subseteq Instances
    BY <1>1, <1>2 DEF Init
  <2>5. pc = "off" /\ hbType = "ConfigAPP"
    BY DEF Init
  <2>6. QED
    BY <2>1, <2>2, <2>3, <2>4, <2>5 DEF TypeOK
<1>5. QED
  BY <1>4 DEF Init, TypeInv, BeatTellsTheTruth, Answering

\* What Configure sets is a heartbeat with the port in use.
LEMMA ConfigureType ==
  ASSUME TypeOK, NEW new \in Items, Configure(new)
  PROVE  /\ hbType' = "HeartBeatAPP" /\ hbInterval' \in HBMin .. HBMax
         /\ hbMsg' = HeartBeat(hbType', hbInterval', port)
<1>1. Value(new.interval) \in Intervals \cup {Blank}
  BY ValueType DEF Items
<1>2. hbInterval \in Int
  BY XplDeviceAssumption DEF TypeOK
<1>3. (IF Value(new.interval) = Blank THEN hbInterval ELSE Value(new.interval)) \in Int
  BY <1>1, <1>2, BasicConfigAssumption
<1>4. QED
  BY <1>3, ClampType DEF Configure, SetHeartBeat

LEMMA TypeStep == TypeInv /\ [Next]_vars => TypeInv'
<1> SUFFICES ASSUME TypeInv, [Next]_vars PROVE TypeInv'
  OBVIOUS
<1> USE DEF TypeInv, TypeOK, BeatTellsTheTruth, Answering, thread, settings, beat, time, network
<1>facts. /\ HBMin \in Nat /\ HBMax \in Nat /\ HBMin <= HBMax /\ Default \in Instances
      /\ 0 \notin Ports
  BY XplDeviceAssumption
<1>1. pc \notin {"off", "load", "listen"} => hbMsg.interval \in HBMin .. HBMax
  BY DEF HeartBeat
<1>2. FirstItems \in Items
  BY XplDeviceAssumption DEF FirstItems, Items, Names
<1>3. ASSUME batch # <<>> PROVE Head(batch) \in Messages /\ Tail(batch) \in Seq(Messages)
  BY <1>3, HeadTailProperties
<1>4. ASSUME NEW S, preSend # <<>> PROVE Head(preSend) \in Instances /\ Tail(preSend) \in Seq(Instances)
  BY <1>4, HeadTailProperties
<1>sent. ASSUME SendHeartBeat, pc \in {"first", "loop"}
      PROVE  /\ told' \in HBMin .. HBMax /\ since' \in Int /\ gap' \in Nat /\ lag' \in Nat
             /\ beaten' \in BOOLEAN /\ unheard' \in BOOLEAN
             /\ announced' \subseteq Instances /\ abandoned' \subseteq Instances
  <2>1. CASE Due /\ Announce /\ beaten' = TRUE /\ since' = 0 /\ lag' = 0 /\ UNCHANGED unheard
    BY <1>1, <1>sent, <2>1 DEF Announce
  <2>2. CASE ~Due /\ UNCHANGED <<time, network>>
    BY <2>2
  <2>3. QED
    BY <1>sent, <2>1, <2>2 DEF SendHeartBeat
<1>5. CASE UNCHANGED vars
  BY <1>5 DEF vars
<1>6. CASE Start
  BY <1>6 DEF Start
<1>7. CASE Reopen
  BY <1>7 DEF Reopen
<1>8. ASSUME End, announced' \subseteq Instances, abandoned' \subseteq Instances,
             saved' \in Seq(ConfigLine) \cup {NoFile}
      PROVE  TypeInv'
  <2>1. HBMin \in HBMin .. HBMax
    BY <1>facts
  <2>2. <<>> \in Seq(Messages) /\ <<>> \in Seq(Instances)
    OBVIOUS
  <2>3. pc' = "off" /\ items' \in Items /\ instance' \in Instances
    BY <1>facts, <1>2, <1>8 DEF End
  <2>4. TypeOK'
    <3>1. batch' \in Seq(Messages) /\ preSend' \in Seq(Instances)
      BY <1>8, <2>2 DEF End
    <3>2. {reopened, configured, beaten, unheard}' \subseteq BOOLEAN
      BY <1>8 DEF End
    <3>3. {hbInterval, told}' \subseteq HBMin .. HBMax /\ {gap, lag}' \subseteq Nat /\ since' \in Int
      BY <1>8, <2>1 DEF End
    <3>4. port' \in Ports \cup {0} /\ hbType' \in {"ConfigAPP", "HeartBeatAPP"}
      BY <1>8 DEF End
    <3>5. QED
      BY <1>8, <2>3, <3>1, <3>2, <3>3, <3>4
  <2>5. QED
    BY <1>8, <2>3, <2>4
<1>9. CASE Die
  <2>1. saved' \in Seq(ConfigLine) \cup {NoFile}
    BY <1>9, LinesType DEF Die
  <2>2. QED
    BY <1>8, <1>9, <2>1 DEF Die
<1>10. CASE Load
  <2>1. CASE saved = NoFile
    BY <1>10, <2>1 DEF Load
  <2>2. CASE saved # NoFile
    <3> DEFINE new == Loaded(saved)
    <3>1. new \in Items /\ Configure(new) /\ items' = new
      BY <1>10, <2>2, LoadedType DEF Load
    <3>2. /\ hbType' = "HeartBeatAPP" /\ hbInterval' \in HBMin .. HBMax
          /\ hbMsg' = HeartBeat(hbType', hbInterval', port)
      BY <3>1, ConfigureType
    <3>3. Value(new.newconf) \in Names \ Rejected
      BY <1>10, <2>2, <3>1, NameValueType DEF Load
    <3>4. instance' \in Instances
      BY <1>10, <2>2, <3>3 DEF Load, Renames, Names
    <3>5. preSend' \in Seq(Instances)
      BY <1>10, <2>2, <3>4 DEF Load
    <3>6. QED
      BY <1>10, <3>1, <3>2, <3>4, <3>5 DEF Load
  <2>3. QED
    BY <2>1, <2>2
<1>11. CASE Listen
  <2>1. port' \in Ports
    <3>1. PICK taken \in SUBSET Ports :
            /\ taken # Ports
            /\ port' = IF HubPort \notin taken THEN HubPort ELSE Min(Ports \ taken)
      BY <1>11 DEF Listen
    <3>2. Ports \ taken \in SUBSET Nat /\ Ports \ taken # {} /\ HubPort \in Ports
      BY <3>1, XplDeviceAssumption
    <3>3. Min(Ports \ taken) \in Ports
      BY <3>2, LeastNatural
    <3>4. QED
      BY <3>1, <3>2, <3>3
  <2>2. hbInterval \in Int
    BY <1>facts
  <2>3. hbInterval' \in HBMin .. HBMax /\ hbType' = hbType /\ hbMsg' = HeartBeat(hbType', hbInterval', port')
    BY <1>11, <2>2, ClampType DEF Listen, SetHeartBeat
  <2>4. QED
    BY <1>11, <2>1, <2>3 DEF Listen
<1>12. CASE FirstBeat
  <2>1. pc' \notin {"off", "load", "listen"} /\ pc' \notin Answering /\ pc \in {"first", "loop"}
          /\ UNCHANGED <<batch, preSend, port, reopened, settings, instance, beat>>
    BY <1>12 DEF FirstBeat
  <2>2. QED
    BY <1>12, <1>sent, <2>1 DEF FirstBeat
<1>13. CASE SendWaiting
  BY <1>4, <1>13 DEF SendWaiting, SendUnder
<1>14. CASE Opened
  BY <1>14 DEF Opened
<1>15. CASE Close
  BY <1>15 DEF Close, SendHeartBeatEnd
<1>16. CASE Beat
  <2>1. pc' \notin {"off", "load", "listen"} /\ pc' \notin Answering /\ pc \in {"first", "loop"}
          /\ UNCHANGED <<batch, preSend, port, reopened, settings, instance, beat>>
    BY <1>16 DEF Beat
  <2>2. QED
    BY <1>16, <1>sent, <2>1 DEF Beat
<1>17. CASE Timeout
  BY <1>17 DEF Timeout
<1>18. CASE Receive
  BY <1>18, SeqDef DEF Receive, SeqOf
<1>19. CASE Parsed
  BY <1>19 DEF Parsed
<1>20. CASE Unreadable
  BY <1>20 DEF Unreadable
<1>21. CASE Misaddressed
  BY <1>8, <1>21 DEF Misaddressed
<1>22. CASE Skip
  BY <1>3, <1>22 DEF Skip
<1>23. CASE Answer
  BY <1>3, <1>23 DEF Answer, Handling, SendUnder
<1>24. CASE Respond
  <2> DEFINE new == Assign(items, Head(batch).values)
  <2>1. batch # <<>> /\ Head(batch).kind = "config.response" /\ Configure(new) /\ items' = new
    BY <1>24 DEF Respond, Handling
  <2>2. new \in Items
    BY <1>3, <2>1, AssignType
  <2>3. /\ hbType' = "HeartBeatAPP" /\ hbInterval' \in HBMin .. HBMax
        /\ hbMsg' = HeartBeat(hbType', hbInterval', port)
    BY <2>1, <2>2, ConfigureType
  <2>4. pc' = (IF Renames(new) THEN "end" ELSE "call") /\ pc = "parse"
          /\ UNCHANGED <<batch, preSend, port, reopened, saved, configured, instance, time, network>>
    BY <1>24 DEF Respond, Handling
  <2>5. Value(new.newconf) \in Names
    BY <2>2, NameValueType
  <2>6. pc' = "end" => Value(items'.newconf) \in Instances \cup Rejected
    BY <2>1, <2>4, <2>5 DEF Renames, Names
  <2> HIDE DEF new
  <2>7. QED
    BY <2>1, <2>2, <2>3, <2>4, <2>6
<1>25. CASE EndOld
  <2>1. announced' \subseteq Instances /\ abandoned' \subseteq Instances /\ unheard' = unheard
    BY <1>25 DEF EndOld, SendHeartBeatEnd
  <2>2. CASE Value(items.newconf) \in Rejected
    BY <1>8, <1>25, <2>1, <2>2 DEF EndOld
  <2>3. CASE Value(items.newconf) \notin Rejected
    BY <1>25, <2>1, <2>3 DEF EndOld
  <2>4. QED
    BY <2>2, <2>3
<1>26. CASE Greet
  BY <1>1, <1>26 DEF Greet, Announce
<1>27. CASE Call
  BY <1>27 DEF Call, SendUnder
<1>28. CASE ChangeFilters
  BY <1>28 DEF ChangeFilters, Handling
<1>29. CASE Truncate
  BY <1>29 DEF Truncate
<1>30. CASE Write
  BY <1>3, <1>30, LinesType DEF Write
<1>31. CASE Pause
  BY <1>31 DEF Pause
<1>32. CASE Tick
  BY <1>32 DEF Tick
<1>33. CASE SetClockBack
  BY <1>33 DEF SetClockBack
<1>34. QED
  BY <1>5, <1>6, <1>7, <1>9, <1>10, <1>11, <1>12, <1>13, <1>14, <1>15, <1>16, <1>17, <1>18, <1>19,
     <1>20, <1>21, <1>22, <1>23, <1>24, <1>25, <1>26, <1>27, <1>28, <1>29, <1>30, <1>31, <1>32,
     <1>33, Zenon DEF Next, Daemon

\* The variables hold what TypeOK says in every reachable state.
THEOREM TypeCorrect == Spec => []TypeOK
<1>1. TypeInv => TypeOK
  BY DEF TypeInv
<1>2. QED
  BY <1>1, TypeInit, TypeStep, PTL DEF Spec

\* What is sent as a heartbeat names the type, the interval and the port in use.
THEOREM HeartBeatTrue == Spec => []BeatTellsTheTruth
<1>1. TypeInv => BeatTellsTheTruth
  BY DEF TypeInv
<1>2. QED
  BY <1>1, TypeInit, TypeStep, PTL DEF Spec

-----------------------------------------------------------------------------
(***************************************************************************)
(* Names.  A process that opens the device, for the first time or again,   *)
(* has no name announced but those that were left by processes that died.  *)
(***************************************************************************)
NamesInv ==
  /\ NoGhosts
  /\ pc = "load" => announced \subseteq abandoned

(***************************************************************************)
(* What a process of one opening has sent.  Until the device is open the   *)
(* messages that wait were made under its present name; from then on the   *)
(* network has heard of that name, but for the moment of a renaming.       *)
(***************************************************************************)
Open == {"flush", "loop", "wait", "parse", "end", "call", "truncate", "write", "paused"}

HeardInv ==
  /\ HeardFirst
  /\ preSend # <<>> => pc \in {"listen", "first", "flush"}
  /\ ~reopened =>
       /\ pc \in {"off", "load", "listen", "first"} => ~beaten
       /\ pc \in Open => instance \in announced
       /\ \A i \in DOMAIN preSend : preSend[i] = instance

(***************************************************************************)
(* What has been saved makes the device a configured one at the next start,*)
(* and it is one before anything is saved.                                 *)
(***************************************************************************)
AskInv ==
  /\ NeverAsksAgain
  /\ configured => saved # NoFile
  /\ pc \in Answering /\ Head(batch).kind = "config.response" => hbType = "HeartBeatAPP"

(***************************************************************************)
(* The settings and what is made of them.  The name in the settings is the *)
(* one in use except while a new one is tried, so what is saved at other   *)
(* times has been accepted.                                                *)
(***************************************************************************)
SettingsInv ==
  /\ Value(items.newconf) \in {Blank, instance} \/ pc = "end"
  /\ Value(items.interval) # Blank => hbInterval = Clamp(Value(items.interval))
  /\ StartsAgain

(***************************************************************************)
(* The file.  Except while the device starts and while it answers a        *)
(* configuration, the file says what a file can keep of the settings: it   *)
(* was read by this process, or written by it after the last change.       *)
(***************************************************************************)
FileInv ==
  pc \notin {"off", "load"} \cup Answering /\ saved # NoFile => Loaded(saved) = Kept(items)

(***************************************************************************)
(* Time.  The clock of the device lags behind by what was lost, and was    *)
(* looked at when it began to wait.                                        *)
(***************************************************************************)
TimeInv ==
  /\ ListenersWaitNoLonger
  /\ since >= gap - lag /\ since >= -lag

\* NamesInv is inductive.
LEMMA NamesStep == TypeInv /\ TypeInv' /\ NamesInv /\ [Next]_vars => NamesInv'
<1> SUFFICES ASSUME TypeInv, TypeInv', NamesInv, [Next]_vars PROVE NamesInv'
  OBVIOUS
<1> USE DEF NamesInv, NoGhosts, thread, settings, beat, time, network
<1>1. CASE UNCHANGED vars
  BY <1>1 DEF vars
<1>2. CASE Start
  BY <1>2 DEF Start
<1>3. CASE Reopen
  BY <1>3 DEF Reopen
<1>4. CASE Die
  BY <1>4 DEF Die, End
<1>5. CASE Load
  BY <1>5 DEF Load, Configure, SetHeartBeat
<1>6. CASE Listen
  BY <1>6 DEF Listen, SetHeartBeat
<1>7. CASE FirstBeat
  BY <1>7 DEF FirstBeat, SendHeartBeat, Announce
<1>8. CASE SendWaiting
  BY <1>8 DEF SendWaiting, SendUnder
<1>9. CASE Opened
  BY <1>9 DEF Opened
<1>10. CASE Close
  BY <1>10 DEF Close, SendHeartBeatEnd
<1>11. CASE Beat
  BY <1>11 DEF Beat, SendHeartBeat, Announce
<1>12. CASE Timeout
  BY <1>12 DEF Timeout
<1>13. CASE Receive
  BY <1>13 DEF Receive
<1>14. CASE Parsed
  BY <1>14 DEF Parsed
<1>15. CASE Unreadable
  BY <1>15 DEF Unreadable
<1>16. CASE Misaddressed
  BY <1>16 DEF Misaddressed, End
<1>17. CASE Skip
  BY <1>17 DEF Skip
<1>18. CASE Answer
  BY <1>18 DEF Answer, Handling, SendUnder
<1>19. CASE Respond
  BY <1>19 DEF Respond, Handling, Configure, SetHeartBeat
<1>20. CASE EndOld
  BY <1>20 DEF EndOld, SendHeartBeatEnd, End
<1>21. CASE Greet
  BY <1>21 DEF Greet, Announce
<1>22. CASE Call
  BY <1>22 DEF Call, SendUnder
<1>23. CASE ChangeFilters
  BY <1>23 DEF ChangeFilters, Handling
<1>24. CASE Truncate
  BY <1>24 DEF Truncate
<1>25. CASE Write
  BY <1>25 DEF Write
<1>26. CASE Pause
  BY <1>26 DEF Pause
<1>27. CASE Tick
  BY <1>27 DEF Tick
<1>28. CASE SetClockBack
  BY <1>28 DEF SetClockBack
<1>29. QED
  BY <1>1, <1>2, <1>3, <1>4, <1>5, <1>6, <1>7, <1>8, <1>9, <1>10, <1>11, <1>12, <1>13, <1>14,
     <1>15, <1>16, <1>17, <1>18, <1>19, <1>20, <1>21, <1>22, <1>23, <1>24, <1>25, <1>26, <1>27,
     <1>28, Zenon
     DEF Next, Daemon

\* HeardInv is inductive.
LEMMA HeardStep == TypeInv /\ TypeInv' /\ HeardInv /\ [Next]_vars => HeardInv'
<1> SUFFICES ASSUME TypeInv, TypeInv', HeardInv, [Next]_vars PROVE HeardInv'
  OBVIOUS
<1> USE DEF HeardInv, HeardFirst, Open, thread, settings, beat, time, network
<1>1. CASE UNCHANGED vars
  BY <1>1 DEF vars
<1>2. CASE Start
  BY <1>2 DEF Start
<1>3. CASE Reopen
  BY <1>3 DEF Reopen
<1>4. CASE Die
  BY <1>4 DEF Die, End
<1>5. CASE Load
  BY <1>5 DEF Load, Configure, SetHeartBeat
<1>6. CASE Listen
  BY <1>6 DEF Listen, SetHeartBeat
<1>7. CASE FirstBeat
  BY <1>7 DEF FirstBeat, SendHeartBeat, Announce, Due
<1>8. CASE SendWaiting
  <2>1. preSend # <<>> /\ preSend \in Seq(Instances) /\ preSend' = Tail(preSend) /\ pc = "flush"
    BY <1>8 DEF SendWaiting, TypeInv, TypeOK
  <2>2. Head(preSend) = preSend[1] /\ 1 \in DOMAIN preSend
    BY <2>1
  <2>3. \A i \in DOMAIN preSend' : i + 1 \in DOMAIN preSend /\ preSend'[i] = preSend[i + 1]
    BY <2>1
  <2>4. ~reopened => Head(preSend) = instance /\ instance \in announced
    BY <2>1, <2>2
  <2>5. ~unheard'
    BY <1>8, <2>4 DEF SendWaiting, SendUnder
  <2>6. QED
    BY <1>8, <2>1, <2>3, <2>5 DEF SendWaiting, SendUnder
<1>9. CASE Opened
  BY <1>9 DEF Opened
<1>10. CASE Close
  BY <1>10 DEF Close, SendHeartBeatEnd
<1>11. CASE Beat
  BY <1>11 DEF Beat, SendHeartBeat, Announce
<1>12. CASE Timeout
  BY <1>12 DEF Timeout
<1>13. CASE Receive
  BY <1>13 DEF Receive
<1>14. CASE Parsed
  BY <1>14 DEF Parsed
<1>15. CASE Unreadable
  BY <1>15 DEF Unreadable
<1>16. CASE Misaddressed
  BY <1>16 DEF Misaddressed, End
<1>17. CASE Skip
  BY <1>17 DEF Skip
<1>18. CASE Answer
  BY <1>18 DEF Answer, Handling, SendUnder
<1>19. CASE Respond
  BY <1>19 DEF Respond, Handling, Configure, SetHeartBeat
<1>20. CASE EndOld
  BY <1>20 DEF EndOld, SendHeartBeatEnd, End
<1>21. CASE Greet
  BY <1>21 DEF Greet, Announce
<1>22. CASE Call
  BY <1>22 DEF Call, SendUnder
<1>23. CASE ChangeFilters
  BY <1>23 DEF ChangeFilters, Handling
<1>24. CASE Truncate
  BY <1>24 DEF Truncate
<1>25. CASE Write
  BY <1>25 DEF Write
<1>26. CASE Pause
  BY <1>26 DEF Pause
<1>27. CASE Tick
  BY <1>27 DEF Tick
<1>28. CASE SetClockBack
  BY <1>28 DEF SetClockBack
<1>29. QED
  BY <1>1, <1>2, <1>3, <1>4, <1>5, <1>6, <1>7, <1>8, <1>9, <1>10, <1>11, <1>12, <1>13, <1>14,
     <1>15, <1>16, <1>17, <1>18, <1>19, <1>20, <1>21, <1>22, <1>23, <1>24, <1>25, <1>26, <1>27,
     <1>28, Zenon
     DEF Next, Daemon

\* AskInv is inductive.
LEMMA AskStep == TypeInv /\ TypeInv' /\ AskInv /\ [Next]_vars => AskInv'
<1> SUFFICES ASSUME TypeInv, TypeInv', AskInv, [Next]_vars PROVE AskInv'
  OBVIOUS
<1> USE DEF AskInv, NeverAsksAgain, Answering, thread, settings, beat, time, network
<1>facts. NoFile \notin Seq(ConfigLine) /\ <<>> \in Seq(ConfigLine)
  BY XplDeviceAssumption
<1>types. items \in Items
  BY DEF TypeInv, TypeOK
<1>1. CASE UNCHANGED vars
  BY <1>1 DEF vars
<1>2. CASE Start
  BY <1>2 DEF Start
<1>3. CASE Reopen
  BY <1>3 DEF Reopen
<1>4. CASE Die
  BY <1>4, <1>facts, <1>types, LinesType DEF Die, End
<1>5. CASE Load
  BY <1>5 DEF Load, Configure, SetHeartBeat
<1>6. CASE Listen
  BY <1>6 DEF Listen, SetHeartBeat
<1>7. CASE FirstBeat
  BY <1>7 DEF FirstBeat, SendHeartBeat, Announce
<1>8. CASE SendWaiting
  BY <1>8 DEF SendWaiting, SendUnder
<1>9. CASE Opened
  BY <1>9 DEF Opened
<1>10. CASE Close
  BY <1>10 DEF Close, SendHeartBeatEnd
<1>11. CASE Beat
  BY <1>11 DEF Beat, SendHeartBeat, Announce
<1>12. CASE Timeout
  BY <1>12 DEF Timeout
<1>13. CASE Receive
  BY <1>13 DEF Receive
<1>14. CASE Parsed
  BY <1>14 DEF Parsed
<1>15. CASE Unreadable
  BY <1>15 DEF Unreadable
<1>16. CASE Misaddressed
  BY <1>16 DEF Misaddressed, End
<1>17. CASE Skip
  BY <1>17 DEF Skip
<1>18. CASE Answer
  BY <1>18 DEF Answer, Handling, SendUnder
<1>19. CASE Respond
  BY <1>19 DEF Respond, Handling, Configure, SetHeartBeat
<1>20. CASE EndOld
  BY <1>20 DEF EndOld, SendHeartBeatEnd, End
<1>21. CASE Greet
  BY <1>21 DEF Greet, Announce
<1>22. CASE Call
  BY <1>22 DEF Call, SendUnder
<1>23. CASE ChangeFilters
  BY <1>23 DEF ChangeFilters, Handling
<1>24. CASE Truncate
  BY <1>24, <1>facts DEF Truncate
<1>25. CASE Write
  BY <1>25, <1>facts, <1>types, LinesType DEF Write
<1>26. CASE Pause
  BY <1>26 DEF Pause
<1>27. CASE Tick
  BY <1>27 DEF Tick
<1>28. CASE SetClockBack
  BY <1>28 DEF SetClockBack
<1>29. QED
  BY <1>1, <1>2, <1>3, <1>4, <1>5, <1>6, <1>7, <1>8, <1>9, <1>10, <1>11, <1>12, <1>13, <1>14,
     <1>15, <1>16, <1>17, <1>18, <1>19, <1>20, <1>21, <1>22, <1>23, <1>24, <1>25, <1>26, <1>27,
     <1>28, Zenon
     DEF Next, Daemon

\* SettingsInv is inductive.
LEMMA SettingsStep == TypeInv /\ TypeInv' /\ SettingsInv /\ [Next]_vars => SettingsInv'
<1> SUFFICES ASSUME TypeInv, TypeInv', SettingsInv, [Next]_vars PROVE SettingsInv'
  OBVIOUS
<1> USE DEF SettingsInv, StartsAgain, thread, settings, beat, time, network
<1>facts. /\ Value(items.newconf) \in {Blank, instance} => Value(items.newconf) \notin Rejected
      /\ Blank \notin Rejected
  BY BasicConfigAssumption DEF TypeInv, TypeOK
<1>types. items \in Items /\ hbInterval \in HBMin .. HBMax
  BY DEF TypeInv, TypeOK
<1>1. CASE UNCHANGED vars
  BY <1>1 DEF vars
<1>2. CASE Start
  BY <1>2 DEF Start
<1>3. CASE Reopen
  BY <1>3 DEF Reopen
<1>4. CASE Die
  <2>1. CASE pc = "write"
    <3>1. PICK n \in 0 .. Len(Lines(items)) : saved' = SubSeq(Lines(items), 1, n)
      BY <1>4, <2>1 DEF Die
    <3>2. Lookup(saved', "newconf", 0) \notin Rejected
      BY <1>facts, <1>types, <2>1, <3>1, SavedName
    <3>3. QED
      BY <1>4, <3>2, FirstSettings DEF Die, End
  <2>2. CASE pc # "write"
    BY <1>4, <2>2, FirstSettings DEF Die, End
  <2>3. QED
    BY <2>1, <2>2
<1>5. CASE Load
  <2>1. CASE saved = NoFile
    BY <1>5, <2>1 DEF Load
  <2>2. CASE saved # NoFile
    <3>1. Value(items'.newconf) \in {Blank, instance'}
      BY <1>5, <2>2 DEF Load, Renames
    <3>2. Value(items'.interval) # Blank => hbInterval' = Clamp(Value(items'.interval))
      BY <1>5, <2>2 DEF Load, Configure, SetHeartBeat
    <3>3. saved' = saved
      BY <1>5 DEF Load
    <3>4. QED
      BY <3>1, <3>2, <3>3
  <2>3. QED
    BY <2>1, <2>2
<1>6. CASE Listen
  <2>1. hbInterval' = hbInterval
    BY <1>6, <1>types, ClampIdle DEF Listen, SetHeartBeat
  <2>2. QED
    BY <1>6, <2>1 DEF Listen
<1>7. CASE FirstBeat
  BY <1>7 DEF FirstBeat, SendHeartBeat, Announce
<1>8. CASE SendWaiting
  BY <1>8 DEF SendWaiting, SendUnder
<1>9. CASE Opened
  BY <1>9 DEF Opened
<1>10. CASE Close
  BY <1>10 DEF Close, SendHeartBeatEnd
<1>11. CASE Beat
  BY <1>11 DEF Beat, SendHeartBeat, Announce
<1>12. CASE Timeout
  BY <1>12 DEF Timeout
<1>13. CASE Receive
  BY <1>13 DEF Receive
<1>14. CASE Parsed
  BY <1>14 DEF Parsed
<1>15. CASE Unreadable
  BY <1>15 DEF Unreadable
<1>16. CASE Misaddressed
  BY <1>16, FirstSettings DEF Misaddressed, End
<1>17. CASE Skip
  BY <1>17 DEF Skip
<1>18. CASE Answer
  BY <1>18 DEF Answer, Handling, SendUnder
<1>19. CASE Respond
  <2> DEFINE new == Assign(items, Head(batch).values)
  <2>1. items' = new /\ Configure(new) /\ pc' = (IF Renames(new) THEN "end" ELSE "call")
          /\ UNCHANGED <<saved, instance>>
    BY <1>19 DEF Respond
  <2>2. Value(new.interval) # Blank => hbInterval' = Clamp(Value(new.interval))
    BY <2>1 DEF Configure, SetHeartBeat
  <2>3. Value(new.newconf) \in {Blank, instance} \/ pc' = "end"
    BY <2>1 DEF Renames
  <2> HIDE DEF new
  <2>4. QED
    BY <2>1, <2>2, <2>3
<1>20. CASE EndOld
  BY <1>20, FirstSettings DEF EndOld, SendHeartBeatEnd, End
<1>21. CASE Greet
  BY <1>21 DEF Greet, Announce
<1>22. CASE Call
  BY <1>22 DEF Call, SendUnder
<1>23. CASE ChangeFilters
  BY <1>23 DEF ChangeFilters, Handling
<1>24. CASE Truncate
  <2>1. Lookup(<<>>, "newconf", 0) = Blank
    BY DEF Lookup, ToSet
  <2>2. QED
    BY <1>24, <1>facts, <2>1 DEF Truncate
<1>25. CASE Write
  <2>1. Lines(items) \in Seq(ConfigLine)
    BY <1>types, LinesType
  <2>2. Lines(items) = SubSeq(Lines(items), 1, Len(Lines(items))) /\ Len(Lines(items)) \in Nat
    BY <2>1, SubSeqFull, LenProperties
  <2>3. Lookup(Lines(items), "newconf", 0) \in {Blank, Value(items.newconf)}
    <3> DEFINE n == Len(Lines(items))
    <3>1. n \in 0 .. Len(Lines(items))
      BY <2>2
    <3>2. Lookup(SubSeq(Lines(items), 1, n), "newconf", 0) \in {Blank, Value(items.newconf)}
      BY <1>types, <3>1, SavedName
    <3>3. QED
      BY <2>2, <3>2
  <2>4. pc = "write" /\ saved' = Lines(items) /\ UNCHANGED <<items, instance, hbInterval>>
    BY <1>25 DEF Write
  <2>5. QED
    BY <1>facts, <2>3, <2>4
<1>26. CASE Pause
  BY <1>26 DEF Pause
<1>27. CASE Tick
  BY <1>27 DEF Tick
<1>28. CASE SetClockBack
  BY <1>28 DEF SetClockBack
<1>29. QED
  BY <1>1, <1>2, <1>3, <1>4, <1>5, <1>6, <1>7, <1>8, <1>9, <1>10, <1>11, <1>12, <1>13, <1>14,
     <1>15, <1>16, <1>17, <1>18, <1>19, <1>20, <1>21, <1>22, <1>23, <1>24, <1>25, <1>26, <1>27,
     <1>28, Zenon
     DEF Next, Daemon

\* FileInv is inductive: only Load and Write lead to it.
LEMMA FileStep == TypeInv /\ FileInv /\ [Next]_vars => FileInv'
<1> SUFFICES ASSUME TypeInv, FileInv, [Next]_vars PROVE FileInv'
  OBVIOUS
<1> USE DEF FileInv, Answering, thread, settings, beat, time, network
<1>types. items \in Items /\ saved \in Seq(ConfigLine) \cup {NoFile}
  BY DEF TypeInv, TypeOK
<1>1. CASE UNCHANGED vars
  BY <1>1 DEF vars
<1>2. CASE Start
  BY <1>2 DEF Start
<1>3. CASE Reopen
  BY <1>3 DEF Reopen
<1>4. CASE Die
  BY <1>4 DEF Die, End
<1>5. CASE Load
  <2>1. CASE saved = NoFile
    BY <1>5, <2>1 DEF Load
  <2>2. CASE saved # NoFile
    <3>1. items' = Loaded(saved) /\ saved' = saved
      BY <1>5, <2>2 DEF Load
    <3>2. Kept(Loaded(saved)) = Loaded(saved)
      BY <1>types, <2>2, LoadedKept
    <3>3. QED
      BY <3>1, <3>2
  <2>3. QED
    BY <2>1, <2>2
<1>6. CASE Listen
  BY <1>6 DEF Listen, SetHeartBeat
<1>7. CASE FirstBeat
  BY <1>7 DEF FirstBeat, SendHeartBeat, Announce
<1>8. CASE SendWaiting
  BY <1>8 DEF SendWaiting, SendUnder
<1>9. CASE Opened
  BY <1>9 DEF Opened
<1>10. CASE Close
  BY <1>10 DEF Close, SendHeartBeatEnd
<1>11. CASE Beat
  BY <1>11 DEF Beat, SendHeartBeat, Announce
<1>12. CASE Timeout
  BY <1>12 DEF Timeout
<1>13. CASE Receive
  BY <1>13 DEF Receive
<1>14. CASE Parsed
  BY <1>14 DEF Parsed
<1>15. CASE Unreadable
  BY <1>15 DEF Unreadable
<1>16. CASE Misaddressed
  BY <1>16 DEF Misaddressed, End
<1>17. CASE Skip
  BY <1>17 DEF Skip
<1>18. CASE Answer
  BY <1>18 DEF Answer, Handling, SendUnder
<1>19. CASE Respond
  <2>1. pc' \in {"end", "call"}
    BY <1>19 DEF Respond
  <2>2. QED
    BY <2>1
<1>20. CASE EndOld
  BY <1>20 DEF EndOld, SendHeartBeatEnd, End
<1>21. CASE Greet
  BY <1>21 DEF Greet, Announce
<1>22. CASE Call
  BY <1>22 DEF Call, SendUnder
<1>23. CASE ChangeFilters
  BY <1>23 DEF ChangeFilters, Handling
<1>24. CASE Truncate
  BY <1>24 DEF Truncate
<1>25. CASE Write
  <2>1. items' = items /\ saved' = Lines(items)
    BY <1>25 DEF Write
  <2>2. Loaded(Lines(items)) = Kept(items)
    BY <1>types, LinesKeep
  <2>3. QED
    BY <2>1, <2>2
<1>26. CASE Pause
  BY <1>26 DEF Pause
<1>27. CASE Tick
  BY <1>27 DEF Tick
<1>28. CASE SetClockBack
  BY <1>28 DEF SetClockBack
<1>29. QED
  BY <1>1, <1>2, <1>3, <1>4, <1>5, <1>6, <1>7, <1>8, <1>9, <1>10, <1>11, <1>12, <1>13, <1>14,
     <1>15, <1>16, <1>17, <1>18, <1>19, <1>20, <1>21, <1>22, <1>23, <1>24, <1>25, <1>26, <1>27,
     <1>28, Zenon
     DEF Next, Daemon

\* TimeInv is inductive.
LEMMA TimeStep == TypeInv /\ TypeInv' /\ TimeInv /\ [Next]_vars => TimeInv'
<1> SUFFICES ASSUME TypeInv, TypeInv', TimeInv, [Next]_vars PROVE TimeInv'
  OBVIOUS
<1> USE DEF TimeInv, ListenersWaitNoLonger, thread, settings, beat, time, network
<1>facts. /\ since \in Int /\ gap \in Nat /\ lag \in Nat
      /\ told \in HBMin .. HBMax /\ hbInterval \in HBMin .. HBMax
      /\ hbType \in {"ConfigAPP", "HeartBeatAPP"}
  BY DEF TypeInv, TypeOK
<1>types. /\ HBMin \in Nat /\ HBMax \in Nat /\ Minute \in Nat /\ ConfigBeat \in Nat
       /\ 0 < ConfigBeat /\ ConfigBeat <= HBMin * Minute
  BY XplDeviceAssumption
<1>1. CASE UNCHANGED vars
  BY <1>1 DEF vars
<1>2. CASE Start
  BY <1>2 DEF Start
<1>3. CASE Reopen
  BY <1>3 DEF Reopen
<1>4. CASE Die
  BY <1>4 DEF Die, End
<1>5. CASE Load
  BY <1>5 DEF Load, Configure, SetHeartBeat
<1>6. CASE Listen
  BY <1>6 DEF Listen, SetHeartBeat
<1>7. CASE FirstBeat
  BY <1>7 DEF FirstBeat, SendHeartBeat, Announce
<1>8. CASE SendWaiting
  BY <1>8 DEF SendWaiting, SendUnder
<1>9. CASE Opened
  BY <1>9 DEF Opened
<1>10. CASE Close
  BY <1>10 DEF Close, SendHeartBeatEnd
<1>11. CASE Beat
  <2>1. CASE Due /\ Announce /\ beaten' = TRUE /\ since' = 0 /\ lag' = 0 /\ UNCHANGED unheard
    <3>1. told' = hbMsg.interval /\ gap' = 0 /\ since' = 0 /\ lag' = 0
      BY <2>1 DEF Announce
    <3>2. told' \in Nat /\ HBMin <= told'
      BY <1>types DEF TypeInv, TypeOK
    <3>3. HBMin * Minute <= told' * Minute /\ told' * Minute \in Nat /\ HBMin * Minute \in Nat
      <4>1. \A n \in Nat : HBMin <= n => HBMin * Minute <= n * Minute
        BY <1>types, LongerInSeconds
      <4>2. \A n \in Nat : n * Minute \in Nat
        BY <1>types
      <4>3. QED
        BY <1>types, <3>2, <4>1, <4>2
    <3>4. 0 < told' * Minute
      BY <1>types, <3>3
    <3>5. gap' < told' * Minute + lag'
      BY <3>1, <3>3, <3>4
    <3>6. QED
      BY <3>1, <3>5
  <2>2. CASE ~Due /\ UNCHANGED <<time, network>>
    <3>1. since < Period
      BY <1>facts, <1>types, <2>2 DEF Due, Period
    <3>2. ASSUME hbInterval <= told PROVE Period <= told * Minute /\ told * Minute \in Nat
      <4>1. /\ hbInterval * Minute <= told * Minute /\ HBMin * Minute <= told * Minute
            /\ told * Minute \in Nat /\ HBMin * Minute \in Nat /\ hbInterval * Minute \in Nat
        BY <1>facts, <1>types, <3>2, LongerInSeconds
      <4>2. QED
        BY <1>types, <4>1 DEF Period
    <3>3. Period \in Nat
      <4>1. hbInterval * Minute \in Nat
        BY <1>facts, <1>types
      <4>2. QED
        BY <1>types, <4>1 DEF Period
    <3>4. hbInterval <= told => gap < told * Minute + lag
      BY <1>facts, <3>1, <3>2, <3>3
    <3>5. UNCHANGED <<since, gap, lag, told, hbInterval>>
      BY <1>11, <2>2 DEF Beat
    <3>6. QED
      BY <3>4, <3>5
  <2>3. QED
    BY <1>11, <2>1, <2>2 DEF Beat, SendHeartBeat
<1>12. CASE Timeout
  BY <1>12 DEF Timeout
<1>13. CASE Receive
  BY <1>13 DEF Receive
<1>14. CASE Parsed
  BY <1>14 DEF Parsed
<1>15. CASE Unreadable
  BY <1>15 DEF Unreadable
<1>16. CASE Misaddressed
  BY <1>16 DEF Misaddressed, End
<1>17. CASE Skip
  BY <1>17 DEF Skip
<1>18. CASE Answer
  BY <1>18 DEF Answer, Handling, SendUnder
<1>19. CASE Respond
  BY <1>19 DEF Respond, Handling, Configure, SetHeartBeat
<1>20. CASE EndOld
  BY <1>20 DEF EndOld, SendHeartBeatEnd, End
<1>21. CASE Greet
  <2>1. gap' = 0 /\ UNCHANGED <<since, lag>> /\ pc' = "call"
    BY <1>21 DEF Greet, Announce
  <2>2. QED
    BY <1>facts, <2>1
<1>22. CASE Call
  BY <1>22 DEF Call, SendUnder
<1>23. CASE ChangeFilters
  BY <1>23 DEF ChangeFilters, Handling
<1>24. CASE Truncate
  BY <1>24 DEF Truncate
<1>25. CASE Write
  BY <1>25 DEF Write
<1>26. CASE Pause
  BY <1>26 DEF Pause
<1>27. CASE Tick
  <2>1. pc' # "wait" /\ gap' = gap + 1 /\ since' = since + 1 /\ (lag' = lag \/ lag' = lag + 1)
    BY <1>27 DEF Tick
  <2>2. since' >= gap' - lag' /\ since' >= -lag'
    BY <1>facts, <2>1
  <2>3. QED
    BY <2>1, <2>2
<1>28. CASE SetClockBack
  <2>1. pc' = pc /\ UNCHANGED <<gap, told, hbInterval>> /\ since' = since - 1 /\ lag' = lag + 1
    BY <1>28 DEF SetClockBack
  <2>2. told * Minute \in Nat
    BY <1>facts, <1>types
  <2>3. QED
    BY <1>facts, <2>1, <2>2
<1>29. QED
  BY <1>1, <1>2, <1>3, <1>4, <1>5, <1>6, <1>7, <1>8, <1>9, <1>10, <1>11, <1>12, <1>13, <1>14,
     <1>15, <1>16, <1>17, <1>18, <1>19, <1>20, <1>21, <1>22, <1>23, <1>24, <1>25, <1>26, <1>27,
     <1>28, Zenon
     DEF Next, Daemon

-----------------------------------------------------------------------------
(* What follows for every behaviour *)

\* The network keeps no name the device has given up.
THEOREM NoGhostsKept == Spec => []NoGhosts
<1>1. Init => NamesInv
  BY DEF Init, NamesInv, NoGhosts
<1>2. NamesInv => NoGhosts
  BY DEF NamesInv
<1>3. QED
  BY <1>1, <1>2, TypeInit, TypeStep, NamesStep, PTL DEF Spec

\* Nothing is sent under a name before the network has heard of it.
THEOREM HeardFirstKept == Spec => []HeardFirst
<1>1. Init => HeardInv
  BY DEF Init, HeardInv, HeardFirst, Open
<1>2. HeardInv => HeardFirst
  BY DEF HeardInv
<1>3. QED
  BY <1>1, <1>2, TypeInit, TypeStep, HeardStep, PTL DEF Spec

\* A device that was configured comes back as a configured one.
THEOREM NeverAsksAgainKept == Spec => []NeverAsksAgain
<1>1. Init => AskInv
  BY DEF Init, AskInv, NeverAsksAgain, Answering
<1>2. AskInv => NeverAsksAgain
  BY DEF AskInv
<1>3. QED
  BY <1>1, <1>2, TypeInit, TypeStep, AskStep, PTL DEF Spec

\* The file never has a name that would end every start.
THEOREM StartsAgainKept == Spec => []StartsAgain
<1>1. Init => SettingsInv
  BY FirstSettings DEF Init, SettingsInv, StartsAgain
<1>2. SettingsInv => StartsAgain
  BY DEF SettingsInv
<1>3. QED
  BY <1>1, <1>2, TypeInit, TypeStep, SettingsStep, PTL DEF Spec

\* Between two calls of WaitRecv the settings are in use.
THEOREM SettingsInUseKept == Spec => []SettingsInUse
<1>1. Init => SettingsInv
  BY FirstSettings DEF Init, SettingsInv, StartsAgain
<1>2. SettingsInv => SettingsInUse
  BY DEF SettingsInv, SettingsInUse
<1>3. QED
  BY <1>1, <1>2, TypeInit, TypeStep, SettingsStep, PTL DEF Spec

\* config.current says after a restart what it said before.
THEOREM CurrentSurvivesRestartKept == Spec => []CurrentSurvivesRestart
<1>1. Init => FileInv
  BY DEF Init, FileInv
<1>2. FileInv => CurrentSurvivesRestart
  BY DEF FileInv, CurrentSurvivesRestart, Kept, Answering
<1>3. QED
  BY <1>1, <1>2, TypeInit, TypeStep, FileStep, PTL DEF Spec

\* Heartbeats come within the interval that was announced.
THEOREM ListenersWaitNoLongerKept == Spec => []ListenersWaitNoLonger
<1>1. Init => TimeInv
  BY DEF Init, TimeInv, ListenersWaitNoLonger
<1>2. TimeInv => ListenersWaitNoLonger
  BY DEF TimeInv
<1>3. QED
  BY <1>1, <1>2, TypeInit, TypeStep, TimeStep, PTL DEF Spec
=============================================================================
