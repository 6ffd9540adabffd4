----------------------------- MODULE BasicConfig -----------------------------
(***************************************************************************)
(* The settings of an xPL device (BasicConfig and its ConfigItems): how a  *)
(* config.response changes them, how they are written to the section [xPL] *)
(* of the configuration file and what is read back from it.                *)
(*                                                                         *)
(* Kept are the instance name, the interval of the heartbeat and one       *)
(* setting with several values; the settings of the database are those of  *)
(* Persistence.                                                            *)
(***************************************************************************)
EXTENDS Integers, SequencesExt, FiniteSetsExt

CONSTANTS
  Blank,      \* the empty value
  Instances,  \* names Address::SetInstance accepts
  Rejected,   \* names it throws at: too long, or with a dot or a dash
  Intervals,  \* what atoi makes of an interval
  Groups      \* names of groups

ASSUME BasicConfigAssumption ==
  /\ Instances \cap Rejected = {}
  /\ Blank \notin Instances \cup Rejected \cup Intervals \cup Groups
  /\ Intervals \subseteq Int

Names == Instances \cup Rejected \cup {Blank}

\* A ConfigItem is the sequence of its values.
Items == [newconf : Seq(Names), interval : Seq(Intervals \cup {Blank}), group : Seq(Groups \cup {Blank})]

\* A line of the section: a name, the number of the value, or 0, and the value.
ConfigLine ==
  ({"newconf"} \X {0} \X Names) \cup ({"interval"} \X {0} \X (Intervals \cup {Blank}))
    \cup ({"group"} \X Nat \X (Groups \cup {Blank}))

\* GetValue(0)
Value(item) == IF item = <<>> THEN Blank ELSE Head(item)

\* MsgAnswer, config.response: the settings it names take the values it has.
Assign(items, response) ==
  [n \in DOMAIN items |-> IF n \in DOMAIN response THEN response[n] ELSE items[n]]

\* mutated Lines: every value under the same key
SameKeyLines(items) ==
  [i \in DOMAIN items.group |-> <<"group", 1, items.group[i]>>]
    \o <<<<"interval", 0, Value(items.interval)>>, <<"newconf", 0, Value(items.newconf)>>>>

\* SaveConfig: key[1], key[2], ... for several values, in the order of the keys.
Lines(items) ==
  [i \in DOMAIN items.group |-> <<"group", i, items.group[i]>>]
    \o <<<<"interval", 0, Value(items.interval)>>, <<"newconf", 0, Value(items.newconf)>>>>

\* SimpleIni::GetValue with the default "".
Lookup(file, name, i) ==
  IF \E l \in ToSet(file) : l[1] = name /\ l[2] = i
  THEN (CHOOSE l \in ToSet(file) : l[1] = name /\ l[2] = i)[3]
  ELSE Blank

\* LoadConfig: several values are read up to the first empty one.
Loaded(file) ==
  LET filled == {n \in 0 .. Len(file) : \A i \in 1 .. n : Lookup(file, "group", i) # Blank}
  IN  [newconf  |-> <<Lookup(file, "newconf", 0)>>,
       interval |-> <<Lookup(file, "interval", 0)>>,
       group    |-> [i \in 1 .. Max(filled) |-> Lookup(file, "group", i)]]

\* ToConfigCurrent: what config.current says of the settings.
Current(items) == [n \in DOMAIN items |-> IF items[n] = <<>> THEN <<Blank>> ELSE items[n]]
=============================================================================
