------------------------------ MODULE Filters ------------------------------
(***************************************************************************)
(* The filters: advanceconfig messages change the list of AdvanceConfig,   *)
(* its callbacks keep the map m_Filters of xPLDatabase in line, and every  *)
(* change rewrites the configuration file, from which both are rebuilt at  *)
(* the next start.                                                         *)
(*                                                                         *)
(* The file is emptied when it is opened and then written line by line, in *)
(* the order of names and keys; the process can be killed between two      *)
(* lines or in the middle of one.                                          *)
(***************************************************************************)
EXTENDS Integers, SequencesExt

CONSTANTS
  Names,     \* names of filters, ordered as std::map orders them
  Twice,     \* pairs of a name and of what begins with it, both names of a request
  Given,     \* the sets of keys a request may give
  XPL,       \* the name "xPL", under which BasicConfig keeps its settings
  Texts,     \* sources and value names
  Empty,     \* the empty text
  Cut,       \* what is left of a text whose line was cut
  Currrent   \* "currrent", the name of the value if a filter names none

ASSUME FiltersAssumption ==
  /\ Names \subseteq Nat /\ XPL \in Names
  /\ \A p \in Twice : p[1] \in Names /\ p[2] \in Names /\ p[1] < p[2]
  /\ Given \subseteq SUBSET {"source", "valuename"}
  /\ Empty \in Texts /\ Cut \in Texts /\ Currrent \notin {Empty, Cut}

VARIABLES
  pc,        \* "off", "idle", "open" or "write": SaveConfig before and after opening
  list,      \* AdvanceConfig::m_DeviceValues
  filters,   \* xPLDatabase::m_Filters
  unsaved,   \* the lines SaveAs has still to write, in their order
  ini,       \* the file: for each section a value for some of the keys
  ordered,   \* history: the filters the messages asked for, while undisturbed
  disturbed, \* history: a save was cut or refused, a request gave two names or xPL
  unfiltered \* history: the names a request with two names has put in the list

vars == <<pc, list, filters, unsaved, ini, ordered, disturbed, unfiltered>>

Keys == {"source", "valuename"}
Entry == [name : Names, values : UNION {[ks -> Texts] : ks \in SUBSET Keys}]

\* The keys of a section; `interval' stands for the settings of BasicConfig.
SectionKeys == Keys \cup {"interval"}

Nothing == [n \in {} |-> Empty]

Init ==
  /\ pc = "off" /\ list = <<>> /\ filters = Nothing
  /\ unsaved = {} /\ ini = Nothing
  /\ ordered = Nothing /\ disturbed = FALSE /\ unfiltered = {}

-----------------------------------------------------------------------------
(* The list and the map *)

Put(f, x, y) == [z \in DOMAIN f \cup {x} |-> IF z = x THEN y ELSE f[z]]
Drop(f, x) == [z \in DOMAIN f \ {x} |-> f[z]]

\* (*config)[key], which inserts a missing key with an empty value.
Complete(values) == [k \in Keys |-> IF k \in DOMAIN values THEN values[k] ELSE Empty]

\* Filter::Set.
Filter(values) ==
  [source |-> values["source"],
   valuename |-> IF values["valuename"] = Empty THEN Currrent ELSE values["valuename"]]

Places(name) == {i \in DOMAIN list : list[i].name = name}

\* AddConfig: the list l with the entry e, instead of one of that name if there is one.
Added(l, e) ==
  IF \E i \in DOMAIN l : l[i].name = e.name
  THEN [i \in DOMAIN l |-> IF l[i].name = e.name THEN e ELSE l[i]]
  ELSE Append(l, e)

\* mutated DelConfig
DelConfigBefore(name) ==
  list' = IF Places(name) = {} THEN list
          ELSE RemoveAt(list, Max({1, (CHOOSE i \in Places(name) : TRUE) - 1}))

DelConfig(name) ==
  list' = IF Places(name) = {} THEN list
          ELSE RemoveAt(list, CHOOSE i \in Places(name) : TRUE)

KeepValues(values) == values  \* mutated Stored

\* What an entry of the list holds after ConfigChange or AdvanceConfigure.
Stored(values) == Complete(values)

-----------------------------------------------------------------------------
(* Messages *)

\* The history; once disturbed, it ends.
Wants(f, trouble) ==
  /\ disturbed' = (disturbed \/ trouble)
  /\ ordered' = IF disturbed' THEN Nothing ELSE f

\* What the process held is gone with it.
Gone == pc' = "off" /\ list' = <<>> /\ filters' = Nothing /\ unsaved' = {} /\ unfiltered' = {}

Save == pc' = "open" /\ UNCHANGED <<unsaved, ini>>

\* advanceconfig.request: AddConfig, ConfigChange, SaveConfig.
Request(name, values) ==
  /\ pc = "idle"
  /\ list' = Added(list, [name |-> name, values |-> Stored(values)])
  /\ filters' = Put(filters, name, Filter(Complete(values)))
  /\ unfiltered' = unfiltered \ {name}
  /\ Save
  /\ Wants(Put(ordered, name, Filter(Complete(values))), name = XPL)

\* A request with two names: the entry gets both of them, written together, but
\* ConfigChange is given the first and looks it up; if it is not there, the null
\* pointer it gets ends the daemon.
RequestTwice(name, joined, values) ==
  /\ pc = "idle"
  /\ \/ /\ Places(name) = {} /\ Gone
        /\ UNCHANGED <<ini, ordered, disturbed>>
     \/ \E i \in Places(name) :
          LET found == Complete(list[i].values)
          IN  /\ list' = Added(Added(list, [name |-> joined, values |-> values]),
                              [name |-> name, values |-> found])
              /\ filters' = Put(filters, name, Filter(found))
              /\ unfiltered' = (unfiltered \ {name}) \cup {joined}
              /\ Save
              /\ Wants(ordered, TRUE)

\* advanceconfig.current with the command delete.
Delete(name) ==
  /\ pc = "idle"
  /\ DelConfig(name)
  /\ filters' = Drop(filters, name)
  /\ unfiltered' = unfiltered \ {name}
  /\ Save
  /\ Wants(Drop(ordered, name), FALSE)

\* The same without a name.
DeleteAll ==
  /\ pc = "idle"
  /\ list' = <<>> /\ filters' = Nothing /\ unfiltered' = {}
  /\ Save
  /\ Wants(Nothing, FALSE)

\* config.response: BasicConfig saves its settings, and with them the filters.
SaveSettings == pc = "idle" /\ Save /\ UNCHANGED <<list, filters, ordered, disturbed, unfiltered>>

-----------------------------------------------------------------------------
(* The file *)

\* The entries of the list by name, as AdvanceConfig::SaveConfig saves them.
Sections ==
  [n \in {list[i].name : i \in DOMAIN list} |->
     list[CHOOSE i \in DOMAIN list : list[i].name = n].values]

\* The lines SimpleIni::SaveAs writes, the settings of BasicConfig among them.
Lines ==
  {[section |-> XPL, key |-> "interval", value |-> Empty]} \cup
  UNION {{[section |-> n, key |-> k, value |-> Sections[n][k]] : k \in DOMAIN Sections[n]} :
         n \in DOMAIN Sections}

\* It writes them section by section, and key by key, in the order of their names.
KeyOrder == [interval |-> 1, source |-> 2, valuename |-> 3]
NotBehind(l, m) ==
  l.section < m.section \/ (l.section = m.section /\ KeyOrder[l.key] <= KeyOrder[m.key])
IsNext(l) == l \in unsaved /\ \A m \in unsaved : NotBehind(l, m)

\* Opening the file empties it; a file that cannot be opened stays as it is,
\* and nobody is told.
OpenFile ==
  /\ pc = "open"
  /\ \/ pc' = "write" /\ ini' = Nothing /\ unsaved' = Lines
        /\ Wants(ordered, FALSE)
     \/ pc' = "idle" /\ Wants(ordered, TRUE) /\ UNCHANGED <<unsaved, ini>>
  /\ UNCHANGED <<list, filters, unfiltered>>

WithLine(section, key, value) ==
  Put(ini, section, Put(IF section \in DOMAIN ini THEN ini[section] ELSE Nothing, key, value))

WriteLine ==
  /\ pc = "write"
  /\ \E l \in unsaved :
       IsNext(l) /\ ini' = WithLine(l.section, l.key, l.value) /\ unsaved' = unsaved \ {l}
  /\ UNCHANGED <<pc, list, filters, ordered, disturbed, unfiltered>>

Saved ==
  /\ pc = "write" /\ unsaved = {}
  /\ pc' = "idle"
  /\ UNCHANGED <<list, filters, unsaved, ini, ordered, disturbed, unfiltered>>

-----------------------------------------------------------------------------
(* Stop and start *)

\* A stop or a kill between two messages: nothing is saved then.
Stop == pc = "idle" /\ Gone /\ UNCHANGED <<ini, ordered, disturbed>>

\* A kill during a save, perhaps in the middle of a line.
Crash ==
  /\ pc \in {"open", "write"}
  /\ Gone
  /\ \/ UNCHANGED ini
     \/ \E l \in unsaved : IsNext(l) /\ ini' = WithLine(l.section, l.key, Cut)
  /\ Wants(ordered, TRUE)

\* The sections AdvanceConfig::LoadConfig takes for filters.
Loaded == DOMAIN ini \ {XPL}

\* Open: LoadConfig adds the sections in the order of the file, and
\* AdvanceConfigure rebuilds the map.
Start ==
  /\ pc = "off" /\ pc' = "idle"
  /\ \E names \in Bijection(1 .. Cardinality(Loaded), Loaded) :
       /\ \A i, j \in DOMAIN names : i < j => names[i] < names[j]
       /\ list' = [i \in DOMAIN names |-> [name |-> names[i], values |-> Complete(ini[names[i]])]]
  /\ filters' = [n \in Loaded |-> Filter(Complete(ini[n]))]
  /\ UNCHANGED <<unsaved, ini, ordered, disturbed, unfiltered>>

Next ==
  \/ \E name \in Names : Delete(name)
  \/ \E ks \in Given : \E values \in [ks -> Texts \ {Empty, Cut}] :
       \/ \E name \in Names : Request(name, values)
       \/ \E names \in Twice : RequestTwice(names[1], names[2], values)
  \/ DeleteAll \/ SaveSettings \/ OpenFile \/ WriteLine \/ Saved \/ Stop \/ Crash \/ Start

Spec == Init /\ [][Next]_vars

-----------------------------------------------------------------------------
(* Properties *)

\* The values the variables can hold.
TypeOK ==
  /\ pc \in {"off", "idle", "open", "write"}
  /\ list \in Seq(Entry)
  /\ DOMAIN filters \subseteq Names /\ DOMAIN ini \subseteq Names /\ DOMAIN ordered \subseteq Names
  /\ \A n \in DOMAIN filters : filters[n] \in [source : Texts, valuename : Texts \cup {Currrent}]
  /\ \A n \in DOMAIN ini : ini[n] \in UNION {[ks -> Texts] : ks \in SUBSET SectionKeys}
  /\ unsaved \subseteq [section : Names, key : SectionKeys, value : Texts]
  /\ disturbed \in BOOLEAN /\ unfiltered \subseteq Names

(***************************************************************************)
(* The daemon filters with what the messages asked for: every filter added *)
(* or changed and not deleted since, through any number of restarts, as    *)
(* long as every save got through and no request gave xPL or two names.    *)
(* It takes three copies to agree, the list, the map and the file; a       *)
(* filter for everything, which names neither source nor value, is saved   *)
(* only because ConfigChange inserted its empty keys.                      *)
(***************************************************************************)
FiltersAsOrdered == pc # "off" /\ ~disturbed => filters = ordered

(***************************************************************************)
(* The list, which is sent to whoever asks for the configuration and is    *)
(* saved, and the map, which decides what is recorded, always describe the *)
(* same filters, each named once, even after a save that failed or a file  *)
(* that was cut; but for an entry that a request with two names has put    *)
(* there, until a request, a deletion or a restart takes its name up.      *)
(***************************************************************************)
ListMatchesFilters ==
  /\ \A i, j \in DOMAIN list : list[i].name = list[j].name => i = j
  /\ \A n \in Names \ unfiltered :
       /\ n \in DOMAIN Sections <=> n \in DOMAIN filters
       /\ n \in DOMAIN filters => filters[n] = Filter(Complete(Sections[n]))
=============================================================================
