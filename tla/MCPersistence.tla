---------------------------- MODULE MCPersistence ----------------------------
(***************************************************************************)
(* Small instances of Persistence.  A reading weighs 3 (lamp) or 4 (temp,  *)
(* whose name is longer than sizeof(string)) in memory, 5 or 6 in the      *)
(* file, and a kilobyte is 5: a memory cache of 1 passes its limit with    *)
(* the second reading, a file cache of 3 with the second such batch, and a *)
(* memory cache of 8 has its limit wrapped to 0.                           *)
(***************************************************************************)
EXTENDS Persistence

CONSTANTS lamp, temp, w1, w2

MCOneName == {<<temp>>}
MCTwoNames == {<<lamp>>, <<temp>>}

MCTimes == 1 .. 2
MCOneWord == {<<w1>>}
MCTwoWords == {<<w1>>, <<w1, w2>>}

MCLength == [s \in Canonics \cup Values |-> IF s = <<temp>> THEN 2 ELSE 1]

Setting(db, m, f) == [db |-> db, mem |-> m, file |-> f]

MCSizes == {0, 1, 3, 8}

\* The file behind the memory cache and in its place; a size left empty, which
\* may mean no cache, one with room and one whose limit wraps; no database.
AllSettings == {Setting("sqlite", 1, 3), Setting("mysql", 0, Unset),
                Setting("sqlite", Unset, 0), Setting("other", 1, 0)}

TwoLevelSetting == {Setting("sqlite", 1, 3)}
FileSetting == {Setting("sqlite", 0, 1)}
WrongThenRight == {Setting("other", 1, 0), Setting("sqlite", 1, 0)}

ASSUME RoomAssumption == CountersHaveRoom
=============================================================================
