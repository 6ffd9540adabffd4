----------------------------- MODULE MCRecording -----------------------------
(***************************************************************************)
(* A small instance of Recording: one device, three values of which one    *)
(* cannot be quoted, two seconds, so that two readings meet in one second. *)
(* Weights are those of MCPersistence; the settings are two caches, no     *)
(* cache and no database.  The two values that can be quoted may be        *)
(* exchanged: nothing tells them apart.                                    *)
(***************************************************************************)
EXTENDS Recording

CONSTANTS temp, w1, w2, odd

MCOneName == {<<temp>>}
MCTimes == 1 .. 2
MCValues == {<<w1>>, <<w2>>, <<odd>>}
MCQuotable == (MCOneName \X MCTimes) \X {<<w1>>, <<w2>>}
MCLength == [s \in Canonics \cup Values |-> IF s = <<temp>> THEN 2 ELSE 1]
MCSizes == {0, 1}
MCSymmetry == Permutations({w1, w2})

MCSettings == {[db |-> "sqlite", mem |-> 1, file |-> 1], [db |-> "sqlite", mem |-> 0, file |-> 0],
               [db |-> "other", mem |-> 1, file |-> 0]}
=============================================================================
