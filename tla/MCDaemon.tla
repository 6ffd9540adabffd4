------------------------------ MODULE MCDaemon ------------------------------
(***************************************************************************)
(* A small instance of Daemon: three commands at once, two process ids,    *)
(* one directory of the system, root and one other user, and three working *)
(* directories, of which the last has no "~" below it.                     *)
(*                                                                         *)
(* No property says anything of what follows a stray command, and trouble  *)
(* stays "stray", so TLC does not go on from such a state.                 *)
(***************************************************************************)
EXTENDS Daemon, TLC

CONSTANTS p1, p2, c1, c2, c3, home, elsewhere, bare

MCWriters == [w \in Cwds |-> IF w = bare THEN {} ELSE Users]

Ordered == trouble # "stray"

Symmetry == Permutations({p1, p2}) \cup Permutations({c1, c2, c3})
=============================================================================
