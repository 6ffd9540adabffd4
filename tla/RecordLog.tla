------------------------------ MODULE RecordLog ------------------------------
(***************************************************************************)
(* What the caches of xPLDatabase promise together: a write-behind log of  *)
(* readings.  A reading that was accepted waits in `pending' until it is   *)
(* offered to the database driver; readings are offered in the order of    *)
(* their arrival, each once; a query is answered only when nothing waits.  *)
(* Waiting readings disappear only while the recorder is `degraded' (its   *)
(* process has died, or the disk under its cache file has failed), and     *)
(* then the oldest first.                                                  *)
(*                                                                         *)
(* Persistence.tla implements this specification.                          *)
(***************************************************************************)
EXTENDS Naturals, Sequences

CONSTANT Reading   \* what can be accepted

VARIABLES
  pending,   \* readings accepted and not yet offered, oldest first
  offered,   \* readings handed to the driver, in the order they were handed
  seen,      \* what had been offered when the last query was answered
  degraded   \* readings may be lost

vars == <<pending, offered, seen, degraded>>

Init ==
  /\ pending = <<>>
  /\ offered = <<>>
  /\ seen = <<>>
  /\ degraded \in BOOLEAN

Accept(r) ==
  /\ pending' = Append(pending, r)
  /\ UNCHANGED <<offered, seen, degraded>>

\* A reading that never waits: no cache is configured.
WriteThrough(r) ==
  /\ pending = <<>>
  /\ offered' = Append(offered, r)
  /\ UNCHANGED <<pending, seen, degraded>>

Offer ==
  /\ pending # <<>>
  /\ offered' = Append(offered, Head(pending))
  /\ pending' = Tail(pending)
  /\ UNCHANGED <<seen, degraded>>

Answer ==
  /\ pending = <<>>
  /\ seen' = offered
  /\ UNCHANGED <<pending, offered, degraded>>

\* The oldest n waiting readings are lost.
Lose(n) ==
  /\ degraded'
  /\ pending' = SubSeq(pending, n + 1, Len(pending))
  /\ UNCHANGED <<offered, seen>>

Recover ==
  /\ ~degraded'
  /\ UNCHANGED <<pending, offered, seen>>

Next ==
  \/ \E r \in Reading : Accept(r) \/ WriteThrough(r)
  \/ Offer
  \/ Answer
  \/ \E n \in 0 .. Len(pending) : Lose(n)
  \/ Recover

Spec == Init /\ [][Next]_vars
=============================================================================
