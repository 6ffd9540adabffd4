--------------------------- MODULE DbSqliteProofs ---------------------------
(***************************************************************************)
(* Theorems about DbSqlite: they rest on what is open at each step of a    *)
(* call (Handles) and on what the table holds (Rows).                      *)
(***************************************************************************)
EXTENDS DbSqlite, TLAPS

Calls == [op : {"create", "select"}] \cup [op : {"insert"}, key : Keys, value : Values]

\* A step of a call is to come.
InCall == pc \in {"connect", "execute", "disconnect", "throw"}

CallKnown ==
  /\ InCall => call \in Calls
  /\ pc \in {"connect", "execute", "disconnect", "throw", "idle", "absent", "segv"}
  /\ call.op = "insert" => <<call.key, call.value>> \in asked

\* An insertion opens and closes the file itself; a Connect never finds a
\* live handle, and a handle that is closed is one that could not be opened.
Handles ==
  /\ pc \in {"idle", "absent"} => ~open
  /\ pc \in {"idle", "absent", "connect"} => handle # "live"
  /\ leaked \subseteq {"throw"}
  /\ handle = "closed" => unopened
  /\ pc = "connect" /\ call.op = "insert" => close
  /\ pc = "execute" => handle = "live" /\ (call.op = "insert" => close)
  /\ pc = "disconnect" => call.op # "insert"

ServedNow == served => database = "free"

IInv == CallKnown /\ Handles /\ ServedNow /\ close \in BOOLEAN

-----------------------------------------------------------------------------

LEMMA CallOps ==
  ASSUME NEW c \in Calls
  PROVE  /\ c.op \in {"create", "select", "insert"}
         /\ c.op = "insert" => c.key \in Keys /\ c.value \in Values
<1>1. CASE c \in [op : {"create", "select"}]
  BY <1>1
<1>2. CASE c \in [op : {"insert"}, key : Keys, value : Values]
  BY <1>2
<1>3. QED
  BY <1>1, <1>2 DEF Calls

LEMMA IInvInit == Init => IInv
<1> SUFFICES ASSUME Init PROVE IInv OBVIOUS
<1>1. CallKnown /\ ServedNow /\ close \in BOOLEAN
  BY DEF Init, CallKnown, InCall, ServedNow, NoCall
<1>2. Handles
  BY DEF Init, Handles
<1>3. QED
  BY <1>1, <1>2 DEF IInv

LEMMA IInvStep == IInv /\ [Next]_vars => IInv'
<1> SUFFICES ASSUME IInv, [Next]_vars PROVE IInv' OBVIOUS
<1> USE DEF IInv
<1>0. InCall => call.op \in {"create", "select", "insert"}
  BY CallOps DEF CallKnown
<1>1. ASSUME NEW k \in Keys, NEW v \in Values, Write(k, v) PROVE IInv'
  <2>1. call' = [op |-> "insert", key |-> k, value |-> v] /\ close' = ~open /\ ~open
    BY <1>1 DEF Write, Begin, Handles
  <2>2. call' \in Calls /\ call'.op = "insert" /\ call'.key = k /\ call'.value = v
    BY <2>1 DEF Calls
  <2>3. CallKnown'
    BY <1>1, <2>2 DEF Write, Begin, CallKnown
  <2>4. Handles' /\ ServedNow' /\ close' \in BOOLEAN
    BY <1>1, <2>1, <2>2 DEF Write, Begin, Handles, ServedNow, driver
  <2>5. QED
    BY <2>3, <2>4
<1>2. CASE Create \/ Request
  <2>1. /\ call' \in Calls /\ call'.op # "insert" /\ pc' = "connect" /\ close' = FALSE
        /\ served' = (database = "free") /\ UNCHANGED <<database, driver>>
        /\ pc \in {"idle", "absent"}
    BY <1>2 DEF Create, Request, Begin, Calls
  <2>2. QED
    BY <2>1 DEF CallKnown, Handles, ServedNow, driver
<1>3. CASE Dial
  <2>1. /\ (call' = call /\ served' = served) \/ (call' = NoCall /\ served' = FALSE)
        /\ UNCHANGED <<asked, database, leaked>> /\ close' \in BOOLEAN
        /\ pc' = "execute" => Openable
        /\ pc' \in {"execute", "connect", "disconnect", "idle", "throw"}
        /\ pc' = "connect" => call.op = "select"
        /\ pc' = "disconnect" => call.op = "select"
        /\ pc' # "idle" => call' = call /\ (close => close')
        /\ handle' = (IF Openable THEN "live" ELSE "closed") /\ open' = Openable
        /\ unopened' = ~Openable
        /\ pc' \in {"idle", "connect"} => ~Openable
    BY <1>0, <1>3 DEF Dial, Connect, Step, InCall, Lose, Handles
  <2>2. CallKnown' /\ ServedNow'
    <3>1. ServedNow'
      BY <2>1 DEF ServedNow
    <3>2. call'.op = "insert" => call' = call
      BY <2>1 DEF NoCall
    <3>3. InCall' => call' \in Calls
      BY <1>3, <2>1 DEF Dial, CallKnown, InCall
    <3>4. call'.op = "insert" => <<call'.key, call'.value>> \in asked'
      BY <2>1, <3>2 DEF CallKnown
    <3>5. QED
      BY <2>1, <3>1, <3>3, <3>4 DEF CallKnown
  <2>3. pc' \in {"idle", "absent"} => ~open'
    <3>1. open' = (database # "unopenable") /\ (pc' = "idle" => database = "unopenable") /\ pc' # "absent"
      BY <2>1 DEF Openable
    <3>2. QED
      BY <3>1
  <2>4. pc' \in {"idle", "absent", "connect"} => handle' # "live"
    BY <2>1
  <2>5. pc' = "execute" => handle' = "live"
    BY <2>1
  <2>6. pc' \in {"connect", "execute"} /\ call'.op = "insert" => close'
    BY <1>3, <2>1 DEF Dial, Handles
  <2>7. pc' = "disconnect" => call'.op # "insert"
    BY <2>1
  <2>8. handle' = "closed" => unopened'
    BY <2>1
  <2>9. leaked' \subseteq {"throw"}
    BY <2>1 DEF Handles
  <2>10. QED
    BY <2>1, <2>2, <2>3, <2>4, <2>5, <2>6, <2>7, <2>8, <2>9 DEF Handles
<1>4. CASE Execute
  <2>1. /\ pc = "execute" /\ call.op \in {"create", "select", "insert"} /\ handle = "live"
        /\ pc' \in {"idle", "throw", "disconnect", "segv"}
        /\ pc' \in {"throw", "disconnect"} => call.op # "insert"
        /\ pc' = "idle" => call.op = "insert" /\ close
    BY <1>0, <1>4 DEF Execute, Result, InCall, Handles
  <2>2. /\ UNCHANGED <<asked, database, leaked>> /\ close' \in BOOLEAN
        /\ (call' = call /\ served' = served) \/ (call' = NoCall /\ served' = FALSE)
        /\ pc' \in {"throw", "disconnect"} => call' = call
        /\ close => handle' = "null" /\ open' = FALSE
        /\ handle' \in {handle, "null"}
    BY <1>4, <2>1 DEF Execute, Disconnect, Step, driver
  <2>3. CallKnown' /\ ServedNow'
    BY <2>1, <2>2 DEF CallKnown, ServedNow, InCall, NoCall
  <2>4. Handles'
    BY <2>1, <2>2 DEF Handles
  <2>5. QED
    BY <2>2, <2>3, <2>4
<1>5. CASE End \/ Throw \/ Destroy
  <2>1. /\ handle' = "null" /\ open' = FALSE /\ pc' \in {"idle", "absent", "segv"}
        /\ call' = NoCall /\ close' = FALSE /\ served' = FALSE
        /\ leaked' \subseteq {"throw"}
    BY <1>5 DEF End, Throw, Destroy, Disconnect, Step, Lose, Handles
  <2>2. QED
    BY <2>1 DEF CallKnown, InCall, Handles, ServedNow, NoCall
<1>6. CASE FileChanges
  BY <1>6 DEF FileChanges, CallKnown, InCall, Handles, ServedNow, running, driver
<1>7. CASE UNCHANGED vars
  BY <1>7 DEF vars, CallKnown, InCall, Handles, ServedNow, running, driver
<1>8. QED
  BY <1>1, <1>2, <1>3, <1>4, <1>5, <1>6, <1>7 DEF Next

LEMMA InvariantHolds == Spec => []IInv
  BY IInvInit, IInvStep, PTL DEF Spec

(***************************************************************************)
(* Between two calls the driver has no file open, whatever failed in them, *)
(* and only a constructor that throws has left one open.                   *)
(***************************************************************************)
THEOREM FileClosed == Spec => []ClosedBetweenCalls
<1>1. IInv => ClosedBetweenCalls
  BY DEF IInv, Handles, ClosedBetweenCalls
<1>2. QED
  BY <1>1, InvariantHolds, PTL

(***************************************************************************)
(* A Disconnect kills the process only after a sqlite3_open that failed.   *)
(***************************************************************************)
THEOREM DoubleCloses == Spec => DiesOnlyUnopened
<1>1. ASSUME IInv, [Next]_vars, pc # "segv", pc' = "segv" PROVE unopened \/ rows' = Unknown
  <2>1. CASE End \/ Destroy
    BY <1>1, <2>1 DEF End, Destroy, IInv, Handles
  <2>2. CASE Execute
    BY <1>1, <2>2, CallOps DEF Execute, Result, IInv, CallKnown, InCall
  <2>3. CASE Dial
    BY <1>1, <2>3, CallOps DEF Dial, IInv, CallKnown, InCall
  <2>4. QED
    BY <1>1, <2>1, <2>2, <2>3 DEF Next, vars, running, Create, Request, Write, Begin, Throw, FileChanges
<1>2. QED
  BY <1>1, InvariantHolds, PTL DEF Spec, DiesOnlyUnopened

(***************************************************************************)
(* An insertion that ends while the file could be opened and written all   *)
(* the time leaves a row for its key, as long as every statement has said  *)
(* what was meant.                                                         *)
(***************************************************************************)
THEOREM Stored == Spec => StoredIfServed
<1>1. ASSUME IInv, [Next]_vars, InsertEnds, served, rows' # Unknown PROVE call.key \in DOMAIN rows'
  <2>1. database = "free"
    BY <1>1 DEF IInv, ServedNow
  <2>2. CASE Execute
    <3>1. Executed
      BY <1>1, <2>1, <2>2 DEF Executed, Execute, IInv, Handles
    <3>2. rows' = Insert
      BY <1>1, <2>2 DEF Execute, Effect
    <3>3. rows # Unknown
      BY <1>1, <3>2 DEF Insert
    <3>4. CASE call.key \in DOMAIN rows
      BY <3>2, <3>4 DEF Insert
    <3>5. CASE call.key \notin DOMAIN rows
      BY <1>1, <3>1, <3>2, <3>3, <3>5 DEF Insert, InsertEnds, Table!WithRow
    <3>6. QED
      BY <3>4, <3>5
  <2>3. CASE Dial
    BY <1>1, <2>1, <2>3 DEF Dial, InsertEnds, Openable
  <2>4. ~End
    BY <1>1 DEF End, InsertEnds, IInv, Handles
  <2>5. QED
    BY <1>1, <2>2, <2>3, <2>4 DEF Next, vars, running, InsertEnds, Create, Request, Write, Begin,
       Throw, Destroy, FileChanges
<1>2. QED
  BY <1>1, InvariantHolds, PTL DEF Spec, StoredIfServed

(***************************************************************************)
(* The driver implements the table of Capteurs: rows are readings that     *)
(* were asked for, and stay, until a text makes a statement say something  *)
(* else.                                                                   *)
(***************************************************************************)
THEOREM Refinement == Spec => TableSpec
<1>1. Init => Table!Init
  BY DEF Init, Table!Init
<1>2. ASSUME IInv, [Next]_vars PROVE [Table!Next]_<<asked, rows>>
  <2>1. ASSUME NEW k \in Keys, NEW v \in Values, Write(k, v) PROVE Table!Next
    BY <2>1 DEF Write, Begin, Table!Next, Table!Ask
  <2>2. CASE Execute
    <3>1. CASE UNCHANGED rows
      BY <2>2, <3>1 DEF Execute
    <3>2. CASE rows' = Unknown
      BY <2>2, <3>2 DEF Execute, Table!Next, Table!Garble
    <3>3. CASE /\ call.op = "insert" /\ rows # Unknown /\ call.key \notin DOMAIN rows
               /\ rows' = Table!WithRow(call.key, call.value)
      <4>1. /\ call.key \in Keys /\ call.value \in Values
            /\ <<call.key, call.value>> \in asked
        BY <1>2, <2>2, <3>3, CallOps DEF IInv, CallKnown, InCall, Execute
      <4>2. QED
        BY <2>2, <3>3, <4>1 DEF Execute, Table!Next, Table!Store
    <3>4. QED
      BY <2>2, <3>1, <3>2, <3>3 DEF Execute, Effect, Insert
  <2>3. QED
    BY <1>2, <2>1, <2>2 DEF Next, vars, running, Create, Request, Begin, Dial, End, Throw, Destroy, FileChanges
<1>3. QED
  BY <1>1, <1>2, InvariantHolds, PTL DEF Spec, TableSpec, Table!Spec
=============================================================================
