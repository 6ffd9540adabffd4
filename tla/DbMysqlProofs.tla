---------------------------- MODULE DbMysqlProofs ----------------------------
(***************************************************************************)
(* Theorems about DbMysql.  Untroubled says what is open at each step as   *)
(* long as nothing has failed, Attended what is during a call in which the *)
(* server is there; they hold whatever was left open by earlier calls.     *)
(***************************************************************************)
EXTENDS DbMysql, TLAPS

CallKnown ==
  /\ call \in Calls
  /\ call.op = "insert" => <<call.key, call.value>> \in asked

Types ==
  /\ CallKnown /\ leaked \in Nat
  /\ close \in BOOLEAN /\ open \in BOOLEAN
  /\ pc = "fetch" => call.op = "select"
  /\ pc = "connect" /\ call.op = "insert" => close

Untroubled ==
  /\ leaked = 0
  /\ pc \in {"idle", "absent", "connect"} => handle = "null" /\ ~open
  /\ pc \in {"connect", "execute"} => (close <=> call.op = "insert")
  /\ pc # "throw"

Attended ==
  /\ server = "up" /\ (pc = "segv" => ~call.exact)
  /\ pc = "connect" => leaked + Held < MaxConnections /\ (close <=> call.op = "insert")
  /\ pc = "execute" /\ (close \/ call.op # "insert") => handle = "live"
  /\ pc = "execute" /\ call.op # "insert" => ~close
  /\ pc = "fetch" => handle = "live"

IInv ==
  /\ Types
  /\ ~troubled => Untroubled
  /\ served => Attended

-----------------------------------------------------------------------------

LEMMA CallOps ==
  ASSUME NEW c \in Calls
  PROVE  /\ c.op \in {"create", "select", "insert"}
         /\ c.exact \in BOOLEAN
         /\ c.op = "insert" => c.key \in Keys /\ c.value \in Values
<1>1. CASE c \in [op : {"create", "select"}, exact : BOOLEAN]
  BY <1>1
<1>2. CASE c \in [op : {"insert"}, exact : BOOLEAN, key : Keys, value : Values]
  BY <1>2
<1>3. QED
  BY <1>1, <1>2 DEF Calls

LEMMA IInvInit == Init => IInv
<1> SUFFICES ASSUME Init PROVE IInv OBVIOUS
<1>1. call \in Calls /\ call.op # "insert"
  BY DEF Init, Calls
<1>2. Types
  BY <1>1 DEF Init, Types, CallKnown
<1>3. Untroubled /\ ~served
  BY DEF Init, Untroubled
<1>4. QED
  BY <1>2, <1>3 DEF IInv

\* A call begins; it connects first, unless an earlier one left a connection open.
LEMMA IInvBegin ==
  ASSUME IInv, pc \in {"idle", "absent"}, NEW c \in Calls, NEW step,
         Begin(c, step, c.op = "insert" /\ ~open), step \in {"connect", "execute"},
         step = IF c.op = "insert" /\ open THEN "execute" ELSE "connect",
         c.op = "insert" => <<c.key, c.value>> \in asked'
  PROVE  IInv'
<1>1. /\ pc' = step /\ call' = c /\ close' = (c.op = "insert" /\ ~open)
      /\ served' = (server = "up" /\ Room)
      /\ UNCHANGED <<server, leaked, rows, handle, open, troubled>>
  BY DEF Begin, driver
<1>2. Types'
  BY <1>1 DEF IInv, Types, CallKnown
<1>3. ~troubled' => Untroubled'
  BY <1>1 DEF IInv, Untroubled
<1>4. served' => Attended'
  BY <1>1 DEF Attended, Room, Held
<1>5. QED
  BY <1>2, <1>3, <1>4 DEF IInv

LEMMA IInvDial == ASSUME IInv, Dial PROVE IInv'
<1>0. call.op \in {"create", "select", "insert"}
  BY CallOps DEF IInv, Types, CallKnown
<1>1. /\ pc = "connect" /\ UNCHANGED <<server, rows, call, asked, served>>
      /\ leaked' = leaked + Held /\ Held \in {0, 1}
      /\ open' \in BOOLEAN /\ close' \in BOOLEAN
  BY MysqlAssumption DEF Dial, Connect, IInv, Types, Held
<1>2. \/ /\ open' /\ pc' = "execute" /\ (close' <=> close)
         /\ handle' = "live" /\ (troubled' <=> troubled)
      \/ /\ ~open' /\ pc' \in {"throw", "connect", "idle"} /\ troubled'
         /\ pc' = "connect" => call.op = "select"
         /\ ~(server = "up" /\ leaked' < MaxConnections)
  BY <1>0 DEF Dial, Connect
<1>3. Types'
  BY <1>1, <1>2 DEF IInv, Types, CallKnown
<1>4. ~troubled' => Untroubled'
  BY <1>1, <1>2 DEF IInv, Types, Untroubled, Held
<1>5. served' => Attended'
  BY <1>1, <1>2 DEF IInv, Types, Attended, Held
<1>6. QED
  BY <1>3, <1>4, <1>5 DEF IInv

LEMMA IInvExecute == ASSUME IInv, Execute PROVE IInv'
<1>0. call.op \in {"create", "select", "insert"}
  BY CallOps DEF IInv, Types, CallKnown
<1> PICK ok \in BOOLEAN :
      /\ ok => Answered
      /\ pc' = CASE call.op = "select" /\ ok  -> "fetch"
                 [] call.op = "create" /\ ~ok -> "throw"
                 [] OTHER                     -> "idle"
      /\ troubled' = (troubled \/ ~ok)
  BY DEF Execute, Answered
<1>1. /\ pc = "execute" /\ UNCHANGED <<server, leaked, call, close, asked, served>>
      /\ \/ pc' = "fetch" /\ call.op = "select" /\ ok /\ Answered
         \/ pc' = "throw" /\ call.op = "create" /\ ~ok
         \/ pc' = "idle" /\ call.op = "insert"
         \/ pc' = "idle" /\ call.op = "create" /\ ok /\ Answered
         \/ pc' = "idle" /\ call.op = "select" /\ ~ok
  BY <1>0 DEF Execute
<1>2. /\ (handle' = "null" /\ open' = FALSE) \/ UNCHANGED <<handle, open>>
      /\ close \/ (call.op = "create" /\ Answered) => handle' = "null" /\ open' = FALSE
      /\ ~close /\ call.op = "select" => UNCHANGED handle
  BY DEF Execute, Disconnect, driver
<1>3. troubled' <=> troubled \/ ~ok
  OBVIOUS
<1>4. Types'
  BY <1>1, <1>2 DEF IInv, Types, CallKnown
<1>5. ~troubled' => Untroubled'
  BY <1>1, <1>2, <1>3 DEF IInv, Untroubled
<1>6. served' => Attended'
  BY <1>1, <1>2 DEF IInv, Attended, Answered
<1>7. QED
  BY <1>4, <1>5, <1>6 DEF IInv

LEMMA IInvEnd == ASSUME IInv, Fetch \/ Throw \/ Destroy PROVE IInv'
<1>0. leaked \in Nat /\ leaked + Held \in Nat
  BY DEF Held, IInv, Types
<1>1. CASE Fetch
  <2>1. Types'
    BY <1>1 DEF Fetch, Disconnect, driver, IInv, Types, CallKnown
  <2>2. ~troubled' => Untroubled'
    BY <1>1 DEF Fetch, Disconnect, IInv, Untroubled
  <2>3. served' => Attended'
    BY <1>1 DEF Fetch, Disconnect, IInv, Attended
  <2>4. QED
    BY <2>1, <2>2, <2>3 DEF IInv
<1>2. CASE Throw
  <2>1. Types'
    <3>1. /\ leaked' \in Nat /\ pc' = "absent" /\ open' = FALSE
          /\ UNCHANGED <<call, close, asked>>
      BY <1>0, <1>2 DEF Throw, Disconnect
    <3>2. QED
      BY <3>1 DEF IInv, Types, CallKnown
  <2>2. troubled'
    BY <1>2 DEF Throw, IInv, Untroubled
  <2>3. served' => Attended'
    BY <1>2 DEF Throw, IInv, Attended
  <2>4. QED
    BY <2>1, <2>2, <2>3 DEF IInv
<1>3. CASE Destroy
  <2>1. Types'
    <3>1. /\ leaked' \in Nat /\ pc' = "absent" /\ open' = FALSE
          /\ UNCHANGED <<call, close, asked>>
      BY <1>0, <1>3 DEF Destroy, Disconnect
    <3>2. QED
      BY <3>1 DEF IInv, Types, CallKnown
  <2>2. ~troubled' => Untroubled'
    BY <1>3 DEF Destroy, Disconnect, Held, IInv, Types, Untroubled
  <2>3. served' => Attended'
    BY <1>3 DEF Destroy, IInv, Attended
  <2>4. QED
    BY <2>1, <2>2, <2>3 DEF IInv
<1>4. QED
  BY <1>1, <1>2, <1>3

LEMMA LessRoom ==
  ASSUME NEW m \in Nat, NEW n \in Nat, NEW h \in Nat, NEW most \in Nat, n <= m, m + h < most
  PROVE  n + h < most
OBVIOUS

LEMMA IInvServer ==
  ASSUME IInv, ServerStops \/ ServerStarts \/ SchemaGoes \/ SchemaReturns \/ TimeOut
  PROVE  IInv'
<1>1. /\ UNCHANGED <<rows, pc, call, close, open, asked, troubled>>
      /\ leaked' \in Nat /\ leaked' <= leaked
  BY DEF ServerStops, ServerStarts, SchemaGoes, SchemaReturns, TimeOut, running, driver, IInv, Types
<1>2. Types'
  BY <1>1 DEF IInv, Types, CallKnown
<1>3. handle = "null" => handle' = "null"
  BY DEF ServerStops, ServerStarts, SchemaGoes, SchemaReturns, TimeOut, driver
<1>4. ~troubled' => Untroubled'
  BY <1>1, <1>3 DEF IInv, Types, Untroubled
<1>5. served' => /\ served /\ server' = "up"
                 /\ pc \in {"connect", "execute", "fetch"} => UNCHANGED handle
  <2>1. CASE ServerStops \/ SchemaGoes
    BY <2>1 DEF ServerStops, SchemaGoes
  <2>2. CASE ServerStarts \/ SchemaReturns
    BY <2>2 DEF ServerStarts, SchemaReturns, IInv, Attended
  <2>3. CASE TimeOut
    BY <2>3 DEF TimeOut, IInv, Attended
  <2>4. QED
    BY <2>1, <2>2, <2>3
<1>6. served' => Attended'
  <2> SUFFICES ASSUME served' PROVE Attended' OBVIOUS
  <2>1. Attended /\ server' = "up" /\ pc' = pc /\ call' = call /\ close' = close
    BY <1>1, <1>5 DEF IInv
  <2>2. CASE pc = "connect"
    <3>1. Held' = Held
      BY <1>5, <2>2 DEF Held
    <3>2. leaked + Held < MaxConnections /\ (close <=> call.op = "insert")
      BY <2>1, <2>2 DEF Attended
    <3>3. leaked \in Nat /\ Held \in Nat
      BY DEF IInv, Types, Held
    <3>4. leaked' + Held < MaxConnections
      BY <1>1, <3>2, <3>3, MysqlAssumption, LessRoom
    <3>5. QED
      BY <2>1, <2>2, <3>1, <3>2, <3>4 DEF Attended
  <2>3. CASE pc # "connect"
    BY <1>5, <2>1, <2>3 DEF Attended
  <2>4. QED
    BY <2>2, <2>3
<1>7. QED
  BY <1>2, <1>4, <1>6 DEF IInv

LEMMA IInvStep == IInv /\ [Next]_vars => IInv'
<1> SUFFICES ASSUME IInv, [Next]_vars PROVE IInv' OBVIOUS
<1>1. ASSUME NEW k \in Keys, NEW v \in Values, Write(k, v) PROVE IInv'
  <2> DEFINE c == [op |-> "insert", exact |-> <<k, v>> \in Quotable, key |-> k, value |-> v]
  <2>1. /\ c \in Calls /\ c.op = "insert" /\ c.key = k /\ c.value = v
    BY DEF Calls
  <2>2. /\ pc = "idle" /\ Begin(c, IF open THEN "execute" ELSE "connect", ~open)
        /\ <<k, v>> \in asked'
    BY <1>1 DEF Write
  <2> HIDE DEF c
  <2>3. QED
    BY <2>1, <2>2, IInvBegin
<1>2. CASE Create
  <2> DEFINE c == [op |-> "create", exact |-> TRUE]
  <2>1. c \in Calls /\ c.op = "create"
    BY DEF Calls
  <2>2. pc = "absent" /\ Begin(c, "connect", FALSE)
    BY <1>2 DEF Create
  <2> HIDE DEF c
  <2>3. QED
    BY <2>1, <2>2, IInvBegin
<1>3. CASE Request
  <2>1. PICK exact \in BOOLEAN : pc = "idle" /\ Begin([op |-> "select", exact |-> exact], "connect", FALSE)
    BY <1>3 DEF Request
  <2> DEFINE c == [op |-> "select", exact |-> exact]
  <2>2. c \in Calls /\ c.op = "select" /\ Begin(c, "connect", FALSE)
    BY <2>1 DEF Calls
  <2> HIDE DEF c
  <2>3. QED
    BY <2>1, <2>2, IInvBegin
<1>4. CASE UNCHANGED vars
  BY <1>4 DEF vars, running, driver, IInv, Types, CallKnown, Untroubled, Attended, Held
<1>5. QED
  BY <1>1, <1>2, <1>3, <1>4, IInvDial, IInvExecute, IInvEnd, IInvServer DEF Next

LEMMA InvariantHolds == Spec => []IInv
  BY IInvInit, IInvStep, PTL DEF Spec

(***************************************************************************)
(* As long as nothing has failed the server holds no connection that is    *)
(* not in use, for every number of connections it admits.                  *)
(***************************************************************************)
THEOREM ConnectionsReturned == Spec => []EveryConnectionReturned
<1>1. IInv => EveryConnectionReturned
  BY DEF IInv, Untroubled, EveryConnectionReturned
<1>2. QED
  BY <1>1, InvariantHolds, PTL

(***************************************************************************)
(* The driver dies only in a request during which the server failed, or    *)
(* whose text said something else than was meant.                          *)
(***************************************************************************)
THEOREM NoCrashServed == Spec => []CrashOnlyWithoutServer
<1>1. IInv => CrashOnlyWithoutServer
  BY DEF IInv, Attended, CrashOnlyWithoutServer
<1>2. QED
  BY <1>1, InvariantHolds, PTL

(***************************************************************************)
(* An insertion that opens its own connection, with the server there all   *)
(* the time, leaves a row for its key, whatever happened before, as long   *)
(* as every reading could be quoted.                                       *)
(***************************************************************************)
THEOREM Stored == Spec => StoredIfConnectedAndServed
<1>1. ASSUME IInv, [Next]_vars, InsertEnds, close, served, rows' # Unknown
      PROVE  call.key \in DOMAIN rows'
  <2>1. CASE Execute
    <3>1. Answered
      BY <1>1, <2>1 DEF Answered, Execute, IInv, Attended
    <3>2. rows' = Insert
      BY <1>1, <2>1 DEF Execute, Effect
    <3>3. rows # Unknown
      BY <1>1, <3>2 DEF Insert
    <3>4. CASE call.key \in DOMAIN rows
      BY <3>2, <3>4 DEF Insert
    <3>5. CASE call.key \notin DOMAIN rows
      BY <1>1, <3>1, <3>2, <3>3, <3>5 DEF Insert, InsertEnds, Table!WithRow
    <3>6. QED
      BY <3>4, <3>5
  <2>2. ~Dial
    <3>1. ASSUME Dial PROVE open'
      BY <1>1, <3>1, MysqlAssumption DEF Dial, Connect, IInv, Attended
    <3>2. QED
      BY <1>1, <3>1 DEF Dial, InsertEnds
  <2>3. ~Fetch
    BY <1>1 DEF Fetch, InsertEnds, IInv, Types
  <2>4. QED
    BY <1>1, <2>1, <2>2, <2>3 DEF Next, vars, running, InsertEnds, Create, Request, Write, Begin,
       Throw, Destroy, ServerStops, ServerStarts, SchemaGoes, SchemaReturns, TimeOut
<1>2. QED
  BY <1>1, InvariantHolds, PTL DEF Spec, StoredIfConnectedAndServed

(***************************************************************************)
(* The driver implements the table of Capteurs: rows are readings that     *)
(* were asked for, and stay, until one is inserted that cannot be quoted.  *)
(***************************************************************************)
THEOREM Refinement == Spec => TableSpec
<1>1. Init => Table!Init
  BY DEF Init, Table!Init
<1>2. ASSUME IInv, [Next]_vars PROVE [Table!Next]_<<asked, rows>>
  <2>1. ASSUME NEW k \in Keys, NEW v \in Values, Write(k, v) PROVE Table!Next
    BY <2>1 DEF Write, Begin, Table!Next, Table!Ask
  <2>2. CASE Execute
    <3>1. CASE UNCHANGED rows
      BY <2>2, <3>1 DEF Execute
    <3>2. CASE rows' = Unknown
      BY <2>2, <3>2 DEF Execute, Table!Next, Table!Garble
    <3>3. CASE /\ call.op = "insert" /\ rows # Unknown /\ call.key \notin DOMAIN rows
               /\ rows' = Table!WithRow(call.key, call.value)
      <4>1. /\ call.key \in Keys /\ call.value \in Values
            /\ <<call.key, call.value>> \in asked
        BY <1>2, <3>3, CallOps DEF IInv, Types, CallKnown
      <4>2. QED
        BY <2>2, <3>3, <4>1 DEF Execute, Table!Next, Table!Store
    <3>4. QED
      BY <2>2, <3>1, <3>2, <3>3 DEF Execute, Effect, Insert
  <2>3. QED
    BY <1>2, <2>1, <2>2 DEF Next, vars, running, Create, Request, Begin, Dial, Fetch, Throw, Destroy,
       ServerStops, ServerStarts, SchemaGoes, SchemaReturns, TimeOut
<1>3. QED
  BY <1>1, <1>2, InvariantHolds, PTL DEF Spec, TableSpec, Table!Spec
=============================================================================
