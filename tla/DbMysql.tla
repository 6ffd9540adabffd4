------------------------------- MODULE DbMysql -------------------------------
(***************************************************************************)
(* The MySQL driver: a connection is opened for a call and closed after    *)
(* it, except that a SELECT that fails leaves its own open, which later    *)
(* INSERTs then use (Query tests m_open).                                  *)
(*                                                                         *)
(* A call is split where it talks to the server, which can stop, restart,  *)
(* lose the schema and close connections at any point.                     *)
(*                                                                         *)
(* The texts of a reading or a query are put between two quotes of the     *)
(* statement as they are.  One with a quote or a backslash in it, or one   *)
(* that does not fit the column, is not stored as it came: the server      *)
(* refuses the statement, stores another text or cuts it, or inserts what  *)
(* else the text says.  The model does not follow the table any further.   *)
(* mysql_query executes a single statement, so a SELECT changes nothing.   *)
(***************************************************************************)
EXTENDS Naturals

CONSTANTS
  Keys,            \* pairs of a device and a second
  Values,          \* what a reading can say
  Quotable,        \* the pairs of both the server stores as they are, quoted
  Unknown,         \* the table, once another pair has been inserted
  MaxConnections   \* connections the server admits

ASSUME MysqlAssumption == MaxConnections \in Nat \ {0} /\ Quotable \subseteq Keys \X Values

VARIABLES
  server,    \* "up", "noschema" (a connection, but no database) or "down"
  leaked,    \* connections the server holds that nothing refers to any more
  rows,      \* the table, or Unknown
  pc,        \* the step of the running call; "absent": there is no DbMysql
  call,      \* the running call
  close,     \* Query::close, or that the call connected in Query
  handle,    \* m_hCnx: "null", "failed" (never connected), "live" or "dead"
  open,      \* m_open
  asked,     \* history: the readings Write was called with
  served,    \* history: the server was there for the whole call
  troubled   \* history: some connection or statement has failed

driver == <<handle, open>>
running == <<pc, call, close>>
vars == <<server, leaked, rows, running, driver, asked, served, troubled>>

\* exact: the text of the statement says what is meant.
Calls ==
  [op : {"create", "select"}, exact : BOOLEAN]
    \cup [op : {"insert"}, exact : BOOLEAN, key : Keys, value : Values]

Init ==
  /\ server \in {"up", "noschema", "down"} /\ leaked = 0 /\ rows = <<>>
  /\ pc = "absent" /\ call = [op |-> "create", exact |-> TRUE] /\ close = FALSE
  /\ handle = "null" /\ open = FALSE
  /\ asked = {} /\ served = FALSE /\ troubled = FALSE

\* The table both drivers fill.
Table == INSTANCE Capteurs

-----------------------------------------------------------------------------
(* Connections *)

Held == IF handle = "live" THEN 1 ELSE 0

\* mutated Connect
ConnectOnce ==
  /\ IF handle # "null" THEN UNCHANGED handle /\ open' = TRUE
     ELSE IF server # "down" /\ leaked < MaxConnections
     THEN handle' = "live" /\ open' = (server = "up")
     ELSE handle' = "failed" /\ open' = FALSE
  /\ UNCHANGED leaked /\ troubled' = (troubled \/ ~open')

\* mysql_init, mysql_real_connect and mysql_select_db; the handle there was,
\* or one that found no schema, is never closed.
Connect ==
  /\ leaked' = leaked + Held
  /\ IF server # "down" /\ leaked' < MaxConnections
     THEN handle' = "live" /\ open' = (server = "up")
     ELSE handle' = "failed" /\ open' = FALSE
  /\ troubled' = (troubled \/ ~open')

StayOpen == UNCHANGED driver  \* mutated Disconnect

Disconnect == handle' = "null" /\ open' = FALSE

-----------------------------------------------------------------------------
(* Calls *)

Room == leaked + Held < MaxConnections

Begin(c, step, closing) ==
  /\ pc' = step /\ call' = c /\ close' = closing
  /\ served' = (server = "up" /\ Room)
  /\ UNCHANGED <<server, leaked, rows, driver, troubled>>

\* The constructor; a failure throws, and the object with its handle is gone.
Create ==
  /\ pc = "absent" /\ Begin([op |-> "create", exact |-> TRUE], "connect", FALSE)
  /\ UNCHANGED asked

\* Add and Write: Query connects only if nothing is open.
Write(k, v) ==
  /\ pc = "idle"
  /\ Begin([op |-> "insert", exact |-> <<k, v>> \in Quotable, key |-> k, value |-> v],
           IF open THEN "execute" ELSE "connect", ~open)
  /\ asked' = asked \cup {<<k, v>>}

\* mutated Request
RequestThroughQuery ==
  /\ pc = "idle"
  /\ \E exact \in BOOLEAN :
        Begin([op |-> "select", exact |-> exact], IF open THEN "execute" ELSE "connect", ~open)
  /\ UNCHANGED asked

\* RequestDevices and RequestValues: Connect, whatever is open, then Query.
\* RequestValues names the device it was asked for, any text.
Request ==
  /\ pc = "idle"
  /\ \E exact \in BOOLEAN : Begin([op |-> "select", exact |-> exact], "connect", FALSE)
  /\ UNCHANGED asked

\* Where a Connect leads: to the statement; without a connection a request
\* tries again in Query, an insertion gives up and a constructor throws.
Dial ==
  /\ pc = "connect" /\ Connect
  /\ pc' = CASE open'                                  -> "execute"
             [] ~open' /\ call.op = "create"           -> "throw"
             [] ~open' /\ call.op = "select" /\ ~close -> "connect"
             [] OTHER                                  -> "idle"
  /\ close' = (close \/ (call.op = "select" /\ ~open'))
  /\ UNCHANGED <<server, rows, call, asked, served>>

Answered == server = "up" /\ handle = "live"

\* mutated Insert
Replace ==
  IF rows # Unknown /\ call.op = "insert" /\ Answered
  THEN Table!WithRow(call.key, call.value) ELSE rows

\* The INSERT of a key that is there already is refused.
Insert ==
  IF rows # Unknown /\ call.op = "insert" /\ Answered /\ call.key \notin DOMAIN rows
  THEN Table!WithRow(call.key, call.value) ELSE rows

\* The table after the statement.
Effect == rows' = IF call.op = "insert" /\ Answered /\ ~call.exact THEN Unknown ELSE Insert

\* mysql_query, and the Disconnect of a Query that connected.
Execute ==
  /\ pc = "execute" /\ Effect
  /\ \E ok \in IF Answered /\ ~call.exact THEN BOOLEAN ELSE {Answered} :
        /\ pc' = CASE call.op = "select" /\ ok  -> "fetch"
                   [] call.op = "create" /\ ~ok -> "throw"
                   [] OTHER                     -> "idle"
        /\ troubled' = (troubled \/ ~ok)
  /\ IF close \/ (call.op = "create" /\ Answered) THEN Disconnect ELSE UNCHANGED driver
  /\ UNCHANGED <<server, leaked, call, close, asked, served>>

\* mysql_store_result and mysql_fetch_row: the result is not tested.  With no
\* connection there is none, and with one that is gone only what has arrived;
\* what another SELECT than the one meant returns may have null columns.
Fetch ==
  /\ pc = "fetch"
  /\ \/ handle # "null" /\ pc' = "idle" /\ Disconnect
     \/ (handle # "live" \/ ~call.exact) /\ pc' = "segv" /\ UNCHANGED driver
  /\ UNCHANGED <<server, leaked, rows, call, close, asked, served, troubled>>

\* An exception leaves the constructor: the destructor does not run.
Throw ==
  /\ pc = "throw" /\ pc' = "absent"
  /\ leaked' = leaked + Held /\ Disconnect
  /\ UNCHANGED <<server, rows, call, close, asked, served, troubled>>

\* CloseDb: Disconnect, whatever is open, and then the destructor, which
\* finds nothing open.
Destroy ==
  /\ pc = "idle" /\ pc' = "absent"
  /\ Disconnect
  /\ UNCHANGED <<server, leaked, rows, call, close, asked, served, troubled>>

-----------------------------------------------------------------------------
(* The server *)

\* The server stops, and with it every connection.
ServerStops ==
  /\ server # "down" /\ server' = "down"
  /\ handle' = IF handle = "live" THEN "dead" ELSE handle
  /\ leaked' = 0 /\ served' = FALSE
  /\ UNCHANGED <<rows, running, open, asked, troubled>>

ServerStarts ==
  /\ server = "down" /\ server' \in {"up", "noschema"}
  /\ UNCHANGED <<leaked, rows, running, driver, asked, served, troubled>>

SchemaGoes ==
  /\ server = "up" /\ server' = "noschema" /\ served' = FALSE
  /\ UNCHANGED <<leaked, rows, running, driver, asked, troubled>>

SchemaReturns ==
  /\ server = "noschema" /\ server' = "up"
  /\ UNCHANGED <<leaked, rows, running, driver, asked, served, troubled>>

\* wait_timeout: the server closes a connection nobody used for long.
TimeOut ==
  /\ \/ leaked > 0 /\ leaked' = leaked - 1 /\ UNCHANGED handle
     \/ pc = "idle" /\ handle = "live" /\ handle' = "dead" /\ UNCHANGED leaked
  /\ UNCHANGED <<server, rows, running, open, asked, served, troubled>>

-----------------------------------------------------------------------------
Next ==
  \/ \E k \in Keys, v \in Values : Write(k, v)
  \/ Create \/ Request \/ Dial \/ Execute \/ Fetch \/ Throw \/ Destroy
  \/ ServerStops \/ ServerStarts \/ SchemaGoes \/ SchemaReturns \/ TimeOut

Spec == Init /\ [][Next]_vars

-----------------------------------------------------------------------------
(* Properties *)

(***************************************************************************)
(* As long as nothing has failed every call gives back its connection: the *)
(* server never holds one that is not in use.  Otherwise the connections   *)
(* of a daemon that runs for months would fill the server.                 *)
(***************************************************************************)
EveryConnectionReturned ==
  ~troubled => leaked = 0 /\ (pc \in {"idle", "absent"} => handle = "null" /\ ~open)

(***************************************************************************)
(* The driver dies in RequestDevices or RequestValues only if the server   *)
(* failed it during that very request: while the server is there, the      *)
(* connection a result is fetched from is the one Query used, still open.  *)
(* (A query whose text said something else may have been given anything.)  *)
(***************************************************************************)
CrashOnlyWithoutServer == pc = "segv" => ~served \/ ~call.exact

(***************************************************************************)
(* An insertion that opens its own connection, on a server that is there   *)
(* all the time, leaves a row for its key, whatever happened before, as    *)
(* long as every reading stood between two quotes and fitted the columns.  *)
(***************************************************************************)
InsertEnds == pc # "idle" /\ pc' = "idle" /\ call.op = "insert"

StoredIfConnectedAndServed ==
  [][InsertEnds /\ close /\ served /\ rows' # Unknown => call.key \in DOMAIN rows']_vars

(***************************************************************************)
(* Rows are readings that were asked for, under their keys, and never      *)
(* change, while every INSERT says what was meant: the driver implements   *)
(* the table of Capteurs.                                                  *)
(***************************************************************************)
TableSpec == Table!Spec

(***************************************************************************)
(* README.md:10: "This daemon receive xPL message and record device and    *)
(* value in a database."  A reading given to the driver while the server   *)
(* is there leaves a row for its device and second, as long as all texts   *)
(* have stood between two quotes.                                          *)
(***************************************************************************)
StoredIfServed == [][InsertEnds /\ served /\ rows' # Unknown => call.key \in DOMAIN rows']_vars
=============================================================================
