------------------------------ MODULE DbSqlite ------------------------------
(***************************************************************************)
(* The SQLite driver: every call opens the database file, executes one     *)
(* statement and closes the file.  A handle that could not be opened is    *)
(* closed at once but kept in m_hCnx, and the requests close once more     *)
(* what Query may already have closed.                                     *)
(*                                                                         *)
(* A call is split where it meets the file, which other processes can lock *)
(* and which can become impossible to open at any point.                   *)
(*                                                                         *)
(* The texts of a reading or a query are put between two quotes of the     *)
(* statement as they are.  One with a quote in it ends there, and what the *)
(* statement then says is up to the text: sqlite3_exec refuses it, stores  *)
(* another text, or executes all the statements it reads.  The model does  *)
(* not follow the table any further.                                       *)
(***************************************************************************)

CONSTANTS
  Keys,      \* pairs of a device and a second
  Values,    \* what a reading can say
  Quotable,  \* the pairs of both whose texts mean themselves between quotes
  Unknown    \* the table, once another text has decided what it holds

VARIABLES
  database,  \* the file: "free", "locked" by another process, or "unopenable"
  rows,      \* the table, or Unknown
  pc,        \* the step of the running call; "absent": there is no DbSqlite
  call,      \* the running call, or NoCall
  close,     \* Query::close
  handle,    \* m_hCnx: "null", "live", or "closed" but not null
  open,      \* m_open
  leaked,    \* how live handles were lost: "throw", "connect"
  asked,     \* history: the readings Write was called with
  served,    \* history: the file could be opened and written during the whole call
  unopened   \* history: the last Connect of the object failed, no Disconnect came since

driver == <<handle, open, leaked, unopened>>
running == <<pc, call, close>>
NoCall == [op |-> "none"]
vars == <<database, rows, running, driver, asked, served>>

Init ==
  /\ database \in {"free", "locked", "unopenable"} /\ rows = <<>>
  /\ pc = "absent" /\ call = NoCall /\ close = FALSE
  /\ handle = "null" /\ open = FALSE /\ leaked = {}
  /\ asked = {} /\ served = FALSE /\ unopened = FALSE

\* The table both drivers fill.
Table == INSTANCE Capteurs

-----------------------------------------------------------------------------
(* Handles *)

Openable == database # "unopenable"

\* The handle in m_hCnx, if it is live, is lost.
Lose(how) == leaked' = IF handle = "live" THEN leaked \cup {how} ELSE leaked

\* mutated Connect
ConnectOnce ==
  /\ handle' = IF handle # "null" THEN handle ELSE IF Openable THEN "live" ELSE "closed"
  /\ open' = Openable /\ unopened' = ~Openable
  /\ UNCHANGED leaked

\* sqlite3_open opens a locked file too; when it fails its handle is closed,
\* and stays in m_hCnx.
Connect ==
  /\ handle' = IF Openable THEN "live" ELSE "closed"
  /\ open' = Openable /\ unopened' = ~Openable
  /\ Lose("connect")

StayOpen == UNCHANGED driver  \* mutated Disconnect

\* mutated Disconnect
CloseOnly == handle' = "closed" /\ open' = FALSE /\ unopened' = FALSE /\ UNCHANGED leaked

Disconnect == handle' = "null" /\ open' = FALSE /\ unopened' = FALSE /\ UNCHANGED leaked

-----------------------------------------------------------------------------
(* Calls *)

\* A step of the running call; when it is the last one its locals go.
Step(closing) ==
  IF pc' \in {"idle", "absent", "segv"} THEN call' = NoCall /\ close' = FALSE /\ served' = FALSE
  ELSE close' = closing /\ UNCHANGED <<call, served>>

Begin(c, step, closing) ==
  /\ pc' = step /\ call' = c /\ close' = closing
  /\ served' = (database = "free")
  /\ UNCHANGED <<database, rows, driver>>

\* The constructor; a failure throws.
Create == pc = "absent" /\ Begin([op |-> "create"], "connect", FALSE) /\ UNCHANGED asked

\* Add and Write: Query connects if nothing is open.
Write(k, v) ==
  /\ pc = "idle"
  /\ Begin([op |-> "insert", key |-> k, value |-> v], IF open THEN "execute" ELSE "connect", ~open)
  /\ asked' = asked \cup {<<k, v>>}

\* RequestDevices and RequestValues: Connect, then Query, then Disconnect.
Request == pc = "idle" /\ Begin([op |-> "select"], "connect", FALSE) /\ UNCHANGED asked

\* Where a Connect leads: to the statement; else a request tries again in
\* Query and then disconnects all the same, an insertion gives up and a
\* constructor throws.
Dial ==
  /\ pc = "connect" /\ Connect
  /\ pc' = CASE Openable                                   -> "execute"
             [] ~Openable /\ call.op = "create"            -> "throw"
             [] ~Openable /\ call.op = "select" /\ ~close  -> "connect"
             [] ~Openable /\ call.op = "select" /\ close   -> "disconnect"
             [] ~Openable /\ call.op = "insert"            -> "idle"
  /\ Step(close \/ (call.op = "select" /\ ~Openable))
  /\ UNCHANGED <<database, rows, asked>>

\* A locked file refuses statements at once: no busy timeout is set.
Executed == database = "free" /\ handle = "live"

\* Whether the text of the statement says what was meant: RequestValues names
\* the device it was asked for, which may be any text.
Exact ==
  CASE call.op = "insert" -> {(<<call.key, call.value>> \in Quotable)}
    [] call.op = "create" -> {TRUE}
    [] call.op = "select" -> BOOLEAN

\* The INSERT of a key that is there already is refused.
Insert ==
  IF rows # Unknown /\ call.op = "insert" /\ Executed /\ call.key \notin DOMAIN rows
  THEN Table!WithRow(call.key, call.value) ELSE rows

\* The table after the statement; it stays Unknown, for the text may have
\* changed the schema too, and with it what later statements do.
Effect == \E exact \in Exact : rows' = IF Executed /\ ~exact THEN Unknown ELSE Insert

\* Where it leads: a CREATE that fails throws, and what another SELECT than
\* the one meant returns the callbacks may not survive.
Result ==
  CASE call.op = "insert" -> {"idle"}
    [] call.op = "create" -> (IF Executed THEN {"disconnect"} ELSE {})
                               \cup (IF ~Executed \/ rows = Unknown THEN {"throw"} ELSE {})
    [] call.op = "select" -> {"disconnect"} \cup (IF Executed /\ rows' = Unknown THEN {"segv"} ELSE {})

\* sqlite3_exec, and the Disconnect of a Query that connected.
Execute ==
  /\ pc = "execute"
  /\ Effect /\ pc' \in Result
  /\ IF close THEN Disconnect ELSE UNCHANGED driver
  /\ Step(close)
  /\ UNCHANGED <<database, asked>>

\* The Disconnect at the end of a request or of the constructor.  A handle
\* closed before is undefined behaviour: SQLite reports it, or dies.
End ==
  /\ pc = "disconnect"
  /\ pc' \in IF handle = "closed" THEN {"idle", "segv"} ELSE {"idle"}
  /\ Disconnect /\ Step(close)
  /\ UNCHANGED <<database, rows, asked>>

\* An exception leaves the constructor: the destructor does not run, and a
\* handle that is open stays open.
Throw ==
  /\ pc = "throw" /\ pc' = "absent"
  /\ Lose("throw") /\ handle' = "null" /\ open' = FALSE /\ unopened' = FALSE
  /\ Step(close)
  /\ UNCHANGED <<database, rows, asked>>

\* CloseDb: Disconnect, whatever is open, and then the destructor.  What an
\* insertion that could not connect has closed is closed again, as in End.
Destroy ==
  /\ pc = "idle"
  /\ pc' \in IF handle = "closed" THEN {"absent", "segv"} ELSE {"absent"}
  /\ Disconnect /\ Step(close)
  /\ UNCHANGED <<database, rows, asked>>

\* Another process locks or frees the file; a directory goes, a limit is met.
FileChanges ==
  /\ database' \in {"free", "locked", "unopenable"} \ {database}
  /\ served' = (served /\ database' = "free")
  /\ UNCHANGED <<rows, running, driver, asked>>

-----------------------------------------------------------------------------
Next ==
  \/ \E k \in Keys, v \in Values : Write(k, v)
  \/ Create \/ Request \/ Dial \/ Execute \/ End \/ Throw \/ Destroy \/ FileChanges

Spec == Init /\ [][Next]_vars

-----------------------------------------------------------------------------
(* Properties *)

(***************************************************************************)
(* Between two calls the driver has no file open, whichever call failed at *)
(* whichever step, and no call has dropped a handle that was open, except  *)
(* a constructor: the one that throws because its CREATE TABLE failed      *)
(* leaves the file open for as long as the process lives.                  *)
(***************************************************************************)
ClosedBetweenCalls ==
  pc \in {"idle", "absent"} => ~open /\ handle # "live" /\ leaked \subseteq {"throw"}

(***************************************************************************)
(* A handle is closed twice, which may kill the process, only when the     *)
(* last sqlite3_open has failed: Connect keeps what it closed, Disconnect  *)
(* keeps nothing.  (A query that said something else may kill it too.)     *)
(***************************************************************************)
DiesOnlyUnopened == [][pc # "segv" /\ pc' = "segv" => unopened \/ rows' = Unknown]_vars

(***************************************************************************)
(* An insertion during which the file can be opened and written leaves a   *)
(* row for its key, whatever happened in earlier calls, as long as every   *)
(* statement has said what was meant, its own included.                    *)
(***************************************************************************)
InsertEnds == pc # "idle" /\ pc' = "idle" /\ call.op = "insert"

StoredIfServed == [][InsertEnds /\ served /\ rows' # Unknown => call.key \in DOMAIN rows']_vars

(***************************************************************************)
(* Rows are readings that were asked for, under their keys, and never      *)
(* change, while every statement says what was meant: the driver           *)
(* implements the table of Capteurs.                                       *)
(***************************************************************************)
TableSpec == Table!Spec
=============================================================================
