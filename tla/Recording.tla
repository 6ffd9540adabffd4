------------------------------ MODULE Recording ------------------------------
(***************************************************************************)
(* From the message to the row: xPLDatabase with its caches (Persistence)  *)
(* above the SQLite driver (DbSqlite).  The daemon calls the driver once   *)
(* for each reading that leaves the caches, for each query and whenever it *)
(* is configured, and waits until the call is over; the file of the        *)
(* database changes, and the process may be killed, in the middle of one.  *)
(* A setting that names another kind of database leaves no driver here, as *)
(* one that is refused does; DbMysql models that driver.                   *)
(***************************************************************************)
EXTENDS Persistence

CONSTANTS
  Quotable,  \* the readings whose texts mean themselves in a statement
  Unknown    \* the table, once the text of another one has decided what it holds

ASSUME RecordingAssumption == Quotable \subseteq (Seq(Token) \X Int) \X Seq(Token)

VARIABLES
  database,  \* the file: "free", "locked" or "unopenable"
  rows,      \* the table, or Unknown
  step,      \* the step of the running call of the driver
  call,      \* that call
  closing,   \* Query::close
  handle,    \* m_hCnx
  opened,    \* m_open
  leaked,    \* how open handles were lost
  asked,     \* history: the readings the driver was asked to store
  served,    \* history: the file could be written during the whole call
  unopened,  \* history: the last sqlite3_open failed, nothing was closed since
  rebuilt,   \* the running Configure has called the constructor of the driver
  hindered   \* history: the keys whose insertion met a file it could not write

Sqlite == INSTANCE DbSqlite
  WITH Keys <- Seq(Token) \X Int, Values <- Seq(Token), pc <- step, close <- closing, open <- opened

dbVars == <<database, rows, step, call, closing, handle, opened, leaked,
            asked, served, unopened>>
allVars == <<vars, dbVars, rebuilt, hindered>>

RecordingInit == Init /\ Sqlite!Init /\ rebuilt = FALSE /\ hindered = {}

-----------------------------------------------------------------------------
(* The row of a reading: its device and its second are the key. *)
Key(r) == <<r.canonic, r.time>>

DriverFree == step \in {"absent", "idle"}

\* What the daemon does without its driver.
Within ==
  /\ DriverFree
  /\ \/ Fill \/ FillEnd \/ DrainMemEnd \/ DrainFileEnd \/ Query \/ Stop
     \/ \E c \in Configs : Reconfigure(c)
  /\ UNCHANGED <<dbVars, rebuilt, hindered>>

\* A reading arrives, or leaves a cache: Add or Write of the driver is
\* called for the one that is handed over, if there is one.
Store ==
  /\ DriverFree
  /\ \/ DrainMem \/ DrainFile
     \/ \E canonic \in Canonics, value \in Values : PersistanceAdd(canonic, value)
  /\ IF offered' = offered THEN UNCHANGED dbVars
     ELSE Sqlite!Write(Key(Last(offered')), Last(offered').value)
  /\ UNCHANGED <<rebuilt, hindered>>

\* RequestDevices or RequestValues for a query.
Request ==
  /\ DriverFree /\ Answer
  /\ IF driver = "open" THEN Sqlite!Request ELSE UNCHANGED dbVars
  /\ UNCHANGED <<rebuilt, hindered>>

\* A driver that dies takes the daemon with it.
DiesWithDriver ==
  IF step' = "segv" THEN Crash /\ rebuilt' = FALSE ELSE UNCHANGED <<vars, rebuilt>>

\* The running call of the driver goes on.
Proceed ==
  /\ Sqlite!Dial \/ Sqlite!Execute \/ Sqlite!End \/ Sqlite!Throw
  /\ hindered' = IF Sqlite!InsertEnds /\ ~served THEN hindered \cup {call.key} ELSE hindered
  /\ DiesWithDriver

\* Configure: CloseDb deletes the driver there was, the constructor of the
\* new one is called, and the caches are wired to what came of it.
CloseDriver ==
  /\ pc = "configure" /\ ~rebuilt
  /\ Sqlite!Destroy /\ DiesWithDriver
  /\ UNCHANGED hindered

Construct ==
  /\ pc = "configure" /\ ~rebuilt /\ request.db = "sqlite"
  /\ Sqlite!Create /\ rebuilt' = TRUE
  /\ UNCHANGED <<vars, hindered>>

Wire ==
  /\ pc = "configure" /\ DriverFree
  /\ IF request.db = "sqlite" THEN rebuilt ELSE step = "absent"
  /\ Configure /\ driver' = (IF step = "idle" THEN "open" ELSE "null")
  /\ rebuilt' = FALSE
  /\ UNCHANGED <<dbVars, hindered>>

\* The driver goes with the process, and what it left open is closed.
Gone ==
  /\ step' = "absent" /\ call' = Sqlite!NoCall /\ closing' = FALSE /\ served' = FALSE
  /\ handle' = "null" /\ opened' = FALSE /\ leaked' = {} /\ unopened' = FALSE
  /\ rebuilt' = FALSE
  /\ UNCHANGED <<database, rows, asked, hindered>>

\* A kill at any moment, the end of the program, and a new process.
Process == (Crash \/ (DriverFree /\ Exit) \/ Start) /\ Gone

\* What goes on meanwhile.
World ==
  \/ Sqlite!FileChanges /\ UNCHANGED <<vars, rebuilt, hindered>>
  \/ Tick /\ UNCHANGED <<dbVars, rebuilt, hindered>>

RecordingNext ==
  Within \/ Store \/ Request \/ Proceed \/ CloseDriver \/ Construct \/ Wire \/ Process \/ World

RecordingSpec == RecordingInit /\ [][RecordingNext]_allVars

-----------------------------------------------------------------------------
(* Properties *)

\* An insertion is running.
Inserting == step \in {"connect", "execute"} /\ call.op = "insert"

\* What the driver is doing fits what the daemon waits for.
Fits ==
  /\ step \in {"absent", "idle", "connect", "execute", "disconnect", "throw", "segv"}
  /\ rebuilt => pc = "configure"
  /\ ~Running => step \in {"absent", "segv"}
  /\ Running /\ pc # "configure" => (driver = "open" <=> step # "absent")

(***************************************************************************)
(* The daemon and its driver never lose step: a call runs only while the   *)
(* daemon waits for it, there is a driver exactly when the daemon has a    *)
(* pointer to one, and neither outlives the process.  Between two calls,   *)
(* whichever failed, the driver has closed what it opened; a file that     *)
(* stays open is one a constructor left that threw.                        *)
(***************************************************************************)
Coupled == Fits /\ Sqlite!ClosedBetweenCalls

(***************************************************************************)
(* The process dies in a Disconnect only if the last sqlite3_open failed:  *)
(* no order of requests, insertions and reconfigurations closes a handle   *)
(* twice that has been opened.                                             *)
(***************************************************************************)
DiesOnlyUnopened == Sqlite!DiesOnlyUnopened

(***************************************************************************)
(* The table that holds some readings: its rows are of them; each has a    *)
(* row for its device and second, and the first of these gave it its       *)
(* value, unless the file could not be written when one was inserted.      *)
(***************************************************************************)
HoldsFirst(s) ==
  /\ DOMAIN rows \subseteq {Key(s[i]) : i \in DOMAIN s}
  /\ \A i \in DOMAIN s : Key(s[i]) \notin hindered =>
       /\ Key(s[i]) \in DOMAIN rows
       /\ (\A j \in 1 .. i - 1 : Key(s[j]) # Key(s[i])) => rows[Key(s[i])] = s[i].value

(***************************************************************************)
(* As long as the caches have lost no reading, the table holds those they  *)
(* have let go, through every reconfiguration, stop, start and failed      *)
(* call, and although a batch is written in the order of two caches; until *)
(* some text, with a quote in it, makes a statement say something else.    *)
(***************************************************************************)
Recorded == loss = "none" /\ rows # Unknown /\ ~Inserting => HoldsFirst(offered)

(***************************************************************************)
(* When the statement of a query is executed, the table holds every        *)
(* reading received until then, under the same condition: FlushDb has      *)
(* emptied the caches and its last insertion is over.                      *)
(***************************************************************************)
AnsweredFromAll ==
  step = "execute" /\ call.op = "select" /\ loss = "none" /\ rows # Unknown
    => HoldsFirst(received)

(***************************************************************************)
(* README.md:10: "This daemon receive xPL message and record device and    *)
(* value in a database."  Whatever is lost or refused, killed or locked,   *)
(* each row is the device, the second and the value of one message, while  *)
(* the statements say what was meant.                                      *)
(***************************************************************************)
RowsAreReadings ==
  rows # Unknown =>
    \A k \in DOMAIN rows : \E i \in DOMAIN received :
      Key(received[i]) = k /\ rows[k] = received[i].value
=============================================================================
