----------------------------- MODULE Persistence -----------------------------
(***************************************************************************)
(* The path of a reading through xPLDatabase: PersistanceAdd, the memory   *)
(* cache (CacheMemory), the file cache (CacheFile) and the offer to the    *)
(* database driver; the flush before every query; the reconfiguration that *)
(* closes and rebuilds the driver and the caches; stops, crashes, restarts.*)
(*                                                                         *)
(* The daemon is single-threaded.  A call that moves a batch of readings   *)
(* is split into one step per reading, so that a crash or a failure of    *)
(* the disk can come between any two of them; `pc' says what is running    *)
(* and `why' which call it runs for.                                       *)
(***************************************************************************)
EXTENDS CacheFile, SequencesExt

CONSTANTS
  Values,         \* the values a reading can have, sequences of words
  Length,         \* bytes of a canonic name or a value
  SizeofString,   \* sizeof(string), the least an element weighs
  SizeofTime,     \* sizeof(time_t)
  LineOverhead,   \* 15+2+2, what a line of the file weighs besides
  Kilo,           \* 1024
  Modulus,        \* 2^32: sizes are unsigned int
  Configs,        \* the settings an operator may send
  NoConfig,       \* no setting was ever received
  Unset,          \* a size left empty in the settings
  Sizes,          \* the values an uninitialised int may have
  DiskOutcomes,   \* subset of {"ok", "full"}: how a write to the file may end
  MaxReadings     \* bound of the model: readings received in a behaviour

(***************************************************************************)
(* A setting names a kind of database and two cache sizes; file = 0 stands *)
(* for a size below 1 or an empty file name.  Either size may be empty.    *)
(***************************************************************************)
ASSUME PersistenceAssumption ==
  /\ Values \subseteq Seq(Words)
  /\ Length \in [Canonics \cup Values -> Nat]
  /\ SizeofString \in Nat /\ SizeofTime \in Nat /\ LineOverhead \in Nat
  /\ Kilo \in Nat /\ Modulus \in Nat \ {0}
  /\ Sizes \subseteq Int
  /\ Configs \subseteq [db : {"sqlite", "mysql", "other"},
                        mem : Sizes \cup {Unset}, file : Sizes \cup {Unset}]
  /\ NoConfig \notin Configs
  /\ DiskOutcomes \subseteq {"ok", "full"}
  /\ MaxReadings \in Nat

VARIABLES
  pc,        \* the running operation
  why,       \* the call it belongs to
  request,   \* the settings Configure is applying
  saved,     \* the settings in the configuration file
  driver,    \* m_DBDriver: "null" or "open"
  l1,        \* m_CacheLevelOne: "none", "memory" or "file"
  l2,        \* m_CacheLevelTwo: "none" or "file"
  mem,       \* CacheMemory::m_Cache, from the iterator on
  memSize,   \* CacheMemory::m_CurrentMemory
  memMax,    \* CacheMemory::m_MaxMemory
  file,      \* the words in the cache file
  at,        \* words Transfert has read
  stream,    \* m_CacheFile: "good", or "bad" once a write has failed
  fileSize,  \* CacheFile::m_CurrentSize
  fileMax,   \* CacheFile::m_MaxSize
  clock,     \* time(nullptr)
  received,  \* history: every reading PersistanceAdd was called with
  offered,   \* history: every reading given to the driver
  seen,      \* history: `offered' at the last answer
  loss       \* history: "none" until a crash or a full disk

control == <<pc, why, request>>
wiring == <<driver, l1, l2>>
memVars == <<mem, memSize, memMax>>
fileVars == <<file, at, stream, fileSize, fileMax>>
history == <<received, offered, seen, loss>>
vars == <<control, saved, wiring, memVars, fileVars, clock, history>>

Reading == [canonic : Canonics, value : Values, time : Times]

Init ==
  /\ pc = "off" /\ why = "add" /\ request = NoConfig /\ saved = NoConfig
  /\ driver = "null" /\ l1 = "none" /\ l2 = "none"
  /\ mem = <<>> /\ memSize = 0 /\ memMax = 0
  /\ file = <<>> /\ at = 0 /\ stream = "good" /\ fileSize = 0 /\ fileMax = 0
  /\ clock \in Times /\ \A t \in Times : clock <= t
  /\ received = <<>> /\ offered = <<>> /\ seen = <<>> /\ loss = "none"

-----------------------------------------------------------------------------
(* CacheMemory and CacheFile *)

TextSize(s) == IF Length[s] > SizeofString THEN Length[s] ELSE SizeofString
ReadingSize(r) == TextSize(r.canonic) + TextSize(r.value)

MemAdd(r) ==
  /\ mem' = Append(mem, r)
  /\ memSize' = (memSize + ReadingSize(r) + SizeofTime) % Modulus
  /\ UNCHANGED memMax

RazKeepingSize == mem' = <<>> /\ UNCHANGED <<memSize, memMax>>  \* mutated MemRaz

MemRaz == mem' = <<>> /\ memSize' = 0 /\ UNCHANGED memMax

FileWriteNow(r) ==  \* mutated FileWrite
  /\ \E o \in DiskOutcomes : stream' = IF o = "full" THEN "bad" ELSE stream
  /\ loss' = IF stream' = "bad" THEN "possible" ELSE loss
  /\ file' = IF stream' = "bad" THEN file ELSE file \o Line([r EXCEPT !.time = clock])
  /\ fileSize' = (fileSize + ReadingSize(r) + LineOverhead) % Modulus
  /\ UNCHANGED <<at, fileMax>>

\* A stream that failed once writes nothing more, yet the size still grows.
FileWrite(r) ==
  /\ \E o \in DiskOutcomes : stream' = IF o = "full" THEN "bad" ELSE stream
  /\ loss' = IF stream' = "bad" THEN "possible" ELSE loss
  /\ file' = IF stream' = "bad" THEN file ELSE file \o Line(r)
  /\ fileSize' = (fileSize + ReadingSize(r) + LineOverhead) % Modulus
  /\ UNCHANGED <<at, fileMax>>

\* Closing and reopening the stream truncates the file and clears its state.
FileRaz ==
  /\ file' = <<>> /\ at' = 0 /\ stream' = "good" /\ fileSize' = 0
  /\ UNCHANGED fileMax

MemIsFull == memSize > memMax
FileIsFull == fileSize > fileMax

-----------------------------------------------------------------------------
(* The end of the process *)

\* The process is gone: what it held in memory with it, the file stays.
Die(how) ==
  /\ pc' = how /\ why' = "add" /\ request' = NoConfig
  /\ driver' = "null" /\ l1' = "none" /\ l2' = "none"
  /\ mem' = <<>> /\ memSize' = 0 /\ memMax' = 0
  /\ at' = 0 /\ stream' = "good" /\ fileSize' = 0 /\ fileMax' = 0
  /\ UNCHANGED <<file, saved, clock>>

Running == pc \notin {"off", "segv"}

\* A kill, a power cut, or the SIGTERM of `-stop', which nothing handles.
Crash ==
  /\ Running
  /\ Die("off")
  /\ loss' = "possible"
  /\ UNCHANGED <<received, offered, seen>>

\* A call through the null m_DBDriver, here with the reading it was to store.
NullCall ==
  /\ driver = "null"
  /\ Die("segv")
  /\ loss' = "possible"
  /\ UNCHANGED <<offered, seen>>

-----------------------------------------------------------------------------
(* Transfers *)

\* Where a call goes once its flush is over.
After(reason) ==
  CASE reason = "add"       -> "idle"
    [] reason = "query"     -> "query"
    [] reason = "configure" -> "configure"
    [] reason = "exit"      -> "exit"

FlushFileOnly(reason) ==  \* mutated FlushFrom
  CASE l1 = "none"                            -> After(reason)
    [] l1 = "memory" /\ l2 = "none"           -> "drainMem"
    [] reason = "add" /\ l2 = "file"          -> "fill"
    [] OTHER                                  -> "drainFile"

\* The first transfer of FlushDb; none when there is no cache.
FlushFrom(reason) ==
  CASE l1 = "none"                    -> After(reason)
    [] l1 = "memory" /\ l2 = "none"   -> "drainMem"
    [] l1 = "memory" /\ l2 = "file"   -> "fill"
    [] l1 = "file"                    -> "drainFile"

FillRetrying ==  \* mutated Fill
  /\ pc = "fill" /\ mem # <<>>
  /\ FileWrite(Head(mem))
  /\ mem' = IF stream' = "bad" THEN mem ELSE Tail(mem)
  /\ UNCHANGED <<control, saved, wiring, memSize, memMax, clock, received, offered, seen>>

\* m_CacheLevelOne->Transfert(m_CacheLevelTwo), one reading.
Fill ==
  /\ pc = "fill" /\ mem # <<>>
  /\ FileWrite(Head(mem))
  /\ mem' = Tail(mem)
  /\ UNCHANGED <<control, saved, wiring, memSize, memMax, clock, received, offered, seen>>

\* Its end: an Add goes on only if the file cache is full, a flush always.
FillEnd ==
  /\ pc = "fill" /\ mem = <<>>
  /\ MemRaz
  /\ pc' = IF why = "add" /\ ~FileIsFull THEN "idle" ELSE "drainFile"
  /\ UNCHANGED <<why, request, saved, wiring, fileVars, clock, history>>

\* m_CacheLevelOne->Transfert(m_DBDriver) from the memory cache, one reading.
DrainMem ==
  /\ pc = "drainMem" /\ mem # <<>>
  /\ \/ NullCall /\ UNCHANGED received
     \/ /\ driver = "open"
        /\ offered' = Append(offered, Head(mem))
        /\ mem' = Tail(mem)
        /\ UNCHANGED <<control, saved, wiring, memSize, memMax, fileVars, clock,
                       received, seen, loss>>

DrainMemEnd ==
  /\ pc = "drainMem" /\ mem = <<>>
  /\ MemRaz
  /\ pc' = After(why)
  /\ UNCHANGED <<why, request, saved, wiring, fileVars, clock, history>>

Readable == stream = "good" /\ at < Len(file)

\* Transfert(m_DBDriver) from the file cache, one round of its loop.
DrainFile ==
  /\ pc = "drainFile" /\ Readable
  /\ \/ NullCall /\ UNCHANGED received
     \/ /\ driver = "open"
        /\ offered' = Append(offered, ReadBack(file, at, clock))
        /\ at' = at + 4
        /\ UNCHANGED <<control, saved, wiring, memVars, file, stream, fileSize, fileMax,
                       clock, received, seen, loss>>

DrainFileEnd ==
  /\ pc = "drainFile" /\ ~Readable
  /\ FileRaz
  /\ pc' = After(why)
  /\ UNCHANGED <<why, request, saved, wiring, memVars, clock, history>>

-----------------------------------------------------------------------------
(* Readings *)

AddToDriver(r) ==
  /\ l1 = "none"
  /\ \/ NullCall
     \/ /\ driver = "open"
        /\ offered' = Append(offered, r)
        /\ UNCHANGED <<control, saved, wiring, memVars, fileVars, clock, seen, loss>>

AddToMemory(r) ==
  /\ l1 = "memory"
  /\ MemAdd(r)
  /\ pc' = IF memSize' > memMax THEN FlushFrom("add") ELSE "idle"
  /\ UNCHANGED <<why, request, saved, wiring, fileVars, clock, offered, seen, loss>>

AddToFile(r) ==
  /\ l1 = "file"
  /\ FileWrite(r)
  /\ pc' = IF fileSize' > fileMax THEN FlushFrom("add") ELSE "idle"
  /\ UNCHANGED <<why, request, saved, wiring, memVars, clock, offered, seen>>

\* MsgAnswer with a reading some filter selects.
PersistanceAdd(canonic, value) ==
  LET r == [canonic |-> canonic, value |-> value, time |-> clock] IN
  /\ pc = "idle" /\ Len(received) < MaxReadings
  /\ received' = Append(received, r)
  /\ AddToDriver(r) \/ AddToMemory(r) \/ AddToFile(r)

-----------------------------------------------------------------------------
(* Queries, settings, start and stop *)

\* Every call that begins with FlushDb.
StartFlush(reason) ==
  /\ pc = "idle"
  /\ pc' = FlushFrom(reason) /\ why' = reason
  /\ UNCHANGED <<saved, wiring, memVars, fileVars, clock, history>>

\* CmndGetValues and CmndGetDevices.
Query == StartFlush("query") /\ UNCHANGED request

\* The query itself; m_DBDriver is not tested.
Answer ==
  /\ pc = "query"
  /\ \/ NullCall /\ UNCHANGED received
     \/ /\ driver = "open"
        /\ seen' = offered
        /\ pc' = "idle" /\ why' = "add"
        /\ UNCHANGED <<request, saved, wiring, memVars, fileVars, clock,
                       received, offered, loss>>

ReconfigureAtOnce(c) ==  \* mutated Reconfigure
  /\ pc = "idle"
  /\ pc' = "configure" /\ why' = "configure" /\ request' = c
  /\ UNCHANGED <<saved, wiring, memVars, fileVars, clock, history>>

\* A config message: BasicConfig calls Configure, which begins with CloseDb.
Reconfigure(c) == StartFlush("configure") /\ request' = c

\* The driver Configure ends up with: null if the type is unknown or the
\* database refuses.
OpenDriver ==
  \/ request.db # "other" /\ driver' = "open"
  \/ driver' = "null"

\* cacheSize and fileSize in Configure: nothing is read from an empty setting,
\* the variable keeps whatever it held.
SizesRead(setting) == IF setting = Unset THEN Sizes ELSE {setting}

\* The memory cache, unless its size is below 1.
CreateMemory(size) ==
  /\ memMax' = IF size > 0 THEN (size * Kilo) % Modulus ELSE 0
  /\ mem' = <<>> /\ memSize' = 0

NoFile(size) ==
  /\ l1' = IF size > 0 THEN "memory" ELSE "none"
  /\ l2' = "none"
  /\ at' = 0 /\ stream' = "good" /\ fileSize' = 0 /\ fileMax' = 0
  /\ UNCHANGED file

FileTwice(size, most) ==  \* mutated FileAt
  /\ most > 0
  /\ l1' = IF size > 0 THEN "memory" ELSE "file"
  /\ l2' = "file"
  /\ at' = 0 /\ stream' = "good"
  /\ fileSize' = 0 /\ fileMax' = (most * Kilo) % Modulus

FileAt(size, most) ==
  /\ most > 0
  /\ l1' = IF size > 0 THEN "memory" ELSE "file"
  /\ l2' = IF size > 0 THEN "file" ELSE "none"
  /\ at' = 0 /\ stream' = "good"
  /\ fileSize' = 0 /\ fileMax' = (most * Kilo) % Modulus

ReopenFile(size, most) == NoFile(size) \/ (FileAt(size, most) /\ UNCHANGED file)  \* mutated CreateFile

\* The file cache, behind the memory cache or in its place; creating it
\* empties the file, and may fail.
CreateFile(size, most) == NoFile(size) \/ (FileAt(size, most) /\ file' = <<>>)

\* The rest of Configure, after CloseDb, and the save of the settings.
Configure ==
  /\ pc = "configure"
  /\ OpenDriver
  /\ \E size \in SizesRead(request.mem), most \in SizesRead(request.file) :
        CreateMemory(size) /\ CreateFile(size, most)
  /\ saved' = request
  /\ pc' = "idle" /\ why' = "add" /\ request' = NoConfig
  /\ UNCHANGED <<clock, history>>

\* DbMysql's constructor throws a logic_error Configure does not catch when
\* the table cannot be created: main ends, and nothing is saved.
ConfigureThrows ==
  /\ pc = "configure" /\ request.db = "mysql"
  /\ Die("off")
  /\ UNCHANGED history

\* The loop of ServiceStart ends, or an exception reaches main: the
\* destructor closes everything.
Stop == StartFlush("exit") /\ UNCHANGED request

Exit ==
  /\ pc = "exit"
  /\ Die("off")
  /\ UNCHANGED history

\* A new process; Open reads the configuration file and configures from it.
Start ==
  /\ ~Running
  /\ pc' = IF saved = NoConfig THEN "idle" ELSE "configure"
  /\ why' = IF saved = NoConfig THEN "add" ELSE "configure"
  /\ request' = saved
  /\ UNCHANGED <<saved, wiring, memVars, fileVars, clock, history>>

Tick ==
  /\ clock + 1 \in Times
  /\ clock' = clock + 1
  /\ UNCHANGED <<control, saved, wiring, memVars, fileVars, history>>

-----------------------------------------------------------------------------
Daemon ==
  Fill \/ FillEnd \/ DrainMem \/ DrainMemEnd \/ DrainFile \/ DrainFileEnd
       \/ Answer \/ Configure \/ ConfigureThrows \/ Exit

Next ==
  \/ Daemon
  \/ \E canonic \in Canonics, value \in Values : PersistanceAdd(canonic, value)
  \/ \E c \in Configs : Reconfigure(c)
  \/ Query \/ Stop \/ Crash \/ Start \/ Tick

Spec == Init /\ [][Next]_vars

\* A single thread that is only ever suspended for a while.
FairSpec == Spec /\ WF_vars(Daemon)

-----------------------------------------------------------------------------
(* Properties *)

\* The values the variables can hold.
TypeOK ==
  /\ pc \in {"off", "segv", "idle", "fill", "drainMem", "drainFile",
              "query", "configure", "exit"}
  /\ why \in {"add", "query", "configure", "exit"}
  /\ request \in Configs \cup {NoConfig} /\ saved \in Configs \cup {NoConfig}
  /\ driver \in {"null", "open"}
  /\ l1 \in {"none", "memory", "file"} /\ l2 \in {"none", "file"}
  /\ l2 = "file" => l1 = "memory"
  /\ mem \in Seq(Reading) /\ memSize \in 0 .. Modulus - 1 /\ memMax \in 0 .. Modulus - 1
  /\ file \in Seq(Token) /\ at \in Nat /\ stream \in {"good", "bad"}
  /\ fileSize \in 0 .. Modulus - 1 /\ fileMax \in 0 .. Modulus - 1
  /\ clock \in Times
  /\ received \in Seq(Reading) /\ offered \in Seq(Record) /\ seen \in Seq(Record)
  /\ loss \in {"none", "possible"}

\* What the cache file still holds for the driver, as Transfert would read it.
FileInUse == l1 = "file" \/ l2 = "file"

InFile ==
  IF FileInUse /\ stream = "good" THEN Unread(file, at, clock) ELSE <<>>

\* The readings the caches hold, oldest first.
Pending == InFile \o mem

(***************************************************************************)
(* While nothing has crashed and no disk has filled up, the driver has     *)
(* been given every reading the daemon accepted, in the order of arrival,  *)
(* each once and unaltered, except those still in the caches: first those  *)
(* of the file, then those in memory.  PersistanceAdd and FlushDb move     *)
(* readings between three containers; this is what all the moves keep.     *)
(***************************************************************************)
Conservation == loss = "none" => received = offered \o Pending

(***************************************************************************)
(* When CmndGetValues or CmndGetDevices asks the database, the database    *)
(* has been offered every reading received before: FlushDb emptied both    *)
(* caches, whatever they were made of.                                     *)
(***************************************************************************)
QuerySeesEverything == pc = "query" /\ loss = "none" => offered = received

(***************************************************************************)
(* Between two messages the caches hold no more than they were configured  *)
(* for, and their size counters say what they hold: PersistanceAdd drains  *)
(* a cache that passed its limit before it returns, and Raz restarts the   *)
(* counter.                                                                *)
(***************************************************************************)
MemoryWeight(r) == ReadingSize(r) + SizeofTime
FileWeight(r) == ReadingSize(r) + LineOverhead

MemoryHeld(s) == SumFunction([i \in DOMAIN s |-> MemoryWeight(s[i])])
FileHeld(s) == SumFunction([i \in DOMAIN s |-> FileWeight(s[i])])

CachesWithinLimits ==
  pc = "idle" =>
    /\ memSize <= memMax /\ fileSize <= fileMax
    /\ memSize = MemoryHeld(mem)
    /\ stream = "good" => fileSize = FileHeld(InFile)

(***************************************************************************)
(* It takes limits that leave room below 2^32 for one more reading and for *)
(* a whole memory cache written to the file, where a reading weighs at     *)
(* most twice as much.  (A limit itself may have wrapped to anything.)     *)
(***************************************************************************)
Limit(size) == IF size > 0 THEN (size * Kilo) % Modulus ELSE 0

CountersHaveRoom ==
  /\ LineOverhead <= 2 * SizeofString + 2 * SizeofTime
  /\ \A c \in Configs, r \in Reading :
       \A size \in SizesRead(c.mem), most \in SizesRead(c.file) :
          Limit(most) + 2 * (Limit(size) + MemoryWeight(r)) < Modulus

(***************************************************************************)
(* Every flush ends: a query is answered, a setting applied and a stop     *)
(* completed, whatever the disk does, unless the process dies.             *)
(***************************************************************************)
CallsReturn == pc \notin {"idle", "off", "segv"} ~> pc \in {"idle", "off", "segv"}

(***************************************************************************)
(* What CallsReturn rests on.  A call only moves on through its transfers, *)
(* never back to an earlier one, and each step of a transfer leaves it     *)
(* less to do, whether the disk takes the reading or not and whatever the  *)
(* driver makes of it; what the clock does meanwhile changes neither.      *)
(***************************************************************************)
Phase ==
  CASE pc = "fill"                              -> 3
    [] pc \in {"drainMem", "drainFile"}         -> 2
    [] pc \in {"query", "configure", "exit"}    -> 1
    [] OTHER                                    -> 0

ToDo ==
  CASE pc \in {"fill", "drainMem"}      -> Len(mem)
    [] pc = "drainFile" /\ Readable    -> Len(file) - at
    [] OTHER                           -> 0

Advances ==
  \/ Phase' < Phase
  \/ Phase' = Phase /\ ToDo' < ToDo
  \/ UNCHANGED <<Phase, ToDo>> /\ clock' # clock

CallsAdvance == [][Phase # 0 => Advances]_vars

(***************************************************************************)
(* The caches, the file and the flushes together are the write-behind log  *)
(* of RecordLog, across crashes and restarts too: what a crash or a full   *)
(* disk takes are the oldest waiting readings, and nothing is ever offered *)
(* twice.                                                                  *)
(***************************************************************************)
Degraded == ~Running \/ stream = "bad"

Log == INSTANCE RecordLog WITH pending <- Pending, degraded <- Degraded

LogSpec == Log!Spec

(***************************************************************************)
(* README.md:10: "This daemon receive xPL message and record device and    *)
(* value in a database."  Every row the driver is given has the device and *)
(* the value of some message.                                              *)
(***************************************************************************)
RecordsDeviceAndValue ==
  \A i \in DOMAIN offered : \E j \in DOMAIN received :
     /\ offered[i].canonic = received[j].canonic
     /\ offered[i].value = received[j].value

(***************************************************************************)
(* test/TestCacheFile.cpp:45: "assert(originTime==m_time[0]);" after a     *)
(* reading went through the cache file.  Every row carries the second of   *)
(* some message about its device.                                          *)
(***************************************************************************)
RecordsTime ==
  \A i \in DOMAIN offered : \E j \in DOMAIN received :
     /\ offered[i].canonic = received[j].canonic
     /\ offered[i].time = received[j].time

(***************************************************************************)
(* test/TestxPLDatabase.cpp:518-541 sends a database that cannot be opened *)
(* and goes on with the same daemon.  A daemon that has been configured    *)
(* does not die of a null driver.                                          *)
(***************************************************************************)
ConfiguredDaemonSurvives == saved # NoConfig => pc # "segv"
=============================================================================
