# Verification of xPLDatabase

xPLDatabase is a daemon that listens on the xPL home-automation bus and logs
sensor readings to an SQLite or MySQL database. Readings pass through a memory
cache and, if configured, a file cache; queries that arrive over the bus read
the database back. This directory holds TLA+ models of the daemon, their TLC
configurations and machine-checked proofs. Paths and line numbers are those of
`src/`; the daemon's own code is `src/src/`, its libraries are
`src/dependency/`.

## 1. The system

### 1.1 Components

| Component | Code | State | Operations |
|---|---|---|---|
| Persistence core | `src/xPLDatabase.cpp`, `CacheMemory.cpp`, `main.cpp` | driver pointer, two cache pointers, the memory cache and its size | `PersistanceAdd`, `FlushDb`, `CloseDb`, `Configure`, destructor |
| Cache file | `src/CacheFile.cpp`, `DateHelper.cpp` | the file, its stream (position, error bits), a size | constructor, `Write`, `IsFull`, `Transfert`, `Raz` |
| Database drivers | `src/DbSqlite.cpp`, `DbMysql.cpp` | connection handle, `m_open`; rows in the server | constructor, `Add`, `Write`, `RequestDevices`, `RequestValues`, destructor |
| Query answers | `xPLDatabase.cpp:216-462`, `RequestValue.cpp` | none between calls | `CmndGetDevices`, `CmndGetValues`, `...Num`, `...Bool`, `...Alpha` |
| Filters | `Filter.cpp`, `xPLDatabase.cpp:464-600`, `xPLLib/Extensions/AdvanceConfig.cpp`, `SimpleIni` | the list `m_DeviceValues`, the map `m_Filters`, sections of the ini file | messages `advanceconfig.request` and `.current`, load, save, `FilterFind` |
| xPL device | `xPLLib/xPLDevice.cpp`, `xPLDevCfg.cpp`, `Address.cpp`, `Extensions/BasicConfig.cpp` | name, port, heartbeat and its timer, messages that wait, settings | `Open`, `WaitRecv`, heartbeats, config messages, `Close` |
| Service control | `Service/Service.cpp`, `xPLDatabase.cpp:602-628`, `main.cpp` | stop and pause flags, pid files, Windows service status | Linux: `-start`, `-stop`, `-restart`, `-console`; Windows: install, remove, `ServiceMain`, control handler |
| Schemas, support libraries, third-party code | `xPLLib/Schemas`, `SimpleSock`, `SimpleLog`, `StringTools`, `SQLite`, ... | - | parsing, sockets, logging |

### 1.2 Interaction

Everything inside the daemon runs on one thread: `WaitRecv` takes a message and
hands it to the extensions in turn (`AdvanceConfig::MsgAnswer`,
`xPLDatabase::MsgAnswer`), which call `PersistanceAdd` or a query before the
next message is read. On Windows the service dispatcher sets the stop flag
from another thread, and both threads report the status of the service. On Linux
each command is a process of its own, which finds the daemon through a file with
its process id and ends it with a signal. The settings of the database and the caches arrive
as a config message; `BasicConfig` stores them, calls `Configure`, and saves
them; a restart reads them back. `AdvanceConfig` calls back into `xPLDatabase`
(`ConfigChange`, `ConfigDelete`, `AdvanceConfigure`), which keeps a second copy
of the filters, and asks the device to save. The caches reach the driver
through the interface `ITransfert`: `Transfert` empties one container into the
next.

### 1.3 What is hard about it

* Readings are in up to three containers at once, which are drained, emptied
  and rebuilt by several calls, in an order each call must get right.
* Between any two readings of a transfer the process may be killed (`-stop`
  sends a SIGTERM that nothing handles), and in the file cache any write may
  meet a full disk.
* The driver pointer may be null for the rest of the daemon's life, once the
  configured database cannot be opened.
* The file cache is a text format whose reader and writer must agree.
* A driver's call makes several steps, each of which can fail because of what
  the server or another process does meanwhile, and leaves its connection in a
  state that later calls use.
* A query's loops share one iterator that only moves forward.
* The filters exist three times, as a list, a map and a file that is rewritten
  on every change.
* Name, interval and port of the device are in the settings, in the address, in
  the heartbeat kept ready for sending, in the file and in what the network was
  told, and a config message changes them one after the other, with sends that
  may throw in between.
* Commands overlap: `-start` returns before its daemon is forked and listed,
  `-restart` does not wait for the daemon it killed, users write to different
  directories, one of which depends on where the command is given, and process
  ids are used again.
* A stop may reach the Windows service in the middle of its start.

### 1.4 What makes each part correct

* *Persistence and cache file.* A reading that was accepted is offered to the
  database exactly once, in the order of arrival and unaltered, unless the
  process dies or the disk fails. A query sees every reading received before
  it. The caches keep the limits they were configured with. Every call returns.
  A crash, a full disk and a restart lose only readings that waited, oldest
  first; they never duplicate or reorder.
* *Drivers.* Connections are given back. A reading that is given to a driver
  whose database is there is stored. The table only grows, by rows that were
  asked for. No failure of the database ends the daemon. Each of these has
  exceptions in the code, which the properties name: a statement whose text
  contains a quote, a constructor that throws, a failed `sqlite3_open`.
* *Query answers.* Every reading of a span is counted once, in its span.
* *Filters.* The filters in force are those the messages asked for, through
  restarts; the copies agree.
* *Device.* The network knows the name, port and interval in use and no other
  name. Settings of a config message are in use and survive restarts. Heartbeats
  come as often as was announced, for ever.
* *Service control.* One daemon runs, and its file names it; a stop kills it and
  no other program; `Daemon is not started` is true of every place the command
  looks in. A Windows service that says
  it stops does, and its status never goes back.

## 2. Modules

| Module | What it holds | EXTENDS / INSTANCE |
|---|---|---|
| `RecordLog` | abstract: a write-behind log of readings | |
| `CacheFile` | the format of the cache file and what reading it returns | |
| `Persistence` | readings, caches, settings, stops, crashes, restarts | extends `CacheFile`, implements `RecordLog` |
| `QueryAnswers` | the answer to `getvalues` | |
| `Capteurs` | abstract: the table of the database, and the row a statement leaves | |
| `DbMysql`, `DbSqlite` | the drivers, one step per contact with the database | implement `Capteurs` |
| `Recording` | from the message to the row: the daemon above the SQLite driver | extends `Persistence`, instances `DbSqlite` |
| `Filters` | the list, the map and the configuration file | |
| `BasicConfig` | the settings of the device: a response, the lines of the file, what is read back | |
| `XplDevice` | name, port, heartbeats, messages, remote configuration, the loop of the daemon | extends `BasicConfig` |
| `FilterMatch` | which filter a message meets: `Filter::Set`, `Compare`, `FilterFind`, and what a source stands for | extends `Filters` |
| `Daemon` | the commands under Linux, processes, users and pid files | |
| `WinService` | the two threads of the Windows service and the control manager | |
| `MC...` | the constants of the small instances | extend their module |
| `Sums` | lemmas: least elements, extremes of finite sets, sums over finite sets and sequences | |
| `PersistenceProofs` (`CacheFile`, `Persistence`, `Recording`), `QueryAnswersProofs`, `FiltersProofs` (`Filters`, `FilterMatch`), `XplDeviceProofs`, `DaemonProofs` (`Daemon`, `WinService`), `DbSqliteProofs`, `DbMysqlProofs` | theorems | extend the last module named, `DaemonProofs` its first; the first four also `Sums` |

Definitions marked `mutated X` are plausible bugs of the definition `X`; each
breaks a property of a run, which shows that the property depends on that code.
They are used nowhere else.

### 2.1 Persistence and CacheFile

State: `driver`, `l1`, `l2` are `m_DBDriver`, `m_CacheLevelOne`,
`m_CacheLevelTwo` (null, memory, file); `mem`, `memSize`, `memMax` the memory
cache; `file`, `at`, `stream`, `fileSize`, `fileMax` the file cache, its text
as a sequence of words; `saved` the settings in the configuration file; `pc`
and `why` the running call. `received`, `offered`, `seen` and `loss` record
the past for the properties only.

| Actions | Code |
|---|---|
| `PersistanceAdd` (to the driver, the memory or the file) | `xPLDatabase.cpp:495-521`, `CacheMemory::Add`, `CacheFile::Write` |
| `Fill`, `DrainMem`, `DrainFile` and their `...End` | the loops of `CacheMemory::Transfert` and `CacheFile::Transfert`, one reading each, and `Raz` |
| `Query`, `Answer` | `FlushDb` and the request in `CmndGetDevices` and `CmndGetValues` |
| `Reconfigure`, `Configure`, `ConfigureThrows` | `CloseDb` and the rest of `Configure`; the exception of `DbMysql` it does not catch |
| `Stop`, `Exit`, `Crash`, `Start` | the end of `ServiceStart`, the destructor, SIGTERM or a power cut, `Open` of the next process |
| `NullCall` (a disjunct of several) | a call through the null `m_DBDriver` |

`Configure` ends with any driver and any file the environment may give it. An
empty size, of either cache, leaves an `int` uninitialised (`BasicConfig.h:46`):
any member of `Sizes` (`SizesRead`). Sizes are `unsigned int`: every sum and product is modulo
`Modulus`. `CacheFile::Write` writes date, time, canonic name and value, and
`Transfert` reads four words at a time with `>>`. A name and a value are
sequences of words, since the name ends in the device of the message, which is
any text (`xPLDatabase.cpp:497`); `Extract` says what `Transfert` gets at
the end of the file, `ToDate` what a date becomes. What a `Raz` whose reopening
fails leaves is not modelled; nor is the hour that occurs twice in autumn.

### 2.2 QueryAnswers

State: the rows of one device, and the locals of `CmndGetValues` and its loops.
`unread` stands for the vector of rows from the iterator on; rows come in the
order of time, at most one a second (the primary key), so a set of seconds is
enough. `GetValues` is the command up to the choice of the loop,
`NumberRound`, `SwitchRound` and `TextRound` one round of each, `Return` the
end. The mean is kept as sum and count; its rounding for the message is left
out. `shift` is what `ToDate` takes off the dates of the rows: nothing in summer,
`DstShift`, an hour, in winter. It is chosen with the request, for the whole
period; a period that spans the change of the season is left out. What the
answers to numbers and switches should be is stated for summer. For both seasons
`AllButRemainderOrNothing` says what is left out: in summer the seconds the
division of the period drops, in winter nothing less than everything if a reading
is read as earlier than the period, because it stops the loop for good. Texts are
answered alike in summer and winter (`TextAnswersAreFirst`).

### 2.3 DbMysql and DbSqlite

State: the handle, `m_open`, `Query::close` as `close`, the table, and what the
outside does: the MySQL server stops, restarts, loses and regains the schema,
closes idle connections and admits `MaxConnections`; the SQLite file is free,
locked by another process, or cannot be opened.

Both drivers concatenate the texts of a reading or a query into the statement, between
quotes and unescaped (`DbSqlite.cpp:68,79,108`, `DbMysql.cpp:70,81,121`).
`Quotable` is the set of readings whose texts mean themselves there: no quote,
for MySQL no backslash, and short enough for the columns. Any other text makes
the statement say something else, which the server may refuse, may execute with
another value, or, with `sqlite3_exec`, may take for several statements. The
models do not follow it: once such a statement is executed the table is
`Unknown` for good, and so is what its later statements do to the table.
All properties about rows speak of the table until then. A query names the
device it was asked for, so its text may be such a one too: a `SELECT` changes
nothing in MySQL, which takes one statement at a time, but may anything in
SQLite, and its answer may have null columns, over which the callbacks and the
fetch loop die.

`Create`, `Write` and `Request`
begin a call, `Dial` is each `Connect`, `Execute` the statement and what `Query`
does after it, `Fetch` or `End` the rest of a request, `Throw` the exception of
a constructor, after which no destructor runs, so that a live handle is leaked
(`leaked`), `Destroy` what `CloseDb` does to a driver: a `Disconnect`, then the
destructor. `RequestDevices` and `RequestValues`
differ only in their text, and so do `Add` and `Write`. In `DbMysql`, `leaked`
counts the connections the server holds and no pointer of the daemon refers to;
in `DbSqlite` it is the set of ways a live handle was lost. `unopened` records
that the last `sqlite3_open` failed and nothing was closed since. Running
out of memory in `mysql_init` is not modelled. Persistence counts a reading as
delivered once it is handed to the driver; these modules say what becomes of it,
and `Recording` puts the two together. `DbMysql` has a run of its own; `DbSqlite`
is checked below the daemon, in `Recording`, and proved about alone.

### 2.4 Recording

State: that of `Persistence`, that of `DbSqlite` (`step` is its program counter,
`opened` its `m_open`, `closing` its `close`), and `rebuilt`, whether the running
`Configure` has called the constructor of the driver. `hindered` records the keys
of the insertions during which the file could not be written at some moment: they
are the only ones whose row may be missing while the table is known. Every action is one of a component, or
one of each:

| Actions | Code |
|---|---|
| `Store` | a reading arrives or leaves a cache; if it is handed to the driver, `Add` or `Write` begins |
| `Request` | `RequestDevices` or `RequestValues` begins, after the flush |
| `Proceed` | the running call of the driver, one contact with the database; if it kills the process, `Crash` |
| `CloseDriver`, `Construct`, `Wire` | `Configure`: the old driver goes, a new one is made or throws, the caches are wired to the outcome |
| `Within` | what the daemon does without its driver |
| `Process`, `World` | a kill in the middle of any call, the end, a start; the file of the database and the clock |

The daemon goes on only when the call it made is over (`DriverFree`): everything
is on one thread. `Persistence` alone leaves open which driver a configuration
brings; here it is what the constructor leaves. MySQL is not composed: a setting
that names it leaves no driver, as one that cannot be opened does. The key of a row is
the device and the second of the message; the hour that occurs twice in autumn,
which the text of a date does not tell apart, is left out as in `Persistence`.

### 2.5 Filters

State: `list` is `AdvanceConfig::m_DeviceValues`, `filters` is
`xPLDatabase::m_Filters`, `ini` the file, section by section, `unsaved` the lines
a running `SaveAs` has still to write, of which `IsNext` is the first. `Request`,
`Delete`, `DeleteAll` are the messages with the callback and the save that belong
to them (a request, the command delete with and without a name). `RequestTwice`
is a request with two lines `configname`: the list gets an entry under both
names written together, but `ConfigChange` is called with the first one, looks
it up in the list and dereferences what it gets (`xPLDatabase.cpp:532-534`); if
there is none, that is null and the process dies. `Twice` has the pairs of a
first name and of the two together, `Given` the sets of keys a request may
carry; `unfiltered` records the names whose entry is in the list without its
filter. `SaveSettings`
the save of `BasicConfig`; `OpenFile`, `WriteLine`, `Saved` a save, line by line,
in the order of names and keys; `Stop`, `Crash`, `Start` the end of the process,
in the middle of a save too, and the reload. `xPL` is an ordinary member of
`Names`, with names before and after it in the order of the file. The requests for
lists change nothing and are left out.

`FilterMatch` adds which filter a message meets. `Set`, `Compare` and `FilterFind`
are those of the code, on texts that are sequences of characters, because
separators and the star are what they look at. `LastCompared` is the position at
which the loop of `Compare` ends. The reference is independent of them:
`SourcesOf` builds the texts that can be written for a sender, part by part, each
in full or cut by a star, up to any part; a filter covers a message if its source
is one of them, letters aside. The parts of a message are not empty: two empty
words make `Compare` read behind both ends, which is undefined. That happens for a
message from `*`, and for an empty device. `FilterMatchAssumption` says so, and
that a part of a sender holds no star and not the separator that ends it, that a
source has stars at the end of its parts only (behind one `Compare` does not
look), and that `tolower` leaves separators and the star alone.

### 2.6 BasicConfig and XplDevice

`BasicConfig` has the pure part: `Assign` is what a config.response does to the
`ConfigItem`s, `Lines` the lines of `SaveConfig`, `Loaded` what `LoadConfig`
makes of any prefix of them, `Current` the answer config.current. Kept are
`newconf`, `interval` and `group`, the setting with several values; the settings
of the database are those of `Persistence`.

State of `XplDevice`: `instance`, `hbType`, `hbInterval`, `hbMsg`, `port`,
`items`, `preSend` are the members of the same meaning; `beaten` and `since`
stand for the static `timeLast`; `saved` is the section of the file; `batch` the
datagrams `Recv` has joined. `announced`, `abandoned`, `told`, `gap`, `lag`,
`unheard`, `configured` record what the network saw, for the properties only.

| Actions | Code |
|---|---|
| `Start`, `Reopen` | `main`; `ServiceStart` again in the same process, as the tests do |
| `Load`, `Listen`, `FirstBeat`, `SendWaiting`, `Opened` | `Open`: `LoadConfig`, `DiscoverTCPPort` and the new heartbeat, the first one, `m_PreSend` |
| `Beat`, `Timeout`, `Receive`, `Parsed`, `Unreadable`, `Misaddressed`, `Skip`, `Answer` | `WaitRecv`, one message of the batch at a time |
| `Respond`, `EndOld`, `Greet`, `Call`, `Truncate`, `Write` | a config.response: settings and heartbeat, the parts of `SetInstance`, the request for sensors of `xPLDatabase::Configure`, the save |
| `ChangeFilters` | a change of the filters, which saves the settings too |
| `Close`, `Pause` | the loop of `ServiceStart`, the flags set by another thread |
| `Die` | SIGTERM, a power cut, or an exception that leaves `ServiceStart` |
| `Tick`, `SetClockBack` | `time()` |

A call is cut into steps where it sends or writes, because there it can end. A
save is cut where the file is empty, and `Die` may leave any number of its
lines; failures of the disk that the process survives are in `Filters`. Messages
are answered in less than a second; time passes in `select`, in a pause and while
the device is closed. Matching by filters and groups is not modelled, since
nothing calls `SetFilters` or `SetGroups`: every message to `*` or to the device
is answered.

### 2.7 Daemon

State: `proc` is what runs under each process id, with its owner; `pidFile` the
file in each place of `Places`; `cmd` where each command is, with its user and
working directory; `trouble` records, for the properties only, whether a daemon
runs that no file names, or whether commands overlapped or a daemon died without
one.

The last entry of `m_runDirs` is the string `~` (`Service.cpp:281`), which no
shell expands: `access`, `fopen` and `unlink` take it for a subdirectory of the
working directory. So there is one such place for each directory in `Cwds`;
`Place(c, i)` is where a command sees the i-th entry, and `Writers` says who can
write below which directory. Nobody can where no directory `~` exists, which is
the normal case; that root can write where anyone can is assumed.

| Actions | Code |
|---|---|
| `Begin`, `Console` | the dispatch in `Service::Start` |
| `Look` | `FindPid`, one directory at a time |
| `Kill`, `Unlink` | the rest of `CmdStop`; `CmdRestart` goes on to `Fork` |
| `Fork` | the first fork of `CmdStart`, after which the command returns, or its failure |
| `Refork` | the second fork, in the child, or its failure: there is a daemon |
| `OpenPid`, `PutPid` | `SetPidFile` and `WritePid`: the file is emptied, then written when it is closed |
| `Terminated`, `Dies`, `OtherProgram`, `Reboot` | the end of a daemon by SIGTERM or by itself, other programs, the machine |

A command is cut where it touches the file system or another process. A start
is waited for (`Waited`) up to its first fork only: from `refork` on it goes on
beside later commands (`Starter`). The directories of the system are root's; a
user has what `Writers` gives, perhaps nothing, in which case `OpenPid` fails.
`unlink` after `ServiceStart` is not
an action: on Linux nothing calls `ServiceStop`, so the loop has no end.

### 2.8 WinService

State: `entry` is the service in the database of the service control manager
(SCM), `state` the status it was told last, `main` and `handler` where the two
threads are, `m_bServiceStop` the flag they share. `leaving` is a process whose
destructor still writes its caches, `lost` records a stop forgotten.

| Actions | Code |
|---|---|
| `Install`, `Start`, `Remove`, `Delete`, `Deleted`, `Control` | `CmdInstall`, `CmdRemove`; the SCM and its user |
| `Register`, `Report`, `ReportStopped` | `ServiceMain` |
| `Begin`, `Open`, `Leave`, `Close` | `ServiceStart` |
| `Handle` | `ServiceCtrlHandler`: the report, then the flag |
| `Gone`, `Die` | the destructor; an exception or a kill |

Pause and continue are left out: `dwControlsAccepted` is `SERVICE_ACCEPT_STOP`,
so they are never sent. A stop that CmdRemove sends, as any control, is sent
only to a running service; it may be refused, and the service is deleted then.
The flag `m_bServiceStop` is read and written whole.

## 3. Runs

| Run | What it shows | Bounds |
|---|---|---|
| `caches` | Conservation of readings and their times, queries that see everything, limits and counters, refinement of `RecordLog`, calls that go forward and return: with every kind of setting in any order, crashes, full disks and queries between any two steps | 4 readings, 1 device, 2 seconds, kilobyte 5, sizes modulo 40 |
| `query_answers` | spans are answered by the definition: sums, counts, extremes, majorities; texts by their first readings; in summer only the remainder is missed, in winter that or everything | every table over 4 seconds with numbers -3 and 2, switches and texts; every period; 0 to 4 spans; summer and winter, whose hour is 1 second; `65535` is 5 |
| `recording` | until a text with a quote decides otherwise, the table holds the readings the caches let go, a query runs on all that were received, each row is a message, and readings are missing only where the file could not be written; driver and daemon agree about each other, no file stays open between two calls but that of a constructor that threw, and a handle is closed twice only if it could not be opened | 2 readings, 1 device, 3 values of which one cannot be quoted, 2 seconds, 3 settings: both caches, none, no database; symmetric in the two other values |
| `mysql_driver` | connections returned, the only crashes are outages during a request and queries that say something else, insertions with a connection of their own are stored, refinement of `Capteurs` | 2 keys, 3 values of which one cannot be quoted, 2 connections |
| `filter_config` | filters are those ordered, list and map agree after every failure and around requests with two names, a message meets the first filter that covers its sender | 3 names, one of them `xPL`, the last also the first and another one written together; requests with no key, the source or both; for the matching 11 more sources and 4 senders, which share beginnings |
| `device` | the network knows name, port and interval; no dead names; settings in use survive; heartbeats in time and for ever; nothing is sent under a name before it is announced | 2 names, 2 ports, 8 messages, batches of 2, heartbeats every 1 or 2 seconds, 1 second lost at a time |
| `daemon` | one daemon, listed in one file; only daemons are killed; `not started` is true but for the `~` of other directories: under overlapping commands, deaths, reboots, other users, other working directories and process ids used again | 3 commands at once, 2 process ids, 1 directory of the system, 3 working directories of which one has no `~`, 2 users; symmetric in commands and process ids; no further than a state with `trouble = "stray"` |
| `win_service` | a stop that was not forgotten ends the service; the status never goes back | one service, no bound |
| `blank_in_value` | violation: a value of two words shifts all readings behind it in the file | 2 readings |
| `winter_time` | violation: a reading that went through the file in winter is an hour early | 2 readings |
| `wrong_database` | violation: after a database that cannot be opened the daemon dies of a null driver | 2 readings |
| `mysql_stale` | violation: an insertion uses the dead connection a failed request left | as `mysql_driver` |

Why the bounds are enough:

* *Persistence.* The control state depends on where readings are and whether a
  cache is over its limit. With the weights of `MCPersistence` the memory cache
  passes its limit with the second reading and the file cache with the second
  batch, so 4 readings reach every transfer with 0, 1 or more readings in each
  container, and a limit that wrapped to 0 is reached with the first. The
  theorems of section 4 have no bound.
* *QueryAnswers.* Periods of 0 to 3 seconds and 0 to 4 spans give quotients 0 to
  3 with every remainder, spans of length 0, a last span longer than the others,
  tables with gaps anywhere, and kinds in any mixture. With an hour of 1 second
  rows at the start of a period are read before it and the others within. The
  theorems have no bound.
* *Recording.* Two readings are enough to meet in one second, and to be in the
  two caches, in a cache and with the driver, or on both sides of a
  reconfiguration, a query or a crash. The file changes between any two steps of
  a call, so a call meets it free, locked and gone in every order. Two values that
  can be quoted tell apart whose value a row has, and the third is any other. With both
  caches the memory overflows into the file with the second reading; the
  settings without a cache, and without a database, are the other ways the
  driver is reached or missed. The theorems have no bound.
* *Drivers.* One call runs at a time, and its only memory of earlier ones is the
  handle, `m_open` and the leaked connections; 2 connections leave room for one
  and show a full server. The SQLite driver remembers its handle and `m_open` only.
* *Filters.* `xPL` has a name before and after it, so that saves are cut before,
  in and behind the settings. Requests give no key, the source or both; a value name
  alone is treated like a source alone. A request with two names meets a first name
  that is in the list or not, and a joined one that is a filter already or not.
  Empty or cut texts appear by loading cut files. The sources to match are complete, empty, partial,
  cut by a star in every part, in capitals and with an empty part, and the senders
  differ in one part by one letter, before and behind a separator.
* *Daemon.* Three commands are two that go on after they returned and one that
  follows them; two process ids are an old and a new daemon, or a daemon and the
  program that gets its id; the places are one of root, the `~` of two
  directories, and that of a third that nobody can write to. Every property is
  true of any step from a state with `trouble = "stray"` on, which never ends, so
  TLC need not go on there (`CONSTRAINT Ordered`). The properties are proved
  without these bounds.
* *XplDevice.* Two names are the old and the new one; the messages name each of
  them, a rejected name, empty values, several values, an interval below the
  least, within and above the largest; in a batch of 2 the second message meets
  whatever the first did. Intervals of 1 and 2 seconds, and one second lost,
  put every tick before, at and behind the moment a heartbeat is due.

Every state space is finite, but for these bounds: `MaxReadings`
bounds the readings received in a behaviour (guard of `PersistanceAdd`),
`MaxNumber` the spans asked for, `MaxBatch` the messages received at once,
`MaxLag` the seconds lost between two heartbeats and `MaxGap` the seconds
between two heartbeats (guards of `Receive`, `Tick` and `SetClockBack`; the
device sends a heartbeat before `MaxGap` stops the clock, or is paused or
closed). Every run checks for deadlock: a process that
is gone can be started again, and a server or file can always change.
Symmetry is used in `daemon` and `recording`, whose properties are invariants and
action properties that treat all commands and all process ids, and the two values
that can be quoted, alike.

Fairness. `CallsReturn`, `BeatsForever` and `StopEnds` need it. In `WinService`
each of the two threads has weak fairness: neither waits for the other, `Open`
and `Close` return, and the loop looks at the flag after every `WaitRecv(100)`.
Users, the SCM and failures have none. In the others: weak fairness of `Daemon`,
the steps of a call that is under way and of the loop: the daemon has one thread
that waits for nothing but messages, with a timeout, so the operating system
runs it sooner or later. Strong fairness of `Tick`: a device that waits again
and again sees time pass, though each wait is short and may be ended by a
message. Messages, stops, pauses and crashes get no fairness.

## 4. Proofs

| Theorem | Says | Assumes |
|---|---|---|
| `PersistenceProofs!TypeCorrect` | `Spec => []TypeOK` | the assumptions on the constants |
| `PersistenceProofs!Conserved` | `Spec => []Conservation` | the same, and `Carried` |
| `PersistenceProofs!QueriesSeeEverything` | `Spec => []QuerySeesEverything` | the same |
| `PersistenceProofs!Refinement` | `Spec => LogSpec`: `Persistence` implements `RecordLog` | the same |
| `PersistenceProofs!WithinLimits` | `Spec => []CachesWithinLimits` | the same, and `CountersHaveRoom` |
| `PersistenceProofs!StepsAdvanceCalls` | `Spec => CallsAdvance` | the assumptions on the constants |
| `PersistenceProofs!RecordingIsDaemon` | `RecordingSpec => Spec`: with its driver the daemon does nothing that `Persistence` does not do | none |
| `PersistenceProofs!DriverCoupled`, `DoubleCloses`, `ReadingsRecorded` | `RecordingSpec => []Coupled`, `RecordingSpec => DiesOnlyUnopened`, `RecordingSpec => []Recorded` | the assumptions on the constants |
| `PersistenceProofs!QueriesAnsweredFromAll`, `RowsComeFromReadings` | `RecordingSpec => []AnsweredFromAll`, `RecordingSpec => []RowsAreReadings` | the same, and `Carried` |
| `PersistenceProofs!UnreadWrite` | a line written to a file of whole lines adds exactly its reading | plain readings |
| `QueryAnswersProofs!TypeCorrect`, `RoundsInStep`, `RemainderMissed` | `Spec => []TypeOK`; between spans the iterator is neither ahead nor behind; in summer only the remainder is missed | `QueryAssumption` |
| `QueryAnswersProofs!SwitchAnswersMajority` | `Spec => []SwitchAnswersAreMajorities` | the same |
| `QueryAnswersProofs!TextAnswersFirst`, `EarlyReadingStops` | `Spec => []TextAnswersAreFirst`, `Spec => []AllButRemainderOrNothing` | the same |
| `QueryAnswersProofs!AnswersDescribe` | `Spec => []AnswersDescribeSpans` | the same, and `Ordinary` |
| `FiltersProofs!TypeCorrect`, `FiltersOrdered`, `ListMatches` | `Spec => []TypeOK`, `Spec => []FiltersAsOrdered`, `Spec => []ListMatchesFilters` | `FiltersAssumption` |
| `FiltersProofs!FirstThatCovers` | `Spec => []FindsFirstThatCovers` | the same, `FilterMatchAssumption` |
| `XplDeviceProofs!TypeCorrect`, `HeartBeatTrue` | `Spec => []TypeOK`, `Spec => []BeatTellsTheTruth` | `BasicConfigAssumption`, `XplDeviceAssumption` |
| `XplDeviceProofs!NoGhostsKept`, `HeardFirstKept` | `Spec => []NoGhosts`, `Spec => []HeardFirst` | the same |
| `XplDeviceProofs!SettingsInUseKept`, `CurrentSurvivesRestartKept`, `StartsAgainKept`, `NeverAsksAgainKept` | `Spec => []SettingsInUse`, ... | the same |
| `XplDeviceProofs!ListenersWaitNoLongerKept` | `Spec => []ListenersWaitNoLonger` | the same |
| `DaemonProofs!TypeCorrect`, `DaemonListed` | `Spec => []TypeOK`, `Spec => []OneDaemonListed` | `DaemonAssumption` |
| `DaemonProofs!OnlyDaemonsKilled`, `NotStartedTrue` | `Spec => KillsOnlyDaemons`, `Spec => NotStartedIsTrue` | the same |
| `DaemonProofs!ServiceTypes`, `StatusForward` | `Win!Spec => []Win!TypeOK`, `Win!Spec => Win!StatusGoesForward` | none |
| `DbSqliteProofs!FileClosed`, `DoubleCloses`, `Stored` | `Spec => []ClosedBetweenCalls`, `Spec => DiesOnlyUnopened`, `Spec => StoredIfServed` | none |
| `DbMysqlProofs!ConnectionsReturned`, `NoCrashServed`, `Stored` | `Spec => []EveryConnectionReturned`, `Spec => []CrashOnlyWithoutServer`, `Spec => StoredIfConnectedAndServed` | `MysqlAssumption` |
| `DbSqliteProofs!Refinement`, `DbMysqlProofs!Refinement` | `Spec => TableSpec`: both drivers implement `Capteurs` | the same |

They hold for every device, value, time, size, setting, table, number of spans,
filter, text, message, batch, interval and port, and for any number of commands,
processes, directories, working directories, users, keys and connections, and for
any choice of the readings that can be quoted. What a theorem says of the table it
says until a statement has said something else than was meant (`rows # Unknown`).
`Carried` says that names and values
have one word and that dates are read as they were printed; the violations
`blank_in_value` and `winter_time` show that the theorems are false without it.
`CountersHaveRoom` says that a memory limit and one more reading, twice, and a
file limit are together below 2^32: the counters are `unsigned int`, and one that
passes 2^32 starts again at 0 without having been found above its limit. The
limits themselves may have wrapped. `MCPersistence` assumes it too, so that TLC
evaluates it for the settings of each run. `Ordinary` says that the readings are
strictly between -65535 and 65535, the values from which the search for the
extremes starts; a span of readings of 65535 and more is answered with the minimum
0 (section 5).

*Types.* `TypeOK` is not inductive: `Configure` reads the request as a setting,
so there must be one, and at the end of a file `Extract` reads the words of the
previous round, so there must have been one. `TypeInv` adds `why`, `request` and
`at`.

*Conservation.* The invariant is `TypeInv /\ Place /\ FileOfLines`. `Place` says
which containers may hold readings at each `pc`; without it a step such as
`Configure`, which empties the memory, could lose some. `FileOfLines` says that
the file consists of whole lines and that whole lines have been read; without it
four words are not a reading. `UnreadWrite` and the lemmas
before it turn the words of the file into readings. Every step then has
one of five effects on `offered` and the waiting readings (`Effect`: it keeps
them, accepts one, moves the oldest, answers, or loses the oldest ones while
`loss` is possible), proved action by action; `Conservation`, what queries see
and the refinement all follow from `Effect`.

*Calls.* `CallsReturn` is liveness, but what makes it true is a step property:
`CallsAdvance` orders the steps of a call by the transfer that runs (`Phase`) and
by what that transfer still has to read (`ToDo`), a natural number (`ToDoIsNat`)
that no step but one of the clock leaves alone. What is left to TLC is that the
steps are enabled and taken.

*Recording.* `RecordingIsDaemon` shows action by action that what the composition
does to the variables of `Persistence` is a step or a stutter there, so every
theorem about `Persistence` holds of it. For the rest the invariant has six parts.
`Attached`, with `Fits`: at each step of a driver's call the daemon is where it
waits for it. `Handles`: what is open at each step of a call, and that a handle which
is closed but not null is one that could not be opened; so an insertion that
could write the file throughout has a row at its end (`InsertionEnds`), unless the
table is `Unknown`, as it then stays. `Linked`:
the table holds the first readings of all that were offered but for those in
`hindered`, or of all but the last one while its insertion runs (`HoldsUpTo`);
without the exception the property would be lost between `Store` and the end of
the call. `Requested`: a driver's query runs for a query of the daemon whose
caches are empty, so that offered and received are the same (`Conservation`).
`FromReceived` and `Asked`, for the rows: whatever waits, was offered, or is about
to be inserted has the device, the second and the value of a message that was
received; `Insert` then can only add such a row.

*Counters.* `CachesWithinLimits` speaks of a daemon between two messages;
`Counters` says what holds inside a transfer. `memSize` lags behind the cache while
it is emptied, so it is left alone until `Raz`. While a batch is written to the
file, what the file's counter has reached and what is still to be added stay below
2^32 (`FileCounted`), because a line weighs at most twice what its reading weighs
in memory. `Room` carries `CountersHaveRoom` from the settings to the limits in
use. The weights are sums over sequences; `Sums` has what adding at the end and
taking from the front does to them.

*QueryAnswers.* `InStep` says that between two spans every reading before the next
span has been passed and none behind it. The invariant adds that the next span
begins at `first + round * Width` and that `Width` is the quotient while rounds
are made. Its step is `TakenUpTo`: because the unread readings begin at `from`,
what a round takes are exactly those up to `To`. `AnswersInv` says of every span
that was passed and has readings that its message is the one at its place
(`PlaceOf`, the number of such spans up to it) and says what it should; what a
round takes is the span of its number (`TakenIsSpan`), the last one with the
second that its length adds. `Numbers` and `Total` are a set and a sum over the
readings of a span, for which `Extremes` and `Sums` are needed, and a majority is
counted by a sum of zeros and ones (`SumCounts`). For texts `TextInv` says that
the messages are the readings before the first unread one, each at its rank, and
for the winter `ShiftInv` that nothing is ever taken when a reading is read as
earlier than the period, and everything before the next span otherwise.

*Filters.* `FiltersAsOrdered` compares the map with the history, but a start
makes the map from the file, and a save makes the file from the list. So the
invariant follows the copies round. The order of the list matters to none of them, so
it is taken as the set of its entries (`Held`): `AddedHeld` and `RemovedHeld` say what
adding and deleting do to that set. `Agree` says that list and map describe the same
filters but for the names in `unfiltered` (`Describe`, kept by `PutDescribes`,
`DropDescribes` and `OutDescribes`; a request with two names is a step that adds a
name to the exceptions and one that puts a filter, `RequestTwiceKeeps`). `Saving` says
that while a save runs every line of the list is in the file or still to write, and
`Kept` that between saves the file would be read back as what was asked for.
`Undisturbed` keeps the name of the settings, and the exceptions, out of it. A start
reads finitely many sections (`IsFiniteSet(DOMAIN ini)`), each once.

*FilterMatch.* What is proved is about the operators: of the states only the type of
the sources is used. `Cutting` says that a text is a way to write parts joined by a
separator exactly if the piece before its first separator is a way to write the
first part and the rest a way to write the others; it is used once for each
separator, each time on what `Set` leaves of the source (`Span`).
`CompareWritten` says that `Compare` holds exactly of the ways to write a word: the
loop ends at the star, at the last character of both, or at a difference.
`CoversParts` puts them together, so that `FilterFind` takes the least of the
filters that cover the message.

*XplDevice.* `TypeInv` carries `BeatTellsTheTruth`, because the interval the
network is told is the one in the heartbeat. Each further property has an
invariant of its own beside it: `NamesInv` adds that a process that opens the
device has no name announced; `HeardInv` that before the first heartbeat the
timer has not run and what waits was made under the present name; `SettingsInv`
that the name in the settings is the one in use except while a new one is
tried, so what is saved has been accepted, and `SavedName` that any cut of the
file gives that name or none; `AskInv` that a configured device is one before
anything is saved; `TimeInv` that the clock lags by no more than what was lost.
`FileInv`, for `CurrentSurvivesRestart`, says that while no response is being
applied the file gives back the settings in use, cut to what a file can keep
(`Kept`): `LinesKeep` proves it of the lines of a save, whose number depends on the
values, and `LoadedKept` that settings that were just read need no cut.

*Inductions.* The induction theorems of the library take a predicate as parameter,
which the provers cannot instantiate. `LeastNatural` replaces them: if a statement
about naturals, or about finite sets or sequences by their size, had a
counterexample it had a smallest one, and that is refuted from the smaller case.
So `Sums` proves that the recursive function behind `SumFunctionOnSet` exists
(`SumsExist`), is unique (`SumsAgree`) and does not depend on the order of the
summands (`SumTakes`).

*Daemon.* The properties say what holds until something goes wrong, so the
invariant has three layers. `Types`. `InOrder`, while `trouble` is not `stray`:
one command is waited for; every file names a daemon, or the command that killed
it is about to remove the file and may do so (`Stale`; this is what keeps a recycled
process id from being killed); a daemon is named in one file only, in a place its
owner can write to; a command about to kill has the id of a daemon that no other file
names and no starter is listing; a starter that has forked its daemon (`Listing`) is
the only one to have it. `Single`, while `trouble` is `none`: one daemon; it is in a
file or its starter is about to write it; an empty file is one that a starter
has open; a command that is about to remove the file has killed the only one; and
before the second fork of a start there is no daemon and no file, nor another starter
(`ForksFirst`). `LookedAtAll`, a part of `InOrder`, is about a search that began with
no start under way: there is none yet, and the places it has seen name nothing. A
daemon it missed is then listed in a place it does not look at, which can only be the
`~` of another directory. What each action does to a command is stated once, as lemmas.

*Drivers.* `DbSqlite`, for any caller: `Handles` says what the handle is at each
step of a call, that only a constructor has lost a live one, and that a closed one
comes from a failed open; `ClosedBetweenCalls` and `DiesOnlyUnopened` follow from it.
`DbMysql`:
`Untroubled` is that for a driver nothing has failed for, and `Attended` what a
server that is there throughout a call guarantees: room for the connection, so
that the one a result is fetched from is alive. In both, rows change only in
`Effect`: an exact statement stores a reading that was asked for under a key that
had none, any other makes the table `Unknown`; both are steps of `Capteurs`.

*WinService.* The module has no constants, so TLC checks all of it; the proof adds
why the status goes forward in any interleaving: `Told` ties the status to where
the two threads are. It is `START_PENDING` exactly until `ServiceMain` reports
`RUNNING`; the handler is called only by a running service and reports before it
sets the flag; so the loop ends only in `STOP_PENDING`, with the handler done.

Only model-checked: the liveness properties `CallsReturn`, `BeatsForever` and
`StopEnds`, because liveness under fairness is out of reach of the proof system.
The four properties of the violation runs do not hold. All others are theorems.
Theorems without a run of their own are the types of `Filters` and `WinService`,
`InStep` and `OnlyRemainderMissed`, and what `DbSqlite` states of itself, which
runs in `recording`.

## 5. Findings

1. `CacheFile` does not carry values with blanks (`blank_in_value`).
2. `ToDate` sets `tm_isdst = 1` for every date (`winter_time`): readings from
   the cache file, and the rows a query reads, are an hour early in winter.
3. A database that cannot be opened leaves a null driver that everything later
   calls (`wrong_database`).
4. A failed request to MySQL leaves its connection open, and later insertions
   use it, even when it is dead (`mysql_stale`).

Limits of the design that the models make visible, though no document says
otherwise: the second reading of a device in one second is refused by the
primary key (`Capteurs`), a period that the number of spans does not divide
loses its last seconds (`RemainderMissed`), a crash during a save leaves
part of the configuration (`Filters`, `disturbed`), a filter named `xPL`
does not survive a restart, and a request with two lines `configname` saves a filter
nobody asked for, or ends the daemon (`RequestTwice`). Of the device: the settings `group` and `filter` are
accepted, saved and reported, but nothing applies them; a longer interval alone
is not announced, so listeners wait for a heartbeat that comes later than they
were told (the premise of `ListenersWaitNoLonger`); a rejected name, or an
address that cannot be parsed, ends the daemon, after the end of its old name was
sent (`EndOld`, `Misaddressed`); an empty `newconf` keeps the name until the next
start, which is made under the first one; and a change of filters before any
config.response creates a file that makes the next start count as configured.
Of the drivers and queries: a reading with a quote in its device or value, and for
MySQL one with a backslash or a text too long for its column, is lost, altered, or
changes the table in other ways, since nothing escapes it (`Quotable`, `Effect`). No
run shows it as a violation: the outcome is the database's, which is not modelled.
`DbSqlite`'s constructor leaves the file open when its CREATE TABLE fails
(`DbSqlite.cpp:31-32`; `leaked` contains `"throw"`), once for each configuration that
ends so. A request to an SQLite file that cannot be opened
goes on to `Disconnect` with the handle `Connect` has closed, and closes it
again (`DbSqlite`, action `End` with a handle that is not live), and so does the
`Disconnect` of `CloseDb` after an insertion that could not open it (`Destroy`);
`DiesOnlyUnopened` says that there is no third way. Readings of
65535 and more have the minimum 0, for 65535 stands for none (`LowestBelow`).

Of the commands (`trouble` and `early` of `Daemon`): a second `-start` leaves the
first daemon unlisted; the file of a daemon that died keeps a process id that a
later stop kills, whoever has it; a stop right after a start finds nothing; a stop
by another user fails; a daemon listed below `~` is found only from the directory it
was started in, everywhere else a stop answers that it is not started. `ServiceStart` takes `argv[1]`, which is the option, for
the name of the configuration file: `-start`, `-restart` and `-console` each
have settings of their own. Of the Windows service: a stop between the report
`RUNNING` and `xPLDatabase.cpp:604` is forgotten, and the service stays in
`STOP_PENDING`, in which no other control is sent (`lost`); a service that is
started again at once runs beside the destructor of the process before it
(`leaving`), which may still write to the database.

## 6. Hazards

`PROJECT.json` lists them with their lines and properties, and notes which cases a
property excuses: the stop that falls into the start of the Windows service
(`lost`), the process id of a daemon that died of itself (`stray`), the stop given
while a start goes on (`early`), readings of 65535 and more (`Ordinary`), texts that
cannot be quoted (`Unknown`), the connection to a server without its schema
(`troubled`). In each of them the code does the wrong thing, and the property says
that this is the only case. Not covered by a property, because a datagram that is
dropped looks like one that was never sent: the messages `Recv` has joined behind one
that cannot be parsed (`Unreadable`). These are covered in
part or not at all, because no document says what should happen or no outcome can
be stated: the heartbeat that a device reopened in
the same process leaves out because `timeLast` is static (only the tests do
that), the comparison of two empty words, and the configuration file that is named after
the option.

## 7. Plan

Done: `RecordLog`, `CacheFile`, `Persistence` with their proofs; `QueryAnswers`
with its proofs; `Capteurs` and the drivers with theirs; `Recording`, which composes
them, with its proofs; `Filters` with its proofs
and those of `FilterMatch`; `BasicConfig` and `XplDevice` with their proofs; `Daemon` with its
proofs; `WinService` with its proofs. What a continuation would add:

1. `Recording` above `DbMysql`, where an insertion may be lost on a connection
   that a failed request left: `hindered` would hold the keys of those too.
2. `Daemon` above `Persistence`: the stop that loses what the caches hold is the
   action `Crash` there, and one process at a time uses a cache file.

### Not modelled

Parsing and printing of xPL messages, ini files beyond the order of their lines,
sockets and logs are input and output; a message or a file is its meaning here.
The vendored libraries (SQLite, the headers of the MySQL client, MinGW threads,
the test harness) are not this project's code, and more than nine tenths of the
repository's lines: the drivers' use of them is modelled as what may come back
from a call. The part of the repository that is modelled is `src/src` and, of
the libraries, `Service`, `xPLLib` without `Schemas`, and the saving of `SimpleIni`.
