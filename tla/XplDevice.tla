------------------------------ MODULE XplDevice ------------------------------
(***************************************************************************)
(* The xPL device of the daemon (xPLDevCfg on xPLDevice): the search for a *)
(* port, the heartbeats that announce the device to the network, the       *)
(* messages it answers, its remote configuration with the change of its    *)
(* name, the configuration file, and the loop of ServiceStart.             *)
(*                                                                         *)
(* The thread is split wherever it sends or writes, so that it can end     *)
(* there: `Die' is a crash and also every exception that leaves            *)
(* ServiceStart, which nothing catches before main: a failed send, no free *)
(* port, a database that cannot be created.                                *)
(*                                                                         *)
(* The network keeps datagrams until Recv takes all there are, so what     *)
(* arrives during a step is the batch the next Receive picks.  A handler   *)
(* takes less than a second: time passes in WaitRecv, in a pause and while *)
(* the device is closed.                                                   *)
(***************************************************************************)
EXTENDS BasicConfig

CONSTANTS
  All,        \* the target "*"
  Default,    \* the instance a device is made with
  HBMin,      \* 5: the shortest interval of heartbeats, and the first one
  HBMax,      \* 30: the longest
  Minute,     \* 60 seconds
  ConfigBeat, \* 3 seconds, between two heartbeats of a device without configuration
  HubPort,    \* 3865
  Ports,      \* HubPort and 49152 .. 65535
  Messages,   \* what may be received
  NoFile,     \* there is no configuration file
  NoBeat,     \* m_HBeatMsg is null
  MaxBatch,   \* bound of the model: messages received at once
  MaxLag,     \* bound of the model: seconds lost between two heartbeats
  MaxGap      \* bound of the model: seconds since a heartbeat

(***************************************************************************)
(* A message is unreadable (Parse throws a SchemaObject::Exception),       *)
(* misaddressed (SetTarget throws an Address::Exception), or of a kind and *)
(* for a target.  A response has values for some settings.                 *)
(***************************************************************************)
Kinds == {"hbeat.request", "config.request", "config.response", "advanceconfig", "sensor"}

ASSUME XplDeviceAssumption ==
  /\ Default \in Instances /\ All \notin Instances
  /\ {HBMin, HBMax, Minute, ConfigBeat, MaxBatch, MaxLag, MaxGap} \subseteq Nat
  /\ 0 < HBMin /\ HBMin <= HBMax /\ HBMin \in Intervals
  /\ 0 < ConfigBeat /\ ConfigBeat <= HBMin * Minute
  /\ HubPort \in Ports /\ Ports \subseteq Nat \ {0}
  /\ \A m \in Messages :
       \/ m.kind \in {"unreadable", "misaddressed"}
       \/ m.kind \in Kinds /\ m.target \in Instances \cup {All}
  /\ \A m \in Messages : m.kind = "config.response" => \A n \in DOMAIN m.values :
       \/ n = "newconf" /\ m.values[n] \in Seq(Names)
       \/ n = "interval" /\ m.values[n] \in Seq(Intervals \cup {Blank})
       \/ n = "group" /\ m.values[n] \in Seq(Groups \cup {Blank})
  /\ NoFile \notin Seq(ConfigLine)

VARIABLES
  pc,          \* the step the thread is at; "off": there is no process
  batch,       \* xPLRaw: the messages not parsed yet
  items,       \* m_ConfigItems
  saved,       \* the section [xPL] of the configuration file, line by line
  instance,    \* of m_Source
  hbType,      \* m_HBeatType
  hbInterval,  \* m_HBeatInterval
  hbMsg,       \* m_HBeatMsg
  port,        \* of m_ReceiverSock
  preSend,     \* m_PreSend: the instances its messages were made under
  beaten,      \* timeLast # 0
  since,       \* timeNow - timeLast
  gap,         \* history: seconds since the last heartbeat to all
  lag,         \* history: seconds lost by clock changes and pauses since the last beat
  told,        \* history: the interval of the last heartbeat to all
  announced,   \* history: names the network has heard of and no end of
  abandoned,   \* history: those of them left by a process that died
  reopened,    \* history: this process has been open before
  unheard,     \* history: a message was sent under a name not announced
  configured   \* history: a config.response has been saved

thread == <<pc, batch, preSend, port, reopened>>
settings == <<items, saved, configured>>
beat == <<hbType, hbInterval, hbMsg>>
time == <<beaten, since, gap, lag, told>>
network == <<announced, abandoned, unheard>>
vars == <<thread, settings, instance, beat, time, network>>

FirstItems == [newconf |-> <<Blank>>, interval |-> <<HBMin>>, group |-> <<>>]

Init ==
  /\ pc = "off" /\ batch = <<>> /\ preSend = <<>> /\ port = 0
  /\ reopened = FALSE
  /\ items = FirstItems /\ saved = NoFile /\ configured = FALSE
  /\ instance = Default
  /\ hbType = "ConfigAPP" /\ hbInterval = HBMin /\ hbMsg = NoBeat
  /\ beaten = FALSE /\ since = 0 /\ gap = 0 /\ lag = 0 /\ told = HBMin
  /\ announced = {} /\ abandoned = {} /\ unheard = FALSE

-----------------------------------------------------------------------------
(* The heartbeat *)

NoMost(n) == IF n < HBMin THEN HBMin ELSE n  \* mutated Clamp

Clamp(n) == IF n < HBMin THEN HBMin ELSE IF n > HBMax THEN HBMax ELSE n

HeartBeat(type, n, p) == [type |-> type, interval |-> n, port |-> p]

\* SetHeartBeat
SetHeartBeat(type, n, p) ==
  /\ hbType' = type /\ hbInterval' = Clamp(n)
  /\ hbMsg' = HeartBeat(type, Clamp(n), p)

Period == IF hbType = "ConfigAPP" THEN ConfigBeat ELSE hbInterval * Minute

LateDue == ~beaten \/ since > Period  \* mutated Due

Due == ~beaten \/ since >= Period

Announce ==
  /\ announced' = announced \cup {instance} /\ abandoned' = abandoned \ {instance}
  /\ told' = hbMsg.interval /\ gap' = 0

\* mutated SendHeartBeat: timeLast set whenever it is read
TouchTime ==
  /\ beaten' = TRUE /\ since' = 0
  /\ \/ Due /\ Announce /\ lag' = 0 /\ UNCHANGED unheard
     \/ ~Due /\ UNCHANGED <<gap, lag, told, network>>

SendHeartBeat ==
  \/ /\ Due /\ Announce
     /\ beaten' = TRUE /\ since' = 0 /\ lag' = 0
     /\ UNCHANGED unheard
  \/ ~Due /\ UNCHANGED <<time, network>>

\* Any other message; a reopened process need not have sent a heartbeat.
SendUnder(name) ==
  /\ unheard' = (unheard \/ (~reopened /\ name \notin announced))
  /\ UNCHANGED <<announced, abandoned>>

NoEnd == UNCHANGED network  \* mutated SendHeartBeatEnd

SendHeartBeatEnd ==
  /\ announced' = announced \ {instance} /\ abandoned' = abandoned \ {instance}
  /\ UNCHANGED unheard

-----------------------------------------------------------------------------
(* The process *)

\* main makes the device and ServiceStart opens it.
Start ==
  /\ pc = "off" /\ pc' = "load"
  /\ UNCHANGED <<batch, preSend, port, reopened, settings, instance, beat, time, network>>

\* ServiceStart again in the same process, as TestxPLDatabase does: timeLast
\* is static and stays what it was.
Reopen ==
  /\ pc = "closed" /\ pc' = "load" /\ reopened' = TRUE
  /\ UNCHANGED <<batch, preSend, port, settings, instance, beat, time, network>>

\* The process is gone, and its variables with it.
End ==
  /\ pc' = "off" /\ batch' = <<>> /\ preSend' = <<>> /\ port' = 0
  /\ reopened' = FALSE
  /\ items' = FirstItems /\ instance' = Default
  /\ hbType' = "ConfigAPP" /\ hbInterval' = HBMin /\ hbMsg' = NoBeat
  /\ beaten' = FALSE /\ since' = 0 /\ gap' = 0 /\ lag' = 0 /\ told' = HBMin
  /\ UNCHANGED <<configured, unheard>>

\* It can end anywhere; in the middle of a save some lines have been written.
Die ==
  /\ pc # "off" /\ End
  /\ saved' \in IF pc = "write" THEN {SubSeq(Lines(items), 1, n) : n \in 0 .. Len(Lines(items))}
                                ELSE {saved}
  /\ abandoned' = abandoned \cup announced /\ UNCHANGED announced

-----------------------------------------------------------------------------
(* Open *)

\* mutated Configure: the type of the heartbeat is kept
KeepAsking(new) ==
  LET n == Value(new.interval)
  IN  SetHeartBeat(hbType, IF n = Blank THEN hbInterval ELSE n, port)

\* xPLDevCfg::Configure up to the instance: a configured device sends hbeat.app.
Configure(new) ==
  LET n == Value(new.interval)
  IN  SetHeartBeat("HeartBeatAPP", IF n = Blank THEN hbInterval ELSE n, port)

Renames(new) == Value(new.newconf) \notin {Blank, instance}

\* mutated Load: the device keeps its first name
LoadUnnamed ==
  /\ pc = "load" /\ pc' = "listen"
  /\ IF saved = NoFile THEN UNCHANGED <<items, beat, preSend>>
     ELSE /\ items' = Loaded(saved) /\ Configure(Loaded(saved))
          /\ preSend' = Append(preSend, instance)
  /\ UNCHANGED <<batch, port, reopened, saved, configured, instance, time, network>>

\* LoadConfig; the sockets are closed, so a new name is not announced and
\* the sensor.request of xPLDatabase::Configure waits in m_PreSend.  With a
\* rejected name Die is what happens.
Load ==
  /\ pc = "load" /\ pc' = "listen"
  /\ IF saved = NoFile THEN UNCHANGED <<items, instance, beat, preSend>>
     ELSE LET new == Loaded(saved)
          IN  /\ Value(new.newconf) \notin Rejected
              /\ items' = new /\ Configure(new)
              /\ instance' = IF Renames(new) THEN Value(new.newconf) ELSE instance
              /\ preSend' = Append(preSend, instance')
  /\ UNCHANGED <<batch, port, reopened, saved, configured, time, network>>

\* mutated Listen: the heartbeat made before the port was known is kept
ListenOnly ==
  /\ pc = "listen" /\ pc' = "first"
  /\ \E taken \in SUBSET Ports :
       /\ taken # Ports
       /\ port' = IF HubPort \notin taken THEN HubPort ELSE Min(Ports \ taken)
  /\ IF hbMsg = NoBeat THEN SetHeartBeat(hbType, hbInterval, port') ELSE UNCHANGED beat
  /\ UNCHANGED <<batch, preSend, reopened, settings, instance, time, network>>

\* mutated Listen: the waiting messages go first, the heartbeat in the loop
FlushFirst ==
  /\ pc = "listen" /\ pc' = "flush"
  /\ \E taken \in SUBSET Ports :
       /\ taken # Ports
       /\ port' = IF HubPort \notin taken THEN HubPort ELSE Min(Ports \ taken)
  /\ SetHeartBeat(hbType, hbInterval, port')
  /\ UNCHANGED <<batch, preSend, reopened, settings, instance, time, network>>

\* DiscoverTCPPort: the port of the hub if there is no hub, else the first
\* free one; then the heartbeat can name it.
Listen ==
  /\ pc = "listen" /\ pc' = "first"
  /\ \E taken \in SUBSET Ports :
       /\ taken # Ports
       /\ port' = IF HubPort \notin taken THEN HubPort ELSE Min(Ports \ taken)
  /\ SetHeartBeat(hbType, hbInterval, port')
  /\ UNCHANGED <<batch, preSend, reopened, settings, instance, time, network>>

FirstBeat ==
  /\ pc = "first" /\ pc' = "flush" /\ SendHeartBeat
  /\ UNCHANGED <<batch, preSend, port, reopened, settings, instance, beat>>

SendWaiting ==
  /\ pc = "flush" /\ preSend # <<>>
  /\ SendUnder(Head(preSend)) /\ preSend' = Tail(preSend)
  /\ UNCHANGED <<pc, batch, port, reopened, settings, instance, beat, time>>

Opened ==
  /\ pc = "flush" /\ preSend = <<>> /\ pc' = "loop"
  /\ UNCHANGED <<batch, preSend, port, reopened, settings, instance, beat, time, network>>

-----------------------------------------------------------------------------
(* The loop of ServiceStart and the messages *)

\* Close, once m_bServiceStop is set.
Close ==
  /\ pc \in {"loop", "paused"} /\ pc' = "closed"
  /\ SendHeartBeatEnd
  /\ UNCHANGED <<batch, preSend, port, reopened, settings, instance, beat, time>>

\* WaitRecv up to the select.
Beat ==
  /\ pc = "loop" /\ pc' = "wait"
  /\ SendHeartBeat
  /\ UNCHANGED <<batch, preSend, port, reopened, settings, instance, beat>>

Timeout ==
  /\ pc = "wait" /\ pc' = "loop"
  /\ UNCHANGED <<batch, preSend, port, reopened, settings, instance, beat, time, network>>

\* Recv joins all the datagrams there are.
Receive ==
  /\ pc = "wait" /\ pc' = "parse"
  /\ batch' \in SeqOf(Messages, MaxBatch) \ {<<>>}
  /\ UNCHANGED <<preSend, port, reopened, settings, instance, beat, time, network>>

Parsed ==
  /\ pc = "parse" /\ batch = <<>> /\ pc' = "loop"
  /\ UNCHANGED <<batch, preSend, port, reopened, settings, instance, beat, time, network>>

\* WaitRecv returns, without what stands behind the message; the Exception of
\* an Address ends the process.
Unreadable ==
  /\ pc = "parse" /\ batch # <<>> /\ Head(batch).kind = "unreadable"
  /\ batch' = <<>> /\ pc' = "loop"
  /\ UNCHANGED <<preSend, port, reopened, settings, instance, beat, time, network>>

Misaddressed ==
  /\ pc = "parse" /\ batch # <<>> /\ Head(batch).kind = "misaddressed"
  /\ End /\ abandoned' = abandoned \cup announced
  /\ UNCHANGED <<saved, announced>>

\* MsgForMe: nothing calls SetFilters or SetGroups.
ForMe(m) == m.target \in {All, instance}

Handling(kind) ==
  /\ pc = "parse" /\ batch # <<>> /\ Head(batch).kind = kind
  /\ kind \in Kinds /\ ForMe(Head(batch))

\* Not for the device, or a reading for Persistence.
Skip ==
  /\ pc = "parse" /\ batch # <<>> /\ Head(batch).kind \in Kinds
  /\ ~ForMe(Head(batch)) \/ Head(batch).kind = "sensor"
  /\ batch' = Tail(batch)
  /\ UNCHANGED <<pc, preSend, port, reopened, settings, instance, beat, time, network>>

\* The answer to a hbeat.request, a config.current or a config.list.
Answer ==
  /\ \E kind \in {"hbeat.request", "config.request"} : Handling(kind)
  /\ SendUnder(instance) /\ batch' = Tail(batch)
  /\ UNCHANGED <<pc, preSend, port, reopened, settings, instance, beat, time>>

\* mutated Respond: saved before it is applied
SaveFirst ==
  /\ Handling("config.response")
  /\ LET new == Assign(items, Head(batch).values)
     IN  /\ items' = new /\ Configure(new) /\ saved' = Lines(new)
         /\ pc' = IF Renames(new) THEN "end" ELSE "call"
  /\ UNCHANGED <<batch, preSend, port, reopened, configured, instance, time, network>>

\* A config.response: the settings and the heartbeat; a new name is next.
Respond ==
  /\ Handling("config.response")
  /\ LET new == Assign(items, Head(batch).values)
     IN  /\ items' = new /\ Configure(new)
         /\ pc' = IF Renames(new) THEN "end" ELSE "call"
  /\ UNCHANGED <<batch, preSend, port, reopened, saved, configured, instance, time, network>>

\* SetInstance: the end of the old name is sent before the new one is tried,
\* and a rejected one ends the process.
EndOld ==
  /\ pc = "end" /\ SendHeartBeatEnd
  /\ IF Value(items.newconf) \in Rejected
     THEN End /\ UNCHANGED saved
     ELSE /\ pc' = "greet" /\ instance' = Value(items.newconf)
          /\ UNCHANGED <<batch, preSend, port, reopened, settings, beat, time>>

Greet ==
  /\ pc = "greet" /\ pc' = "call" /\ Announce
  /\ UNCHANGED <<batch, preSend, port, reopened, settings, instance, beat, beaten, since, lag,
                 unheard>>

\* xPLDatabase::Configure and its sensor.request.
Call ==
  /\ pc = "call" /\ pc' = "truncate" /\ SendUnder(instance)
  /\ UNCHANGED <<batch, preSend, port, reopened, settings, instance, beat, time>>

\* A change of the filters saves the settings too.
ChangeFilters ==
  /\ Handling("advanceconfig") /\ pc' = "truncate"
  /\ UNCHANGED <<batch, preSend, port, reopened, settings, instance, beat, time, network>>

Truncate ==
  /\ pc = "truncate" /\ pc' = "write" /\ saved' = <<>>
  /\ UNCHANGED <<batch, preSend, port, reopened, items, configured, instance, beat, time, network>>

Write ==
  /\ pc = "write" /\ pc' = "parse" /\ saved' = Lines(items)
  /\ configured' = (configured \/ Head(batch).kind = "config.response")
  /\ batch' = Tail(batch)
  /\ UNCHANGED <<preSend, port, reopened, items, instance, beat, time, network>>

-----------------------------------------------------------------------------
(* The surroundings *)

\* m_bServicePause, set and cleared by another thread and read by the loop.
Pause ==
  /\ \/ pc = "loop" /\ pc' = "paused"
     \/ pc = "paused" /\ pc' = "loop"
  /\ UNCHANGED <<batch, preSend, port, reopened, settings, instance, beat, time, network>>

\* A second passes; in a pause it is lost.
Tick ==
  /\ pc \in {"wait", "paused", "closed"} /\ gap < MaxGap
  /\ pc = "paused" => lag < MaxLag
  /\ gap' = gap + 1 /\ since' = since + 1
  /\ lag' = IF pc = "paused" THEN lag + 1 ELSE lag
  /\ pc' = IF pc = "wait" THEN "loop" ELSE pc
  /\ UNCHANGED <<batch, preSend, port, reopened, settings, instance, beat, beaten, told, network>>

\* time() is the clock of the day, which may be set back.
SetClockBack ==
  /\ pc \in {"wait", "closed"} /\ lag < MaxLag
  /\ since' = since - 1 /\ lag' = lag + 1
  /\ UNCHANGED <<thread, settings, instance, beat, beaten, gap, told, network>>

-----------------------------------------------------------------------------
Daemon ==
  \/ Load \/ Listen \/ FirstBeat \/ SendWaiting \/ Opened
  \/ Beat \/ Timeout \/ Parsed \/ Unreadable \/ Misaddressed \/ Skip \/ Answer
  \/ Respond \/ EndOld \/ Greet \/ Call \/ ChangeFilters \/ Truncate \/ Write

Next == Daemon \/ Start \/ Close \/ Reopen \/ Die \/ Receive \/ Pause \/ Tick \/ SetClockBack

Spec == Init /\ [][Next]_vars

(***************************************************************************)
(* The thread takes its steps, and time passes whenever the device waits.  *)
(***************************************************************************)
FairSpec == Spec /\ WF_vars(Daemon) /\ SF_vars(Tick)

-----------------------------------------------------------------------------
(* Properties *)

TypeOK ==
  /\ pc \in {"off", "load", "listen", "first", "flush", "loop", "wait", "parse",
             "end", "greet", "call", "truncate", "write", "paused", "closed"}
  /\ batch \in Seq(Messages) /\ preSend \in Seq(Instances) /\ port \in Ports \cup {0}
  /\ {reopened, configured, beaten, unheard} \subseteq BOOLEAN
  /\ items \in Items /\ instance \in Instances
  /\ hbType \in {"ConfigAPP", "HeartBeatAPP"}
  /\ {hbInterval, told} \subseteq HBMin .. HBMax
  /\ since \in Int /\ {gap, lag} \subseteq Nat
  /\ announced \subseteq Instances /\ abandoned \subseteq Instances

(***************************************************************************)
(* From the moment the port is known, the heartbeat that is sent to all    *)
(* and to whoever asks names the type, the interval and the port in use,   *)
(* through every reconfiguration, restart and reopening.                   *)
(***************************************************************************)
BeatTellsTheTruth ==
  pc \notin {"off", "load", "listen"} =>
    port \in Ports /\ hbMsg = HeartBeat(hbType, hbInterval, port)

(***************************************************************************)
(* The network never keeps a name the device has given up: what has been   *)
(* announced and not ended is the present name, or was left by a process   *)
(* that died.                                                              *)
(***************************************************************************)
NoGhosts ==
  announced \subseteq abandoned \cup (IF pc \in {"off", "closed"} THEN {} ELSE {instance})

(***************************************************************************)
(* Between two calls of WaitRecv the name and the interval in use are      *)
(* those of the settings, unless these were left empty.                    *)
(***************************************************************************)
SettingsInUse ==
  pc = "loop" =>
    /\ Value(items.newconf) \in {Blank, instance}
    /\ Value(items.interval) # Blank => hbInterval = Clamp(Value(items.interval))

(***************************************************************************)
(* Once there is a file, config.current says after a restart between two   *)
(* calls of WaitRecv what it said before: the first value of a setting that*)
(* has one, and the groups before the first empty one.                     *)
(***************************************************************************)
Lasting(values) == SubSeq(values, 1, Max({n \in 0 .. Len(values) : \A i \in 1 .. n : values[i] # Blank}))

CurrentSurvivesRestart ==
  pc = "loop" /\ saved # NoFile =>
    Current(Loaded(saved)) =
      Current([newconf |-> <<Value(items.newconf)>>, interval |-> <<Value(items.interval)>>,
               group |-> Lasting(items.group)])

(***************************************************************************)
(* A name that ends the process never reaches the file, where it would end *)
(* every later start too.                                                  *)
(***************************************************************************)
StartsAgain == saved # NoFile => Lookup(saved, "newconf", 0) \notin Rejected

(***************************************************************************)
(* After a config.response has been saved the device never asks for its    *)
(* configuration again, not even if a later save was cut short.            *)
(***************************************************************************)
NeverAsksAgain == configured /\ pc \notin {"off", "load"} => hbType = "HeartBeatAPP"

(***************************************************************************)
(* A listener that was told an interval hears the next heartbeat within    *)
(* it, but for seconds lost in a pause or by setting the clock back, unless*)
(* the interval has been made longer since: that alone is not announced.   *)
(***************************************************************************)
ListenersWaitNoLonger ==
  pc = "wait" /\ hbInterval <= told => gap < told * Minute + lag

(***************************************************************************)
(* In the first opening of a process nothing but a heartbeat is the first  *)
(* message sent under a name: not the answers, not the sensor.request of a *)
(* reconfiguration, nor the one that waited for the sockets.               *)
(***************************************************************************)
HeardFirst == ~unheard

(***************************************************************************)
(* While the device is open and not paused it sends heartbeats for ever.   *)
(***************************************************************************)
BeatsForever == []<>(gap = 0 \/ pc \in {"off", "closed", "paused"})
=============================================================================
