--------------------------- MODULE DaemonProofs ---------------------------
(***************************************************************************)
(* Theorems about Daemon and, at the end, about WinService.  What makes a  *)
(* stop under Linux safe is that the process id of a file is that of a     *)
(* daemon until the command that killed it removes the file: InOrder says  *)
(* so for every step of the commands under way, as long as there is no     *)
(* stray one, and calls such a file Stale, because its process id may have *)
(* got to another process meanwhile.  Single adds what holds as long as    *)
(* every daemon is listed.                                                 *)
(***************************************************************************)
EXTENDS Daemon, TLAPS

LooksInDirs == \A c \in Commands : cmd[c].at = "find" => cmd[c].dir <= Dirs

Types == TypeOK /\ LooksInDirs

\* A starter that has forked its daemon.
Listing(c) == cmd[c].at \in {"open", "put"}

\* A file that the command at work on it is about to remove.
Stale(d) ==
  \E c \in Commands : cmd[c].at = "unlink" /\ Here(c) = d /\ d \in Writable(cmd[c].user)

OneWaited == \A b, c \in Commands : Waited(b) /\ Waited(c) => b = c

FilesNameDaemons == \A d \in Places : pidFile[d] \in Pids => pidFile[d] \in Daemons \/ Stale(d)

InOwnersDirectory ==
  \A d \in Places : pidFile[d] \in Daemons /\ ~Stale(d) => d \in Writable(proc[pidFile[d]].owner)

NamedOnce ==
  \A d, e \in Places :
    pidFile[d] \in Pids /\ pidFile[d] = pidFile[e] /\ ~Stale(d) /\ ~Stale(e) => d = e

KillsNamed ==
  \A c \in Commands : cmd[c].at = "kill" =>
    /\ cmd[c].pid \in Daemons
    /\ \A d \in Places : pidFile[d] = cmd[c].pid => d = Here(c)
    /\ \A b \in Commands : Listing(b) => cmd[b].pid # cmd[c].pid

StartersOwnDaemon ==
  \A c \in Commands : Listing(c) =>
    /\ cmd[c].pid \in Daemons /\ proc[cmd[c].pid].owner = cmd[c].user
    /\ cmd[c].at = "put" => cmd[c].dir = 0 \/ Here(c) \in Writable(cmd[c].user)
    /\ \A d \in Places : pidFile[d] = cmd[c].pid => Stale(d)
    /\ \A b \in Commands : Listing(b) /\ cmd[b].pid = cmd[c].pid => b = c

LookedAtAll ==
  \A c \in Commands : cmd[c].at = "find" /\ ~cmd[c].early =>
    /\ \A b \in Commands : ~Starter(b)
    /\ \A i \in 1 .. cmd[c].dir : pidFile[Place(c, i)] \notin Pids

InOrder ==
  /\ OneWaited /\ FilesNameDaemons /\ InOwnersDirectory /\ NamedOnce
  /\ KillsNamed /\ StartersOwnDaemon /\ LookedAtAll

OneDaemon == \A p, q \in Daemons : p = q

Listed ==
  \A p \in Daemons :
    (\E d \in Places : pidFile[d] = p) \/ (\E c \in Commands : Listing(c) /\ cmd[c].pid = p)

EmptyIsOpen ==
  \A d \in Places : pidFile[d] = NoPid => \E c \in Commands : cmd[c].at = "put" /\ Here(c) = d

GoneBeforeFile == \A c \in Commands : cmd[c].at = "unlink" => Daemons = {}

ForksFirst ==
  \A c \in Commands : cmd[c].at = "refork" =>
    /\ Daemons = {} /\ \A d \in Places : pidFile[d] = NoFile
    /\ \A b \in Commands : cmd[b].at # "unlink" /\ (Starter(b) => b = c)

Single == OneDaemon /\ Listed /\ EmptyIsOpen /\ GoneBeforeFile /\ ForksFirst

IInv ==
  /\ Types
  /\ trouble # "stray" => InOrder
  /\ trouble = "none" => Single

-----------------------------------------------------------------------------
(* What the actions do to a command *)

LEMMA WritableInPlaces == ASSUME NEW u PROVE Writable(u) \subseteq Places
  BY DEF Writable

LEMMA RootCanWrite ==
  ASSUME NEW u \in Users, NEW d \in Writable(u)
  PROVE  d \in Writable(Root)
  BY DaemonAssumption DEF Writable

LEMMA NowhereIsNoPlace == 0 \notin Places
  BY DaemonAssumption DEF Places

LEMMA Commandlike == Types => \A c \in Commands : cmd[c] \in Command
  BY DEF Types, TypeOK

LEMMA PlaceType ==
  ASSUME Types, NEW c \in Commands
  PROVE  /\ \A i \in 1 .. Dirs + 1 : Place(c, i) \in Places
         /\ cmd[c].dir = 0 => Here(c) = 0
         /\ cmd[c].dir # 0 => Here(c) \in Places
<1>1. cmd[c].dir \in 0 .. Dirs + 1 /\ cmd[c].cwd \in Cwds
  BY Commandlike DEF Command
<1>2. QED
  BY <1>1, DaemonAssumption DEF Here, Place, Places

LEMMA IdleCommand == Idle \in Command /\ Idle.at = "idle" /\ Idle.dir = 0
<1>1. (CHOOSE w \in Cwds : TRUE) \in Cwds
  BY DaemonAssumption
<1>2. QED
  BY <1>1, DaemonAssumption DEF Idle, Command

LEMMA BeginEffect ==
  ASSUME NEW c \in Commands, NEW u \in Users, NEW w \in Cwds,
         NEW what \in {"start", "stop", "restart"}, Begin(c, u, w, what)
  PROVE  /\ cmd[c].at = "idle" /\ UNCHANGED <<proc, pidFile>>
         /\ trouble' = IF \A d \in Commands : ~Waited(d) THEN trouble ELSE "stray"
         /\ \E r \in Command :
              /\ Becomes(c, r)
              /\ r.at \in {"fork", "find"} /\ r.dir = 0
              /\ ~r.early => \A d \in Commands : ~Starter(d)
<1> DEFINE a == IF what = "start" THEN "fork" ELSE "find"
           x == what = "restart"
           e == \E d \in Commands : Starter(d)
           r == [Idle EXCEPT !.at = a, !.user = u, !.cwd = w, !.restart = x, !.early = e]
<1>2. a \in {"find", "fork"} /\ x \in BOOLEAN /\ e \in BOOLEAN
  OBVIOUS
<1>3. Becomes(c, r)
  BY DEF Begin
<1>4. r \in Command /\ r.at = a /\ r.dir = 0 /\ r.early = e
  <2> HIDE DEF a, x, e
  <2>1. PICK i : i \in Command /\ i = Idle
    BY IdleCommand
  <2>2. r = [i EXCEPT !.at = a, !.user = u, !.cwd = w, !.restart = x, !.early = e]
    BY <2>1
  <2>3. i.dir = 0
    BY <2>1, IdleCommand
  <2>4. QED
    BY <1>2, <2>1, <2>2, <2>3 DEF Command
<1>5. ~r.early => \A d \in Commands : ~Starter(d)
  BY <1>4
<1> HIDE DEF r
<1>6. QED
  BY <1>2, <1>3, <1>4, <1>5 DEF Begin

LEMMA LookEffect ==
  ASSUME Types, NEW c \in Commands, Look(c)
  PROVE  /\ cmd[c].at = "find" /\ UNCHANGED <<proc, pidFile, trouble>>
         /\ cmd[c].dir + 1 \in 1 .. Dirs + 1
         /\ \E r \in Command :
              /\ Becomes(c, r)
              /\ \/ /\ r.at = "kill" /\ r.dir = cmd[c].dir + 1 /\ r.cwd = cmd[c].cwd
                    /\ r.pid \in Pids /\ r.pid = pidFile[Place(c, r.dir)]
                 \/ /\ r.at = "find" /\ r.dir = cmd[c].dir + 1 /\ r.dir <= Dirs
                    /\ r.cwd = cmd[c].cwd /\ r.early = cmd[c].early /\ pidFile[Place(c, r.dir)] \notin Pids
                 \/ /\ r.at = "idle" /\ cmd[c].dir = Dirs
                    /\ pidFile[Place(c, Dirs + 1)] \notin Pids
<1> DEFINE i == cmd[c].dir + 1
           d == Place(c, i)
<1>1. PICK x : x \in Command /\ x = cmd[c]
  BY Commandlike
<1>2. cmd[c].at = "find" /\ UNCHANGED <<proc, pidFile, trouble>>
  BY DEF Look
<1>3. i \in 1 .. Dirs + 1
  BY <1>1, <1>2, DaemonAssumption DEF Types, LooksInDirs, Command
<1>4. CASE pidFile[d] \in Pids
  <2> DEFINE r == [x EXCEPT !.at = "kill", !.dir = i, !.pid = pidFile[d], !.early = FALSE]
  <2>1. Becomes(c, r)
    BY <1>1, <1>4 DEF Look
  <2> HIDE DEF d, i
  <2>2. i \in 0 .. Dirs + 1
    BY <1>3, DaemonAssumption
  <2>3. /\ r \in Command /\ r.at = "kill" /\ r.dir = i /\ r.pid = pidFile[d] /\ r.cwd = x.cwd
    BY <1>1, <1>4, <2>2 DEF Command
  <2> HIDE DEF r
  <2>4. QED
    BY <1>1, <1>2, <1>3, <1>4, <2>1, <2>3 DEF d, i
<1>5. CASE pidFile[d] \notin Pids /\ i <= Dirs
  <2> DEFINE r == [x EXCEPT !.dir = i]
  <2>1. Becomes(c, r)
    BY <1>1, <1>5 DEF Look
  <2>2. r \in Command /\ r.at = x.at /\ r.dir = i /\ r.early = x.early /\ r.cwd = x.cwd
    BY <1>1, <1>3, DaemonAssumption DEF Command
  <2> HIDE DEF r
  <2>3. QED
    BY <1>1, <1>2, <1>3, <1>5, <2>1, <2>2
<1>6. CASE pidFile[d] \notin Pids /\ ~(i <= Dirs)
  <2>1. Becomes(c, Idle) /\ i = Dirs + 1 /\ cmd[c].dir = Dirs
    BY <1>1, <1>3, <1>6, DaemonAssumption DEF Look, End, Command
  <2>2. QED
    BY <1>2, <1>3, <1>6, <2>1, IdleCommand
<1>7. QED
  BY <1>4, <1>5, <1>6

LEMMA KillEffect ==
  ASSUME Types, NEW c \in Commands, Kill(c)
  PROVE  /\ cmd[c].at = "kill" /\ UNCHANGED <<pidFile, trouble>>
         /\ \E r \in Command :
              /\ Becomes(c, r)
              /\ \/ r.at = "idle" /\ UNCHANGED proc
                 \/ /\ r.at = "unlink"
                    /\ r.dir = cmd[c].dir /\ r.user = cmd[c].user /\ r.cwd = cmd[c].cwd
                    /\ \/ UNCHANGED proc /\ proc[cmd[c].pid].kind = "free"
                       \/ /\ MayKill(cmd[c].user, cmd[c].pid)
                          /\ proc' = [proc EXCEPT ![cmd[c].pid].kind = "dying"]
<1> DEFINE p == cmd[c].pid
<1>1. PICK x : x \in Command /\ x = cmd[c]
  BY Commandlike
<1>2. cmd[c].at = "kill" /\ UNCHANGED <<pidFile, trouble>>
  BY DEF Kill
<1>3. CASE End(c) /\ UNCHANGED proc
  BY <1>2, <1>3, IdleCommand DEF End
<1>4. CASE ~(End(c) /\ UNCHANGED proc)
  <2> DEFINE r == [x EXCEPT !.at = "unlink", !.pid = NoPid]
  <2>1. /\ Becomes(c, r)
        /\ \/ UNCHANGED proc /\ proc[p].kind = "free"
           \/ MayKill(cmd[c].user, p) /\ proc' = [proc EXCEPT ![p].kind = "dying"]
    BY <1>1, <1>4 DEF Kill
  <2>2. r \in Command /\ r.at = "unlink" /\ r.dir = x.dir /\ r.user = x.user /\ r.cwd = x.cwd
    BY <1>1 DEF Command
  <2> HIDE DEF r
  <2>3. QED
    BY <1>1, <1>2, <2>1, <2>2
<1>5. QED
  BY <1>3, <1>4

LEMMA UnlinkEffect ==
  ASSUME Types, NEW c \in Commands, Unlink(c)
  PROVE  /\ cmd[c].at = "unlink" /\ UNCHANGED <<proc, trouble>>
         /\ pidFile' = IF Here(c) \in Writable(cmd[c].user)
                       THEN [pidFile EXCEPT ![Here(c)] = NoFile] ELSE pidFile
         /\ cmd' \in [Commands -> Command]
         /\ cmd'[c].at \in {"fork", "idle"}
         /\ \A b \in Commands \ {c} :
              /\ cmd'[b].at = cmd[b].at /\ cmd'[b].pid = cmd[b].pid
              /\ cmd'[b].user = cmd[b].user /\ cmd'[b].early = cmd[b].early
              /\ cmd'[b].cwd = cmd[b].cwd
              /\ cmd'[b].dir = IF /\ Here(c) \in Writable(cmd[c].user)
                                  /\ cmd[b].at = "put" /\ Here(b) = Here(c)
                               THEN 0 ELSE cmd[b].dir
<1> DEFINE d == Here(c)
<1>1. PICK x : x \in Command /\ x = cmd[c]
  BY Commandlike
<1>2. cmd[c].at = "unlink" /\ UNCHANGED <<proc, trouble>>
  BY DEF Unlink
<1>3. Unlinked(c) \in Command /\ Unlinked(c).at \in {"fork", "idle"}
  <2>1. [x EXCEPT !.at = "fork"] \in Command /\ [x EXCEPT !.at = "fork"].at = "fork"
    BY <1>1 DEF Command
  <2>2. QED
    BY <1>1, <2>1, IdleCommand DEF Unlinked
<1>4. CASE d \notin Writable(cmd[c].user)
  <2>1. Becomes(c, Unlinked(c)) /\ UNCHANGED pidFile
    BY <1>4 DEF Unlink
  <2>2. QED
    BY <1>2, <1>3, <1>4, <2>1 DEF Becomes, Types, TypeOK
<1>5. CASE d \in Writable(cmd[c].user)
  <2> DEFINE t(b) == [cmd[b] EXCEPT !.dir = 0]
  <2>1. /\ pidFile' = [pidFile EXCEPT ![d] = NoFile]
        /\ cmd' = [b \in Commands |->
                     IF b = c THEN Unlinked(c)
                     ELSE IF cmd[b].at = "put" /\ Here(b) = d THEN t(b) ELSE cmd[b]]
    BY <1>5 DEF Unlink
  <2>2. ASSUME NEW b \in Commands
        PROVE  /\ t(b) \in Command /\ t(b).dir = 0
               /\ t(b).at = cmd[b].at /\ t(b).pid = cmd[b].pid /\ t(b).cwd = cmd[b].cwd
               /\ t(b).user = cmd[b].user /\ t(b).early = cmd[b].early
    <3>1. PICK y : y \in Command /\ y = cmd[b]
      BY Commandlike
    <3>2. t(b) = [y EXCEPT !.dir = 0]
      BY <3>1
    <3>3. 0 \in 0 .. Dirs + 1
      BY DaemonAssumption
    <3> HIDE DEF t
    <3>4. QED
      BY <3>1, <3>2, <3>3 DEF Command
  <2> HIDE DEF t
  <2>3. cmd' \in [Commands -> Command]
    BY <1>3, <2>1, <2>2, Commandlike
  <2>4. QED
    BY <1>2, <1>3, <1>5, <2>1, <2>2, <2>3
<1>6. QED
  BY <1>4, <1>5

LEMMA ForkEffect ==
  ASSUME Types, NEW c \in Commands, Fork(c)
  PROVE  /\ cmd[c].at = "fork" /\ UNCHANGED <<proc, pidFile>>
         /\ \E r \in Command :
              /\ Becomes(c, r)
              /\ \/ r.at = "idle" /\ UNCHANGED trouble
                 \/ /\ r.at = "refork"
                    /\ IF Daemons = {} /\ \A d \in Commands : ~Starter(d)
                         THEN UNCHANGED trouble ELSE Unlisted
<1>1. PICK x : x \in Command /\ x = cmd[c]
  BY Commandlike
<1>2. [x EXCEPT !.at = "refork"] \in Command /\ [x EXCEPT !.at = "refork"].at = "refork"
  BY <1>1 DEF Command
<1>3. QED
  BY <1>1, <1>2, IdleCommand DEF Fork, End

LEMMA ReforkEffect ==
  ASSUME Types, NEW c \in Commands, Refork(c)
  PROVE  /\ cmd[c].at = "refork" /\ UNCHANGED <<pidFile, trouble>>
         /\ \E r \in Command :
              /\ Becomes(c, r)
              /\ \/ r.at = "idle" /\ UNCHANGED proc
                 \/ /\ r.at = "open" /\ r.pid \in Pids /\ r.user = cmd[c].user
                    /\ proc[r.pid].kind = "free"
                    /\ [kind |-> "daemon", owner |-> r.user] \in Proc
                    /\ proc' = [proc EXCEPT ![r.pid] = [kind |-> "daemon", owner |-> r.user]]
<1>1. PICK x : x \in Command /\ x = cmd[c]
  BY Commandlike
<1>2. cmd[c].at = "refork" /\ UNCHANGED <<pidFile, trouble>>
  BY DEF Refork
<1>3. CASE End(c) /\ UNCHANGED proc
  BY <1>2, <1>3, IdleCommand DEF End
<1>4. CASE ~(End(c) /\ UNCHANGED proc)
  <2>1. PICK p \in Pids :
          /\ proc[p].kind = "free"
          /\ proc' = [proc EXCEPT ![p] = [kind |-> "daemon", owner |-> cmd[c].user]]
          /\ Becomes(c, [cmd[c] EXCEPT !.at = "open", !.pid = p])
    BY <1>4 DEF Refork
  <2> DEFINE r == [x EXCEPT !.at = "open", !.pid = p]
  <2>2. Becomes(c, r)
    BY <1>1, <2>1
  <2>3. r \in Command /\ r.at = "open" /\ r.pid = p /\ r.user = x.user
    BY <1>1 DEF Command
  <2> HIDE DEF r
  <2>4. [kind |-> "daemon", owner |-> r.user] \in Proc
    BY <2>3 DEF Proc, Command
  <2>5. QED
    BY <1>1, <1>2, <2>1, <2>2, <2>3, <2>4
<1>5. QED
  BY <1>3, <1>4

LEMMA OpenEffect ==
  ASSUME Types, NEW c \in Commands, OpenPid(c)
  PROVE  /\ cmd[c].at = "open" /\ cmd[c].pid \in Pids /\ UNCHANGED proc
         /\ \E r \in Command :
              /\ Becomes(c, r)
              /\ \/ r.at = "idle" /\ Unlisted /\ UNCHANGED pidFile
                 \/ /\ r.at = "put" /\ r.pid = cmd[c].pid /\ r.user = cmd[c].user
                    /\ \E d \in Places :
                         /\ d = Here(c)' /\ d \in Writable(r.user)
                         /\ pidFile' = [pidFile EXCEPT ![d] = NoPid] /\ UNCHANGED trouble
<1>1. PICK x : x \in Command /\ x = cmd[c]
  BY Commandlike
<1>2. cmd[c].at = "open" /\ cmd[c].pid \in Pids /\ UNCHANGED proc
  BY DEF OpenPid, Types, TypeOK
<1>3. CASE End(c) /\ Unlisted /\ UNCHANGED pidFile
  BY <1>2, <1>3, IdleCommand DEF End
<1>4. CASE ~(End(c) /\ Unlisted /\ UNCHANGED pidFile)
  <2>1. PICK i \in Chosen(c) :
          /\ Place(c, i) \in Writable(cmd[c].user)
          /\ pidFile' = [pidFile EXCEPT ![Place(c, i)] = NoPid]
          /\ Becomes(c, [cmd[c] EXCEPT !.at = "put", !.dir = i]) /\ UNCHANGED trouble
    BY <1>4 DEF OpenPid
  <2>2. i \in 0 .. Dirs + 1
    BY <1>1, <2>1, DaemonAssumption DEF Chosen, Command
  <2> DEFINE r == [x EXCEPT !.at = "put", !.dir = i]
  <2>3. Becomes(c, r)
    BY <1>1, <2>1
  <2>4. /\ r \in Command /\ r.at = "put" /\ r.dir = i /\ r.pid = x.pid /\ r.user = x.user
        /\ r.cwd = x.cwd
    BY <1>1, <2>2 DEF Command
  <2> HIDE DEF r
  <2>5. Here(c)' = Place(c, i)
    BY <1>1, <2>3, <2>4 DEF Here, Place, Becomes, Types, TypeOK
  <2>6. Place(c, i) \in Places
    BY <2>1, WritableInPlaces
  <2>7. QED
    BY <1>1, <1>2, <2>1, <2>3, <2>4, <2>5, <2>6
<1>5. QED
  BY <1>3, <1>4

LEMMA PutEffect ==
  ASSUME Types, NEW c \in Commands, PutPid(c)
  PROVE  /\ cmd[c].at = "put" /\ cmd[c].pid \in Pids /\ UNCHANGED proc /\ Becomes(c, Idle)
         /\ \/ /\ cmd[c].dir # 0 /\ Here(c) \in Places
               /\ pidFile' = [pidFile EXCEPT ![Here(c)] = cmd[c].pid] /\ UNCHANGED trouble
            \/ Unlisted /\ UNCHANGED pidFile
  BY PlaceType DEF PutPid, End, Types, TypeOK

-----------------------------------------------------------------------------
(* Types *)

LEMMA TypesInit == Init => Types
<1>1. Free \in Proc
  BY DaemonAssumption DEF Free, Proc
<1>2. QED
  BY <1>1, IdleCommand, DaemonAssumption DEF Init, Types, TypeOK, LooksInDirs

LEMMA TypesOfCommand ==
  ASSUME Types, NEW c \in Commands, NEW r \in Command, Becomes(c, r),
         r.at \in {"kill", "open", "put"} => r.pid \in Pids, r.at = "find" => r.dir <= Dirs,
         proc' \in [Pids -> Proc], pidFile' \in [Places -> Pids \cup {NoFile, NoPid}],
         trouble' \in {"none", "unlisted", "stray"}
  PROVE  Types'
  BY DEF Becomes, Types, TypeOK, LooksInDirs

LEMMA TypesStep == Types /\ [Next]_vars => Types'
<1> SUFFICES ASSUME Types, [Next]_vars PROVE Types' OBVIOUS
<1>0. Free \in Proc
  BY DaemonAssumption DEF Free, Proc
<1>1. ASSUME NEW p \in Pids, Terminated(p) \/ Dies(p) \/ OtherProgram(p) PROVE Types'
  <2>1. [proc[p] EXCEPT !.kind = "foreign"] \in Proc
    BY DEF Types, TypeOK, Proc
  <2>2. proc' \in [Pids -> Proc]
    BY <1>0, <1>1, <2>1 DEF Terminated, Dies, OtherProgram, Types, TypeOK
  <2>3. UNCHANGED <<pidFile, cmd>> /\ trouble' \in {trouble, "stray"}
    BY <1>1 DEF Terminated, Dies, OtherProgram
  <2>4. QED
    BY <2>2, <2>3 DEF Types, TypeOK, LooksInDirs
<1>2. ASSUME NEW u \in Users, Console(u) PROVE Types'
  BY <1>2 DEF Console, Types, TypeOK, LooksInDirs, Proc
<1>3. ASSUME Reboot PROVE Types'
  BY <1>0, <1>3, IdleCommand DEF Reboot, Types, TypeOK, LooksInDirs
<1>4. ASSUME NEW c \in Commands, NEW u \in Users, NEW w \in Cwds,
             NEW what \in {"start", "stop", "restart"}, Begin(c, u, w, what)
      PROVE  Types'
  BY <1>4, BeginEffect, TypesOfCommand, DaemonAssumption DEF Types, TypeOK
<1>5. ASSUME NEW c \in Commands, Look(c) PROVE Types'
  BY <1>5, LookEffect, TypesOfCommand DEF Types, TypeOK
<1>6. ASSUME NEW c \in Commands, Kill(c) PROVE Types'
  <2>1. proc' \in [Pids -> Proc]
    BY <1>6 DEF Kill, Types, TypeOK, Proc
  <2>2. QED
    BY <1>6, <2>1, KillEffect, TypesOfCommand DEF Types, TypeOK
<1>7. ASSUME NEW c \in Commands, Unlink(c) PROVE Types'
  BY <1>7, UnlinkEffect DEF Types, TypeOK, LooksInDirs
<1>8. ASSUME NEW c \in Commands, Fork(c) PROVE Types'
  BY <1>8, ForkEffect, TypesOfCommand DEF Unlisted, Types, TypeOK
<1>9. ASSUME NEW c \in Commands, Refork(c) PROVE Types'
  <2>1. proc' \in [Pids -> Proc]
    BY <1>9, ReforkEffect DEF Types, TypeOK
  <2>2. QED
    BY <1>9, <2>1, ReforkEffect, TypesOfCommand DEF Types, TypeOK
<1>10. ASSUME NEW c \in Commands, OpenPid(c) PROVE Types'
  BY <1>10, OpenEffect, TypesOfCommand DEF Unlisted, Types, TypeOK
<1>11. ASSUME NEW c \in Commands, PutPid(c) PROVE Types'
  BY <1>11, PutEffect, IdleCommand, TypesOfCommand DEF Unlisted, Types, TypeOK
<1>12. CASE UNCHANGED vars
  BY <1>12 DEF vars, Types, TypeOK, LooksInDirs
<1>13. QED
  BY <1>1, <1>2, <1>3, <1>4, <1>5, <1>6, <1>7, <1>8, <1>9, <1>10, <1>11, <1>12 DEF Next

(***************************************************************************)
(* The variables hold what TypeOK says: a kill and a pid file get a        *)
(* process id and nothing else, whatever the files hold.                   *)
(***************************************************************************)
THEOREM TypeCorrect == Spec => []TypeOK
<1>1. Types => TypeOK
  BY DEF Types
<1>2. QED
  BY <1>1, TypesInit, TypesStep, PTL DEF Spec

-----------------------------------------------------------------------------
(* Commands in order *)

LEMMA OthersStay ==
  ASSUME Types, NEW c \in Commands, NEW r, Becomes(c, r)
  PROVE  /\ cmd'[c] = r
         /\ \A b \in Commands \ {c} :
              /\ cmd'[b] = cmd[b] /\ Here(b)' = Here(b) /\ \A i : Place(b, i)' = Place(b, i)
              /\ Waited(b)' = Waited(b) /\ Starter(b)' = Starter(b) /\ Listing(b)' = Listing(b)
<1>1. cmd'[c] = r /\ \A b \in Commands \ {c} : cmd'[b] = cmd[b]
  BY DEF Becomes, Types, TypeOK
<1>2. QED
  BY <1>1 DEF Here, Place, Waited, Starter, Listing

LEMMA StaleStays ==
  ASSUME Types, NEW c \in Commands, NEW r, Becomes(c, r), cmd[c].at # "unlink", r.at # "unlink"
  PROVE  \A d : Stale(d)' = Stale(d)
<1> SUFFICES ASSUME NEW d PROVE Stale(d)' = Stale(d)
  OBVIOUS
<1>1. \A b \in Commands :
        (cmd'[b].at = "unlink") = (cmd[b].at = "unlink") /\ (cmd[b].at = "unlink" => b # c)
  BY OthersStay
<1>2. \A b \in Commands : cmd[b].at = "unlink" => Here(b)' = Here(b) /\ cmd'[b] = cmd[b]
  BY <1>1, OthersStay
<1>3. \A u : Writable(u)' = Writable(u)
  BY DEF Writable
<1>4. QED
  BY <1>1, <1>2, <1>3 DEF Stale

LEMMA NoneStale ==
  ASSUME OneWaited, NEW c \in Commands, Waited(c), cmd[c].at # "unlink"
  PROVE  \A d : ~Stale(d)
  BY DEF OneWaited, Waited, Stale

LEMMA InOrderInit == Init => InOrder
<1> SUFFICES ASSUME Init PROVE InOrder
  OBVIOUS
<1>1. \A c \in Commands : cmd[c].at = "idle"
  BY IdleCommand DEF Init
<1>2. \A d \in Places : pidFile[d] \notin Pids
  BY DaemonAssumption DEF Init
<1>3. Daemons \subseteq Pids
  BY DEF Daemons
<1>4. QED
  BY <1>1, <1>2, <1>3 DEF InOrder, OneWaited, FilesNameDaemons, InOwnersDirectory, NamedOnce,
     KillsNamed, StartersOwnDaemon, LookedAtAll, Waited, Listing

LEMMA StrayStays == ASSUME Types, [Next]_vars, trouble' # "stray" PROVE trouble # "stray"
  BY BeginEffect, LookEffect, KillEffect, UnlinkEffect, ForkEffect, ReforkEffect, OpenEffect,
     PutEffect DEF Next, vars, Terminated, Dies, OtherProgram, Console, Reboot, Unlisted

LEMMA InOrderProcesses ==
  ASSUME Types, Types', InOrder, UNCHANGED <<pidFile, cmd>>, Daemons' = Daemons,
         \A p \in Daemons : proc'[p].owner = proc[p].owner
  PROVE  InOrder'
<1>1. \A c \in Commands :
        /\ Here(c)' = Here(c) /\ \A i : Place(c, i)' = Place(c, i)
        /\ Waited(c)' = Waited(c) /\ Starter(c)' = Starter(c) /\ Listing(c)' = Listing(c)
  BY DEF Here, Place, Waited, Starter, Listing
<1>2. \A u : Writable(u)' = Writable(u)
  BY DEF Writable
<1>3. \A d : Stale(d)' = Stale(d)
  BY <1>1, <1>2 DEF Stale
<1>4. OneWaited' /\ FilesNameDaemons' /\ NamedOnce'
  BY <1>1, <1>3 DEF InOrder, OneWaited, FilesNameDaemons, NamedOnce
<1>5. InOwnersDirectory'
  BY <1>2, <1>3 DEF InOrder, InOwnersDirectory
<1>6. KillsNamed' /\ LookedAtAll'
  BY <1>1 DEF InOrder, KillsNamed, LookedAtAll
<1>7. StartersOwnDaemon'
  BY <1>1, <1>2, <1>3 DEF InOrder, StartersOwnDaemon
<1>8. QED
  BY <1>4, <1>5, <1>6, <1>7 DEF InOrder

\* A command goes on and leaves processes and files alone.
LEMMA InOrderQuiet ==
  ASSUME Types, Types', InOrder, UNCHANGED <<proc, pidFile>>,
         NEW c \in Commands, NEW r \in Command, Becomes(c, r),
         cmd[c].at # "unlink", r.at \in {"idle", "find", "kill", "fork", "refork"},
         r.at \in {"find", "kill", "fork"} => \A b \in Commands \ {c} : ~Waited(b),
         r.at = "kill" => /\ Waited(c) /\ Here(c)' \in Places
                          /\ r.pid \in Pids /\ r.pid = pidFile[Here(c)'],
         r.at = "find" /\ ~r.early =>
           /\ \A b \in Commands : ~Starter(b)
           /\ \A i \in 1 .. r.dir : pidFile[Place(c, i)'] \notin Pids,
         r.at = "refork" => Waited(c)
  PROVE  InOrder'
<1>1. /\ cmd'[c] = r
      /\ \A b \in Commands \ {c} :
           /\ cmd'[b] = cmd[b] /\ Here(b)' = Here(b) /\ \A i : Place(b, i)' = Place(b, i)
           /\ Waited(b)' = Waited(b) /\ Starter(b)' = Starter(b) /\ Listing(b)' = Listing(b)
  BY OthersStay
<1>2. \A d : Stale(d)' = Stale(d)
  BY StaleStays
<1>3. Daemons' = Daemons
  BY DEF Daemons
<1>4. \A b \in Commands : Listing(b)' => b # c /\ Listing(b)
  BY <1>1 DEF Listing
<1>5. \A u : Writable(u)' = Writable(u)
  BY DEF Writable
<1>10. OneWaited'
  BY <1>1 DEF InOrder, OneWaited, Waited
<1>11. FilesNameDaemons' /\ NamedOnce'
  BY <1>2, <1>3 DEF InOrder, FilesNameDaemons, NamedOnce
<1>12. InOwnersDirectory'
  BY <1>2, <1>3, <1>5 DEF InOrder, InOwnersDirectory
<1>13. KillsNamed'
  <2> SUFFICES ASSUME NEW b \in Commands, cmd'[b].at = "kill"
               PROVE  /\ cmd'[b].pid \in Daemons
                      /\ \A d \in Places : pidFile[d] = cmd'[b].pid => d = Here(b)'
                      /\ \A a \in Commands : Listing(a)' => cmd'[a].pid # cmd'[b].pid
    BY <1>3 DEF KillsNamed
  <2>1. CASE b # c
    BY <1>1, <1>4, <2>1 DEF InOrder, KillsNamed
  <2>2. CASE b = c
    <3>1. /\ r.at = "kill" /\ Waited(c) /\ Here(c)' \in Places
          /\ r.pid \in Pids /\ r.pid = pidFile[Here(c)']
      BY <1>1, <2>2
    <3>2. \A d : ~Stale(d)
      BY <3>1, NoneStale DEF InOrder
    <3>3. r.pid \in Daemons
      BY <3>1, <3>2 DEF InOrder, FilesNameDaemons
    <3>4. \A d \in Places : pidFile[d] = r.pid => d = Here(c)'
      BY <3>1, <3>2 DEF InOrder, NamedOnce
    <3>5. \A a \in Commands : Listing(a) => cmd[a].pid # r.pid
      BY <3>1, <3>2 DEF InOrder, StartersOwnDaemon
    <3>6. QED
      BY <1>1, <1>4, <2>2, <3>3, <3>4, <3>5
  <2>3. QED
    BY <2>1, <2>2
<1>14. StartersOwnDaemon'
  BY <1>1, <1>2, <1>3, <1>4, <1>5 DEF InOrder, StartersOwnDaemon
<1>15. LookedAtAll'
  <2> SUFFICES ASSUME NEW b \in Commands, cmd'[b].at = "find", ~cmd'[b].early
               PROVE  /\ \A a \in Commands : ~Starter(a)'
                      /\ \A i \in 1 .. cmd'[b].dir : pidFile[Place(b, i)'] \notin Pids
    BY DEF LookedAtAll
  <2>1. CASE b = c
    BY <1>1, <2>1 DEF Starter
  <2>2. CASE b # c
    <3>1. ~Waited(c)
      <4>1. Waited(b)
        BY <1>1, <2>2 DEF Waited
      <4>2. QED
        BY <2>2, <4>1 DEF InOrder, OneWaited
    <3>2. r.at # "refork"
      BY <3>1
    <3>3. QED
      BY <1>1, <2>2, <3>2 DEF InOrder, LookedAtAll, Starter
  <2>3. QED
    BY <2>1, <2>2
<1>16. QED
  BY <1>10, <1>11, <1>12, <1>13, <1>14, <1>15 DEF InOrder

LEMMA InOrderBegin ==
  ASSUME Types, Types', InOrder, trouble' # "stray", NEW c \in Commands, NEW u \in Users,
         NEW w \in Cwds, NEW what \in {"start", "stop", "restart"}, Begin(c, u, w, what)
  PROVE  InOrder'
<1>1. /\ cmd[c].at = "idle" /\ UNCHANGED <<proc, pidFile>>
      /\ \A d \in Commands : ~Waited(d)
  BY BeginEffect
<1>2. PICK r \in Command :
        /\ Becomes(c, r)
        /\ r.at \in {"fork", "find"} /\ r.dir = 0
        /\ ~r.early => \A d \in Commands : ~Starter(d)
  BY BeginEffect
<1>3. 1 .. r.dir = {}
  BY <1>2
<1>4. QED
  BY <1>1, <1>2, <1>3, InOrderQuiet

LEMMA InOrderLook ==
  ASSUME Types, Types', InOrder, trouble' # "stray", NEW c \in Commands, Look(c)
  PROVE  InOrder'
<1>1. /\ cmd[c].at = "find" /\ UNCHANGED <<proc, pidFile, trouble>>
      /\ cmd[c].dir + 1 \in 1 .. Dirs + 1
  BY LookEffect
<1>2. PICK r \in Command :
        /\ Becomes(c, r)
        /\ \/ /\ r.at = "kill" /\ r.dir = cmd[c].dir + 1 /\ r.cwd = cmd[c].cwd
              /\ r.pid \in Pids /\ r.pid = pidFile[Place(c, r.dir)]
           \/ /\ r.at = "find" /\ r.dir = cmd[c].dir + 1 /\ r.dir <= Dirs
              /\ r.cwd = cmd[c].cwd /\ r.early = cmd[c].early
              /\ pidFile[Place(c, r.dir)] \notin Pids
           \/ r.at = "idle"
  BY LookEffect
<1>3. cmd'[c] = r
  BY <1>2, OthersStay
<1>4. cmd[c].dir \in 0 .. Dirs + 1
  BY Commandlike DEF Command
<1>5. /\ Waited(c) /\ \A b \in Commands \ {c} : ~Waited(b)
  BY <1>1 DEF InOrder, OneWaited, Waited
<1>6. r.at = "kill" => Here(c)' = Place(c, r.dir) /\ Here(c)' \in Places
  BY <1>1, <1>2, <1>3, PlaceType DEF Here, Place
<1>7. ASSUME r.at = "find", ~r.early
      PROVE  /\ \A b \in Commands : ~Starter(b)
             /\ \A i \in 1 .. r.dir : pidFile[Place(c, i)'] \notin Pids
  <2>1. /\ \A b \in Commands : ~Starter(b)
        /\ \A i \in 1 .. cmd[c].dir : pidFile[Place(c, i)] \notin Pids
    BY <1>1, <1>2, <1>7 DEF InOrder, LookedAtAll
  <2>2. \A i : Place(c, i)' = Place(c, i)
    BY <1>2, <1>3, <1>7 DEF Place
  <2>3. \A i \in 1 .. r.dir : i = r.dir \/ i \in 1 .. cmd[c].dir
    BY <1>2, <1>4, <1>7, DaemonAssumption
  <2>4. pidFile[Place(c, r.dir)] \notin Pids
    BY <1>2, <1>7
  <2> QED
    BY <2>1, <2>2, <2>3, <2>4
<1>8. QED
  BY <1>1, <1>2, <1>5, <1>6, <1>7, InOrderQuiet

LEMMA InOrderFork ==
  ASSUME Types, Types', InOrder, trouble' # "stray", NEW c \in Commands, Fork(c)
  PROVE  InOrder'
  BY ForkEffect, InOrderQuiet DEF Waited

LEMMA InOrderKill ==
  ASSUME Types, Types', InOrder, trouble' # "stray", NEW c \in Commands, Kill(c)
  PROVE  InOrder'
<1> DEFINE p == cmd[c].pid
<1>1. cmd[c].at = "kill" /\ UNCHANGED <<pidFile, trouble>>
  BY KillEffect
<1>2. PICK r \in Command :
        /\ Becomes(c, r)
        /\ \/ r.at = "idle" /\ UNCHANGED proc
           \/ /\ r.at = "unlink"
              /\ r.dir = cmd[c].dir /\ r.user = cmd[c].user /\ r.cwd = cmd[c].cwd
              /\ \/ UNCHANGED proc /\ proc[cmd[c].pid].kind = "free"
                 \/ /\ MayKill(cmd[c].user, cmd[c].pid)
                    /\ proc' = [proc EXCEPT ![cmd[c].pid].kind = "dying"]
  BY KillEffect
<1>3. CASE r.at = "idle"
  BY <1>1, <1>2, <1>3, InOrderQuiet
<1>4. CASE r.at = "unlink"
  <2>1. /\ p \in Daemons /\ \A d \in Places : pidFile[d] = p => d = Here(c)
        /\ \A b \in Commands : Listing(b) => cmd[b].pid # p
    BY <1>1 DEF InOrder, KillsNamed
  <2>2. /\ MayKill(cmd[c].user, p) /\ Daemons' = Daemons \ {p}
        /\ \A q \in Daemons' : proc'[q] = proc[q]
    BY <1>2, <1>4, <2>1 DEF Daemons, Types, TypeOK, Proc
  <2>3. /\ cmd'[c] = r /\ Here(c)' = Here(c)
        /\ \A b \in Commands \ {c} :
             /\ cmd'[b] = cmd[b] /\ Here(b)' = Here(b) /\ \A i : Place(b, i)' = Place(b, i)
             /\ Waited(b)' = Waited(b) /\ Starter(b)' = Starter(b) /\ Listing(b)' = Listing(b)
    BY <1>2, <1>4, OthersStay DEF Here, Place
  <2>4. Waited(c) /\ \A d : ~Stale(d)
    BY <1>1, NoneStale DEF InOrder, Waited
  <2>5. \A b \in Commands \ {c} : ~Waited(b)
    BY <2>4 DEF InOrder, OneWaited
  <2>6. \A u : Writable(u)' = Writable(u)
    BY DEF Writable
  <2>7. \A d : d = Here(c) /\ d \in Writable(cmd[c].user) => Stale(d)'
    BY <1>2, <1>4, <2>3, <2>6 DEF Stale
  <2>8. \A d \in Places : pidFile[d] = p => Stale(d)'
    <3>1. SUFFICES ASSUME NEW d \in Places, pidFile[d] = p
                   PROVE  d = Here(c) /\ d \in Writable(cmd[c].user)
      BY <2>7
    <3>2. d \in Writable(proc[p].owner) /\ proc[p].owner \in Users
      BY <2>1, <2>4, <3>1 DEF InOrder, InOwnersDirectory, Daemons, Types, TypeOK, Proc
    <3>3. d \in Writable(cmd[c].user)
      BY <2>2, <3>2, RootCanWrite DEF MayKill
    <3>4. QED
      BY <2>1, <3>1, <3>3
  <2>9. \A b \in Commands : Listing(b)' => b # c /\ Listing(b)
    BY <1>4, <2>3 DEF Listing
  <2>10. OneWaited'
    BY <2>3, <2>5 DEF OneWaited, Waited
  <2>11. FilesNameDaemons'
    BY <1>1, <2>2, <2>4, <2>8 DEF InOrder, FilesNameDaemons
  <2>12. InOwnersDirectory'
    BY <1>1, <2>2, <2>4, <2>6 DEF InOrder, InOwnersDirectory
  <2>13. NamedOnce'
    BY <1>1, <2>4 DEF InOrder, NamedOnce
  <2>14. KillsNamed'
    BY <1>4, <2>3, <2>5 DEF KillsNamed, Waited
  <2>15. StartersOwnDaemon'
    <3>1. \A b \in Commands : Listing(b) => cmd[b].pid \in Daemons'
      BY <2>1, <2>2 DEF InOrder, StartersOwnDaemon
    <3>2. QED
      BY <1>1, <2>2, <2>3, <2>4, <2>6, <2>9, <3>1 DEF InOrder, StartersOwnDaemon
  <2>16. LookedAtAll'
    BY <1>4, <2>3, <2>5 DEF LookedAtAll, Waited
  <2>17. QED
    BY <2>10, <2>11, <2>12, <2>13, <2>14, <2>15, <2>16 DEF InOrder
<1>5. QED
  BY <1>2, <1>3, <1>4

LEMMA InOrderRefork ==
  ASSUME Types, Types', InOrder, trouble' # "stray", NEW c \in Commands, Refork(c)
  PROVE  InOrder'
<1>1. cmd[c].at = "refork" /\ UNCHANGED <<pidFile, trouble>>
  BY ReforkEffect
<1>2. PICK r \in Command :
        /\ Becomes(c, r)
        /\ \/ r.at = "idle" /\ UNCHANGED proc
           \/ /\ r.at = "open" /\ r.pid \in Pids /\ r.user = cmd[c].user
              /\ proc[r.pid].kind = "free"
              /\ [kind |-> "daemon", owner |-> r.user] \in Proc
              /\ proc' = [proc EXCEPT ![r.pid] = [kind |-> "daemon", owner |-> r.user]]
  BY ReforkEffect
<1>3. CASE r.at = "idle"
  BY <1>1, <1>2, <1>3, InOrderQuiet
<1>4. CASE r.at = "open"
  <2>1. /\ cmd'[c] = r
        /\ \A b \in Commands \ {c} :
             /\ cmd'[b] = cmd[b] /\ Here(b)' = Here(b) /\ \A i : Place(b, i)' = Place(b, i)
             /\ Waited(b)' = Waited(b) /\ Starter(b)' = Starter(b) /\ Listing(b)' = Listing(b)
    BY <1>2, OthersStay
  <2>2. \A d : Stale(d)' = Stale(d)
    BY <1>1, <1>2, <1>4, StaleStays
  <2>3. /\ r.pid \notin Daemons /\ Daemons' = Daemons \cup {r.pid}
        /\ proc'[r.pid].owner = r.user /\ \A q \in Daemons : proc'[q] = proc[q]
    BY <1>2, <1>4 DEF Daemons, Types, TypeOK
  <2>4. \A u : Writable(u)' = Writable(u)
    BY DEF Writable
  <2>5. \A d \in Places : pidFile[d] = r.pid => Stale(d)
    BY <1>2, <1>4, <2>3 DEF InOrder, FilesNameDaemons
  <2>10. OneWaited'
    BY <1>4, <2>1 DEF InOrder, OneWaited, Waited
  <2>11. FilesNameDaemons' /\ NamedOnce'
    BY <1>1, <2>2, <2>3 DEF InOrder, FilesNameDaemons, NamedOnce
  <2>12. InOwnersDirectory'
    BY <1>1, <2>2, <2>3, <2>4, <2>5 DEF InOrder, InOwnersDirectory
  <2>13. KillsNamed'
    <3> SUFFICES ASSUME NEW b \in Commands, cmd'[b].at = "kill"
                 PROVE  /\ cmd'[b].pid \in Daemons'
                        /\ \A d \in Places : pidFile[d] = cmd'[b].pid => d = Here(b)'
                        /\ \A a \in Commands : Listing(a)' => cmd'[a].pid # cmd'[b].pid
      BY <1>1 DEF KillsNamed
    <3>1. b # c /\ cmd'[b] = cmd[b] /\ cmd[b].at = "kill" /\ Here(b)' = Here(b)
      BY <1>4, <2>1
    <3>2. /\ cmd[b].pid \in Daemons /\ \A d \in Places : pidFile[d] = cmd[b].pid => d = Here(b)
          /\ \A a \in Commands : Listing(a) => cmd[a].pid # cmd[b].pid
      BY <3>1 DEF InOrder, KillsNamed
    <3>3. QED
      BY <2>1, <2>3, <3>1, <3>2
  <2>14. StartersOwnDaemon'
    <3> SUFFICES ASSUME NEW b \in Commands, Listing(b)'
                 PROVE  /\ cmd'[b].pid \in Daemons' /\ proc'[cmd'[b].pid].owner = cmd'[b].user
                        /\ cmd'[b].at = "put" => cmd'[b].dir = 0 \/ Here(b)' \in Writable(cmd'[b].user)
                        /\ \A d \in Places : pidFile[d] = cmd'[b].pid => Stale(d)
                        /\ \A a \in Commands : Listing(a)' /\ cmd'[a].pid = cmd'[b].pid => a = b
      BY <1>1, <2>2, <2>4 DEF StartersOwnDaemon
    <3>1. \A a \in Commands \ {c} : Listing(a)' => cmd'[a].pid \in Daemons /\ cmd'[a].pid # r.pid
      BY <2>1, <2>3 DEF InOrder, StartersOwnDaemon
    <3>2. CASE b = c
      BY <1>2, <1>4, <2>1, <2>3, <2>5, <3>1, <3>2
    <3>3. CASE b # c
      <4>1. Listing(b) /\ cmd'[b] = cmd[b] /\ Here(b)' = Here(b)
        BY <2>1, <3>3
      <4>2. /\ cmd[b].pid \in Daemons /\ proc[cmd[b].pid].owner = cmd[b].user
            /\ cmd[b].at = "put" => cmd[b].dir = 0 \/ Here(b) \in Writable(cmd[b].user)
            /\ \A d \in Places : pidFile[d] = cmd[b].pid => Stale(d)
            /\ \A a \in Commands : Listing(a) /\ cmd[a].pid = cmd[b].pid => a = b
        BY <4>1 DEF InOrder, StartersOwnDaemon
      <4>3. QED
        BY <2>1, <2>3, <3>1, <3>3, <4>1, <4>2
    <3>4. QED
      BY <3>2, <3>3
  <2>15. LookedAtAll'
    BY <1>1, <1>4, <2>1 DEF InOrder, LookedAtAll, Starter
  <2>16. QED
    BY <2>10, <2>11, <2>12, <2>13, <2>14, <2>15 DEF InOrder
<1>5. QED
  BY <1>2, <1>3, <1>4

LEMMA InOrderOpen ==
  ASSUME Types, Types', InOrder, trouble' # "stray", NEW c \in Commands, OpenPid(c)
  PROVE  InOrder'
<1>1. cmd[c].at = "open" /\ cmd[c].pid \in Pids /\ UNCHANGED proc
  BY OpenEffect
<1>2. PICK r \in Command :
        /\ Becomes(c, r)
        /\ \/ r.at = "idle" /\ UNCHANGED pidFile
           \/ /\ r.at = "put" /\ r.pid = cmd[c].pid /\ r.user = cmd[c].user
              /\ \E d \in Places :
                   /\ d = Here(c)' /\ d \in Writable(r.user)
                   /\ pidFile' = [pidFile EXCEPT ![d] = NoPid]
  BY OpenEffect
<1>3. CASE r.at = "idle"
  BY <1>1, <1>2, <1>3, InOrderQuiet
<1>4. CASE r.at = "put"
  <2>1. /\ cmd'[c] = r
        /\ \A b \in Commands \ {c} :
             /\ cmd'[b] = cmd[b] /\ Here(b)' = Here(b) /\ \A i : Place(b, i)' = Place(b, i)
             /\ Waited(b)' = Waited(b) /\ Starter(b)' = Starter(b) /\ Listing(b)' = Listing(b)
    BY <1>2, OthersStay
  <2>2. \A d : Stale(d)' = Stale(d)
    BY <1>1, <1>2, <1>4, StaleStays
  <2>3. Daemons' = Daemons
    BY <1>1 DEF Daemons
  <2>4. \A u : Writable(u)' = Writable(u)
    BY DEF Writable
  <2>5. \A d \in Places : pidFile'[d] \in Pids => pidFile'[d] = pidFile[d]
    BY <1>2, <1>4, DaemonAssumption DEF Types, TypeOK
  <2>6. Daemons \subseteq Pids
    BY DEF Daemons
  <2>7. /\ Listing(c) /\ Starter(c)
        /\ \A b \in Commands : Listing(b)' => Listing(b) /\ cmd'[b].pid = cmd[b].pid
    BY <1>1, <1>2, <1>4, <2>1 DEF Listing, Starter
  <2>10. OneWaited'
    BY <1>4, <2>1 DEF InOrder, OneWaited, Waited
  <2>11. FilesNameDaemons' /\ NamedOnce'
    BY <2>2, <2>3, <2>5 DEF InOrder, FilesNameDaemons, NamedOnce
  <2>12. InOwnersDirectory'
    <3> SUFFICES ASSUME NEW d \in Places, pidFile'[d] \in Daemons, ~Stale(d)
                 PROVE  d \in Writable(proc[pidFile'[d]].owner)
      BY <1>1, <2>2, <2>3, <2>4 DEF InOwnersDirectory
    <3>1. pidFile'[d] = pidFile[d]
      BY <2>5, <2>6
    <3>2. QED
      BY <3>1 DEF InOrder, InOwnersDirectory
  <2>13. KillsNamed'
    <3> SUFFICES ASSUME NEW b \in Commands, cmd'[b].at = "kill"
                 PROVE  /\ cmd'[b].pid \in Daemons
                        /\ \A d \in Places : pidFile'[d] = cmd'[b].pid => d = Here(b)'
                        /\ \A a \in Commands : Listing(a)' => cmd'[a].pid # cmd'[b].pid
      BY <2>3 DEF KillsNamed
    <3>1. b # c /\ cmd'[b] = cmd[b] /\ cmd[b].at = "kill" /\ Here(b)' = Here(b)
      BY <1>4, <2>1
    <3>2. /\ cmd[b].pid \in Daemons /\ \A d \in Places : pidFile[d] = cmd[b].pid => d = Here(b)
          /\ \A a \in Commands : Listing(a) => cmd[a].pid # cmd[b].pid
      BY <3>1 DEF InOrder, KillsNamed
    <3>3. QED
      BY <2>5, <2>6, <2>7, <3>1, <3>2
  <2>14. StartersOwnDaemon'
    <3> SUFFICES ASSUME NEW b \in Commands, Listing(b)'
                 PROVE  /\ cmd'[b].pid \in Daemons /\ proc[cmd'[b].pid].owner = cmd'[b].user
                        /\ cmd'[b].at = "put" => cmd'[b].dir = 0 \/ Here(b)' \in Writable(cmd'[b].user)
                        /\ \A d \in Places : pidFile'[d] = cmd'[b].pid => Stale(d)
                        /\ \A a \in Commands : Listing(a)' /\ cmd'[a].pid = cmd'[b].pid => a = b
      BY <1>1, <2>2, <2>3, <2>4 DEF StartersOwnDaemon
    <3>1. Listing(b) /\ cmd'[b].pid = cmd[b].pid /\ cmd'[b].user = cmd[b].user
      BY <1>2, <1>4, <2>1, <2>7
    <3>2. /\ cmd[b].pid \in Daemons /\ proc[cmd[b].pid].owner = cmd[b].user
          /\ cmd[b].at = "put" => cmd[b].dir = 0 \/ Here(b) \in Writable(cmd[b].user)
          /\ \A d \in Places : pidFile[d] = cmd[b].pid => Stale(d)
          /\ \A a \in Commands : Listing(a) /\ cmd[a].pid = cmd[b].pid => a = b
      BY <3>1 DEF InOrder, StartersOwnDaemon
    <3>3. cmd'[b].at = "put" => cmd'[b].dir = 0 \/ Here(b)' \in Writable(cmd'[b].user)
      <4>1. CASE b = c
        BY <1>2, <1>4, <2>1, <4>1
      <4>2. CASE b # c
        BY <2>1, <3>2, <4>2
      <4>3. QED
        BY <4>1, <4>2
    <3>4. QED
      BY <2>5, <2>6, <2>7, <3>1, <3>2, <3>3
  <2>15. LookedAtAll'
    <3> SUFFICES ASSUME NEW b \in Commands, cmd'[b].at = "find", ~cmd'[b].early PROVE FALSE
      BY DEF LookedAtAll
    <3>1. b # c /\ cmd'[b] = cmd[b]
      BY <1>4, <2>1
    <3>2. QED
      BY <2>7, <3>1 DEF InOrder, LookedAtAll
  <2>16. QED
    BY <2>10, <2>11, <2>12, <2>13, <2>14, <2>15 DEF InOrder
<1>5. QED
  BY <1>2, <1>3, <1>4

LEMMA InOrderPut ==
  ASSUME Types, Types', InOrder, trouble' # "stray", NEW c \in Commands, PutPid(c)
  PROVE  InOrder'
<1> DEFINE h == Here(c)
           p == cmd[c].pid
<1>1. cmd[c].at = "put" /\ p \in Pids /\ UNCHANGED proc /\ Becomes(c, Idle)
  BY PutEffect
<1>2. CASE UNCHANGED pidFile
  BY <1>1, <1>2, IdleCommand, InOrderQuiet
<1>3. CASE cmd[c].dir # 0 /\ h \in Places /\ pidFile' = [pidFile EXCEPT ![h] = p]
  <2>1. /\ cmd'[c].at = "idle"
        /\ \A b \in Commands \ {c} :
             /\ cmd'[b] = cmd[b] /\ Here(b)' = Here(b) /\ \A i : Place(b, i)' = Place(b, i)
             /\ Waited(b)' = Waited(b) /\ Starter(b)' = Starter(b) /\ Listing(b)' = Listing(b)
    BY <1>1, IdleCommand, OthersStay
  <2>2. \A d : Stale(d)' = Stale(d)
    BY <1>1, IdleCommand, StaleStays
  <2>3. Daemons' = Daemons
    BY <1>1 DEF Daemons
  <2>4. \A u : Writable(u)' = Writable(u)
    BY DEF Writable
  <2>5. pidFile'[h] = p /\ \A d \in Places \ {h} : pidFile'[d] = pidFile[d]
    BY <1>3 DEF Types, TypeOK
  <2>6. /\ p \in Daemons /\ proc[p].owner = cmd[c].user /\ h \in Writable(cmd[c].user)
        /\ \A d \in Places : pidFile[d] = p => Stale(d)
        /\ \A b \in Commands : Listing(b) /\ cmd[b].pid = p => b = c
    BY <1>1, <1>3 DEF InOrder, StartersOwnDaemon, Listing
  <2>7. /\ Listing(c) /\ Starter(c)
        /\ \A b \in Commands : Listing(b)' => b # c /\ Listing(b) /\ cmd'[b] = cmd[b]
    BY <1>1, <2>1 DEF Listing, Starter
  <2>10. OneWaited'
    BY <2>1 DEF InOrder, OneWaited, Waited
  <2>11. FilesNameDaemons'
    BY <2>2, <2>3, <2>5, <2>6 DEF InOrder, FilesNameDaemons
  <2>12. InOwnersDirectory'
    BY <1>1, <2>2, <2>3, <2>4, <2>5, <2>6 DEF InOrder, InOwnersDirectory
  <2>13. NamedOnce'
    BY <2>2, <2>5, <2>6 DEF InOrder, NamedOnce
  <2>14. KillsNamed'
    <3> SUFFICES ASSUME NEW b \in Commands, cmd'[b].at = "kill"
                 PROVE  /\ cmd'[b].pid \in Daemons
                        /\ \A d \in Places : pidFile'[d] = cmd'[b].pid => d = Here(b)'
                        /\ \A a \in Commands : Listing(a)' => cmd'[a].pid # cmd'[b].pid
      BY <2>3 DEF KillsNamed
    <3>1. b # c /\ cmd'[b] = cmd[b] /\ cmd[b].at = "kill" /\ Here(b)' = Here(b)
      BY <2>1
    <3>2. /\ cmd[b].pid \in Daemons /\ \A d \in Places : pidFile[d] = cmd[b].pid => d = Here(b)
          /\ \A a \in Commands : Listing(a) => cmd[a].pid # cmd[b].pid
      BY <3>1 DEF InOrder, KillsNamed
    <3>3. p # cmd[b].pid
      BY <2>7, <3>2
    <3>4. QED
      BY <2>5, <2>7, <3>1, <3>2, <3>3
  <2>15. StartersOwnDaemon'
    BY <1>1, <2>1, <2>2, <2>3, <2>4, <2>5, <2>6, <2>7 DEF InOrder, StartersOwnDaemon
  <2>16. LookedAtAll'
    <3> SUFFICES ASSUME NEW b \in Commands, cmd'[b].at = "find", ~cmd'[b].early PROVE FALSE
      BY DEF LookedAtAll
    <3>1. b # c /\ cmd'[b] = cmd[b]
      BY <2>1
    <3>2. QED
      BY <2>7, <3>1 DEF InOrder, LookedAtAll
  <2>17. QED
    BY <2>10, <2>11, <2>12, <2>13, <2>14, <2>15, <2>16 DEF InOrder
<1>4. QED
  BY <1>2, <1>3, PutEffect

LEMMA InOrderUnlink ==
  ASSUME Types, Types', InOrder, trouble' # "stray", NEW c \in Commands, Unlink(c)
  PROVE  InOrder'
<1> DEFINE h == Here(c)
           w == h \in Writable(cmd[c].user)
<1>1. cmd[c].at = "unlink" /\ UNCHANGED <<proc, trouble>>
  BY UnlinkEffect
<1>2. pidFile' = IF w THEN [pidFile EXCEPT ![h] = NoFile] ELSE pidFile
  BY UnlinkEffect
<1>3. /\ cmd'[c].at \in {"fork", "idle"}
      /\ \A b \in Commands \ {c} :
           /\ cmd'[b].at = cmd[b].at /\ cmd'[b].pid = cmd[b].pid
           /\ cmd'[b].user = cmd[b].user /\ cmd'[b].early = cmd[b].early
           /\ cmd'[b].cwd = cmd[b].cwd
           /\ cmd'[b].dir = IF w /\ cmd[b].at = "put" /\ Here(b) = h THEN 0 ELSE cmd[b].dir
  BY UnlinkEffect
<1>4. Waited(c) /\ \A b \in Commands \ {c} : ~Waited(b)
  BY <1>1 DEF InOrder, OneWaited, Waited
<1>5. /\ \A b \in Commands : cmd'[b].at # "unlink"
      /\ \A b \in Commands : cmd[b].at = "unlink" => b = c
  BY <1>3, <1>4 DEF Waited
<1>6. \A d : ~Stale(d)'
  BY <1>5 DEF Stale
<1>7. \A d \in Places : (Stale(d) <=> d = h /\ w)
  BY <1>1, <1>5 DEF Stale
<1>8. \A d \in Places : IF Stale(d) THEN pidFile'[d] = NoFile ELSE pidFile'[d] = pidFile[d]
  BY <1>2, <1>7 DEF Types, TypeOK
<1>9. Daemons' = Daemons /\ Daemons \subseteq Pids /\ \A u : Writable(u)' = Writable(u)
  BY <1>1 DEF Daemons, Writable
<1>10. \A b \in Commands : /\ Listing(b)' => b # c /\ Listing(b)
                           /\ Starter(b)' => Starter(b)
  BY <1>3 DEF Listing, Starter
<1>11. OneWaited'
  BY <1>3, <1>4 DEF OneWaited, Waited
<1>12. FilesNameDaemons' /\ NamedOnce'
  BY <1>8, <1>9, DaemonAssumption DEF InOrder, FilesNameDaemons, NamedOnce
<1>13. InOwnersDirectory'
  BY <1>1, <1>8, <1>9, DaemonAssumption DEF InOrder, InOwnersDirectory
<1>14. KillsNamed'
  BY <1>3, <1>4 DEF KillsNamed, Waited
<1>15. StartersOwnDaemon'
  <2> SUFFICES ASSUME NEW b \in Commands, Listing(b)'
               PROVE  /\ cmd'[b].pid \in Daemons /\ proc[cmd'[b].pid].owner = cmd'[b].user
                      /\ cmd'[b].at = "put" => cmd'[b].dir = 0 \/ Here(b)' \in Writable(cmd'[b].user)
                      /\ \A d \in Places : pidFile'[d] # cmd'[b].pid
                      /\ \A a \in Commands : Listing(a)' /\ cmd'[a].pid = cmd'[b].pid => a = b
    BY <1>1, <1>9 DEF StartersOwnDaemon
  <2>1. b # c /\ Listing(b)
    BY <1>10
  <2>2. /\ cmd[b].pid \in Daemons /\ proc[cmd[b].pid].owner = cmd[b].user
        /\ cmd[b].at = "put" => cmd[b].dir = 0 \/ Here(b) \in Writable(cmd[b].user)
        /\ \A d \in Places : pidFile[d] = cmd[b].pid => Stale(d)
        /\ \A a \in Commands : Listing(a) /\ cmd[a].pid = cmd[b].pid => a = b
    BY <2>1 DEF InOrder, StartersOwnDaemon
  <2>3. cmd'[b].at = "put" => cmd'[b].dir = 0 \/ Here(b)' = Here(b)
    BY <1>3, <2>1 DEF Here, Place
  <2>4. \A d \in Places : pidFile'[d] # cmd[b].pid
    BY <1>8, <1>9, <2>2, DaemonAssumption
  <2>5. cmd[b].dir = 0 => cmd'[b].dir = 0
    BY <1>3, <2>1
  <2>6. QED
    BY <1>3, <1>10, <2>1, <2>2, <2>3, <2>4, <2>5
<1>16. LookedAtAll'
  BY <1>3, <1>4 DEF LookedAtAll, Waited
<1>17. QED
  BY <1>11, <1>12, <1>13, <1>14, <1>15, <1>16 DEF InOrder

LEMMA InOrderStep ==
  ASSUME Types, Types', trouble # "stray" => InOrder, [Next]_vars, trouble' # "stray"
  PROVE  InOrder'
<1>0. InOrder
  BY StrayStays
<1>1. ASSUME NEW p \in Pids, Terminated(p) \/ Dies(p) \/ OtherProgram(p) PROVE InOrder'
  <2>1. UNCHANGED <<pidFile, cmd>> /\ proc[p].kind # "daemon"
    BY <1>1 DEF Terminated, Dies, OtherProgram, Daemons
  <2>2. proc' = [proc EXCEPT ![p] = Free] \/ proc' = [proc EXCEPT ![p].kind = "foreign"]
    BY <1>1 DEF Terminated, Dies, OtherProgram
  <2>3. proc'[p].kind # "daemon" /\ \A q \in Pids \ {p} : proc'[q] = proc[q]
    BY <2>2 DEF Free, Types, TypeOK, Proc
  <2>4. Daemons' = Daemons /\ \A q \in Daemons : proc'[q].owner = proc[q].owner
    BY <2>1, <2>3 DEF Daemons
  <2>5. QED
    BY <1>0, <2>1, <2>4, InOrderProcesses
<1>2. ASSUME NEW u \in Users, Console(u) PROVE InOrder'
  <2>1. /\ Daemons' = Daemons /\ UNCHANGED <<pidFile, cmd>>
        /\ \A q \in Daemons : proc'[q].owner = proc[q].owner
    BY <1>2 DEF Console, Daemons, Types, TypeOK, Proc
  <2>2. QED
    BY <1>0, <2>1, InOrderProcesses
<1>3. CASE UNCHANGED vars
  BY <1>0, <1>3, InOrderProcesses DEF vars, Daemons
<1>4. QED
  BY <1>0, <1>1, <1>2, <1>3, InOrderBegin, InOrderLook, InOrderKill, InOrderUnlink, InOrderFork,
     InOrderRefork, InOrderOpen, InOrderPut DEF Next, Reboot

-----------------------------------------------------------------------------
(* One daemon, and where it is listed *)

LEMMA SingleInit == Init => Single
<1> SUFFICES ASSUME Init PROVE Single OBVIOUS
<1>1. Daemons = {} /\ \A c \in Commands : cmd[c].at = "idle"
  BY IdleCommand DEF Init, Daemons, Free
<1>2. EmptyIsOpen
  BY DEF Init, EmptyIsOpen, NoFile, NoPid
<1>3. QED
  BY <1>1, <1>2 DEF Single, OneDaemon, Listed, GoneBeforeFile, ForksFirst

LEMMA SingleFewer ==
  ASSUME Types, Types', Single, UNCHANGED <<pidFile, cmd>>, Daemons' \subseteq Daemons
  PROVE  Single'
<1>1. \A c \in Commands : Here(c)' = Here(c) /\ Starter(c)' = Starter(c) /\ Listing(c)' = Listing(c)
  BY DEF Here, Place, Starter, Listing
<1>2. QED
  BY <1>1 DEF Single, OneDaemon, Listed, EmptyIsOpen, GoneBeforeFile, ForksFirst

\* A command goes on that is no starter, or ends before it has forked its daemon.
LEMMA SingleQuiet ==
  ASSUME Types, Types', Single, UNCHANGED <<proc, pidFile>>,
         NEW c \in Commands, NEW r \in Command, Becomes(c, r),
         ~Listing(c), r.at \in {"idle", "find", "kill", "fork"}
  PROVE  Single'
<1>1. /\ cmd'[c] = r
      /\ \A b \in Commands \ {c} :
           /\ cmd'[b] = cmd[b] /\ Here(b)' = Here(b)
           /\ Starter(b)' = Starter(b) /\ Listing(b)' = Listing(b)
  BY OthersStay
<1>2. Daemons' = Daemons
  BY DEF Daemons
<1>3. \A b \in Commands : Starter(b)' => b # c /\ Starter(b)
  BY <1>1 DEF Starter
<1>4. OneDaemon' /\ Listed'
  BY <1>1, <1>2 DEF Single, OneDaemon, Listed
<1>5. EmptyIsOpen'
  BY <1>1 DEF Single, EmptyIsOpen, Listing
<1>6. GoneBeforeFile'
  BY <1>1, <1>2 DEF Single, GoneBeforeFile
<1>7. ForksFirst'
  BY <1>1, <1>2, <1>3 DEF Single, ForksFirst
<1>8. QED
  BY <1>4, <1>5, <1>6, <1>7 DEF Single

LEMMA SingleKill ==
  ASSUME Types, Types', InOrder, Single, NEW c \in Commands, Kill(c)
  PROVE  Single'
<1>1. /\ cmd[c].at = "kill" /\ UNCHANGED pidFile
      /\ \E r \in Command : Becomes(c, r) /\ r.at \in {"idle", "unlink"}
  BY KillEffect
<1>2. PICK r \in Command : Becomes(c, r) /\ r.at \in {"idle", "unlink"}
  BY <1>1
<1>3. /\ cmd'[c] = r
      /\ \A b \in Commands \ {c} :
           /\ cmd'[b] = cmd[b] /\ Here(b)' = Here(b)
           /\ Starter(b)' = Starter(b) /\ Listing(b)' = Listing(b)
  BY <1>2, OthersStay
<1>4. cmd[c].pid \in Daemons
  BY <1>1 DEF InOrder, KillsNamed
<1>5. Daemons' \subseteq Daemons
  BY DEF Kill, Daemons, Types, TypeOK, Proc
<1>6. OneDaemon' /\ Listed' /\ EmptyIsOpen'
  BY <1>1, <1>2, <1>3, <1>5 DEF Single, OneDaemon, Listed, EmptyIsOpen, Listing
<1>7. ASSUME NEW b \in Commands, cmd'[b].at = "unlink" PROVE Daemons' = {}
  <2>1. b = c
    BY <1>1, <1>3, <1>7 DEF InOrder, OneWaited, Waited
  <2>2. proc'[cmd[c].pid].kind # "daemon"
    BY <1>4, <1>7, <2>1, IdleCommand DEF Kill, End, Becomes, Daemons, Types, TypeOK, Proc
  <2>3. QED
    BY <1>4, <1>5, <2>2 DEF Single, OneDaemon, Daemons
<1>8. \A b \in Commands : cmd'[b].at # "refork"
  BY <1>2, <1>3, <1>4 DEF Single, ForksFirst
<1>9. QED
  BY <1>6, <1>7, <1>8 DEF Single, GoneBeforeFile, ForksFirst

LEMMA SingleUnlink ==
  ASSUME Types, Types', InOrder, Single, NEW c \in Commands, Unlink(c)
  PROVE  Single'
<1> DEFINE h == Here(c)
           w == h \in Writable(cmd[c].user)
<1>1. /\ cmd[c].at = "unlink" /\ UNCHANGED proc
      /\ pidFile' = IF w THEN [pidFile EXCEPT ![h] = NoFile] ELSE pidFile
      /\ cmd'[c].at \in {"fork", "idle"}
      /\ \A b \in Commands \ {c} :
           /\ cmd'[b].at = cmd[b].at /\ cmd'[b].pid = cmd[b].pid /\ cmd'[b].cwd = cmd[b].cwd
           /\ cmd'[b].dir = IF w /\ cmd[b].at = "put" /\ Here(b) = h THEN 0 ELSE cmd[b].dir
  BY UnlinkEffect
<1>2. Daemons' = Daemons /\ Daemons = {}
  BY <1>1 DEF Daemons, Single, GoneBeforeFile
<1>3. ASSUME NEW d \in Places, pidFile'[d] = NoPid
      PROVE  \E b \in Commands : cmd'[b].at = "put" /\ Here(b)' = d
  <2>1. pidFile[d] = NoPid /\ ~(w /\ d = h)
    BY <1>1, <1>3 DEF Types, TypeOK, NoFile, NoPid
  <2>2. PICK b \in Commands : cmd[b].at = "put" /\ Here(b) = d
    BY <2>1 DEF Single, EmptyIsOpen
  <2>3. b # c /\ cmd'[b].at = "put" /\ Here(b)' = Here(b)
    BY <1>1, <2>1, <2>2 DEF Here, Place
  <2>4. QED
    BY <2>2, <2>3
<1>4. \A b \in Commands : cmd'[b].at # "refork"
  BY <1>1 DEF Single, ForksFirst
<1>5. \A b \in Commands : cmd'[b].at = "unlink" => cmd[b].at = "unlink"
  BY <1>1
<1>6. QED
  BY <1>2, <1>3, <1>4, <1>5 DEF Single, OneDaemon, Listed, EmptyIsOpen, GoneBeforeFile, ForksFirst

LEMMA SingleFork ==
  ASSUME Types, Types', InOrder, Single, trouble' = "none", NEW c \in Commands, Fork(c)
  PROVE  Single'
<1>1. cmd[c].at = "fork" /\ UNCHANGED <<proc, pidFile>>
  BY ForkEffect
<1>2. PICK r \in Command :
        /\ Becomes(c, r)
        /\ \/ r.at = "idle"
           \/ r.at = "refork" /\ Daemons = {} /\ \A d \in Commands : ~Starter(d)
  BY ForkEffect DEF Unlisted
<1>3. CASE r.at = "idle"
  BY <1>1, <1>2, <1>3, SingleQuiet DEF Listing
<1>4. CASE r.at = "refork"
  <2>1. /\ cmd'[c] = r
        /\ \A b \in Commands \ {c} :
             /\ cmd'[b] = cmd[b] /\ Starter(b)' = Starter(b) /\ Listing(b)' = Listing(b)
    BY <1>2, OthersStay
  <2>2. Daemons' = {}
    BY <1>1, <1>2, <1>4 DEF Daemons
  <2>3. \A b \in Commands : cmd[b].at # "unlink" /\ ~Starter(b)
    BY <1>1, <1>2, <1>4 DEF InOrder, OneWaited, Waited
  <2>4. \A d \in Places : pidFile[d] = NoFile
    <3> SUFFICES ASSUME NEW d \in Places PROVE pidFile[d] \notin Pids /\ pidFile[d] # NoPid
      BY DEF Types, TypeOK
    <3>1. ~Stale(d)
      BY <2>3 DEF Stale
    <3>2. pidFile[d] \notin Pids
      BY <1>2, <1>4, <3>1 DEF InOrder, FilesNameDaemons
    <3>3. QED
      BY <2>3, <3>2 DEF Single, EmptyIsOpen, Starter
  <2>5. \A d \in Places : pidFile'[d] # NoPid
    BY <1>1, <2>4 DEF NoFile, NoPid
  <2>6. \A b \in Commands : cmd'[b].at # "unlink" /\ (Starter(b)' => b = c)
    BY <1>4, <2>1, <2>3
  <2>7. ForksFirst'
    BY <1>1, <2>2, <2>4, <2>6 DEF ForksFirst, Starter
  <2>8. QED
    BY <2>2, <2>5, <2>7 DEF Single, OneDaemon, Listed, EmptyIsOpen, GoneBeforeFile
<1>5. QED
  BY <1>2, <1>3, <1>4

LEMMA SingleRefork ==
  ASSUME Types, Types', InOrder, Single, NEW c \in Commands, Refork(c)
  PROVE  Single'
<1>1. cmd[c].at = "refork" /\ UNCHANGED <<pidFile, trouble>>
  BY ReforkEffect
<1>2. PICK r \in Command :
        /\ Becomes(c, r)
        /\ \/ r.at = "idle" /\ UNCHANGED proc
           \/ /\ r.at = "open" /\ r.pid \in Pids
              /\ proc' = [proc EXCEPT ![r.pid] = [kind |-> "daemon", owner |-> r.user]]
  BY ReforkEffect
<1>3. CASE r.at = "idle"
  BY <1>1, <1>2, <1>3, SingleQuiet DEF Listing
<1>4. CASE r.at = "open"
  <2>1. cmd'[c] = r /\ \A b \in Commands \ {c} : cmd'[b] = cmd[b]
    BY <1>2, OthersStay
  <2>2. /\ Daemons = {} /\ \A d \in Places : pidFile[d] = NoFile
        /\ \A b \in Commands : cmd[b].at # "unlink" /\ (Starter(b) => b = c)
    BY <1>1 DEF Single, ForksFirst
  <2>3. Daemons' = {r.pid}
    BY <1>2, <1>4, <2>2 DEF Daemons, Types, TypeOK
  <2>4. OneDaemon' /\ Listed'
    BY <1>4, <2>1, <2>3 DEF OneDaemon, Listed, Listing
  <2>5. EmptyIsOpen'
    BY <1>1, <2>2 DEF EmptyIsOpen, NoFile, NoPid
  <2>6. \A b \in Commands : cmd'[b].at \notin {"unlink", "refork"}
    BY <1>4, <2>1, <2>2 DEF Starter
  <2>7. QED
    BY <2>4, <2>5, <2>6 DEF Single, GoneBeforeFile, ForksFirst
<1>5. QED
  BY <1>2, <1>3, <1>4

LEMMA SingleOpen ==
  ASSUME Types, Types', InOrder, Single, trouble' = "none", NEW c \in Commands, OpenPid(c)
  PROVE  Single'
<1>1. cmd[c].at = "open" /\ cmd[c].pid \in Pids /\ UNCHANGED proc
  BY OpenEffect
<1>2. PICK r \in Command :
        /\ Becomes(c, r) /\ r.at = "put" /\ r.pid = cmd[c].pid
        /\ \E d \in Places : d = Here(c)' /\ pidFile' = [pidFile EXCEPT ![d] = NoPid]
  BY OpenEffect DEF Unlisted
<1>3. PICK d \in Places : d = Here(c)' /\ pidFile' = [pidFile EXCEPT ![d] = NoPid]
  BY <1>2
<1>4. cmd'[c] = r /\ \A b \in Commands \ {c} : cmd'[b] = cmd[b] /\ Here(b)' = Here(b)
  BY <1>2, OthersStay
<1>5. Daemons' = Daemons /\ Starter(c)
  BY <1>1 DEF Daemons, Starter
<1>6. \A p \in Daemons : p = cmd[c].pid
  BY <1>1 DEF Single, OneDaemon, InOrder, StartersOwnDaemon, Listing
<1>7. OneDaemon' /\ Listed'
  BY <1>2, <1>4, <1>5, <1>6 DEF Single, OneDaemon, Listed, Listing
<1>8. EmptyIsOpen'
  BY <1>1, <1>2, <1>3, <1>4 DEF Single, EmptyIsOpen, Types, TypeOK
<1>9. GoneBeforeFile' /\ ForksFirst'
  BY <1>1, <1>2, <1>4, <1>5 DEF Single, GoneBeforeFile, ForksFirst
<1>10. QED
  BY <1>7, <1>8, <1>9 DEF Single

LEMMA SinglePut ==
  ASSUME Types, Types', InOrder, Single, trouble' = "none", NEW c \in Commands, PutPid(c)
  PROVE  Single'
<1>1. /\ cmd[c].at = "put" /\ cmd[c].pid \in Pids /\ UNCHANGED proc
      /\ Here(c) \in Places /\ pidFile' = [pidFile EXCEPT ![Here(c)] = cmd[c].pid]
  BY PutEffect DEF Unlisted
<1>2. cmd'[c].at = "idle" /\ \A b \in Commands \ {c} : cmd'[b] = cmd[b] /\ Here(b)' = Here(b)
  BY PutEffect, OthersStay, IdleCommand
<1>3. Daemons' = Daemons /\ Starter(c)
  BY <1>1 DEF Daemons, Starter
<1>4. \A p \in Daemons : p = cmd[c].pid
  BY <1>1 DEF Single, OneDaemon, InOrder, StartersOwnDaemon, Listing
<1>5. OneDaemon' /\ Listed'
  BY <1>1, <1>3, <1>4 DEF Single, OneDaemon, Listed, Types, TypeOK
<1>6. EmptyIsOpen'
  <2>1. \A d \in Places : pidFile'[d] = NoPid => pidFile[d] = NoPid /\ d # Here(c)
    BY <1>1, DaemonAssumption DEF Types, TypeOK
  <2>2. QED
    BY <1>2, <2>1 DEF Single, EmptyIsOpen
<1>7. GoneBeforeFile' /\ ForksFirst'
  BY <1>1, <1>2, <1>3 DEF Single, GoneBeforeFile, ForksFirst
<1>8. QED
  BY <1>5, <1>6, <1>7 DEF Single

LEMMA SingleStep ==
  ASSUME Types, Types', InOrder, trouble = "none" => Single, [Next]_vars, trouble' = "none"
  PROVE  Single'
<1>0. trouble = "none" /\ Single
  BY BeginEffect, LookEffect, KillEffect, UnlinkEffect, ForkEffect, ReforkEffect, OpenEffect,
     PutEffect
     DEF Next, vars, Terminated, Dies, OtherProgram, Console, Reboot, Unlisted, Types, TypeOK
<1>1. ASSUME NEW p \in Pids, Terminated(p) \/ Dies(p) \/ OtherProgram(p) PROVE Single'
  <2>1. Daemons' \subseteq Daemons /\ UNCHANGED <<pidFile, cmd>>
    BY <1>1 DEF Terminated, Dies, OtherProgram, Daemons, Free, Types, TypeOK, Proc
  <2>2. QED
    BY <1>0, <2>1, SingleFewer
<1>2. ASSUME NEW u \in Users, Console(u) PROVE Single'
  <2>1. Daemons' \subseteq Daemons /\ UNCHANGED <<pidFile, cmd>>
    BY <1>2 DEF Console, Daemons, Types, TypeOK, Proc
  <2>2. QED
    BY <1>0, <2>1, SingleFewer
<1>3. CASE UNCHANGED vars
  BY <1>0, <1>3, SingleFewer DEF vars, Daemons
<1>4. ASSUME NEW c \in Commands, NEW u \in Users, NEW w \in Cwds,
             NEW what \in {"start", "stop", "restart"}, Begin(c, u, w, what)
      PROVE  Single'
  BY <1>0, <1>4, BeginEffect, SingleQuiet DEF Listing
<1>5. ASSUME NEW c \in Commands, Look(c) PROVE Single'
  BY <1>0, <1>5, LookEffect, SingleQuiet DEF Listing
<1>6. QED
  BY <1>0, <1>1, <1>2, <1>3, <1>4, <1>5, SingleKill, SingleUnlink, SingleFork, SingleRefork,
     SingleOpen, SinglePut DEF Next, Reboot

-----------------------------------------------------------------------------
(* Theorems *)

LEMMA IInvInit == Init => IInv
  BY TypesInit, InOrderInit, SingleInit DEF IInv

LEMMA IInvStep == IInv /\ [Next]_vars => IInv'
<1> SUFFICES ASSUME IInv, [Next]_vars PROVE IInv' OBVIOUS
<1>1. Types /\ Types'
  BY TypesStep DEF IInv
<1>2. trouble' # "stray" => InOrder'
  BY <1>1, InOrderStep DEF IInv
<1>3. trouble' = "none" => InOrder
  BY <1>1, StrayStays DEF IInv
<1>4. trouble' = "none" => Single'
  BY <1>1, <1>3, SingleStep DEF IInv
<1>5. QED
  BY <1>1, <1>2, <1>4 DEF IInv

LEMMA InvariantHolds == Spec => []IInv
  BY IInvInit, IInvStep, PTL DEF Spec

(***************************************************************************)
(* With any number of directories, users, processes and commands: as long  *)
(* as nothing is troubled there is at most one daemon, and between         *)
(* commands one file has its process id and there is no other.             *)
(***************************************************************************)
THEOREM DaemonListed == Spec => []OneDaemonListed
<1>1. ASSUME IInv PROVE OneDaemonListed
  <2> SUFFICES ASSUME trouble = "none"
               PROVE  /\ \A p, q \in Daemons : p = q
                      /\ (\A c \in Commands : cmd[c].at = "idle") =>
                           /\ \A d \in Places : pidFile[d] # NoFile => pidFile[d] \in Daemons
                           /\ \A p \in Daemons : \E d \in Places :
                                pidFile[d] = p /\ \A e \in Places \ {d} : pidFile[e] # p
    BY DEF OneDaemonListed
  <2>1. Types /\ InOrder /\ Single
    BY <1>1 DEF IInv
  <2>2. \A p, q \in Daemons : p = q
    BY <2>1 DEF Single, OneDaemon
  <2>3. (\A c \in Commands : cmd[c].at = "idle") => \A d : ~Stale(d)
    BY DEF Stale
  <2>4. ASSUME \A c \in Commands : cmd[c].at = "idle", NEW d \in Places, pidFile[d] # NoFile
        PROVE  pidFile[d] \in Daemons
    <3>1. pidFile[d] \in Pids
      BY <2>1, <2>4 DEF Types, TypeOK, Single, EmptyIsOpen
    <3>2. QED
      BY <2>1, <2>3, <2>4, <3>1 DEF InOrder, FilesNameDaemons
  <2>5. ASSUME \A c \in Commands : cmd[c].at = "idle", NEW p \in Daemons
        PROVE  \E d \in Places : pidFile[d] = p /\ \A e \in Places \ {d} : pidFile[e] # p
    <3>1. PICK d \in Places : pidFile[d] = p
      BY <2>1, <2>5 DEF Single, Listed, Listing
    <3>2. QED
      BY <2>1, <2>3, <2>5, <3>1 DEF InOrder, NamedOnce, Daemons
  <2>6. QED
    BY <2>2, <2>4, <2>5
<1>2. QED
  BY <1>1, InvariantHolds, PTL

(***************************************************************************)
(* Without stray commands no process but a daemon gets a SIGTERM, even if  *)
(* several daemons run and files are missing or empty: a command kills the *)
(* process id of a file before it can belong to another process.           *)
(***************************************************************************)
THEOREM OnlyDaemonsKilled == Spec => KillsOnlyDaemons
<1> DEFINE Spared == trouble # "stray" =>
             \A p \in Pids \ Daemons : proc'[p].kind = "dying" => proc[p].kind = "dying"
<1>1. ASSUME IInv, [Next]_vars, trouble # "stray", NEW p \in Pids \ Daemons,
             proc'[p].kind = "dying", proc[p].kind # "dying"
      PROVE  FALSE
  <2>1. Types /\ InOrder
    BY <1>1 DEF IInv
  <2>2. PICK c \in Commands : Kill(c)
    <3>1. ASSUME NEW q \in Pids, Terminated(q) \/ Dies(q) \/ OtherProgram(q) PROVE FALSE
      BY <1>1, <2>1, <3>1 DEF Terminated, Dies, OtherProgram, Free, Types, TypeOK, Proc
    <3>2. ASSUME NEW u \in Users, Console(u) PROVE FALSE
      BY <1>1, <2>1, <3>2 DEF Console, Types, TypeOK
    <3>3. ASSUME NEW c \in Commands, Refork(c) PROVE FALSE
      <4>1. PICK q, u :
              \/ UNCHANGED proc
              \/ q \in Pids /\ proc' = [proc EXCEPT ![q] = [kind |-> "daemon", owner |-> u]]
        BY <2>1, <3>3 DEF Refork
      <4>2. QED
        BY <1>1, <2>1, <4>1 DEF Types, TypeOK
    <3>4. ~Reboot
      BY <1>1 DEF Reboot, Free
    <3>5. UNCHANGED proc => FALSE
      BY <1>1
    <3>6. QED
      BY <1>1, <3>1, <3>2, <3>3, <3>4, <3>5
         DEF Next, vars, Begin, Look, Unlink, Fork, OpenPid, PutPid
  <2>3. cmd[c].pid \in Daemons
    BY <2>1, <2>2 DEF Kill, InOrder, KillsNamed
  <2>4. proc'[p] = proc[p]
    BY <1>1, <2>1, <2>2, <2>3 DEF Kill, Types, TypeOK
  <2>5. QED
    BY <1>1, <2>4
<1>2. IInv /\ [Next]_vars => Spared
  BY <1>1
<1>3. Spared => [Spared]_vars
  OBVIOUS
<1>4. QED
  BY <1>2, InvariantHolds, PTL DEF Spec, KillsOnlyDaemons

(***************************************************************************)
(* A stop that finds no daemon has missed at most one in the "~" of        *)
(* another working directory, as long as nothing is troubled and no -start *)
(* was under way when it began.                                            *)
(***************************************************************************)
THEOREM NotStartedTrue == Spec => NotStartedIsTrue
<1> DEFINE Right == \A c \in Commands :
             cmd[c].at = "find" /\ cmd'[c].at = "idle" /\ ~cmd[c].early /\ trouble' = "none"
               => \A p \in Daemons : \E w \in Cwds \ {cmd[c].cwd} : pidFile[w] = p
<1>1. ASSUME IInv, [Next]_vars, NEW c \in Commands,
             cmd[c].at = "find", cmd'[c].at = "idle", ~cmd[c].early, trouble' = "none",
             NEW p \in Daemons
      PROVE  \E w \in Cwds \ {cmd[c].cwd} : pidFile[w] = p
  <2>1. Types /\ InOrder
    BY <1>1, StrayStays DEF IInv
  <2>2. trouble = "none" => Single
    BY <1>1 DEF IInv
  <2>3. Look(c) /\ trouble = "none"
    <3>1. ASSUME NEW b \in Commands,
                 \/ Kill(b) \/ Unlink(b) \/ Fork(b) \/ Refork(b) \/ OpenPid(b) \/ PutPid(b)
                 \/ (Look(b) /\ b # c)
                 \/ (\E u \in Users, w \in Cwds, what \in {"start", "stop", "restart"} :
                       Begin(b, u, w, what))
          PROVE  FALSE
      <4>1. b # c
        BY <1>1, <3>1 DEF Kill, Unlink, Fork, Refork, OpenPid, PutPid, Begin
      <4>2. CASE Kill(b) \/ Fork(b) \/ Refork(b) \/ OpenPid(b) \/ PutPid(b)
        <5>1. \E r : Becomes(b, r)
          BY <2>1, <4>2, KillEffect, ForkEffect, ReforkEffect, OpenEffect, PutEffect
        <5>2. QED
          BY <1>1, <2>1, <4>1, <5>1, OthersStay
      <4>3. CASE Look(b)
        BY <1>1, <2>1, <4>1, <4>3, LookEffect, OthersStay
      <4>4. CASE Unlink(b)
        BY <1>1, <2>1, <4>1, <4>4, UnlinkEffect
      <4>5. CASE \E u \in Users, w \in Cwds, what \in {"start", "stop", "restart"} :
                   Begin(b, u, w, what)
        BY <1>1, <2>1, <4>1, <4>5, BeginEffect, OthersStay
      <4>6. QED
        BY <3>1, <4>2, <4>3, <4>4, <4>5
    <3>2. UNCHANGED cmd => FALSE
      BY <1>1
    <3>3. Look(c)
      BY <1>1, <3>1, <3>2 DEF Next, vars, Terminated, Dies, OtherProgram, Console, Reboot
    <3>4. QED
      BY <1>1, <3>3 DEF Look
  <2>4. cmd[c].dir = Dirs /\ pidFile[Place(c, Dirs + 1)] \notin Pids
    BY <1>1, <2>1, <2>3, LookEffect, OthersStay
  <2>5. /\ \A b \in Commands : ~Starter(b)
        /\ \A i \in 1 .. Dirs : pidFile[Place(c, i)] \notin Pids
    BY <1>1, <2>1, <2>4 DEF InOrder, LookedAtAll
  <2>6. pidFile[cmd[c].cwd] \notin Pids /\ \A d \in 1 .. Dirs : pidFile[d] \notin Pids
    BY <2>4, <2>5, DaemonAssumption DEF Place
  <2>7. PICK d \in Places : pidFile[d] = p
    BY <2>2, <2>3, <2>5 DEF Single, Listed, Listing, Starter
  <2>8. QED
    BY <2>6, <2>7 DEF Places, Daemons
<1>2. IInv /\ [Next]_vars => Right
  BY <1>1
<1>3. QED
  BY <1>2, InvariantHolds, PTL DEF Spec, NotStartedIsTrue

-----------------------------------------------------------------------------
(***************************************************************************)
(* The service under Windows (WinService).  What the SCM has been told     *)
(* says how far ServiceMain is, and the flag is only set once the SCM has  *)
(* been told of the stop: so nothing reports an earlier state.             *)
(***************************************************************************)
VARIABLES entry, state, main, handler, m_bServiceStop, remover, leaving, lost

Win == INSTANCE WinService

Told ==
  /\ state = "stopped" <=> main = "none"
  /\ state = "start_pending" <=> main \in {"register", "report", "returned"}
  /\ main \in {"close", "report stopped"} => state = "stop_pending" /\ handler = "none"
  /\ handler = "called" => state = "running"
  /\ handler = "told" => state = "stop_pending" /\ m_bServiceStop = FALSE
  /\ state \in {"start_pending", "running"} => m_bServiceStop = FALSE

ServiceInv == Win!TypeOK /\ Told

LEMMA ServiceInvInit == Win!Init => ServiceInv
BY DEF Win!Init, ServiceInv, Win!TypeOK, Told

LEMMA ServiceInvStep == ServiceInv /\ [Win!Next]_(Win!vars) => ServiceInv'
<1> SUFFICES ASSUME ServiceInv, [Win!Next]_(Win!vars) PROVE ServiceInv'
  OBVIOUS
<1> USE DEF ServiceInv, Win!TypeOK, Told
<1>1. CASE Win!Install \/ Win!Start
  BY <1>1 DEF Win!Install, Win!Start, Win!Launch, Win!service
<1>2. CASE Win!Control \/ Win!Remove
  BY <1>2 DEF Win!Control, Win!Remove, Win!Sent
<1>3. CASE Win!Delete \/ Win!Deleted \/ Win!Gone \/ UNCHANGED Win!vars
  BY <1>3 DEF Win!Delete, Win!Deleted, Win!Gone, Win!service, Win!vars
<1>4. CASE Win!Handle
  BY <1>4 DEF Win!Handle
<1>5. CASE Win!Register \/ Win!Report \/ Win!Begin \/ Win!Open
  BY <1>5 DEF Win!Register, Win!Report, Win!Begin, Win!Open, Win!Step, Win!Elsewhere
<1>6. CASE Win!Leave
  <2>1. m_bServiceStop # FALSE
    BY <1>6 DEF Win!Leave
  <2>2. state = "stop_pending" /\ handler = "none"
    BY <1>6, <2>1 DEF Win!Leave, Win!Step
  <2>3. QED
    BY <1>6, <2>2 DEF Win!Leave, Win!Step, Win!Elsewhere
<1>7. CASE Win!Close \/ Win!ReportStopped
  BY <1>7 DEF Win!Close, Win!ReportStopped, Win!Step, Win!Elsewhere
<1>8. CASE Win!Die
  BY <1>8 DEF Win!Die
<1>9. QED
  BY <1>1, <1>2, <1>3, <1>4, <1>5, <1>6, <1>7, <1>8 DEF Win!Next, Win!ServiceThread

LEMMA ServiceInvHolds == Win!Spec => []ServiceInv
  BY ServiceInvInit, ServiceInvStep, PTL DEF Win!Spec

(***************************************************************************)
(* The two threads of the service, its users and the SCM keep the types.   *)
(***************************************************************************)
THEOREM ServiceTypes == Win!Spec => []Win!TypeOK
<1>1. ServiceInv => Win!TypeOK
  BY DEF ServiceInv
<1>2. QED
  BY <1>1, ServiceInvHolds, PTL

(***************************************************************************)
(* What the SCM is told never goes back, whichever thread tells it and     *)
(* whenever the process dies.                                              *)
(***************************************************************************)
THEOREM StatusForward == Win!Spec => Win!StatusGoesForward
<1>1. ASSUME ServiceInv, [Win!Next]_(Win!vars)
      PROVE  /\ state = "running" => state' # "start_pending"
             /\ state = "stop_pending" => state' \in {"stop_pending", "stopped"}
             /\ state = "stopped" => state' \in {"stopped", "start_pending"} /\ main = "none"
  <2> USE <1>1 DEF ServiceInv, Win!TypeOK, Told
  <2>1. CASE Win!Install \/ Win!Start \/ Win!Control \/ Win!Remove \/ Win!Delete \/ Win!Deleted
    BY <2>1 DEF Win!Install, Win!Start, Win!Launch, Win!service, Win!Control, Win!Remove, Win!Sent,
       Win!Delete, Win!Deleted
  <2>2. CASE Win!Handle \/ Win!Gone \/ Win!Die \/ UNCHANGED Win!vars
    BY <2>2 DEF Win!Handle, Win!Gone, Win!Die, Win!service, Win!vars
  <2>3. CASE Win!ServiceThread
    BY <2>3 DEF Win!ServiceThread, Win!Register, Win!Report, Win!Begin, Win!Open, Win!Leave, Win!Close,
       Win!ReportStopped, Win!Step, Win!Elsewhere
  <2>4. QED
    BY <2>1, <2>2, <2>3 DEF Win!Next
<1>2. QED
  BY <1>1, ServiceInvHolds, PTL DEF Win!Spec, Win!StatusGoesForward
=============================================================================
