------------------------------- MODULE Daemon -------------------------------
(***************************************************************************)
(* The daemon under Linux: the commands -start, -stop, -restart and        *)
(* -console of Service.cpp, which find each other only through a file with *)
(* the daemon's process id.                                                *)
(*                                                                         *)
(* A -start returns as soon as it has forked.  Its child forks the daemon  *)
(* and writes the file, so a command is a process of its own that may be   *)
(* under way while the next one begins.  Process ids are used again, also  *)
(* by processes that have nothing to do with the daemon.                   *)
(*                                                                         *)
(* The last entry of m_runDirs is "~", which nothing expands: it is a      *)
(* subdirectory of the directory a command is given in, and so a different *)
(* one for commands given elsewhere.                                       *)
(***************************************************************************)
EXTENDS Integers

CONSTANTS
  Pids,      \* process ids
  Commands,  \* the commands that can be under way at once
  Dirs,      \* the number of directories in m_runDirs before "~"
  Cwds,      \* the working directories commands are given in
  Writers,   \* who can write the "~" of each of them: nobody, if there is none
  Users, Root

NoFile == "no file"
NoPid == "empty"

ASSUME DaemonAssumption ==
  /\ Dirs \in Nat /\ NoFile \notin Pids /\ NoPid \notin Pids
  /\ Cwds # {} /\ \A i \in 0 .. Dirs : i \notin Cwds
  /\ Root \in Users /\ Writers \in [Cwds -> SUBSET Users]
  /\ \A w \in Cwds : Writers[w] # {} => Root \in Writers[w]

Places == 1 .. Dirs \cup Cwds  \* of a file: a directory, or the "~" below one

VARIABLES
  proc,     \* what runs under each process id
  pidFile,  \* the file in each place: its process id, NoFile or NoPid
  cmd,      \* where each command is
  trouble   \* history: "none", or "unlisted": a daemon that no file names, or a
            \* second one, or "stray": commands overlapped or a daemon died without one

vars == <<proc, pidFile, cmd, trouble>>

Proc == [kind : {"free", "daemon", "console", "dying", "foreign"}, owner : Users]
Command == [at : {"idle", "find", "kill", "unlink", "fork", "refork", "open", "put"},
            user : Users, cwd : Cwds, restart : BOOLEAN,
            dir : 0 .. Dirs + 1,  \* how far it is in m_runDirs
            pid : Pids \cup {NoPid},
            early : BOOLEAN]      \* history: it began while a -start was not done yet

Free == [kind |-> "free", owner |-> Root]
Idle == [at |-> "idle", user |-> Root, cwd |-> CHOOSE w \in Cwds : TRUE, restart |-> FALSE,
         dir |-> 0, pid |-> NoPid, early |-> FALSE]

Init ==
  /\ proc = [p \in Pids |-> Free]
  /\ pidFile = [d \in Places |-> NoFile]
  /\ cmd = [c \in Commands |-> Idle]
  /\ trouble = "none"

-----------------------------------------------------------------------------
(* Processes *)

\* Where a user can write, access(R_OK | W_OK): the directories of the system are root's.
Writable(u) == {d \in Places : IF d \in Cwds THEN u \in Writers[d] ELSE u = Root}

MayKill(u, p) == u = Root \/ proc[p].owner = u

Daemons == {p \in Pids : proc[p].kind = "daemon"}

\* A command that has not returned yet, and one that goes on after it has.
Waited(c) == cmd[c].at \in {"find", "kill", "unlink", "fork"}
Starter(c) == cmd[c].at \in {"refork", "open", "put"}

\* The i-th entry of m_runDirs as a command sees it, and the place it is at (0: at none).
Place(c, i) == IF i <= Dirs THEN i ELSE cmd[c].cwd
Here(c) == Place(c, cmd[c].dir)

Becomes(c, r) == cmd' = [cmd EXCEPT ![c] = r]
End(c) == Becomes(c, Idle)

\* SIGTERM takes effect; nothing handles it.
Terminated(p) ==
  /\ proc[p].kind = "dying"
  /\ proc' = [proc EXCEPT ![p] = Free]
  /\ UNCHANGED <<pidFile, cmd, trouble>>

\* An exception of Open, a crash, Ctrl-C: main ends and leaves the file.
Dies(p) ==
  /\ proc[p].kind \in {"daemon", "console"}
  /\ proc' = [proc EXCEPT ![p] = Free]
  /\ trouble' = IF p \in Daemons THEN "stray" ELSE trouble
  /\ UNCHANGED <<pidFile, cmd>>

\* Other programs come and go.
OtherProgram(p) ==
  /\ \/ proc[p].kind = "free" /\ proc' = [proc EXCEPT ![p].kind = "foreign"]
     \/ proc[p].kind = "foreign" /\ proc' = [proc EXCEPT ![p] = Free]
  /\ UNCHANGED <<pidFile, cmd, trouble>>

\* The machine goes down; files stay.
Reboot ==
  /\ \E p \in Pids : proc[p].kind # "free"
  /\ proc' = [p \in Pids |-> Free]
  /\ cmd' = [c \in Commands |-> Idle]
  /\ trouble' = "stray"
  /\ UNCHANGED pidFile

-----------------------------------------------------------------------------
(* Commands *)

\* Start: the dispatch; -start forks at once, -stop and -restart look for the daemon.
Begin(c, u, w, what) ==
  /\ cmd[c].at = "idle"
  /\ Becomes(c, [Idle EXCEPT !.at = IF what = "start" THEN "fork" ELSE "find", !.user = u, !.cwd = w,
                             !.restart = what = "restart", !.early = \E d \in Commands : Starter(d)])
  /\ trouble' = IF \A d \in Commands : ~Waited(d) THEN trouble ELSE "stray"
  /\ UNCHANGED <<proc, pidFile>>

\* -console, or no option at all: the daemon on the console, without a file.
Console(u) ==
  /\ \E p \in Pids :
       proc[p].kind = "free" /\ proc' = [proc EXCEPT ![p] = [kind |-> "console", owner |-> u]]
  /\ UNCHANGED <<pidFile, cmd, trouble>>

Unlisted == trouble' = IF trouble = "stray" THEN "stray" ELSE "unlisted"

\* mutated Look
LookAtAnyFile(c) ==
  /\ cmd[c].at = "find"
  /\ LET i == cmd[c].dir + 1  d == Place(c, i)
     IN IF pidFile[d] # NoFile
          THEN Becomes(c, [cmd[c] EXCEPT !.at = "kill", !.dir = i, !.pid = pidFile[d], !.early = FALSE])
          ELSE IF i <= Dirs THEN Becomes(c, [cmd[c] EXCEPT !.dir = i]) ELSE End(c)
  /\ UNCHANGED <<proc, pidFile, trouble>>

\* mutated Look
LookInFirst(c) ==
  /\ cmd[c].at = "find"
  /\ IF pidFile[1] \in Pids
       THEN Becomes(c, [cmd[c] EXCEPT !.at = "kill", !.dir = 1, !.pid = pidFile[1], !.early = FALSE])
       ELSE End(c)
  /\ UNCHANGED <<proc, pidFile, trouble>>

\* FindPid, one directory; without a process id in any "Daemon is not started".
Look(c) ==
  /\ cmd[c].at = "find"
  /\ LET i == cmd[c].dir + 1  d == Place(c, i)
     IN IF pidFile[d] \in Pids
          THEN Becomes(c, [cmd[c] EXCEPT !.at = "kill", !.dir = i, !.pid = pidFile[d], !.early = FALSE])
          ELSE IF i <= Dirs THEN Becomes(c, [cmd[c] EXCEPT !.dir = i]) ELSE End(c)
  /\ UNCHANGED <<proc, pidFile, trouble>>

\* CmdStop: kill; a process that is gone is no error, one of another user is.
Kill(c) ==
  /\ cmd[c].at = "kill"
  /\ LET p == cmd[c].pid
     IN \/ proc[p].kind = "free" /\ Becomes(c, [cmd[c] EXCEPT !.at = "unlink", !.pid = NoPid]) /\ UNCHANGED proc
        \/ /\ proc[p].kind # "free" /\ MayKill(cmd[c].user, p)
           /\ proc' = [proc EXCEPT ![p].kind = "dying"]
           /\ Becomes(c, [cmd[c] EXCEPT !.at = "unlink", !.pid = NoPid])
        \/ proc[p].kind # "free" /\ ~MayKill(cmd[c].user, p) /\ End(c) /\ UNCHANGED proc
  /\ UNCHANGED <<pidFile, trouble>>

\* What follows the file: CmdRestart goes on to CmdStart, and does not wait.
Unlinked(c) == IF cmd[c].restart THEN [cmd[c] EXCEPT !.at = "fork"] ELSE Idle

\* mutated Unlink
UnlinkNothing(c) ==
  /\ cmd[c].at = "unlink"
  /\ Becomes(c, Unlinked(c))
  /\ UNCHANGED <<proc, pidFile, trouble>>

\* The end of CmdStop.  A file that a starter has open loses its name (dir is 0).
Unlink(c) ==
  /\ cmd[c].at = "unlink"
  /\ \/ /\ Here(c) \in Writable(cmd[c].user)
        /\ pidFile' = [pidFile EXCEPT ![Here(c)] = NoFile]
        /\ cmd' = [d \in Commands |->
                     IF d = c THEN Unlinked(c)
                     ELSE IF cmd[d].at = "put" /\ Here(d) = Here(c) THEN [cmd[d] EXCEPT !.dir = 0]
                     ELSE cmd[d]]
     \/ /\ Here(c) \notin Writable(cmd[c].user)
        /\ Becomes(c, Unlinked(c))
        /\ UNCHANGED pidFile
  /\ UNCHANGED <<proc, trouble>>

\* CmdStart: the command forks and returns, or cannot fork.  Unlisted, if a daemon runs
\* or is being started: this will be a second one.
Fork(c) ==
  /\ cmd[c].at = "fork"
  /\ \/ /\ Becomes(c, [cmd[c] EXCEPT !.at = "refork"])
        /\ IF Daemons = {} /\ \A d \in Commands : ~Starter(d) THEN UNCHANGED trouble ELSE Unlisted
     \/ End(c) /\ UNCHANGED trouble
  /\ UNCHANGED <<proc, pidFile>>

\* ... and its child forks the daemon, or cannot.
Refork(c) ==
  /\ cmd[c].at = "refork"
  /\ \/ \E p \in Pids :
          /\ proc[p].kind = "free"
          /\ proc' = [proc EXCEPT ![p] = [kind |-> "daemon", owner |-> cmd[c].user]]
          /\ Becomes(c, [cmd[c] EXCEPT !.at = "open", !.pid = p])
     \/ End(c) /\ UNCHANGED proc
  /\ UNCHANGED <<pidFile, trouble>>

\* SetPidFile: the first directory that can be written, unless FindPid has chosen one.
Chosen(c) ==
  IF cmd[c].dir # 0 THEN {cmd[c].dir}
  ELSE {i \in 1 .. Dirs + 1 : \A j \in 1 .. i - 1 : Place(c, j) \notin Writable(cmd[c].user)}

\* WritePid: the file is emptied, or cannot be opened, while the daemon runs.
OpenPid(c) ==
  /\ cmd[c].at = "open"
  /\ \/ \E i \in Chosen(c) :
          /\ Place(c, i) \in Writable(cmd[c].user)
          /\ pidFile' = [pidFile EXCEPT ![Place(c, i)] = NoPid]
          /\ Becomes(c, [cmd[c] EXCEPT !.at = "put", !.dir = i])
          /\ UNCHANGED trouble
     \/ End(c) /\ Unlisted /\ UNCHANGED pidFile
  /\ UNCHANGED proc

\* ... and written when it is closed, unless the disk is full.
PutPid(c) ==
  /\ cmd[c].at = "put"
  /\ End(c)
  /\ \/ /\ cmd[c].dir # 0
        /\ pidFile' = [pidFile EXCEPT ![Here(c)] = cmd[c].pid] /\ UNCHANGED trouble
     \/ Unlisted /\ UNCHANGED pidFile
  /\ UNCHANGED proc

Next ==
  \/ \E p \in Pids : Terminated(p) \/ Dies(p) \/ OtherProgram(p)
  \/ \E c \in Commands :
       \/ Look(c) \/ Kill(c) \/ Unlink(c) \/ Fork(c) \/ Refork(c) \/ OpenPid(c) \/ PutPid(c)
       \/ \E u \in Users, w \in Cwds, what \in {"start", "stop", "restart"} : Begin(c, u, w, what)
  \/ \E u \in Users : Console(u)
  \/ Reboot

Spec == Init /\ [][Next]_vars

-----------------------------------------------------------------------------
(* Properties *)

\* The values the variables can hold.
TypeOK ==
  /\ proc \in [Pids -> Proc]
  /\ pidFile \in [Places -> Pids \cup {NoFile, NoPid}]
  /\ cmd \in [Commands -> Command]
  /\ \A c \in Commands : cmd[c].at \in {"kill", "open", "put"} => cmd[c].pid \in Pids
  /\ trouble \in {"none", "unlisted", "stray"}

(***************************************************************************)
(* As long as one command at a time is given, no -start while a daemon     *)
(* runs or is being started, the file can be written and no daemon dies of *)
(* itself, there is at most one daemon, and between commands one file has  *)
(* its process id and there is no other: across users and working          *)
(* directories, whose files are in different places, and across restarts,  *)
(* where the old daemon may still be dying when the new one is listed.     *)
(***************************************************************************)
OneDaemonListed ==
  trouble = "none" =>
    /\ \A p, q \in Daemons : p = q
    /\ (\A c \in Commands : cmd[c].at = "idle") =>
         /\ \A d \in Places : pidFile[d] # NoFile => pidFile[d] \in Daemons
         /\ \A p \in Daemons : \E d \in Places :
              pidFile[d] = p /\ \A e \in Places \ {d} : pidFile[e] # p

(***************************************************************************)
(* A stop or restart sends its SIGTERM to a daemon and to no other         *)
(* program, which may have got the process id of a daemon that is gone,    *)
(* unless commands overlapped or a daemon died without one.  Here several  *)
(* daemons may run, and files may be missing or empty.                     *)
(***************************************************************************)
KillsOnlyDaemons ==
  [][trouble # "stray" =>
       \A p \in Pids \ Daemons : proc'[p].kind = "dying" => proc[p].kind = "dying"]_vars

(***************************************************************************)
(* If nothing is troubled, a stop that answers "Daemon is not started" has *)
(* missed at most a daemon whose file is in the "~" of another working     *)
(* directory than its own: the others it finds, whoever started them.      *)
(* That is if no -start was still being done when it began: that one has   *)
(* returned, but its daemon can be missed, even in a file written since.   *)
(***************************************************************************)
NotStartedIsTrue ==
  [][\A c \in Commands :
       cmd[c].at = "find" /\ cmd'[c].at = "idle" /\ ~cmd[c].early /\ trouble' = "none"
         => \A p \in Daemons : \E w \in Cwds \ {cmd[c].cwd} : pidFile[w] = p]_vars
=============================================================================
