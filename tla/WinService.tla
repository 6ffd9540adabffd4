----------------------------- MODULE WinService -----------------------------
(***************************************************************************)
(* The service under Windows: the thread of ServiceMain, which runs the    *)
(* loop of the daemon, and the thread of the dispatcher, which handles the *)
(* controls that the service control manager (SCM) sends, as somebody      *)
(* installs, starts, stops and removes the service.                        *)
(*                                                                         *)
(* The threads share m_bServiceStop, without a lock; the SCM sends a stop  *)
(* only to a service that it was told is running.  The other controls are  *)
(* not accepted (dwControlsAccepted), or do nothing.                       *)
(***************************************************************************)
EXTENDS Integers

VARIABLES
  entry,          \* the service in the database of the SCM
  state,          \* the state the SCM has been told
  main,           \* where ServiceMain is
  handler,        \* where ServiceCtrlHandler is
  m_bServiceStop,
  remover,        \* where a CmdRemove is
  leaving,        \* a process that has stopped still writes its caches
  lost            \* history: the loop began with a stop request forgotten

vars == <<entry, state, main, handler, m_bServiceStop, remover, leaving, lost>>
service == <<main, handler, m_bServiceStop, lost>>

Init ==
  /\ entry = "absent" /\ state = "stopped"
  /\ main = "none" /\ handler = "none" /\ m_bServiceStop = FALSE
  /\ remover = "none" /\ leaving = FALSE /\ lost = FALSE

-----------------------------------------------------------------------------
(* The service control manager and its users *)

\* A new process, the constructor of xPLDatabase, its dispatcher and ServiceMain.
Launch ==
  /\ state = "stopped" /\ state' = "start_pending"
  /\ main' = "register" /\ handler' = "none"
  /\ m_bServiceStop' = FALSE /\ lost' = FALSE

\* CmdInstall, with a StartService whose result nobody looks at.
Install ==
  /\ entry = "absent" /\ entry' = "installed"
  /\ Launch \/ UNCHANGED <<state, service>>
  /\ UNCHANGED <<remover, leaving>>

\* At boot, or by the user.
Start == entry = "installed" /\ Launch /\ UNCHANGED <<entry, remover, leaving>>

Sent == state = "running" /\ handler = "none" /\ handler' = "called"

\* A stop by the user or at shutdown.
Control == Sent /\ UNCHANGED <<entry, state, main, m_bServiceStop, remover, leaving, lost>>

\* CmdRemove: the stop is sent, or refused, and the service deleted in any case.
Remove ==
  /\ remover = "none" /\ entry # "absent" /\ remover' = "delete"
  /\ \/ Sent
     \/ state # "running" /\ UNCHANGED handler
  /\ UNCHANGED <<entry, state, main, m_bServiceStop, leaving, lost>>

\* DeleteService, after the handler has returned: it marks the service, ...
Delete ==
  /\ remover = "delete" /\ handler = "none"
  /\ remover' = "none" /\ entry' = "marked"
  /\ UNCHANGED <<state, service, leaving>>

\* ... which goes when it does not run any more.
Deleted ==
  /\ entry = "marked" /\ state = "stopped" /\ remover = "none"
  /\ entry' = "absent"
  /\ UNCHANGED <<state, service, remover, leaving>>

-----------------------------------------------------------------------------
(* ServiceCtrlHandler *)

\* mutated Handle
HandleStopFirst ==
  /\ \/ /\ handler = "called" /\ handler' = "told"
        /\ m_bServiceStop' = TRUE /\ UNCHANGED state
     \/ /\ handler = "told" /\ handler' = "none"
        /\ state' = "stop_pending" /\ UNCHANGED m_bServiceStop
  /\ UNCHANGED <<entry, main, remover, leaving, lost>>

\* SERVICE_CONTROL_STOP: the SCM is told, then ServiceStop sets the flag.
Handle ==
  /\ \/ /\ handler = "called" /\ handler' = "told"
        /\ state' = "stop_pending" /\ UNCHANGED m_bServiceStop
     \/ /\ handler = "told" /\ handler' = "none"
        /\ m_bServiceStop' = TRUE /\ UNCHANGED state
  /\ UNCHANGED <<entry, main, remover, leaving, lost>>

-----------------------------------------------------------------------------
(* ServiceMain and ServiceStart *)

Step(from, to) == main = from /\ main' = to

Elsewhere == UNCHANGED <<entry, handler, remover, leaving>>

\* RegisterServiceCtrlHandler and the first SetServiceStatus.  If one fails
\* ServiceMain returns, and the SCM waits for a service that never starts.
Register ==
  /\ Step("register", "report") \/ Step("register", "returned")
  /\ UNCHANGED <<state, m_bServiceStop, lost>> /\ Elsewhere

Report ==
  /\ \/ Step("report", "begin") /\ state' = "running"
     \/ Step("report", "returned") /\ UNCHANGED state
  /\ UNCHANGED <<m_bServiceStop, lost>> /\ Elsewhere

\* ServiceStart clears the flag, ...
Begin ==
  /\ Step("begin", "open")
  /\ m_bServiceStop' = FALSE /\ lost' = m_bServiceStop
  /\ UNCHANGED state /\ Elsewhere

\* mutated Open
OpenAndClear ==
  /\ Step("open", "loop")
  /\ m_bServiceStop' = FALSE
  /\ UNCHANGED <<state, lost>> /\ Elsewhere

\* ... opens the device, ...
Open == Step("open", "loop") /\ UNCHANGED <<state, m_bServiceStop, lost>> /\ Elsewhere

\* ... leaves the loop when it sees the flag, at the latest after a WaitRecv, ...
Leave ==
  /\ Step("loop", "close") /\ m_bServiceStop
  /\ UNCHANGED <<state, m_bServiceStop, lost>> /\ Elsewhere

\* ... and closes the device.
Close == Step("close", "report stopped") /\ UNCHANGED <<state, m_bServiceStop, lost>> /\ Elsewhere

\* The end of ServiceMain; the dispatcher returns to main, which ends.
ReportStopped ==
  /\ Step("report stopped", "none") /\ state' = "stopped" /\ leaving' = TRUE
  /\ UNCHANGED <<entry, handler, m_bServiceStop, remover, lost>>

\* The destructor of xPLDatabase, while the next process may run already.
Gone == leaving /\ leaving' = FALSE /\ UNCHANGED <<entry, state, service, remover>>

\* An exception that leaves ServiceMain, or a kill: the SCM sees the process end.
Die ==
  /\ main # "none" /\ main' = "none" /\ handler' = "none" /\ state' = "stopped"
  /\ UNCHANGED <<entry, m_bServiceStop, remover, leaving, lost>>

ServiceThread == Register \/ Report \/ Begin \/ Open \/ Leave \/ Close \/ ReportStopped

Next ==
  \/ Install \/ Start \/ Control \/ Remove \/ Delete \/ Deleted
  \/ Handle \/ ServiceThread \/ Gone \/ Die

Spec == Init /\ [][Next]_vars

\* Both threads run sooner or later.
FairSpec == Spec /\ WF_vars(Handle) /\ WF_vars(ServiceThread)

-----------------------------------------------------------------------------
(* Properties *)

\* The values the variables can hold.
TypeOK ==
  /\ entry \in {"absent", "installed", "marked"}
  /\ state \in {"start_pending", "running", "stop_pending", "stopped"}
  /\ main \in {"none", "register", "report", "begin", "open", "loop", "close", "report stopped", "returned"}
  /\ handler \in {"none", "called", "told"} /\ (handler # "none" => main # "none")
  /\ remover \in {"none", "delete"}
  /\ m_bServiceStop \in BOOLEAN /\ leaving \in BOOLEAN /\ lost \in BOOLEAN

(***************************************************************************)
(* What the SCM is told by two threads never goes back: a service that     *)
(* stops is not reported as running, and one that has stopped is not       *)
(* reported as stopping, from which no control would get it away.  A       *)
(* service that is reported as stopped has closed its device, so that the  *)
(* process started next does not find it open.                             *)
(***************************************************************************)
StatusGoesForward ==
  [][/\ state = "running" => state' # "start_pending"
     /\ state = "stop_pending" => state' \in {"stop_pending", "stopped"}
     /\ state = "stopped" => state' \in {"stopped", "start_pending"} /\ main = "none"]_vars

(***************************************************************************)
(* A service that says it will stop stops, unless the request came before  *)
(* ServiceStart cleared the flag: the service then runs on for ever, and   *)
(* cannot be stopped, as no further control is sent to it.                 *)
(***************************************************************************)
StopEnds == state = "stop_pending" ~> state = "stopped" \/ lost
=============================================================================
