---------------------------- MODULE WinService -----------------------------
(***************************************************************************)
(* The agent as a Windows service (OVirtGuestService.py) with WinVdsAgent: *)
(* the service thread in SvcDoRun, the thread on which the service manager *)
(* delivers its controls one after the other, the worker and the listener. *)
(*                                                                         *)
(* What a thread writes is AgentLogic's; here a write returns while the    *)
(* port works and is repeated for ever while it does not (WinPort).  The   *)
(* service manager and pywin32's ServiceFramework are external: SvcRun     *)
(* reports "running" before it calls SvcDoRun, so controls may come before *)
(* there is an agent; one that raises is logged and the next one taken.    *)
(***************************************************************************)
EXTENDS Integers, Sequences

CONSTANTS
    Sessions,      \* sessions of the machine: the console and remote ones
    MaxControls,   \* bound: controls delivered
    MaxLogins,     \* bound: login commands of the host
    MaxFailures    \* bound: exceptions

ASSUME ServiceAssumption == {MaxControls, MaxLogins, MaxFailures} \subseteq Nat

VARIABLES
    svc,           \* where SvcDoRun is
    vdsAgent,      \* self.vdsAgent is set
    waitStop,      \* its wait_stop
    shuttingDown,  \* self._shutting_down
    eventLog,      \* the events reported, "started" and "stopped"
    handler,       \* what the control thread is in
    worker,        \* doWork
    listener,      \* doListen
    desktopLocked, \* of the data retriever
    desktop,       \* what each session really is
    controls,      \* controls not yet taken, oldest first
    down,          \* the port takes nothing
    cause,         \* history: what ended the agent first
    logins, delivered, failures   \* counters of the bounds

svcVars == <<svc, vdsAgent, eventLog>>
machineVars == <<desktop, controls, delivered, down>>
vars == <<svcVars, waitStop, shuttingDown, handler, worker, listener, desktopLocked,
          machineVars, cause, logins, failures>>

Changes == {"logon", "logoff", "lock", "unlock"}
Controls == {"stop", "shutdown"} \cup Changes

Init ==
    /\ svc = "reporting" /\ vdsAgent = FALSE /\ eventLog = {}
    /\ waitStop = FALSE /\ shuttingDown = FALSE
    /\ handler = "idle" /\ worker = "unborn" /\ listener = "unborn"
    /\ desktopLocked = TRUE
    /\ desktop \in [Sessions -> {"free", "locked", "unlocked"}]
    /\ controls = <<>> /\ delivered = 0 /\ down \in BOOLEAN
    /\ cause = "none" /\ logins = 0 /\ failures = 0

Fail == failures < MaxFailures /\ failures' = failures + 1

EndedBy(c) == cause' = IF cause = "none" THEN c ELSE cause

-----------------------------------------------------------------------------
(* SvcDoRun, on the thread of the service.                                 *)

(* An event log that refuses the event is of no consequence.               *)
ReportStarted ==
    /\ svc = "reporting"
    /\ svc' = "creating"
    /\ eventLog' \in {eventLog, eventLog \cup {"started"}}
    /\ UNCHANGED <<vdsAgent, waitStop, shuttingDown, handler, worker, listener, desktopLocked,
                   machineVars, cause, logins, failures>>

(* WinVdsAgent(...), which sets the fields of the agent, and then run().   *)
CreateAgent ==
    /\ svc = "creating"
    /\ vdsAgent' = TRUE
    /\ svc' = "running"
    /\ UNCHANGED <<eventLog, waitStop, shuttingDown, handler, worker, listener, desktopLocked,
                   machineVars, cause, logins, failures>>

(* A configuration that lacks an option: SvcDoRun is left.                 *)
CreateFails ==
    /\ svc = "creating" /\ Fail
    /\ svc' = "over"
    /\ EndedBy("failure")
    /\ UNCHANGED <<vdsAgent, eventLog, waitStop, shuttingDown, handler, worker, listener,
                   desktopLocked, machineVars, logins>>

(* AgentLogicBase.run: the listener, then the worker, then _join.          *)
StartListener ==
    /\ svc = "running"
    /\ listener' = "reading"
    /\ svc' = "starting"
    /\ UNCHANGED <<vdsAgent, eventLog, waitStop, shuttingDown, handler, worker, desktopLocked,
                   machineVars, cause, logins, failures>>

StartWorker ==
    /\ svc = "starting"
    /\ worker' = "reports"
    /\ svc' = "joining"
    /\ UNCHANGED <<vdsAgent, eventLog, waitStop, shuttingDown, handler, listener, desktopLocked,
                   machineVars, cause, logins, failures>>

(* disable_screen_saver, or a thread that cannot be started: run() logs it *)
(* and returns.                                                            *)
RunFails ==
    /\ svc \in {"running", "starting"} /\ Fail
    /\ svc' = "returned"
    /\ EndedBy("failure")
    /\ UNCHANGED <<vdsAgent, eventLog, waitStop, shuttingDown, handler, worker, listener,
                   desktopLocked, machineVars, logins>>

Joined ==
    /\ svc = "joining" /\ worker = "over"
    /\ svc' = "returned"
    /\ UNCHANGED <<vdsAgent, eventLog, waitStop, shuttingDown, handler, worker, listener,
                   desktopLocked, machineVars, cause, logins, failures>>

ReportStopped ==
    /\ svc = "returned"
    /\ svc' = "over"
    /\ eventLog' \in {eventLog} \cup (IF shuttingDown THEN {} ELSE {eventLog \cup {"stopped"}})
    /\ UNCHANGED <<vdsAgent, waitStop, shuttingDown, handler, worker, listener, desktopLocked,
                   machineVars, cause, logins, failures>>

-----------------------------------------------------------------------------
(* The threads of the agent.                                               *)

(* Slip: the loop goes on as long as the service does.                     *)
WorkerLoopDeaf ==
    /\ worker = "loop"
    /\ worker' = IF waitStop /\ shuttingDown THEN "bye" ELSE "reports"
    /\ UNCHANGED <<svcVars, waitStop, shuttingDown, handler, listener, desktopLocked,
                   machineVars, cause, logins, failures>>

(* The test of the loop of doWork.                                         *)
WorkerLoop ==
    /\ worker = "loop"
    /\ worker' = IF waitStop THEN "bye" ELSE "reports"
    /\ UNCHANGED <<svcVars, waitStop, shuttingDown, handler, listener, desktopLocked,
                   machineVars, cause, logins, failures>>

(* The reports, of the start or of a turn, and session-shutdown.           *)
WorkerWrites ==
    /\ worker \in {"reports", "bye"} /\ ~down
    /\ worker' = IF worker = "bye" THEN "over" ELSE "loop"
    /\ UNCHANGED <<svcVars, waitStop, shuttingDown, handler, listener, desktopLocked,
                   machineVars, cause, logins, failures>>

(* An exception ends the thread before the loop, and the loop within it.   *)
WorkerFails ==
    /\ worker = "reports" /\ Fail
    /\ worker' \in {"over", "bye"}
    /\ EndedBy("failure")
    /\ UNCHANGED <<svcVars, waitStop, shuttingDown, handler, listener, desktopLocked,
                   machineVars, logins>>

(* CommandHandlerWin.login: on a desktop that is not locked it only logs.  *)
LoginDropped ==
    /\ listener = "reading" /\ logins < MaxLogins
    /\ ~desktopLocked
    /\ logins' = logins + 1
    /\ UNCHANGED <<svcVars, waitStop, shuttingDown, handler, worker, listener, desktopLocked,
                   machineVars, cause, failures>>

(* Otherwise the provider's pipe is tried (CredProvider); the listener may *)
(* also be in any other command, for as long as the port does not write.   *)
CommandStarts ==
    /\ listener = "reading" /\ logins < MaxLogins
    /\ listener' = "command"
    /\ logins' = logins + 1
    /\ UNCHANGED <<svcVars, waitStop, shuttingDown, handler, worker, desktopLocked,
                   machineVars, cause, failures>>

(* doListen tests wait_stop between two commands only.                     *)
CommandEnds ==
    /\ listener = "command" /\ ~down
    /\ listener' = IF waitStop THEN "over" ELSE "reading"
    /\ UNCHANGED <<svcVars, waitStop, shuttingDown, handler, worker, desktopLocked,
                   machineVars, cause, logins, failures>>

-----------------------------------------------------------------------------
(* The controls: SvcStop, SvcShutdown and SvcSessionChange.                *)

Take(c) ==
    /\ handler = "idle" /\ controls # <<>> /\ Head(controls) = c
    /\ controls' = Tail(controls)

Rest == <<desktop, delivered, down>>

(* SvcStop reports that the stop is pending and then calls the agent.      *)
TakeStop ==
    /\ Take("stop")
    /\ handler' = "stop"
    /\ UNCHANGED <<svcVars, waitStop, shuttingDown, worker, listener, desktopLocked,
                   Rest, cause, logins, failures>>

(* Slip: the flag is forgotten.                                            *)
TakeShutdownUnmarked ==
    /\ Take("shutdown")
    /\ handler' = "shutdown"
    /\ UNCHANGED <<svcVars, waitStop, shuttingDown, worker, listener, desktopLocked, Rest,
                   cause, logins, failures>>

(* SvcShutdown sets _shutting_down and then calls the agent.               *)
TakeShutdown ==
    /\ Take("shutdown")
    /\ shuttingDown' = TRUE
    /\ handler' = "shutdown"
    /\ UNCHANGED <<svcVars, waitStop, worker, listener, desktopLocked, Rest, cause, logins,
                   failures>>

(* self.vdsAgent.stop(), or an AttributeError as long as there is none.    *)
StopAgent ==
    /\ handler \in {"stop", "shutdown"}
    /\ handler' = "idle"
    /\ IF vdsAgent
       THEN waitStop' = TRUE /\ EndedBy(handler)
       ELSE UNCHANGED <<waitStop, cause>>
    /\ UNCHANGED <<svcVars, shuttingDown, worker, listener, desktopLocked, machineVars, logins,
                   failures>>

(* The session method of the agent that belongs to the change is called.   *)
TakeChange(c) ==
    /\ Take(c)
    /\ handler' = IF vdsAgent THEN c ELSE "idle"
    /\ UNCHANGED <<svcVars, waitStop, shuttingDown, worker, listener, desktopLocked, Rest,
                   cause, logins, failures>>

(* Slip: a logoff leaves the flag alone.                                   *)
SetLockedForgetful ==
    /\ handler \in Changes
    /\ desktopLocked' = IF handler = "logoff" THEN desktopLocked ELSE handler = "lock"
    /\ handler' = "report"
    /\ UNCHANGED <<svcVars, waitStop, shuttingDown, worker, listener, machineVars, cause,
                   logins, failures>>

(* It sets the flag, at a logon after it has asked for the user's name.    *)
SetLocked ==
    /\ handler \in Changes
    /\ desktopLocked' = (handler \in {"logoff", "lock"})
    /\ handler' = "report"
    /\ UNCHANGED <<svcVars, waitStop, shuttingDown, worker, listener, machineVars, cause,
                   logins, failures>>

(* It waits for the user's name if need be and writes, on this same thread.*)
ChangeReported ==
    /\ handler = "report" /\ ~down
    /\ handler' = "idle"
    /\ UNCHANGED <<svcVars, waitStop, shuttingDown, worker, listener, desktopLocked,
                   machineVars, cause, logins, failures>>

-----------------------------------------------------------------------------
(* The machine.                                                            *)

After(c) ==
    CASE c \in {"logon", "unlock"} -> "unlocked" [] c = "lock" -> "locked" [] c = "logoff" -> "free"

Possible(c, d) ==
    CASE c = "logon"  -> d = "free"      [] c = "lock" -> d = "unlocked"
      [] c = "unlock" -> d = "locked"    [] c = "logoff" -> d # "free"

Deliver(c) ==
    /\ svc # "over" /\ delivered < MaxControls
    /\ controls' = Append(controls, c)
    /\ delivered' = delivered + 1

SessionChanges(s, c) ==
    /\ Possible(c, desktop[s])
    /\ desktop' = [desktop EXCEPT ![s] = After(c)]
    /\ Deliver(c)
    /\ UNCHANGED <<svcVars, waitStop, shuttingDown, handler, worker, listener, desktopLocked, down,
                   cause, logins, failures>>

EndIsAsked(c) ==
    /\ Deliver(c)
    /\ UNCHANGED <<svcVars, waitStop, shuttingDown, handler, worker, listener, desktopLocked,
                   desktop, down, cause, logins, failures>>

PortChanges ==
    /\ down' = ~down
    /\ UNCHANGED <<svcVars, waitStop, shuttingDown, handler, worker, listener, desktopLocked,
                   desktop, controls, delivered, cause, logins, failures>>

-----------------------------------------------------------------------------
SvcDoRun ==
    \/ ReportStarted \/ CreateAgent \/ StartListener \/ StartWorker
    \/ Joined \/ ReportStopped

SvcCtrlHandler ==
    \/ TakeStop \/ TakeShutdown \/ StopAgent
    \/ \E c \in Changes : TakeChange(c)
    \/ SetLocked \/ ChangeReported

Worker == WorkerLoop \/ WorkerWrites

Next ==
    \/ SvcDoRun \/ CreateFails \/ RunFails
    \/ Worker \/ WorkerFails
    \/ LoginDropped \/ CommandStarts \/ CommandEnds
    \/ SvcCtrlHandler
    \/ \E s \in Sessions, c \in Changes : SessionChanges(s, c)
    \/ EndIsAsked("stop") \/ EndIsAsked("shutdown")
    \/ PortChanges

Spec == Init /\ [][Next]_vars

(* The three threads go on whenever they can.                              *)
FairSpec ==
    /\ Spec
    /\ WF_vars(SvcDoRun) /\ WF_vars(SvcCtrlHandler)
    /\ WF_vars(WorkerLoop) /\ WF_vars(WorkerWrites)

-----------------------------------------------------------------------------
(* Properties.                                                             *)

(* The type invariant.                                                     *)
TypeOK ==
    /\ svc \in {"reporting", "creating", "running", "starting", "joining", "returned", "over"}
    /\ vdsAgent \in BOOLEAN /\ waitStop \in BOOLEAN /\ shuttingDown \in BOOLEAN
    /\ desktopLocked \in BOOLEAN /\ down \in BOOLEAN
    /\ eventLog \subseteq {"started", "stopped"}
    /\ handler \in {"idle", "stop", "shutdown", "report"} \cup Changes
    /\ worker \in {"unborn", "reports", "loop", "bye", "over"}
    /\ listener \in {"unborn", "reading", "command", "over"}
    /\ desktop \in [Sessions -> {"free", "locked", "unlocked"}]
    /\ controls \in Seq(Controls)
    /\ cause \in {"none", "stop", "shutdown", "failure"}
    /\ logins \in Nat /\ delivered \in Nat /\ failures \in Nat

(* "skip this step if the computer is shutting down, because the event log *)
(* might be down" (OVirtGuestService.py:92-93): an agent that a shutdown   *)
(* ended leaves no "stopped" event behind.                                 *)
NoEventAtShutdown == cause = "shutdown" => "stopped" \notin eventLog

(* "Not unlocking screen because it is not locked" (GuestAgentWin32.py:305)*)
(* is said only while some session is unlocked, or a change of a session   *)
(* has not been handled, whenever the service was started.                 *)
SomeUnlocked ==
    \/ \E s \in Sessions : desktop[s] = "unlocked"
    \/ handler \in Changes
    \/ \E i \in 1..Len(controls) : controls[i] \in Changes

DropIsExplained == [][LoginDropped => SomeUnlocked]_vars

(* A stop that comes when there is an agent ends the service once the port *)
(* works for good; a session change that cannot be reported holds it up no *)
(* longer than that.                                                       *)
StopIsQueued == vdsAgent /\ \E i \in 1..Len(controls) : controls[i] \in {"stop", "shutdown"}

StopEnds == <>[]~down => (StopIsQueued ~> svc = "over")

(* SvcStop tells the service manager that the stop is pending; what the    *)
(* code does not give is that it then comes: one that is taken before      *)
(* SvcDoRun has set vdsAgent is an AttributeError.                         *)
StopIsObeyed == <>[]~down => (handler = "stop" ~> svc = "over")
=============================================================================
