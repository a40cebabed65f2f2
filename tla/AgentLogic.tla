----------------------------- MODULE AgentLogic -----------------------------
(***************************************************************************)
(* The agent core: AgentLogicBase of ovirt-guest-agent/OVirtAgentLogic.py. *)
(*                                                                         *)
(* Three threads run its methods and share its fields without a lock: the  *)
(* worker (doWork: the periodic reports), the listener (doListen: the      *)
(* commands of the host) and, on Windows only, the service's               *)
(* session-change thread (sessionLogon ... sessionUnlock).                 *)
(*                                                                         *)
(* A handler is a script: todo[t] lists the operations thread t has still  *)
(* to perform, each a message to send, named for the message, or one of    *)
(* the InternalOps.  Sending takes two steps, because the version test of  *)
(* _send and the write it guards are not atomic: Gate moves the message to *)
(* pending[t], WriteMessage hands it to the channel.  Payloads other than  *)
(* the user of 'active-user' are abstracted; a write delivers one whole    *)
(* message to the host (how lines share the port is VirtIoChannel's).      *)
(***************************************************************************)
EXTENDS ApiVersion, Sequences, FiniteSets

CONSTANTS
    Users,            \* names getActiveUser can return, NoUser among them
    NoUser,           \* the string 'None'
    Unreported,       \* the empty name activeUser starts with
    HostCommands,     \* the commands the host may send in this instance
    Windows,          \* TRUE: WinVdsAgent under the service; FALSE: Linux
    Rates,            \* the configured period of each timer, in iterations
    LogonRetries,     \* how often sessionLogon re-reads a missing user (5)
    NoMessage,        \* "no message passed the gate"
    MaxCommands, MaxQueued, MaxUserChanges, MaxSessionEvents,
    MaxFailures       \* bounds on what the environment does

Timer == {"heartbeat", "users", "apps", "disks", "cpus"}
Thread == {"worker", "listener", "session"}

Command ==
    [cmd : {"api-version", "refresh", "echo", "set-number-of-cpus",
            "lifecycle-event", "delegate", "ignored"},
     arg : Int]

ASSUME ConstantsAssumption ==
    /\ NoUser \in Users
    /\ Unreported \notin Users
    /\ HostCommands \subseteq Command
    /\ Windows \in BOOLEAN
    /\ Rates \in [Timer -> Int]
    /\ LogonRetries \in Nat
    /\ NoMessage \notin MessageName
    /\ {MaxCommands, MaxQueued, MaxUserChanges, MaxSessionEvents,
        MaxFailures} \subseteq Nat

VARIABLES
    apiVersion,       \* dr.apiVersion
    activeUser,       \* the cache: last user sendUserInfo handled
    desktopLocked,    \* dr.desktopLocked
    waitStop,         \* the wait_stop event
    workerPhase,      \* how far doWork has come
    timers,           \* the five countdowns local to doWork
    listenerPhase,    \* about to test wait_stop, in vio.read, or returned
    todo,             \* the operations each thread has still to perform
    pending,          \* the message each thread has gated and not written
    cur,              \* cur_user, local to sendUserInfo and sessionLogoff
    retries,          \* retries, local to sessionLogon
    inbox,            \* commands the host wrote and the agent has not read
    guestUser,        \* who is logged on in the guest
    hostUser,         \* the user in the last 'active-user' the host got
    hostSession,      \* the last 'session-startup' / 'session-shutdown'
    current,          \* history: the command the listener took last
    replied,          \* history: messages written since, by the listener
    late,             \* history: too-new messages since the version changed
    overlapped,       \* history: two threads reported the user at once
    sent, userChanges, sessionEvents, failures   \* counters of the bounds

agentVars == <<apiVersion, activeUser, desktopLocked, waitStop, workerPhase,
               timers, listenerPhase, todo, pending, cur, retries>>
hostVars == <<inbox, guestUser, hostUser, hostSession>>
historyVars == <<current, replied, late, overlapped>>
boundVars == <<sent, userChanges, sessionEvents, failures>>
vars == <<agentVars, hostVars, historyVars, boundVars>>

-----------------------------------------------------------------------------
(* The scripts of the handlers.                                            *)

InternalOps == {"read-user", "read-user-forced", "compare", "compare-forced",
                "cache-user", "fetch-cached", "await-user", "handler"}
Op == MessageName \cup InternalOps

SendInfo == <<"host-name", "os-version", "network-interfaces">>

StartupScript ==                              \* doWork up to its loop
    <<"session-startup">> \o SendInfo \o
    <<"read-user", "applications", "containers", "fqdn", "timezone",
      "os-info">>

(* Slip: the answer to a refresh forgets the list of containers.           *)
RefreshScriptForgetful ==
    <<"session-startup", "read-user-forced", "applications">>
    \o SendInfo \o <<"disks-usage", "fqdn", "timezone", "os-info">>

RefreshScript ==                              \* _refresh
    <<"session-startup", "read-user-forced", "applications", "containers">>
    \o SendInfo \o <<"disks-usage", "fqdn", "timezone", "os-info">>

When(condition, script) == IF condition THEN script ELSE <<>>

(* Slips: one report per iteration, in the order of the code or with the   *)
(* frequent reports last.                                                  *)
LoopScriptExclusive(due) ==
    IF "heartbeat" \in due THEN <<"heartbeat">>
    ELSE When("users" \in due, <<"read-user">>)

LoopScriptUsersFirst(due) ==
    IF "users" \in due THEN <<"read-user">>
    ELSE When("heartbeat" \in due, <<"heartbeat">>)

LoopScript(due) ==                            \* one iteration of doWork
    When("heartbeat" \in due, <<"heartbeat">>)
    \o When("users" \in due, <<"read-user">>)
    \o When("apps" \in due,
            <<"applications", "containers">> \o SendInfo \o <<"fqdn">>)
    \o When("disks" \in due, <<"disks-usage">>)
    \o When("cpus" \in due, <<"number-of-cpus">>)

(* The operations whose data retriever or command handler may raise; every *)
(* other payload is computed from the agent's own fields or under a        *)
(* try/except of its own.                                                  *)
FallibleOps ==
    {"handler"} \cup
    IF Windows THEN {"applications"}
    ELSE {"read-user", "read-user-forced", "heartbeat", "disks-usage",
          "timezone"}

(* Inside sendUserInfo or sessionLogoff, after their first shared access.  *)
ReportingOps ==
    {"compare", "compare-forced", "active-user", "cache-user", "fetch-cached"}

HasOp(t, ops) == \E i \in 1..Len(todo[t]) : todo[t][i] \in ops

Reporting(t) == pending[t] = "active-user" \/ HasOp(t, ReportingOps)

Idle(t) == todo[t] = <<>> /\ pending[t] = NoMessage

Ready(t, op) == pending[t] = NoMessage /\ todo[t] # <<>> /\ Head(todo[t]) = op

-----------------------------------------------------------------------------
Init ==
    /\ apiVersion = DisabledApiVersion
    /\ activeUser = Unreported
    /\ desktopLocked = TRUE
    /\ waitStop = FALSE
    /\ workerPhase = "startup"
    /\ timers = Rates
    /\ listenerPhase = "check"
    /\ todo = [t \in Thread |-> IF t = "worker" THEN StartupScript ELSE <<>>]
    /\ pending = [t \in Thread |-> NoMessage]
    /\ cur = [t \in Thread |-> Unreported]
    /\ retries = 0
    /\ inbox = <<>>
    /\ guestUser \in Users
    /\ hostUser = Unreported
    /\ hostSession = "none"
    /\ current = [cmd |-> "ignored", arg |-> 0]
    /\ replied = {}
    /\ late = [t \in Thread |-> 0]
    /\ overlapped = FALSE
    /\ sent = 0 /\ userChanges = 0 /\ sessionEvents = 0 /\ failures = 0

-----------------------------------------------------------------------------
(* The steps every thread is made of.                                      *)

Advance(t) == todo' = [todo EXCEPT ![t] = Tail(@)]

Become(t, ops) == todo' = [todo EXCEPT ![t] = ops \o Tail(@)]

(* Slip: _send writes whatever the version.                                *)
GateUntested(t) ==
    /\ pending[t] = NoMessage
    /\ todo[t] # <<>>
    /\ Head(todo[t]) \in MessageName
    /\ pending' = [pending EXCEPT ![t] = Head(todo[t])]
    /\ Advance(t)
    /\ UNCHANGED <<apiVersion, activeUser, desktopLocked, waitStop,
                   workerPhase, timers, listenerPhase, cur, retries,
                   hostVars, historyVars, boundVars>>

(* _send up to its version test: the payload is computed, then the message *)
(* is kept for writing or dropped.                                         *)
Gate(t) ==
    /\ pending[t] = NoMessage
    /\ todo[t] # <<>>
    /\ Head(todo[t]) \in MessageName
    /\ IF Supported(Head(todo[t]), apiVersion)
       THEN pending' = [pending EXCEPT ![t] = Head(todo[t])]
       ELSE UNCHANGED pending
    /\ Advance(t)
    /\ UNCHANGED <<apiVersion, activeUser, desktopLocked, waitStop,
                   workerPhase, timers, listenerPhase, cur, retries,
                   hostVars, historyVars, boundVars>>

(* The vio.write at the end of _send; the host consumes the message.       *)
WriteMessage(t) ==
    /\ pending[t] # NoMessage
    /\ pending' = [pending EXCEPT ![t] = NoMessage]
    /\ hostUser' = IF pending[t] = "active-user" THEN cur[t] ELSE hostUser
    /\ hostSession' =
           IF pending[t] \in {"session-startup", "session-shutdown"}
           THEN pending[t] ELSE hostSession
    /\ late' = IF Supported(pending[t], apiVersion) THEN late
               ELSE [late EXCEPT ![t] = @ + 1]
    /\ replied' = IF t = "listener" THEN replied \cup {pending[t]}
                  ELSE replied
    /\ UNCHANGED <<apiVersion, activeUser, desktopLocked, waitStop,
                   workerPhase, timers, listenerPhase, todo, cur, retries,
                   inbox, guestUser, current, overlapped, boundVars>>

(* sendUserInfo asks the guest who is logged on ...                        *)
ReadUser(t) ==
    /\ \/ Ready(t, "read-user") /\ Become(t, <<"compare">>)
       \/ Ready(t, "read-user-forced") /\ Become(t, <<"compare-forced">>)
    /\ cur' = [cur EXCEPT ![t] = guestUser]
    /\ overlapped' = (overlapped \/ \E u \in Thread \ {t} : Reporting(u))
    /\ UNCHANGED <<apiVersion, activeUser, desktopLocked, waitStop,
                   workerPhase, timers, listenerPhase, pending, retries,
                   hostVars, current, replied, late, boundVars>>

(* ... reports the answer if it is news or a report is forced ...          *)
CompareUser(t) ==
    /\ \/ /\ Ready(t, "compare")
          /\ IF cur[t] # activeUser
             THEN Become(t, <<"active-user", "cache-user">>)
             ELSE Advance(t)
       \/ /\ Ready(t, "compare-forced")
          /\ Become(t, <<"active-user", "cache-user">>)
    /\ UNCHANGED <<apiVersion, activeUser, desktopLocked, waitStop,
                   workerPhase, timers, listenerPhase, pending, cur, retries,
                   hostVars, historyVars, boundVars>>

(* ... and only then remembers it.                                         *)
CacheUser(t) ==
    /\ Ready(t, "cache-user")
    /\ activeUser' = cur[t]
    /\ Advance(t)
    /\ UNCHANGED <<apiVersion, desktopLocked, waitStop, workerPhase, timers,
                   listenerPhase, pending, cur, retries,
                   hostVars, historyVars, boundVars>>

(* The command handler of the platform returns, or a hook script ends.     *)
HandlerReturns(t) ==
    /\ Ready(t, "handler")
    /\ Advance(t)
    /\ UNCHANGED <<apiVersion, activeUser, desktopLocked, waitStop,
                   workerPhase, timers, listenerPhase, pending, cur, retries,
                   hostVars, historyVars, boundVars>>

(* Slip: doListen's try stands around its loop, so an error ends it.       *)
RaiseEndsListener(t) ==
    /\ failures < MaxFailures
    /\ failures' = failures + 1
    /\ \/ pending[t] # NoMessage /\ ~Windows
       \/ \E op \in FallibleOps : Ready(t, op)
    /\ pending' = [pending EXCEPT ![t] = NoMessage]
    /\ todo' = [todo EXCEPT ![t] =
                    IF t = "worker" /\ workerPhase = "loop"
                    THEN <<"session-shutdown">> ELSE <<>>]
    /\ workerPhase' = IF t # "worker" THEN workerPhase
                      ELSE IF workerPhase = "loop" THEN "closing" ELSE "done"
    /\ listenerPhase' = IF t = "listener" THEN "done" ELSE listenerPhase
    /\ UNCHANGED <<apiVersion, activeUser, desktopLocked, waitStop, timers,
                   cur, retries, hostVars, historyVars,
                   sent, userChanges, sessionEvents>>

(* A data retriever, a command handler or a write of thread t raises.  The *)
(* listener logs it and reads on, the loop of doWork logs it and says      *)
(* goodbye, doWork before its loop just ends, and the service framework    *)
(* drops the session event.  WinFile.write swallows its own errors.        *)
Raise(t) ==
    /\ failures < MaxFailures
    /\ failures' = failures + 1
    /\ \/ pending[t] # NoMessage /\ ~Windows
       \/ \E op \in FallibleOps : Ready(t, op)
    /\ pending' = [pending EXCEPT ![t] = NoMessage]
    /\ todo' = [todo EXCEPT ![t] =
                    IF t = "worker" /\ workerPhase = "loop"
                    THEN <<"session-shutdown">> ELSE <<>>]
    /\ workerPhase' = IF t # "worker" THEN workerPhase
                      ELSE IF workerPhase = "loop" THEN "closing" ELSE "done"
    /\ UNCHANGED <<apiVersion, activeUser, desktopLocked, waitStop, timers,
                   listenerPhase, cur, retries, hostVars, historyVars,
                   sent, userChanges, sessionEvents>>

-----------------------------------------------------------------------------
(* The worker: doWork.                                                     *)

Due == {c \in Timer : timers[c] - 1 <= 0}

(* Slip: stop() ends the worker without a goodbye.                         *)
WorkerLoopSilent ==
    /\ Idle("worker")
    /\ workerPhase \in {"startup", "loop"}
    /\ IF waitStop
       THEN workerPhase' = "done" /\ UNCHANGED <<todo, timers>>
       ELSE /\ workerPhase' = "loop"
            /\ todo' = [todo EXCEPT !["worker"] = LoopScript(Due)]
            /\ timers' = [c \in Timer |-> IF c \in Due THEN Rates[c]
                                          ELSE timers[c] - 1]
    /\ UNCHANGED <<apiVersion, activeUser, desktopLocked, waitStop,
                   listenerPhase, pending, cur, retries,
                   hostVars, historyVars, boundVars>>

(* The top of the loop: leave it when stop was called, else count down the *)
(* timers and perform, in the order of the code, what has come due.  The   *)
(* one-second sleep that ends an iteration is the pause between two steps. *)
WorkerLoop ==
    /\ Idle("worker")
    /\ workerPhase \in {"startup", "loop"}
    /\ IF waitStop
       THEN /\ workerPhase' = "closing"
            /\ todo' = [todo EXCEPT !["worker"] = <<"session-shutdown">>]
            /\ UNCHANGED timers
       ELSE /\ workerPhase' = "loop"
            /\ todo' = [todo EXCEPT !["worker"] = LoopScript(Due)]
            /\ timers' = [c \in Timer |-> IF c \in Due THEN Rates[c]
                                          ELSE timers[c] - 1]
    /\ UNCHANGED <<apiVersion, activeUser, desktopLocked, waitStop,
                   listenerPhase, pending, cur, retries,
                   hostVars, historyVars, boundVars>>

WorkerDone ==
    /\ Idle("worker")
    /\ workerPhase = "closing"
    /\ workerPhase' = "done"
    /\ UNCHANGED <<apiVersion, activeUser, desktopLocked, waitStop, timers,
                   listenerPhase, todo, pending, cur, retries,
                   hostVars, historyVars, boundVars>>

-----------------------------------------------------------------------------
(* The listener: doListen and parseCommand.                                *)

ListenerCheck ==
    /\ Idle("listener")
    /\ listenerPhase = "check"
    /\ listenerPhase' = IF waitStop THEN "done" ELSE "read"
    /\ UNCHANGED <<apiVersion, activeUser, desktopLocked, waitStop,
                   workerPhase, timers, todo, pending, cur, retries,
                   hostVars, historyVars, boundVars>>

(* setAPIVersion: late counts per version, so a change starts it afresh.   *)
SetApiVersion(v) ==
    /\ apiVersion' = v
    /\ late' = IF v = apiVersion THEN late ELSE [t \in Thread |-> 0]

Answer(script) ==
    todo' = [todo EXCEPT !["listener"] = script]

OnApiVersion(c) ==
    /\ c.cmd = "api-version"
    /\ SetApiVersion(Capped(c.arg))
    /\ Answer(When(Capped(c.arg) # apiVersion, RefreshScript))

(* arg = 1: the command names the host's apiVersion, arg = 0: it does not. *)
OnRefresh(c) ==
    /\ c.cmd = "refresh"
    /\ SetApiVersion(IF c.arg = 0 /\ apiVersion > 0 THEN DisabledApiVersion
                     ELSE apiVersion)
    /\ Answer(RefreshScript)

(* The commands that leave the version alone.  CommandHandlerWin has no    *)
(* set_number_of_cpus, so on Windows the call raises before the report.    *)
(* A lifecycle event with arg = 1 asks for a completion.  Lock, log-off,   *)
(* shutdown, login and hibernate are all "delegate".                       *)
OnOther(c) ==
    /\ c.cmd \notin {"api-version", "refresh"}
    /\ Answer(CASE c.cmd = "echo" -> <<"echo">>
                [] c.cmd = "set-number-of-cpus" ->
                     When(c.arg > 0 /\ ~Windows,
                          <<"handler", "number-of-cpus">>)
                [] c.cmd = "lifecycle-event" ->
                     <<"handler">> \o When(c.arg = 1, <<"completion">>)
                [] c.cmd = "delegate" -> <<"handler">>
                [] c.cmd = "ignored" -> <<>>)
    /\ UNCHANGED <<apiVersion, late>>

Receive ==
    /\ listenerPhase = "read"
    /\ inbox # <<>>
    /\ inbox' = Tail(inbox)
    /\ listenerPhase' = "check"
    /\ LET c == Head(inbox)
       IN  /\ OnApiVersion(c) \/ OnRefresh(c) \/ OnOther(c)
           /\ current' = c
    /\ replied' = {}
    /\ UNCHANGED <<activeUser, desktopLocked, waitStop, workerPhase, timers,
                   pending, cur, retries, guestUser, hostUser, hostSession,
                   overlapped, boundVars>>

-----------------------------------------------------------------------------
(* The Windows session-change thread: one notification at a time.          *)

SessionNotified ==
    /\ Windows
    /\ Idle("session")
    /\ sessionEvents < MaxSessionEvents
    /\ sessionEvents' = sessionEvents + 1

SessionUnchanged ==
    UNCHANGED <<apiVersion, waitStop, workerPhase, timers, listenerPhase,
                pending, cur, hostVars, current, replied, late,
                sent, userChanges, failures>>

SessionLogon ==
    /\ SessionNotified
    /\ desktopLocked' = FALSE
    /\ retries' = 0
    /\ todo' = [todo EXCEPT !["session"] =
                    <<"await-user", "read-user", "session-logon">>]
    /\ UNCHANGED <<activeUser, overlapped>> /\ SessionUnchanged

(* The retry loop of sessionLogon: wait for a name, but not forever.       *)
AwaitUser ==
    /\ Ready("session", "await-user")
    /\ IF guestUser = NoUser /\ retries < LogonRetries
       THEN retries' = retries + 1 /\ UNCHANGED todo
       ELSE Advance("session") /\ UNCHANGED retries
    /\ UNCHANGED <<activeUser, desktopLocked, overlapped, sessionEvents>>
    /\ SessionUnchanged

(* Slip: a log-off clears the cache but does not report the empty name.    *)
SessionLogoffUntold ==
    /\ SessionNotified
    /\ desktopLocked' = TRUE
    /\ activeUser' = NoUser
    /\ overlapped' = (overlapped \/ \E t \in Thread : Reporting(t))
    /\ todo' = [todo EXCEPT !["session"] = <<"session-logoff">>]
    /\ UNCHANGED retries /\ SessionUnchanged

SessionLogoff ==
    /\ SessionNotified
    /\ desktopLocked' = TRUE
    /\ activeUser' = NoUser
    /\ overlapped' = (overlapped \/ \E t \in Thread : Reporting(t))
    /\ todo' = [todo EXCEPT !["session"] =
                    <<"session-logoff", "fetch-cached">>]
    /\ UNCHANGED retries /\ SessionUnchanged

(* The payload of the 'active-user' a log-off sends is the cache, re-read. *)
FetchCached ==
    /\ Ready("session", "fetch-cached")
    /\ cur' = [cur EXCEPT !["session"] = activeUser]
    /\ Become("session", <<"active-user">>)
    /\ UNCHANGED <<apiVersion, activeUser, desktopLocked, waitStop,
                   workerPhase, timers, listenerPhase, pending, retries,
                   hostVars, historyVars, boundVars>>

SessionLockChange(locked) ==
    /\ SessionNotified
    /\ desktopLocked' = locked
    /\ todo' = [todo EXCEPT !["session"] =
                    IF locked THEN <<"session-lock">>
                    ELSE <<"session-unlock">>]
    /\ UNCHANGED <<activeUser, retries, overlapped>> /\ SessionUnchanged

-----------------------------------------------------------------------------
(* The environment.                                                        *)

HostSends(c) ==
    /\ sent < MaxCommands
    /\ Len(inbox) < MaxQueued
    /\ sent' = sent + 1
    /\ inbox' = Append(inbox, c)
    /\ UNCHANGED <<agentVars, guestUser, hostUser, hostSession, historyVars,
                   userChanges, sessionEvents, failures>>

GuestUserChanges(u) ==
    /\ userChanges < MaxUserChanges
    /\ u # guestUser
    /\ userChanges' = userChanges + 1
    /\ guestUser' = u
    /\ UNCHANGED <<agentVars, inbox, hostUser, hostSession, historyVars,
                   sent, sessionEvents, failures>>

Stop ==
    /\ ~waitStop
    /\ waitStop' = TRUE
    /\ UNCHANGED <<apiVersion, activeUser, desktopLocked, workerPhase, timers,
                   listenerPhase, todo, pending, cur, retries,
                   hostVars, historyVars, boundVars>>

-----------------------------------------------------------------------------
ThreadStep(t) ==
    \/ Gate(t)
    \/ WriteMessage(t)
    \/ ReadUser(t)
    \/ CompareUser(t)
    \/ CacheUser(t)
    \/ HandlerReturns(t)

WorkerStep == ThreadStep("worker") \/ WorkerLoop \/ WorkerDone

ListenerStep == ThreadStep("listener") \/ ListenerCheck \/ Receive

SessionStep == ThreadStep("session") \/ AwaitUser \/ FetchCached

SessionEvent ==
    \/ SessionLogon
    \/ SessionLogoff
    \/ \E locked \in BOOLEAN : SessionLockChange(locked)

Environment ==
    \/ \E c \in HostCommands : HostSends(c)
    \/ \E u \in Users : GuestUserChanges(u)
    \/ Stop
    \/ \E t \in Thread : Raise(t)

Next == WorkerStep \/ ListenerStep \/ SessionStep \/ SessionEvent
        \/ Environment

Spec == Init /\ [][Next]_vars

(* Python schedules every runnable thread, and a write ends because the    *)
(* host drains the port; nothing forces a command, a user, a stop or an    *)
(* exception to come.                                                      *)
FairSpec ==
    Spec /\ WF_vars(WorkerStep) /\ WF_vars(ListenerStep) /\ WF_vars(SessionStep)

-----------------------------------------------------------------------------
(* Properties.                                                             *)

(* The type invariant: every field holds a value of its kind.              *)
TypeOK ==
    /\ apiVersion \in Int
    /\ activeUser \in Users \cup {Unreported}
    /\ desktopLocked \in BOOLEAN
    /\ waitStop \in BOOLEAN
    /\ workerPhase \in {"startup", "loop", "closing", "done"}
    /\ timers \in [Timer -> Int]
    /\ listenerPhase \in {"check", "read", "done"}
    /\ todo \in [Thread -> Seq(Op)]
    /\ pending \in [Thread -> MessageName \cup {NoMessage}]
    /\ cur \in [Thread -> Users \cup {Unreported}]
    /\ retries \in 0..LogonRetries
    /\ inbox \in Seq(HostCommands)
    /\ guestUser \in Users
    /\ hostUser \in Users \cup {Unreported}
    /\ hostSession \in {"none", "session-startup", "session-shutdown"}
    /\ current \in Command
    /\ replied \subseteq MessageName
    /\ late \in [Thread -> Nat]
    /\ overlapped \in BOOLEAN
    /\ sent \in 0..MaxCommands
    /\ userChanges \in 0..MaxUserChanges
    /\ sessionEvents \in 0..MaxSessionEvents
    /\ failures \in 0..MaxFailures

(* The test of _send and the write it guards are separate steps, yet the   *)
(* host never gets from the listener - so in no reply to a command - a     *)
(* message above the version in force at that moment: only the listener    *)
(* itself changes the version, and never between its own test and write.   *)
ListenerNeverLate ==
    /\ late["listener"] = 0
    /\ pending["listener"] # NoMessage =>
           Supported(pending["listener"], apiVersion)

(* The other threads do lose that race, but once only: after the version   *)
(* has changed, each can write at most the one message it had tested       *)
(* against the old version, however long it goes on reporting.             *)
AtMostOneLate == \A t \in Thread : late[t] <= 1

(* Why both hold: the listener only takes a command, and so only changes   *)
(* the version, with no message of its own in flight, and a thread that    *)
(* holds a too-new message has not written one since the change.           *)
ReadingIsIdle == listenerPhase = "read" => Idle("listener")

LateBudget ==
    \A t \in Thread :
        (pending[t] # NoMessage /\ ~Supported(pending[t], apiVersion))
            => late[t] = 0

GateInv == ReadingIsIdle /\ LateBudget /\ ListenerNeverLate /\ AtMostOneLate

(* What the tests of the message validator expect of a finished command:   *)
(* exactly the messages of its answer that the version, as the command     *)
(* left it, supports - whatever the other threads sent in the meantime.    *)
RefreshReply ==
    {"session-startup", "active-user", "applications", "containers",
     "host-name", "os-version", "network-interfaces", "disks-usage", "fqdn",
     "timezone", "os-info"}

Answers(c) ==
    CASE c.cmd = "refresh" -> {RefreshReply}
      [] c.cmd = "api-version" -> {{}, RefreshReply}
      [] c.cmd = "echo" -> {{"echo"}}
      [] c.cmd = "set-number-of-cpus" ->
           {IF c.arg > 0 /\ ~Windows THEN {"number-of-cpus"} ELSE {}}
      [] c.cmd = "lifecycle-event" ->
           {IF c.arg = 1 THEN {"completion"} ELSE {}}
      [] OTHER -> {{}}

CommandAnswered ==
    Idle("listener") /\ failures = 0 =>
        \E answer \in Answers(current) :
            replied = {m \in answer : Supported(m, apiVersion)}

(* The cache of sendUserInfo is what makes the poll report a change once   *)
(* and not miss one: with no report under way, it names the user the host  *)
(* was told last, provided no two threads ever reported at the same time,  *)
(* nothing raised, and messages are not muted by a negative version.       *)
CacheIsHostView ==
    (/\ \A t \in Thread :
           ~Reporting(t) /\ ~HasOp(t, {"read-user-forced"})
     /\ ~overlapped /\ failures = 0 /\ apiVersion >= 0)
        => hostUser = activeUser

(* The host eventually learns, and keeps, the user of the guest once users *)
(* stop changing - unless the agent is stopped, a report raises, or two    *)
(* threads report at once: then a stale name can stay at the host.         *)
HostLearnsUser ==
    \/ <>[](hostUser = guestUser)
    \/ <>(waitStop \/ failures > 0 \/ overlapped)

(* After stop() the worker leaves its loop and the host sees the session   *)
(* shut down, whatever the worker was reporting at that moment.  (It need  *)
(* not stay so: the reply to a refresh may start the session once more.)   *)
StopIsAnnounced ==
    (waitStop /\ workerPhase \in {"startup", "loop"})
        ~> (hostSession = "session-shutdown" \/ failures > 0)

HeartbeatWritten ==
    pending["worker"] = "heartbeat" /\ pending'["worker"] = NoMessage

(* The host can rely on the heartbeat as a sign of life: it keeps coming,  *)
(* even though the same thread also makes every periodic report.           *)
HeartbeatsContinue ==
    []<><<HeartbeatWritten>>_vars \/ <>(waitStop \/ failures > 0)

(* Every command the host wrote is taken up, in spite of replies, failing  *)
(* handlers and version changes, unless the agent is told to stop.         *)
CommandsTakenUp == (inbox # <<>>) ~> (inbox = <<>> \/ waitStop)

(* ChangeLog:1470 announces "setNumberOfCPUs support": a command that      *)
(* names a positive count is answered with the resulting number of CPUs.   *)
CpusConfirmed ==
    (/\ Idle("listener") /\ failures = 0
     /\ current.cmd = "set-number-of-cpus" /\ current.arg > 0
     /\ Supported("number-of-cpus", apiVersion))
        => "number-of-cpus" \in replied

(* What the tests say of a message above the current version: it is not    *)
(* sent.  The code promises it per thread only, see AtMostOneLate.         *)
NeverLate == \A t \in Thread : late[t] = 0
=============================================================================
