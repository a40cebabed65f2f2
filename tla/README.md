# A TLA+ development of the oVirt guest agent

The guest agent runs inside a virtual machine. It talks to VDSM, the agent of
the host, over a virtio-serial port: it reports what the guest is doing
(heartbeats, users, applications, disks, network interfaces) and carries out
commands (refresh, login, shutdown, lock, CPU hotplug, lifecycle hooks). A login
goes on through other programs: a PAM module and a greeter's plugin on Linux, a
credential provider or, on older Windows, a GINA. This directory holds TLA+
modules of the agent and of those programs, TLC configurations that check them
on small instances, and TLAPS proofs of what matters most for all instances.

Contents: [Inventory](#inventory), [Modules](#modules),
[AgentLogic](#agentlogic), [VirtIoChannel](#virtiochannel), [WinPort](#winport),
[CredServer](#credserver), [AgentDaemon](#agentdaemon),
[WinService](#winservice), [Greeter](#greeter), [CredProvider](#credprovider),
[Gina](#gina), [Serialization](#serialization),
[Runs and bounds](#runs-and-bounds), [Fairness](#fairness), [Proofs](#proofs),
[What the code does not give](#what-the-code-does-not-give),
[What else the code does](#what-else-the-code-does),
[Not modelled](#not-modelled), [Plan](#plan), [How to run](#how-to-run).

## Inventory

| Component | State it keeps | Operations | What makes it correct |
|---|---|---|---|
| Agent core, `OVirtAgentLogic.py` | API version, cached user, `desktopLocked`, `wait_stop`, five countdowns | `doWork` (reports), `doListen` and `parseCommand` (commands), session methods, `stop` | the host is told the user the guest has; no message above the agreed version; every command answered; heartbeats never stop |
| Message versions, `OVirtAgentLogic.py` | the version table | `_send`, `setAPIVersion`, `_onApiVersion` | both ends use the version both know |
| Virtio channel, `VirtIoChannel.py`, `WinFile.py` | read buffer, the port, on Windows one OVERLAPPED structure | `read`, `write` | lines whole and in order, each once |
| SSO server, `CredServer.py` | `_cred_channel`, token, listening socket | `user_authenticated`, `CredChannel.run` | credentials to root only, for the right login, once; the listener is given back |
| PAM module, `pam-ovirt-cred/` | a socket | ask for the token, connect, send, wait, parse | ends in bounded time; the user and password it hands to PAM are those of the message |
| Greeters, `gdm-plugin`, `gdm2-plugin`, `kdm-plugin` | token, `select_when_ready`, a message and its timeout | signal heard, question asked, text to show, reset, ready, finalize | a token is given once and while it is the newest; timeouts are removed once |
| Daemon, `ovirt-guest-agent.py`, and `LinuxVdsAgent` | pid file, threads, `_quit` | start, SIGTERM, stop | a stop ends every thread |
| Windows service, `OVirtGuestService.py` | `vdsAgent`, `_shutting_down` | start, stop, shutdown, session change | a stop ends the service; the agent knows whether the desktop is locked |
| Windows login, `GuestAgentWin32.py` | `desktopLocked` | login with retries | the command comes back |
| Credential provider, `windows-credprov/` | reference counts, events, three strings, pipe and thread of a channel | the calls of LogonUI, the thread of the pipe | what is submitted is one login whole; no thread outlives its provider |
| GINA stub, `GinaSSO/` | functions of the original, version, pipe and thread of the listener | negotiation, wrapped dialogs, listener | the listener posts to the dialog on show; functions are loaded as negotiated |
| Hooks, `hooks.py` | hook directories | `dispatch` | every script runs, in order, and the event is confirmed |
| Retrievers and helpers | cached statistics | reading `/proc`, WMI, rpm, utmp | mostly input and output |

How they interact. Four kinds of threads share the agent: the worker
(`doWork`), the listener (`doListen`), on Windows the thread on which the
service manager delivers controls, and on Linux the `CredServer` thread with one
`CredChannel` thread per login. The first three call `_send`, and so
`VirtIoChannel.write`, directly; there is not a lock in the whole agent. The
listener calls command handlers synchronously: while a login waits for its PAM
client, or a hook runs, no other command is taken. A greeter (another process)
hears a D-Bus signal, and starts a PAM module (a third process) which connects
to the abstract socket of the `CredChannel`. On Windows the agent writes the
credentials to a named pipe, which a thread inside LogonUI or Winlogon has made
and which that process's own thread may close at any moment.

What is hard to test here: every step of one of these threads between two steps
of another (the version test and the write of `_send`; the compare, send and
cache of `sendUserInfo`; the pieces of one `write`; the handles of a pipe and
its thread), exceptions that end a thread or leave a field set, clients that are
slow, stale, numerous or die, dialogs that come and go under a listener, and the
stop of all of it. `PROJECT.json` lists these hazards by source line, each with
the properties that would see it go wrong or the reason none does.

## Modules

| Module | Models |
|---|---|
| `ApiVersion` | the message vocabulary and its version table |
| `AgentLogic`, `AgentLogicMC` | the agent core; extends `ApiVersion` |
| `LineChannel` | abstract: a channel of whole messages |
| `VirtIoChannel`, `VirtIoChannelMC` | the byte stream in both directions; implements `LineChannel` |
| `WinPort` | the port of the Windows agent, shared by its threads |
| `CredServer`, `CredServerMC` | SSO on Linux: server, one-shot channel and its PAM clients |
| `AgentDaemon` | the life of the Linux process: main thread, SIGTERM, the threads it starts |
| `WinService` | the life of the Windows service: start, stop, shutdown, session changes |
| `TokenBroker` | abstract: what a greeter plugin promises about tokens |
| `PluginState`, `GdmExtension`, `Gdm2Extension`, `KdmGreeter` | the three plugins: their structure and each handler as an operator on it |
| `Greeter` | a greeter with one of the plugins; implements `TokenBroker` |
| `CredProvider` | the credential provider between the agent and LogonUI |
| `GinaStub` | negotiation, registry and wrapped dialogs of the GINA, as operators |
| `Gina`, `GinaMC` | the GINA at work: Winlogon's dialogs and the listener thread |
| `CredBuffer` | the buffer of credentials and its three readers |
| `Helpers` | each function of `Helpers.cpp` with every set of failing calls |
| `Serialization`, `SerializationMC` | credentials from the agent to those who log the user on |

Theorems are in `AgentLogicProofs`, `AgentDaemonProofs`, `CredServerProofs`,
`VirtIoChannelProofs`, `WinServiceProofs`, `GreeterProofs`, `CredProviderProofs`
and `GinaProofs`.

How they compose. `AgentLogic` writes whole messages to the host in one step;
`VirtIoChannel` says when that is justified: with one writer at a time, or a
port that takes a line in one call, the stream implements `LineChannel`
(`ImplementsLineChannel`; `ChannelRefines` proves every step of it). `WinPort` is
what the threads of the Windows agent have below that. `WinService` and
`AgentDaemon` keep of the agent what decides when the process ends. `Greeter`
calls the handlers of the three plugin modules, `Gina` the operators of
`GinaStub`, `Serialization` those of `CredBuffer` and `Helpers`. `CredServer`
has a greeter that may answer with any token it ever heard; `Greeter` shows
which ones it does answer with.

Some definitions are headed *Slip*. A slip is a plausible mistake in the action
next to it (a dropped guard, a lost remainder). Nothing in a specification uses
a slip; replacing the action by it must break the property it is kept for, and
`PROJECT.json` pairs them under `mutants`.

## AgentLogic

State. `apiVersion`, `activeUser`, `desktopLocked`, `waitStop` are the fields
of the object and its retriever; `timers` are the countdowns local to `doWork`.
`todo[t]` is what the handler that thread `t` is in has still to do: a sequence
of messages to send and internal operations, so one handler is one script
(`StartupScript`, `RefreshScript`, `LoopScript`, the session scripts).
`inbox` and `hostUser`, `hostSession` are the host's ends. `current`,
`replied`, `late`, `overlapped` are history variables that no action reads.

| Action | Code |
|---|---|
| `Gate`, `WriteMessage` | `_send`: test of the version, then write: two steps, since nothing makes them one |
| `ReadUser`, `CompareUser`, `CacheUser` | `sendUserInfo`: `getActiveUser`, the comparison, the assignment after the send |
| `WorkerLoop`, `WorkerDone` | one turn of the loop of `doWork`; `sessionShutdown` after it |
| `ListenerCheck`, `Receive` | the loop of `doListen`; `parseCommand` by command (`OnApiVersion`, `OnRefresh`, `OnOther`) |
| `HandlerReturns` | a call of the platform's command handler |
| `Raise` | an operation that can fail does (`FallibleOps`): `doListen` logs it, `doWork` ends its loop, a session method is left |
| `SessionLogon`, `AwaitUser`, `SessionLogoff`, `FetchCached`, `SessionLockChange` | the session methods, Windows only |
| `Stop` | `stop()` |
| `HostSends`, `GuestUserChanges` | the environment |

Abstracted: every payload but the user; one second of `time.sleep` is one turn
of the loop; the periods keep their order, not their values.

Properties.

- `ListenerNeverLate`: no reply to a command is written above the version in
  force, because only the listener lowers the version. `AtMostOneLate`: another
  thread that loses the race loses it once per change, however long it reports.
  `GateInv` is why.
- `CommandAnswered`: a finished command has sent exactly the messages of its
  answer that the version, as the command left it, supports, whatever the other
  threads sent meanwhile.
- `CacheIsHostView`: with no report of the user under way, `activeUser` names
  the user the host was told last. It needs that no two threads ever reported
  the user at once, that nothing raised, and that the version is not negative:
  each of the three does break it.
- `HostLearnsUser`, `StopIsAnnounced`, `HeartbeatsContinue`, `CommandsTakenUp`:
  what must come in the end.

## VirtIoChannel

A line is a run of pieces, the last of which holds the newline; `rest[t]` is the
local `message` of a running `write`, `buffer` is `_buffer`. `WriteSome` is one
turn of the loop of `write` (the port takes any number of pieces it is allowed
to), `WriteFails` an `os.write` that raises with part of the line on the port,
`ReadBuffer` a chunk of at most `ReadSize` pieces, `ReadLine` `_readline` with
`_parseLine`. A line of the host may be one that does not decode.

`DamageIsBounded`: a line the host splits off is one message, except that each
failed write may spoil one. `EveryCommandParsed`: chunked reads lose no command,
and lines that do not decode cost only themselves. `ImplementsLineChannel`: the
refinement of `LineChannel` under `queue <- the messages whose newline is on its
way` (`Complete`), order and number included.

Left out: the character filter (`_filter_object`) and JSON itself; a line is
known by its id.

## WinPort

All threads of the Windows agent write through one OVERLAPPED structure,
`_write_ovrlpd`. `WriteFile` marks it pending, `Completes` (the driver, in
order) stores the count of whatever buffer it has finished, `GetResult` reads
what is there and cuts that much off the message; so a thread may go by another
thread's count. `WriteFileFails` is the except clause, which returns 0 and lets
the loop of `VirtIoChannel.write` repeat the buffer; `opened` is false when
neither port could be opened, and every call fails then. The driver takes
buffers whole (`VirtIoChannel` has the ports that do not); since the rest of a
message ends with its newline, each buffer taken is one line at the host.

`EveryLineArrives`: a `write` that has returned has given its whole line to the
port, though threads may have used the structure at once - as long as no call
failed. `AloneIsExact`: as long as they did not, the host gets each line whole
and once, through any number of failures. With both, a line may be lost; with
sharing alone, tails of lines arrive as lines of their own. `WriteReturns`
(`WinPortReturns.cfg`): a device that comes back lets every write end.

## CredServer

A login is a number, which stands for its token and its credentials.
`server` is the D-Bus thread, `listener` the progress of `user_authenticated`
(`OpenChannel`, `Announce` or `AnnounceRaises`, `Joined`, and `IgnoreLogin` for
its else branch), `channel`, `open`, `backlog`, `conn` the `CredChannel` thread
and its socket (`Bind`, `Accept`, `AcceptTimesOut`, `PassCred`, `Peek`,
`Answer`). A client is a process that runs the PAM module once: `Prompt` (its
greeter answers with a token it heard, now or long ago), `Connect`,
`SendToken`, `ReadReply`, `GiveUp` after three seconds, `Die`. Two behaviours
are the kernel's: a connection waits in the backlog until it is accepted, and a
message that arrives between `accept` and `SO_PASSCRED` may come without the
user id of its sender (`unnamed`).

`RightCredentials`: credentials go to root only, and to the login the client's
greeter was told about. `DeliveredOnce`: they leave the agent once.
`BusyOnlyInside`: as long as the signal could be emitted, `_cred_channel` is set
exactly while a login is under way. `LoginReturns`: the listener comes back,
though the accepted connection has no timeout of its own, because each client
sends or dies. `AcceptedIsServed`: a root client that was accepted and has the
current token is served unless it gives up, dies, or its token came before
`SO_PASSCRED`.

Left out: two random tokens that are equal; `settimeout` as real time (the
channel may time out whenever nobody waits); the layout of the control message.

## AgentDaemon

`main` is where the main thread is, from reading the configuration to the exit
of the interpreter; `handler` is the SIGTERM handler, which Python runs on that
thread. `cred` and `quit` are the `CredServer` thread and its `_quit`;
`worker`, `listener` and `channel` keep of `AgentLogic` and `CredServer` what
decides when the process ends. These modules see a login or a report in full;
here it is a state the thread can be in.

| Action | Code |
|---|---|
| `SetUp`, `WritePid`, `Register`, `StartFails` | `OVirtAgentDaemon.run` up to `agent.run`, and its except clause |
| `StartCred`, `CredIsStarted`, `StartListener`, `StartWorker`, `WorkerJoined` | `LinuxVdsAgent.run`, `AgentLogicBase.run`, `_join` |
| `Unlink`, then `JoinThread`, `ThreadJoined`, `Exit` | the finally clause, which passes over an error; the interpreter's exit, which joins the `CredServer` thread |
| `Sigterm`, `HandleTerm`, `JoinRaises`, `StopAfterJoin` | delivery, handler, `LinuxVdsAgent.stop` with `CredServer.join` |
| `CredBootstraps`, `CredOnBus`, `CredFails`, `CredQuits` | `CredServer.run` |
| `Worker...`, `Listener...`, `Login...`, `ChannelEnds` | the other threads |

A signal is handled between two steps of the main thread but not while it is
blocked in the handler's own join or in the interpreter's exit (`Blocked`):
Python 2 waits for a lock without a timeout uninterruptibly. The interpreter
joins threads that are no daemons: worker and listener are raw threads, and
`CredChannel`, made on the listener, inherits from Python 2's record of a raw
thread that it is a daemon. When `join` raises in the handler (the thread was not
started), the exception meets whatever the main thread is in: `run` or the except
clause is left for the finally clause; there it may meet the unlink, whose own
except clause swallows it; in the interpreter's exit the wait for threads ends
(`JoinRaises`).

`StopIsComplete`: `wait_stop` is set only with the credential server over.
`ExitIsAnnounced`: without an exception the process never exits before the
worker sent session-shutdown. `CleanExit`: however it ends, the default pid file
is gone, unless the unlink raised (`unlinkFailed`), a SIGTERM came before there
was a handler, or a second one met the finally clause of the first (proved; no
run checks it, and each of the three does leave the file). `HeardTermEnds`: a
SIGTERM that the credential server can hear ends the process.
`NothingElseLives`: once worker and credential server are over, neither a
listener that is reading nor a login keeps the process. `TermIsObeyed` is what the code does not give: a SIGTERM before the
credential server's loop is lost.

Left out: a signal that interrupts the handler (`Handling` runs one at a time),
two agents with one pid file, `-h` and wrong options (which `os._exit`).

## WinService

`svc` is where `SvcDoRun` is, `handler` what the thread of the controls is in,
`worker` and `listener` the threads of `WinVdsAgent`. Controls arrive in order
and one at a time; they may come as soon as pywin32 has reported the service as
running, which is before `SvcDoRun` has set `vdsAgent`.

| Action | Code |
|---|---|
| `ReportStarted`, `CreateAgent`, `StartListener`, `StartWorker`, `Joined`, `ReportStopped` | `SvcDoRun`, `WinVdsAgent.run`, `_join` |
| `CreateFails`, `RunFails`, `WorkerFails` | exceptions in them |
| `TakeStop`, `TakeShutdown`, then `StopAgent` | `SvcStop`, `SvcShutdown`, `stop` |
| `TakeChange`, `SetLocked`, `ChangeReported` | `SvcSessionChange` and the session method, on the control thread |
| `LoginDropped` | `CommandHandlerWin.login` on a desktop that is not locked |

A write returns while the port works (`WriteReturns` of `WinPort`) and hangs while it
does not; a session change that hangs keeps a stop behind it from being taken.

`NoEventAtShutdown`: an agent ended by a shutdown reports no "stopped" event.
`DropIsExplained`: a login is dropped as unnecessary only while some session is
unlocked or a change has not been handled, though the flag does not know which
session it is about. `StopEnds`: a stop that comes when there is an agent ends
the service once the port works for good. `StopIsObeyed`, without that
condition, does not hold.

## Greeter

`kind` says which of the three plugins runs and `ext` is its structure, a record
of `PluginState`. Each handler of the C and C++ sources is an operator from the
record before the call to the record after it, in `GdmExtension` (GDM 3: a queue
of messages, a conversation that is chosen), `Gdm2Extension` (GDM 2: one
message, "Token?" answered when it can be) and `KdmGreeter`. `Greeter` calls
them from the greeter's main loop, one at a time, between an agent that comes
and goes on the bus (`AgentChanges`, `Announce`), people who pick, cancel and
use the other login, and PAM's questions and texts.

`TimeoutsAccounted`: the sources attached to the main loop are exactly the one
the message id names, and none survives the plugin; a message waits only behind
a timeout. `ImplementsTokenBroker`: with `TokenBroker` read as the promise to the
agent, a token answers one question at most and only while it is the newest.
`LoginIsServed`: a login that found the greeter free is answered, unless a
newer one comes, somebody disturbs it or the greeter leaves.

Left out: labels, icons, pages; the generated D-Bus proxies.

## CredProvider

LogonUI's thread (`ui`) creates the provider, sets the scenario, advises, counts
and takes credentials, packs, reports, lets go. A pipe instance and its thread
have the same number `c`; `thread[c]` is where `CredentialsChannelWait` is and
`got[c]` what it has read. `agent` is the login command of `GuestAgentWin32.py`
with its three attempts. The provider's fields, the strings of the credential
and the handles of the channel are shared without a lock, so each access the
other thread may disturb is a step: `CreateChannelThread` and `SaveThread` are
two, the three strings are set in three steps and taken in three, `TestEvents`
and `Notify` are two. A failing call (allocation, pipe, thread, packing) is a
choice of the step it belongs to. A client with a blank user, and one whose
domain is the local machine's, are among the logins.

`ReferencesCounted`: the library's count is that of the objects there are, which
have counts of their own, through failing calls.
`SubmittedWhole`: once LogonUI has been told of a credential its strings are
there, and what is submitted is user, password and domain of one login.
`NoThreadAfterDelete`: no thread uses a provider that was deleted.
`AgentReturns`: the login command comes back unless it is connected to an
instance for which no thread could be started. `StoredIsSubmitted`: credentials
in the credential object are submitted, whenever they arrived, unless LogonUI
lets go or a call fails. `ArrivalIsAdvised` is the assertion of the code that
does not hold.

Left out: the class factory beyond the count of the library, vendored headers,
bitmap and strings of the tile. LogonUI sets the scenario of a provider once: a
second `SetUsageScenario` on the same provider would have `CreateChannel`
overwrite pipe and thread, and `CreateChannel` asserts that there are none
(`CredentialsChannel.cpp:49-50`).

## Gina

`GinaStub` has, as operators, the functions looked up for a version, the two
negotiations (`WlxNegotiate` with Winlogon, `MyInitialize` with the original),
the registry's values and which dialog is wrapped. `Gina` has Winlogon's thread,
which shows notices and logon dialogs one after the other, and the listener
thread of a logon dialog. `lsn` holds `hPipe`, `hThread` and the flag of an
attempt; `RestartListenerThread` and `KillListenerThread` are part of the dialog
procedure's steps, and may end the listener anywhere: between `CreatePipe` and
`StorePipe` that leaves an instance nobody serves (an orphan), and between
`ClosePipe` (`CloseHandle`) and `ForgetPipe` (`hPipe = NULL`), on the thread's
error paths too, it closes the handle a second time. `queue` holds the
messages posted to the dialog, `fields` what is typed in it; between the fields
and the click on OK the listener sleeps (`OkPosted`).

`ListenerIsOfTheDialog`: one listener at most, the one whose handle is stored,
and while a logon dialog is open it posts to that dialog; a stored pipe is that
listener's, and is not closed but in the one statement between `CloseHandle` and
`hPipe = NULL`.
`NegotiatedIsLoaded`: at the version that was agreed, each function Winlogon may
call has been loaded, except the optional ones. `OkIsOfItsLogin`: the listener's
OK submits user and password of its own message, unless a person or another
attempt changed the fields in the second between. `LogonIsReady`: where the stub
answers all dialogs itself, nobody is needed for the machine to be ready for
credentials again.

Left out: message boxes nested in a dialog, a `CreateThread` that fails, the
heap's lock held by a killed thread, what else the number of a handle that is
closed twice may name by then, terminal sessions beyond a disconnection.

## Serialization

`CredBuffer` is the buffer of a login: four bytes of length (here one), the
user, the password and the NUL that `struct.pack` adds. Each reader is an
operator: PAM's, the provider's (whose domain is what follows the "@") and the
GINA's. `Helpers` gives for each function of `Helpers.cpp` its HRESULT, what
comes out and the blocks still allocated, for every set of calls that fail;
lengths are 16-bit numbers that wrap. `Serialization` sends a login through a
reader and, for the provider, through the packing for the LSA and its unpacking.

A message that just fills the buffer of the GINA has a NUL written behind it
(`WrittenBehind`, `GinaDlg.cpp:129`): the result is then the ordinary one or none
at all, since the process, Winlogon, may end of it.

`ReadAsGiven`: a reader that accepts the message hands on the user and password
that were given; it hands on nothing only if the message is too long for the
pipe, fills the GINA's buffer, or has an empty string. `LsaReads`: what is packed the LSA unpacks as the same three
strings, inside the block. `NothingLeaks`: whatever calls fail, a helper leaves
no block but what it hands out.

## Runs and bounds

| Run | Question | Bounds |
|---|---|---|
| `agent_linux` | version gate and answers under all interleavings of worker and listener | any two of 11 commands (four that move the version, both ends exceeded), one change of user, periods 1 and 2 |
| `agent_windows` | the session thread races the worker: user cache | two session events of any kind, one command, one change of user, one exception |
| `agent_live` | the four liveness properties | two commands of a refresh and a delegated one (which may raise), one change of user, one exception |
| `channel` | damage, refinement, liveness of the reader | one writer and a port that splits anywhere, or two and a port that takes lines whole; lines of 1 or 3 pieces, reads of up to 2; up to two failures |
| `sso` | delivery of credentials, the listener returns, clients are served | two logins, two root clients and one user's, one failure |
| `daemon` | stop and exit | two signals, two logins, two exceptions |
| `win_port` | lines through the shared structure | two threads, two messages each of length 1 or 3, one outage, or no port at all |
| `win_service` | stop, shutdown, session changes | three controls, two sessions, one command, one exception, a port that changes at will |
| `greeter` | tokens, timeouts | three logins, two messages, one failure of the bus, each plugin |
| `credprov` | races of pipe thread and LogonUI | three logins (one blank, one local), three pipe instances, one failing call |
| `gina` | listener, dialogs, negotiation | two logins, three threads, one orphan, two messages in the queue, one failure, two interruptions, Winlogon 1.3 and 1.4, five originals, three registries |
| `serialization` | the buffer and its readers, the helpers | users up to 4 characters of "a" and "@", passwords up to 3, buffers of 9 and 11, numbers that wrap at 8 |

Why they are enough. The gate race needs one message in flight and one change of
version; two commands make a change and its reversal, or a change during the
reply to another. The user cache needs two threads and one change of user. One
split line and one line of one piece are all the shapes that matter to framing;
a read of two pieces can end inside a line, at its end, and behind it. Two
logins let a client be one channel late; two root clients compete while a third
is turned away. Two signals make one arrive before and one behind any place of
the main thread. Two threads are what it takes to share a structure, and two
lengths make one's count too short or too long for the other. Three controls put
a session change between a stop and a shutdown. Three tokens make one stale, one
current and one to come. Three pipe instances are three providers, created one
after the other, each with its one scenario, while a client waits. Two logins and three threads let a listener
be killed with another attempt's fields on show. Strings of four characters have
every place for an "@", and numbers that wrap at 8 make the longest ones wrap.
Deadlock is not checked: agents that were stopped, hosts that ask for nothing
more, clients that are done and processes that are gone really are at rest.

## Fairness

Each specification assumes weak fairness of threads that go on by themselves,
and nothing of commands, users, people, stops, signals or failures.

`AgentLogic!FairSpec`: the worker, the listener and the session thread. Python's
interpreter lock hands itself on, and the host drains the port (the one
assumption from outside). `VirtIoChannel!FairSpec`: each `write` goes on, the
host drains, the listener reads. `FairPortSpec` of `WinPort`: each `write` goes on and
the driver completes or fails what it has. `CredServer!FairSpec`: the listener
inside `user_authenticated`, the channel thread and each PAM client go on; the
last one is what ends `Peek`, and it holds since the module sends right after it
has connected. No host need ask for a login and no greeter need answer one.
`AgentDaemon!FairSpec`: the main thread, its handler, the credential server and
the worker go on; the listener's read need not return, and no login or channel
need ever end. `WinService!FairSpec`: the
service's thread, the control thread and the worker; a port that works is the
premise of `StopEnds` and not an assumption. `Greeter!LiveSpec`: the main loop
dispatches signals and timeouts and PAM asks the question a chosen conversation
begins with; a stopped conversation is reset. `CredProvider!LiveSpec`: LogonUI
goes on with what it has begun (it need not begin), each pipe thread runs, a call
to a pipe that can be answered is. `Gina!LiveSpec`: Winlogon boots and shows its
dialogs, posted messages and other messages of the dialog are dispatched, the
listener runs; a person need do nothing.

## Proofs

All constants are arbitrary under the assumption their module names, mostly that
bounds are numbers: any set of users and commands, any periods, any number of
clients, logins, commands, sessions and failures. `GinaAssumption` also says that
versions are numbers and that the libraries are records with their exports;
`StringsAssumption`, that the strings of `Serialization` are sequences of any
characters but NUL, which is what C and Windows take a string to be.

- `AgentLogicProofs!TypeCorrect`: `TypeOK`. The scripts are sequences of
  operations (`ScriptType`), and every action leaves such a sequence behind.
- `AgentLogicProofs!GateCorrect`: `GateInv`, and from it `ListenerNeverLate` and
  `AtMostOneLate`. Neither property is inductive. `ReadingIsIdle` says that the
  listener takes a command, and so changes the version, only with nothing of its
  own in flight; `LateBudget`, that a thread which holds a message that is now
  too new has not yet been late since the change. A write uses the budget up, and
  only a change of version renews it.
- `AgentLogicProofs!AnswerCorrect`: `CommandAnswered`. `AnswerInv` says of the
  listener, at every operation of its script and as long as nothing has raised,
  that what it has written since it took the command, the message past its gate and
  the supported part of what it has still to say (`Reply`) make up the supported
  part of one answer of the current command, and that it never polls, so that its
  reports of the user are all forced; the version changes only before the first of
  them. `CpusConfirmedOnLinux` is `CpusConfirmed` from
  the same invariant where the system is not Windows; `AgentWinCpus.cfg` is the
  other case.
- `AgentLogicProofs!ViewCorrect`: `CacheIsHostView`. `ViewInv` gives the shape of
  what each thread has still to do (`Shape`), says that a report of the user has
  one owner until two overlap (`OneReporter`), and that, where
  nothing has come between (no failure, no muted message, no overlap, no forced
  report still due: `Settled`), the cache, the user read and the user written agree
  as far as that owner has come (`Knows`).
- `CredServerProofs!TypeCorrect`: `TypeOK`, through `TypeInv`, which adds that
  logins are counted (`Counted`) and that an accepted connection has a client
  (`Connected`).
- `CredServerProofs!DeliveryCorrect`: `DeliveryInv`, and from it
  `RightCredentials` and `DeliveredOnce`. What a client was given had been
  announced (`PromptedIsAnnounced`), only root's connection gets as far as its
  token (`ReceivingIsRoot`), and a reply for the current login means that its
  channel is over (`AnsweredIsOver`), so no second answer can carry the same
  number. `AwayIsOutside` keeps a token from changing under a connection.
- `CredServerProofs!BusyCorrect`: `BusyOnlyInside`, which is inductive.
- `AgentDaemonProofs!TypeCorrect`, `StopCorrect`, `ExitCorrect` and
  `PidFileCorrect`: `TypeOK`, `StopIsComplete`, `ExitIsAnnounced`, `CleanExit`.
  None of the last three is inductive alone; what each needs is where the main
  thread is. `StopInv`: the credential server's only start lies behind it, so
  `ended` stays. `WorkerBehind`: a handler that raises finds the credential
  server not started and hence the worker unborn, and every place behind `wait`
  has a worker that never was or is done. `PidFileInv`: an exit has passed
  the finally clause or was raised out of it, and for the latter a signal was
  handled that came after the one that led there (`Signals`, `RaisesCounted`), so
  two came.
- `VirtIoChannelProofs!TypeCorrect` (`TypeOK`) and `FramingCorrect`: if the
  port takes each line whole, whatever fails, or if there is one writer and no write
  fails (`Safe`), the host splits off whole messages only (`LinesIntact`), in any
  number, for any lengths and any split. `FramingInv` says of the stream, from the host's buffer through the port
  to the rest of the write under way, that each piece is followed by its
  successor (`Flow`), that what is left of a message continues what went before
  it (`Goes`), and that where a port may split a line, its one writer leaves none
  unfinished between two writes (`Between`).
- `VirtIoChannelProofs!DamageCorrect`: `DamageIsBounded` with any number of
  failures, for one writer or a port that takes lines whole; with several writers
  and a port that does not, it is false (`ChannelInterleaved.cfg`). `DamageInv`
  counts, in all that is on its way from the one writer to the host (`Stream`), the
  places at which a line was left off (`Cuts`): they and the damaged lines at the
  host are together no more than the failures. A line that the host splits off
  damaged takes at least one such place out of the stream (`UncutIsIntact`), and
  what follows a newline starts a line (`Starts`), so it takes none of the next
  line's.
- `VirtIoChannelProofs!CommandsCorrect`: the safety half of `EveryCommandParsed`,
  for any chunks and lengths. The host's lines are those the listener has split off
  and, in `_buffer` and the port, those it has not; what was parsed is the commands
  among the first, in the host's order, each once (`TakenInOrder`). `ReadInv` adds
  that what is unread is whole lines (no `Cuts`), so that the first newline of the
  buffer ends the oldest of them.
- `VirtIoChannelProofs!ChannelRefines`: the safety half of
  `ImplementsLineChannel`, `Spec /\ Framed => Abstract!Spec`, where `Framed` says
  that an instance without errors is `Safe`. Its lemmas count newlines: `Nth`
  numbers them without a gap (`NthIs`, by the pigeonhole principle), so the
  messages complete in two streams, one behind the other, are those of the first
  and then those of the second (`CompleteConcat`). `RestInv`: what a thread has
  left to write is the end of one line.
- `VirtIoChannelProofs!AloneCorrect` (`AloneIsExact`) and `ArrivalCorrect`
  (`EveryLineArrives`), for `WinPort`. `PortInv`: until a call fails, every line of
  which a part went out has its start at the host or with the driver (`NoneLost`); until two threads have used the structure at once, the count
  in it is that of the one who waits, and no line is in two places (`Exact`).
- `WinServiceProofs!TypeCorrect`, `EventCorrect` (`NoEventAtShutdown`) and
  `DropCorrect` (`DropIsExplained`). `EndInv`: an agent that is over has its
  cause recorded, so a shutdown that comes later is not the cause; one that is
  has set the flag before. `FlagInv`: the last change of a session, whether still
  queued, in the handler or in the flag, left that session as it says, and the
  flag has its first value while there is no agent.
- `GreeterProofs!TypeCorrect`, `TimeoutsCorrect` (`TimeoutsAccounted`) and
  `BrokerCorrect` (the step and initial-state facts of the refinement, and so
  `ImplementsTokenBroker`, which has no fairness). `Structure` says of each kind
  what its record may hold; `Numbered`, that tokens are heard in the order in
  which they were announced; `Kept`, that the token kept, if any, is the newest
  heard and not yet given, or that the conversation that got it is still on.
- `CredProviderProofs!TypeCorrect`, `ReferencesCorrect` (`ReferencesCounted`),
  `SubmissionCorrect` (`SubmittedWhole`) and `DeleteCorrect`
  (`NoThreadAfterDelete`), for any number of logins, instances and failures. `Lives` ties the reference counts to where LogonUI's thread is;
  `OneThread` says that only the newest instance's thread can still touch the
  provider and that the channel's handle is its own, but for the step between its
  creation and the store; `Same`, that each string of the credential is the one
  the thread has read, in the order in which it sets them.
- `GinaProofs!NegotiationCorrect` (`NegotiatedIsLoaded`), for every registry and
  every set of original libraries: the lookup loads exactly the names of the
  version or refuses (`Loads`, `Negotiates`). `ListenerCorrect`
  (`ListenerIsOfTheDialog`): the stored thread is the only one alive and the
  stored pipe is its own, stored only while the thread is at a place that may
  hold it (`Mine`, `Holding`), and a dialog that has had its first message
  has replaced the listener of the one before. `ClickCorrect` (`OkIsOfItsLogin`):
  in the dialog's queue a click has its own fields just before it, or they are in
  the dialog, and so it is for the listener that has still to click (`InOrder`); a
  message of the dialog makes no further listener ready for the click
  (`ProcOlder`), and where no dialog is shown nobody posts (`Quiet`).

- `CredProviderProofs!ReadingCorrect` (`ReadAsGiven`), `PackingCorrect`
  (`LsaReads`) and `HelpersCorrect` (`NothingLeaks`), for `Serialization`, with
  strings of any length. `WayInv` carries along what each stage has made of the
  login. The lemmas below it say what a reader finds in a buffer of strings and
  NULs: the first string of what follows is the one put there (`FirstOf`,
  `NameFound`, `PasswordFound`), one reader after the other (`PamReads`,
  `GinaReads`, `ProviderReads`); that the packed strings lie behind one another,
  each at its offset (`PacksTheForm`, `PointsBehind`, `UnpacksTheForm`); and that
  each helper frees what it does not hand out (`HelpersClear`).

So every invariant that a run checks has its theorem, and so have both refinements
and every action property. Two attempts at these proofs changed the modules: an arm
of a CASE in `Helpers` and one in `Gina` could hold together with another, and
then TLA+ does not say which is taken, though TLC takes the first. The arms now
exclude each other, as the code's `else` does. `Complete` counts newlines instead
of selecting pieces, since the prover knows nothing of `SelectSeq`.

Model-checked only. The liveness properties (`HostLearnsUser`, `StopIsAnnounced`,
`HeartbeatsContinue`, `CommandsTakenUp`, `EveryCommandParsed` (that the end comes;
what it is, `CommandsCorrect` says), `LoginReturns`,
`AcceptedIsServed`, `HeardTermEnds`, `NothingElseLives`, `StopEnds`,
`LoginIsServed`, `AgentReturns`, `StoredIsSubmitted`, `LogonIsReady`) and the
fairness of `ImplementsLineChannel`: fairness and ENABLED are beyond the prover.

## What the code does not give

These configurations end in a violation. They are kept beside the runs and show
where a property stronger than the ones above fails, two of them against words of
the repository itself:

- `SsoIgnored.cfg` (`IgnoredOnlyWhileInProgress`): once the signal could not be
  emitted, `_cred_channel` stays set and every later login is ignored with a log
  line that says another one is in progress (`CredServer.py:281-282`).
- `CredProviderAdvised.cfg` (`ArrivalIsAdvised`): `OnCredentialsArrivial` asserts
  that LogonUI listens (`OVirtProvider.cpp:228`), yet the pipe exists from
  `SetUsageScenario` to the destructor, before `Advise` and after `UnAdvise`.
- `AgentLate.cfg` (`NeverLate`): a message above the version in force, since
  `_send` tests and writes without a lock. `AtMostOneLate` is what does hold.
- `AgentWinCpus.cfg` (`CpusConfirmed`): on Windows `set-number-of-cpus` is never
  confirmed; the handler's method is called `setNumberOfCPUs`, the call
  `set_number_of_cpus`.
- `ChannelInterleaved.cfg` (`DamageIsBounded`): two threads writing at once mix
  their lines when the port takes part of a buffer.
- `DaemonTerm.cfg` (`TermIsObeyed`): a SIGTERM before the credential server's
  loop does not stop the agent. Before the thread is started `join` raises, `run`
  is left and the interpreter waits for a thread that then loops; after that,
  `run` clears the `_quit` that `join` has set, and the handler waits for ever.
- `WinServiceStop.cfg` (`StopIsObeyed`): a stop that is taken before `SvcDoRun`
  has set `vdsAgent` has told the service manager that it is pending and then
  raises; the service runs on.

## What else the code does

Seen while modelling, true to the source in the modules, and worth knowing:

- A login heard while a greeter is busy cancels its conversation, and the reset
  that follows frees the token: GDM 3 then answers with NULL, GDM 2 leaves the
  question open. A second announcement leaks the string of the first.
- A client that connects to the provider's pipe before `_pListener` is stored is
  dropped, though the agent's call succeeds. A failing `CreateThread` leaves a
  pipe nobody serves. `CreateChannel`'s bool becomes an HRESULT, and
  `DllCanUnloadNow` gives its truth as one, which inverts it.
  `GetSerialization` leaks the packed block when the package cannot be looked up
  (`OVirtCredentials.cpp:211-216`).
- `StartApplication`, which need not be exported, is called through its pointer
  all the same (`GinaSSO.cpp:424-432`). After a successful logon the messages of
  the destroyed dialog start a listener that posts to a window that is gone and
  swallows credentials until the next dialog. A buffer that is filled is
  terminated one byte behind its end (`GinaDlg.cpp:129`). A listener killed
  between `CloseHandle` and `hPipe = NULL` has its handle closed twice
  (`GinaDlg.cpp:132-133`, `643`).
- The agent's pid file stays when its removal fails (`ovirt-guest-agent.py:144-147`
  passes over the error); at the next start it is written over.
- PAM's `recv` cuts a message of more than 256 bytes silently. A user that begins
  with "@" passes the provider with an empty name.
  `KerbInteractiveUnlockLogonRepackNative` takes a positive `GetLastError()` for
  success.

## Not modelled

Reading `/proc`, rpm, utmp, WMI and the registry, with the differences of
statistics and the merge of interfaces that are arithmetic on them; the scripts
of hooks and their order; the helpers that lock and log off, the time zone, the
installer's scripts: input and output with hardly a state of their own. Tests
and packaging. VDSM's side of the version negotiation (`reportedVersion`): the
repository does not have it. Two agents with one pid file; options that only
print. In the Windows service, the search for the configuration of the log. In
the GINA, what its section lists. `SplitDomainAndUsername` is not compiled.
Vendored headers (`intsafe.h`, `credentialprovider.h`) are the platform's. A
thread that `TerminateThread` ends while it holds the heap's lock can hang
LogonUI or Winlogon; allocation is not modelled so finely.

## Plan

What a continuation would add, most useful first:

1. Step lemmas for the leads-to properties that rest on one action (`LoginReturns`,
   `StopEnds`), so that only the fairness remains with TLC.
2. Agent and VDSM exchanging heartbeats, `api-version` and `refresh` with
   restarts of each, as `ChangeLog` describes it.
3. `CredServer` composed with `Greeter`, in place of a client that answers with
   any token it heard.
4. The arithmetic of the retrievers against reference definitions.

## How to run

    tlc -workers 2 -config AgentLinux.cfg AgentLogicMC.tla
    tlapm CredServerProofs.tla

Each configuration names its module in `PROJECT.json`; the further ones belong to
`AgentLogicMC` (`Agent*`), `VirtIoChannelMC`, `CredServerMC` (`SsoIgnored`),
`AgentDaemon`, `WinPort`, `WinService` and `CredProvider`.
`agent_linux`, `agent_live` and `channel` take about two minutes each, `gina` one
and a half, `win_service` one, every other run less.
