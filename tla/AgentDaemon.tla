---------------------------- MODULE AgentDaemon ----------------------------
(***************************************************************************)
(* The life of the Linux agent's process: ovirt-guest-agent.py (the main   *)
(* thread and its SIGTERM handler), LinuxVdsAgent.run and stop, the        *)
(* threads that AgentLogicBase.run starts, and the CredServer thread with  *)
(* its _quit flag.                                                         *)
(*                                                                         *)
(* Python runs the handler on the main thread, between two of its          *)
(* bytecodes, and never while it is blocked on a lock without a timeout.   *)
(* The worker and the listener are raw threads and die with the process;   *)
(* CredServer is a threading.Thread, and the interpreter waits for it      *)
(* before it exits.  CredChannel is one too, but made on the listener, a   *)
(* raw thread, which Python 2 counts as a daemon; it inherits that, and    *)
(* nobody waits for it.  What the threads do besides living and ending is  *)
(* in AgentLogic and CredServer.  A second signal that interrupts the      *)
(* handler itself is left out.                                             *)
(***************************************************************************)
EXTENDS Naturals

CONSTANTS
    MaxTerms,      \* bound: SIGTERM signals
    MaxLogins,     \* bound: login commands of the host
    MaxFailures    \* bound: exceptions

ASSUME DaemonAssumption ==
    {MaxTerms, MaxLogins, MaxFailures} \subseteq Nat

VARIABLES
    main,        \* where the main thread is
    hears,       \* the SIGTERM handler is registered
    handler,     \* sigterm_handler: "none", or "joining" the CredServer
    term,        \* a SIGTERM has arrived and is not yet handled
    killed,      \* it ended the process, before there was a handler
    cred,        \* the CredServer thread
    quit,        \* CredServer._quit
    waitStop,    \* the wait_stop event
    worker,      \* doWork; its event is set when it is "done"
    listener,    \* doListen: reading, or inside user_authenticated
    channel,     \* the CredChannel thread, "none" if _cred_channel is None
    ownPidFile,  \* the pid file is the default one, AGENT_PIDFILE
    pidFile,     \* it is there
    unlinkFailed,    \* history: the finally clause's unlink has raised
    announced,   \* history: session-shutdown was sent
    terms, logins, failures     \* counters of the bounds

signalVars == <<hears, handler, term, killed, waitStop>>
credVars == <<cred, quit>>
threadVars == <<worker, listener, channel>>
fileVars == <<ownPidFile, pidFile, unlinkFailed>>
boundVars == <<terms, logins, failures>>
vars == <<main, signalVars, credVars, threadVars, fileVars, announced,
          boundVars>>

(* The main thread inside OVirtAgentDaemon.run, once it has its handler.   *)
Handling == {"startcred", "awaitcred", "startlistener", "startworker",
             "wait"}

(* The places of the main thread, in order; "raised" is the except clause, *)
(* and the interpreter's exit follows the finally clause.                  *)
Places == {"setup", "writepid", "register", "down", "raised", "finalize",
           "joincred", "exited"} \cup Handling

Blocked == main = "joincred"
Alive == main # "exited"
CredStarted == cred \notin {"unborn", "spawned"}
CredAlive == cred \in {"connecting", "looping"}
CredOver == cred \in {"ended", "failed"}

Init ==
    /\ main = "setup"
    /\ hears = FALSE /\ handler = "none" /\ term = FALSE /\ killed = FALSE
    /\ cred = "unborn" /\ quit = FALSE
    /\ waitStop = FALSE
    /\ worker = "unborn" /\ listener = "unborn" /\ channel = "none"
    /\ ownPidFile \in BOOLEAN /\ pidFile = FALSE /\ unlinkFailed = FALSE
    /\ announced = FALSE
    /\ terms = 0 /\ logins = 0 /\ failures = 0

Fails == failures < MaxFailures /\ failures' = failures + 1

-----------------------------------------------------------------------------
(* The main thread.                                                        *)

Goes(from, to) == handler = "none" /\ main = from /\ main' = to

(* Read the configuration, open the port, become a daemon.                 *)
SetUp ==
    /\ Goes("setup", "writepid")
    /\ UNCHANGED <<signalVars, credVars, threadVars, fileVars, announced,
                   boundVars>>

WritePid ==
    /\ Goes("writepid", "register")
    /\ pidFile' = TRUE
    /\ UNCHANGED <<signalVars, credVars, threadVars, ownPidFile,
                   unlinkFailed, announced, boundVars>>

(* There is no port; or the pid file cannot be opened, or is there but     *)
(* cannot be written or given its mode.                                    *)
StartFails ==
    /\ \/ Goes("setup", "raised") /\ UNCHANGED pidFile
       \/ Goes("writepid", "raised") /\ pidFile' \in BOOLEAN
    /\ Fails
    /\ UNCHANGED <<signalVars, credVars, threadVars, ownPidFile,
                   unlinkFailed, announced, terms, logins>>

Register ==
    /\ Goes("register", "startcred")
    /\ hears' = TRUE
    /\ UNCHANGED <<handler, term, killed, waitStop, credVars, threadVars,
                   fileVars, announced, boundVars>>

(* Thread.start, up to its wait for the new thread.                        *)
StartCred ==
    /\ Goes("startcred", "awaitcred")
    /\ cred' = "spawned"
    /\ UNCHANGED <<signalVars, quit, threadVars, fileVars, announced,
                   boundVars>>

CredIsStarted ==
    /\ Goes("awaitcred", "startlistener")
    /\ CredStarted
    /\ UNCHANGED <<signalVars, credVars, threadVars, fileVars, announced,
                   boundVars>>

StartListener ==
    /\ Goes("startlistener", "startworker")
    /\ listener' = "reading"
    /\ UNCHANGED <<signalVars, credVars, worker, channel, fileVars,
                   announced, boundVars>>

StartWorker ==
    /\ Goes("startworker", "wait")
    /\ worker' = "startup"
    /\ UNCHANGED <<signalVars, credVars, listener, channel, fileVars,
                   announced, boundVars>>

(* Slips: the main thread waits for the stop instead of the worker, or for *)
(* the listener too.                                                       *)
WorkerStopped ==
    /\ Goes("wait", "down")
    /\ worker = "done" \/ waitStop
    /\ UNCHANGED <<signalVars, credVars, threadVars, fileVars, announced,
                   boundVars>>

ListenerJoined ==
    /\ Goes("wait", "down")
    /\ worker = "done" /\ listener = "stopped"
    /\ UNCHANGED <<signalVars, credVars, threadVars, fileVars, announced,
                   boundVars>>

(* _join: the worker has ended, for whatever reason.                       *)
WorkerJoined ==
    /\ Goes("wait", "down")
    /\ worker = "done"
    /\ UNCHANGED <<signalVars, credVars, threadVars, fileVars, announced,
                   boundVars>>

(* The finally clause removes AGENT_PIDFILE, whatever -p said; an error is *)
(* passed over.                                                            *)
Unlink ==
    /\ Goes("down", "finalize") \/ Goes("raised", "finalize")
    /\ \/ /\ pidFile' = (pidFile /\ ~ownPidFile)
          /\ UNCHANGED <<unlinkFailed, failures>>
       \/ /\ Fails
          /\ unlinkFailed' = TRUE
          /\ UNCHANGED pidFile
    /\ UNCHANGED <<signalVars, credVars, threadVars, ownPidFile, announced,
                   terms, logins>>

(* The interpreter joins the one thread that is no daemon, if it lives.    *)
JoinThread ==
    /\ CredAlive /\ Goes("finalize", "joincred")
    /\ UNCHANGED <<signalVars, credVars, threadVars, fileVars, announced,
                   boundVars>>

ThreadJoined ==
    /\ CredOver /\ Goes("joincred", "finalize")
    /\ UNCHANGED <<signalVars, credVars, threadVars, fileVars, announced,
                   boundVars>>

Exit ==
    /\ ~CredAlive
    /\ Goes("finalize", "exited")
    /\ UNCHANGED <<signalVars, credVars, threadVars, fileVars, announced,
                   boundVars>>

-----------------------------------------------------------------------------
(* SIGTERM.                                                                *)

Sigterm ==
    /\ Alive
    /\ terms < MaxTerms
    /\ terms' = terms + 1
    /\ \/ hears /\ term' = TRUE /\ UNCHANGED <<main, killed>>
       \/ ~hears /\ main' = "exited" /\ killed' = TRUE /\ UNCHANGED term
    /\ UNCHANGED <<hears, handler, waitStop, credVars, threadVars, fileVars,
                   announced, logins, failures>>

(* sigterm_handler ... CredServer.join: set _quit, then Thread.join.       *)
HandleTerm ==
    /\ term /\ Alive /\ ~Blocked /\ handler = "none"
    /\ term' = FALSE
    /\ handler' = "joining"
    /\ quit' = TRUE
    /\ UNCHANGED <<main, hears, killed, waitStop, cred, threadVars,
                   fileVars, announced, boundVars>>

(* "cannot join thread before it is started": the exception leaves the     *)
(* handler, and with it what the main thread was in: run(); the except     *)
(* clause, or the unlink, whose own except clause swallows it; the         *)
(* interpreter's wait for its threads, if that had begun.                  *)
JoinRaises ==
    /\ handler = "joining" /\ ~CredStarted
    /\ handler' = "none"
    /\ \/ main \in Handling /\ main' = "raised"
       \/ main \notin Handling /\ UNCHANGED main
       \/ main \in {"down", "raised"} /\ main' = "finalize"
       \/ main = "finalize" /\ main' = "exited"
    /\ UNCHANGED <<hears, term, killed, waitStop, credVars, threadVars,
                   fileVars, announced, boundVars>>

(* Slip: the agent is stopped without waiting for the credential server.   *)
StopAtOnce ==
    /\ handler = "joining" /\ CredStarted
    /\ handler' = "none"
    /\ waitStop' = TRUE
    /\ UNCHANGED <<main, hears, term, killed, credVars, threadVars,
                   fileVars, announced, boundVars>>

(* LinuxVdsAgent.stop goes on to AgentLogicBase.stop.                      *)
StopAfterJoin ==
    /\ handler = "joining" /\ CredOver
    /\ handler' = "none"
    /\ waitStop' = TRUE
    /\ UNCHANGED <<main, hears, term, killed, credVars, threadVars,
                   fileVars, announced, boundVars>>

-----------------------------------------------------------------------------
(* CredServer.run.                                                         *)

CredBootstraps ==
    /\ Alive /\ cred = "spawned"
    /\ cred' = "connecting"
    /\ UNCHANGED <<main, signalVars, quit, threadVars, fileVars, announced,
                   boundVars>>

(* The object is on the bus; _quit is cleared, whatever it was.            *)
CredOnBus ==
    /\ Alive /\ cred = "connecting"
    /\ cred' = "looping"
    /\ quit' = FALSE
    /\ UNCHANGED <<main, signalVars, threadVars, fileVars, announced,
                   boundVars>>

(* There is no bus: the thread dies and _dbus is never set.                *)
CredFails ==
    /\ Alive /\ cred = "connecting"
    /\ Fails
    /\ cred' = "failed"
    /\ UNCHANGED <<main, signalVars, quit, threadVars, fileVars, announced,
                   terms, logins>>

(* Slip: the loop runs on.                                                 *)
CredStays == FALSE /\ UNCHANGED vars

CredQuits ==
    /\ Alive /\ cred = "looping" /\ quit
    /\ cred' = "ended"
    /\ UNCHANGED <<main, signalVars, quit, threadVars, fileVars, announced,
                   boundVars>>

-----------------------------------------------------------------------------
(* The worker and the listener, as far as the process is concerned.        *)

WorkerReports ==
    /\ Alive /\ worker = "startup"
    /\ worker' = "loop"
    /\ UNCHANGED <<main, signalVars, credVars, listener, channel, fileVars,
                   announced, boundVars>>

WorkerStops ==
    /\ Alive /\ worker = "loop" /\ waitStop
    /\ worker' = "closing"
    /\ UNCHANGED <<main, signalVars, credVars, listener, channel, fileVars,
                   announced, boundVars>>

WorkerCloses ==
    /\ Alive /\ worker = "closing"
    /\ worker' = "done"
    /\ announced' = TRUE
    /\ UNCHANGED <<main, signalVars, credVars, listener, channel, fileVars,
                   boundVars>>

(* An exception ends the start-up, the loop, or the goodbye.               *)
WorkerRaises ==
    /\ Alive /\ worker \in {"startup", "loop", "closing"}
    /\ Fails
    /\ worker' = IF worker = "loop" THEN "closing" ELSE "done"
    /\ UNCHANGED <<main, signalVars, credVars, listener, channel, fileVars,
                   announced, terms, logins>>

(* A login command: user_authenticated opens a channel and waits for it.   *)
Login ==
    /\ Alive /\ listener = "reading" /\ channel = "none"
    /\ logins < MaxLogins
    /\ logins' = logins + 1
    /\ listener' = "login"
    /\ channel' = "alive"
    /\ UNCHANGED <<main, signalVars, credVars, worker, fileVars, announced,
                   terms, failures>>

(* There is no _dbus: the channel is neither joined nor forgotten.         *)
LoginRaises ==
    /\ Alive /\ listener = "login" /\ cred \in {"connecting", "failed"}
    /\ listener' = "reading"
    /\ UNCHANGED <<main, signalVars, credVars, worker, channel, fileVars,
                   announced, boundVars>>

ChannelEnds ==
    /\ Alive /\ channel = "alive"
    /\ channel' = "ended"
    /\ UNCHANGED <<main, signalVars, credVars, worker, listener, fileVars,
                   announced, boundVars>>

LoginReturns ==
    /\ Alive /\ listener = "login" /\ cred \in {"looping", "ended"}
    /\ channel = "ended"
    /\ listener' = "reading"
    /\ channel' = "none"
    /\ UNCHANGED <<main, signalVars, credVars, worker, fileVars, announced,
                   boundVars>>

(* wait_stop is tested between two commands.                               *)
ListenerStops ==
    /\ Alive /\ listener = "reading" /\ waitStop
    /\ listener' = "stopped"
    /\ UNCHANGED <<main, signalVars, credVars, worker, channel, fileVars,
                   announced, boundVars>>

-----------------------------------------------------------------------------
MainStep ==
    \/ SetUp \/ WritePid \/ Register \/ StartCred \/ CredIsStarted
    \/ StartListener \/ StartWorker \/ WorkerJoined \/ Unlink \/ JoinThread
    \/ ThreadJoined \/ Exit

HandlerStep == HandleTerm \/ JoinRaises \/ StopAfterJoin

CredStep == CredBootstraps \/ CredOnBus \/ CredQuits

WorkerStep == WorkerReports \/ WorkerStops \/ WorkerCloses

ListenerStep == LoginRaises \/ LoginReturns \/ ListenerStops

Environment ==
    \/ Sigterm \/ StartFails \/ CredFails \/ WorkerRaises \/ Login

Next ==
    \/ MainStep \/ HandlerStep \/ CredStep \/ WorkerStep \/ ListenerStep
    \/ ChannelEnds \/ Environment

Spec == Init /\ [][Next]_vars

(* The main thread, its handler, the credential server and the worker run  *)
(* on; nothing forces a signal, an exception or a login, nor that a login  *)
(* or its channel ever ends.                                               *)
FairSpec ==
    /\ Spec
    /\ WF_vars(MainStep) /\ WF_vars(HandlerStep) /\ WF_vars(CredStep)
    /\ WF_vars(WorkerStep)

-----------------------------------------------------------------------------
(* Properties.                                                             *)

TypeOK ==
    /\ main \in Places
    /\ hears \in BOOLEAN /\ handler \in {"none", "joining"}
    /\ term \in BOOLEAN /\ killed \in BOOLEAN /\ waitStop \in BOOLEAN
    /\ cred \in {"unborn", "spawned", "connecting", "looping", "ended",
                 "failed"}
    /\ quit \in BOOLEAN
    /\ worker \in {"unborn", "startup", "loop", "closing", "done"}
    /\ listener \in {"unborn", "reading", "login", "stopped"}
    /\ channel \in {"none", "alive", "ended"}
    /\ ownPidFile \in BOOLEAN /\ pidFile \in BOOLEAN /\ unlinkFailed \in BOOLEAN
    /\ announced \in BOOLEAN
    /\ terms \in 0..MaxTerms /\ logins \in 0..MaxLogins
    /\ failures \in 0..MaxFailures

(* A stop that has come as far as wait_stop has ended the credential       *)
(* server before: after it nothing is left that could keep the process.    *)
StopIsComplete == waitStop => CredOver

(* The process does not exit under a worker that is still reporting: the   *)
(* host has seen session-shutdown, unless an exception was in the way.     *)
ExitIsAnnounced ==
    (main = "exited" /\ worker # "unborn" /\ failures = 0) => announced

(* However the process exits, by itself or by an exception anywhere, it    *)
(* has tried to remove its pid file, if it is AGENT_PIDFILE: what is left  *)
(* is left because the unlink raised, or because an early SIGTERM killed   *)
(* the process, or because of a second one, which met the finally clause   *)
(* of the first.                                                           *)
CleanExit ==
    (main = "exited" /\ ownPidFile /\ pidFile)
        => killed \/ unlinkFailed \/ terms > 1

(* A SIGTERM that finds the credential server in its loop, or ended, ends  *)
(* the process, whatever the worker, the host and the clients do.          *)
HeardTermEnds ==
    (handler = "joining" /\ quit /\ cred \in {"looping", "ended", "failed"})
        ~> (main = "exited")

(* Once the worker and the credential server are over, nothing else keeps  *)
(* the process: not a listener inside a read, not a login under way.       *)
NothingElseLives == (worker = "done" /\ CredOver) ~> (main = "exited")

(* The handler logs "Stopping oVirt guest agent" (ovirt-guest-agent.py:104)*)
(* and the process stops.                                                  *)
TermIsObeyed == (handler = "joining") ~> (main = "exited")
=============================================================================
