-------------------------------- MODULE Gina ---------------------------------
(***************************************************************************)
(* The GINA stub at work: Winlogon's thread shows the original's dialogs,  *)
(* with the stub's procedures in front of them, and the listener thread of *)
(* a logon dialog takes credentials from the agent's pipe and posts them   *)
(* to the dialog.  The two share the handles of pipe and thread without a  *)
(* lock, and the dialog ends the thread wherever it is.                    *)
(*                                                                         *)
(* A thread and the pipe instance it makes have the same number; 0 is      *)
(* NULL.  Numbers are used again when nothing refers to them any more.     *)
(***************************************************************************)
EXTENDS GinaStub, FiniteSets

CONSTANTS
  Logins,           \* the user names, each with its password, the agent is sent
  MaxThreads,       \* threads and pipe instances that exist at a time
  MaxOrphans,       \* pipe instances left behind by a thread ended at the wrong moment
  MaxPosted,        \* messages in the dialog's queue
  MaxFailures,      \* calls of the listener that fail
  MaxInterruptions, \* times a person, a timer or a disconnection comes in between
  WinlogonVersions,
  Originals,        \* the libraries that "MSGINA" and "custom" may be
  Registries        \* the contents of the registry key

Threads == 1 .. MaxThreads

None == 0
Blank == "blank"
Person == "person"

ASSUME GinaAssumption ==
  /\ MaxThreads \in Nat \ {0} /\ MaxPosted \in Nat \ {0}
  /\ Blank \notin Logins /\ Person \notin Logins
  /\ WinlogonVersions \subseteq Nat
  /\ \A registry \in Registries : \A dll \in Originals[ChainedGina(registry)] : dll.version \in Nat

VARIABLES
  stub,        \* how far Winlogon is with the stub, and what was negotiated
  screen,      \* the dialog Winlogon shows or is about to show
  fields,      \* the user and password fields of the logon dialog
  touched,     \* a person or an attempt changed the fields after the listener did
  queue,       \* messages posted to the logon dialog
  lsn,         \* the variables the dialog shares with its listener, the threads and the pipes
  client,      \* the pipe instance the agent's login command waits at
  disconnected, \* a disconnection has ended the listener of this dialog
  failures, interruptions

vars == <<stub, screen, fields, touched, queue, lsn, client, disconnected, failures, interruptions>>

NoListener == [hThread |-> None, hPipe |-> None, attempted |-> FALSE,
               pc |-> [t \in Threads |-> "none"],
               pipe |-> [t \in Threads |-> "closed"],
               target |-> [t \in Threads |-> FALSE],
               inbox |-> [t \in Threads |-> Blank],
               got |-> [t \in Threads |-> Blank]]

Empty == [user |-> Blank, password |-> Blank]

Init ==
  /\ \E registry \in Registries :
       stub = [at |-> "boot", pf |-> {}, version |-> GINASTUB_VERSION, registry |-> registry]
  /\ screen = [dialog |-> "none", stage |-> "none"]
  /\ fields = Empty /\ touched = FALSE /\ queue = <<>>
  /\ lsn = NoListener
  /\ client = None
  /\ disconnected = FALSE /\ failures = 0 /\ interruptions = 0

dialogVars == <<screen, fields, touched, queue, disconnected>>
Config == ReadConfigValues(stub.registry)

Wrapped == MyWlxDialogBoxParam(Config, ChainedGina(stub.registry))

Interrupt ==
  /\ interruptions < MaxInterruptions
  /\ interruptions' = interruptions + 1
-----------------------------------------------------------------------------
(***************************************************************************)
(* The listener's handles.  A thread that is ended leaves its pipe to the  *)
(* one that ends it, who knows it only by hPipe; a handle that the thread  *)
(* has closed and not yet forgotten is then closed again.                  *)
(***************************************************************************)
End(L, t) == [L EXCEPT !.pc[t] = "none", !.target[t] = FALSE, !.got[t] = Blank]

Close(L, t) == [L EXCEPT !.pipe[t] = "closed", !.inbox[t] = Blank]

KillListenerThread(L) ==
  IF L.hThread = None THEN L
  ELSE LET K == IF L.hPipe = None THEN L ELSE Close(L, L.hPipe)
       IN  [End(K, L.hThread) EXCEPT !.hPipe = None, !.hThread = None]

CreateThread(L, t) == [L EXCEPT !.hThread = t, !.pc[t] = "create", !.target[t] = TRUE]

RestartKeepsOld(L, t) == CreateThread(L, t)

RestartListenerThread(L, t) == CreateThread(KillListenerThread(L), t)

\* After an attempt to log on, any further message of the dialog means that it
\* failed.  WM_INITDIALOG ends a listener of an earlier dialog.
AttemptForgotten(L, msg, t) ==
  CASE msg = "init" -> RestartListenerThread(L, t)
    [] msg = "ok" -> [L EXCEPT !.attempted = TRUE]
    [] OTHER -> L

LogonDlgProc(L, msg, t) ==
  LET K == IF L.attempted /\ Config.restart
           THEN [RestartListenerThread(L, t) EXCEPT !.attempted = FALSE] ELSE L
  IN  CASE msg = "init" -> RestartListenerThread(K, t)
        [] msg = "ok" -> [K EXCEPT !.attempted = TRUE]
        [] OTHER -> K

\* A thread ended before it has stored its pipe's handle leaves an orphan.
Orphans == {t \in Threads : lsn.pc[t] = "none" /\ lsn.pipe[t] # "closed"}
Killable == lsn.hThread # None /\ lsn.pc[lsn.hThread] = "store" => Cardinality(Orphans) < MaxOrphans

Free == {t \in Threads : lsn.pc[t] = "none" /\ lsn.pipe[t] = "closed" /\ client # t}

\* The dialog's procedure gets a message.
Dispatch(msg) ==
  /\ Killable
  /\ \E t \in Free :
       /\ \A s \in Free : t <= s
       /\ lsn' = LogonDlgProc(lsn, msg, t)
-----------------------------------------------------------------------------
(***************************************************************************)
(* Winlogon and the stub.                                                  *)
(***************************************************************************)
Boot ==
  /\ stub.at = "boot"
  /\ \E winlogon \in WinlogonVersions, dll \in Originals[ChainedGina(stub.registry)] :
       LET n == WlxNegotiate(winlogon, dll)
       IN  stub' = [stub EXCEPT !.at = IF n.ok THEN "negotiated" ELSE "refused",
                                !.pf = n.pf, !.version = n.version]
  /\ UNCHANGED <<dialogVars, lsn, client, failures, interruptions>>

WlxInitialize ==
  /\ stub.at = "negotiated"
  /\ stub' = [stub EXCEPT !.at = "running"]
  /\ screen' = [dialog |-> "sasnotice", stage |-> "due"]
  /\ UNCHANGED <<fields, touched, queue, disconnected, lsn, client, failures, interruptions>>

\* A function of the stub calls the original's, whether there is one or not;
\* ScreenSaverNotify does not.
Delegates(f) == f # "ScreenSaverNotify"

CallOriginal ==
  /\ stub.at = "running"
  /\ \E f \in Calls(stub.version) : Delegates(f) /\ f \notin stub.pf
  /\ stub' = [stub EXCEPT !.at = "crashed"]
  /\ UNCHANGED <<dialogVars, lsn, client, failures, interruptions>>

\* A disconnected session's listener is ended; reconnecting does not start one.
WlxDisconnectNotify ==
  /\ stub.at = "running" /\ stub.version >= 4
  /\ Interrupt
  /\ Killable
  /\ lsn' = KillListenerThread(lsn)
  /\ disconnected' = TRUE
  /\ UNCHANGED <<stub, screen, fields, touched, queue, client, failures>>

Now(dialog, stage) == stub.at = "running" /\ screen = [dialog |-> dialog, stage |-> stage]
Then(dialog, stage) == screen' = [dialog |-> dialog, stage |-> stage]

\* The notices ask for Ctrl-Alt-Del, the message for OK.  The stub's procedures
\* answer them when they are shown, a person when he likes to.
Notices == {"sasnotice", "locked", "message"}

Unwrapped(d) == d \notin Wrapped /\ Then(d, "open")

SendAltCtrlDel(d) == d \in Wrapped /\ Then(d, "answered")
PostOk(d) == d \in Wrapped /\ Then(d, "answered")

MyWlxDisplaySASNoticeDlgProc ==
  Now("sasnotice", "due") /\ (SendAltCtrlDel("sasnotice") \/ Unwrapped("sasnotice"))

MyWlxDisplayLockedNoticeDlgProc ==
  Now("locked", "due") /\ (SendAltCtrlDel("locked") \/ Unwrapped("locked"))

MyUserMessageDlgProc ==
  Now("message", "due") /\ (PostOk("message") \/ Unwrapped("message"))

ShowNotice ==
  /\ MyWlxDisplaySASNoticeDlgProc \/ MyWlxDisplayLockedNoticeDlgProc \/ MyUserMessageDlgProc
  /\ UNCHANGED <<stub, fields, touched, queue, disconnected, lsn, client, failures, interruptions>>

PersonAnswers ==
  /\ \E d \in Notices : Now(d, "open") /\ Then(d, "answered")
  /\ UNCHANGED <<stub, fields, touched, queue, disconnected, lsn, client, failures, interruptions>>

NoticeAnswered ==
  /\ \/ Now("sasnotice", "answered") /\ (Then("message", "due") \/ Then("loggedout", "due"))
     \/ Now("message", "answered") /\ Then("loggedout", "due")
     \/ Now("locked", "answered") /\ Then("loggedon", "due")
  /\ UNCHANGED <<stub, fields, touched, queue, disconnected, lsn, client, failures, interruptions>>

LogonDialogs == {"loggedout", "loggedon"}

\* The fields of the two logon dialogs.
MyWlxLoggedOutSASDlgProc == [user |-> "loggedout_user", password |-> "loggedout_password"]
MyWlxLoggedOnSASDlgProc == [user |-> "loggedon_user", password |-> "loggedon_password"]

Fills(field) ==
  LET control == IF screen.dialog = "loggedout" THEN MyWlxLoggedOutSASDlgProc ELSE MyWlxLoggedOnSASDlgProc
  IN  Config.ids[control[field]] = ChainedGina(stub.registry)

Open == stub.at = "running" /\ screen.dialog \in LogonDialogs /\ screen.stage = "open"
Listened == screen.dialog \in Wrapped

ShowLogon ==
  /\ \E d \in LogonDialogs : Now(d, "due") /\ Then(d, "open")
  /\ fields' = Empty /\ touched' = FALSE /\ queue' = <<>>
  /\ IF Listened THEN Dispatch("init") ELSE UNCHANGED lsn
  /\ disconnected' = FALSE
  /\ UNCHANGED <<stub, client, failures, interruptions>>

\* Windows sends the dialog messages of many kinds at any time, the last of
\* them when it is destroyed.
OtherMessage ==
  /\ Open /\ Listened
  /\ Dispatch("other")
  /\ UNCHANGED <<stub, dialogVars, client, failures, interruptions>>

\* The original tries to log on with what is in the fields, or finds nothing
\* there; a refused password is cleared.
Attempt ==
  /\ IF Listened THEN Dispatch("ok") ELSE UNCHANGED lsn
  /\ touched' = TRUE
  /\ \E accepted \in BOOLEAN :
       /\ accepted => Blank \notin {fields.user, fields.password}
       /\ fields' = IF accepted THEN fields ELSE [fields EXCEPT !.password = Blank]
       /\ Then(screen.dialog, IF accepted THEN "passed" ELSE "open")

FieldsPosted ==
  /\ Open /\ queue # <<>> /\ Head(queue).msg = "fields"
  /\ fields' = [f \in {"user", "password"} |-> IF Fills(f) THEN Head(queue).login ELSE fields[f]]
  /\ touched' = FALSE
  /\ Dispatch("other")
  /\ queue' = Tail(queue)
  /\ UNCHANGED <<stub, screen, disconnected, client, failures, interruptions>>

OkPosted ==
  /\ Open /\ queue # <<>> /\ Head(queue).msg = "ok"
  /\ Attempt
  /\ queue' = Tail(queue)
  /\ UNCHANGED <<stub, disconnected, client, failures, interruptions>>

\* What a person does waits until the posted messages have been handled.
PersonTypes ==
  /\ Open /\ queue = <<>> /\ Interrupt
  /\ \E field \in {"user", "password"} : fields' = [fields EXCEPT ![field] = Person]
  /\ touched' = TRUE
  /\ UNCHANGED <<stub, screen, queue, disconnected, lsn, client, failures>>

PersonPressesOk ==
  /\ Open /\ queue = <<>> /\ Interrupt
  /\ Attempt
  /\ UNCHANGED <<stub, queue, disconnected, client, failures>>

CancelOrTimeout ==
  /\ Open /\ Interrupt
  /\ Then(screen.dialog, "cancelled")
  /\ UNCHANGED <<stub, fields, touched, queue, disconnected, lsn, client, failures>>

\* The dialog is destroyed: one more message, and posting to it does nothing.
DestroyDialog ==
  /\ stub.at = "running" /\ screen.stage \in {"passed", "cancelled"}
  /\ CASE screen.stage = "passed" -> Then("none", "none")
       [] screen.stage = "cancelled" /\ screen.dialog = "loggedout" -> Then("sasnotice", "due")
       [] OTHER -> Then("locked", "due")
  /\ IF Listened
     THEN /\ Killable
          /\ \E t \in Free :
               /\ \A s \in Free : t <= s
               /\ lsn' = [LogonDlgProc(lsn, "other", t) EXCEPT !.target = [s \in Threads |-> FALSE]]
     ELSE UNCHANGED lsn
  /\ fields' = Empty /\ touched' = FALSE /\ queue' = <<>>
  /\ UNCHANGED <<stub, disconnected, client, failures, interruptions>>

SessionChange ==
  /\ Now("none", "none")
  /\ Then("locked", "due") \/ Then("sasnotice", "due")
  /\ UNCHANGED <<stub, fields, touched, queue, disconnected, lsn, client, failures, interruptions>>
-----------------------------------------------------------------------------
(***************************************************************************)
(* The listener thread t: one client, one message, no reply.               *)
(***************************************************************************)
At(t, where) == lsn.pc[t] = where
uiRest == <<stub, screen, fields, touched, disconnected, client, interruptions>>

\* A call fails: the thread ends, and closes the pipe before, if there is one.
Fails(t) ==
  /\ failures < MaxFailures /\ failures' = failures + 1
  /\ \/ At(t, "create") /\ lsn' = [End(lsn, t) EXCEPT !.hPipe = None]
     \/ /\ At(t, "connect") \/ At(t, "read")
        /\ lsn' = [Close(lsn, t) EXCEPT !.pc[t] = "failed"]
  /\ UNCHANGED <<uiRest, queue>>

CreatePipe(t) ==
  /\ At(t, "create")
  /\ lsn' = [lsn EXCEPT !.pc[t] = "store", !.pipe[t] = "listening"]
  /\ UNCHANGED <<uiRest, queue, failures>>

StorePipe(t) ==
  /\ At(t, "store")
  /\ lsn' = [lsn EXCEPT !.pc[t] = "connect", !.hPipe = t]
  /\ UNCHANGED <<uiRest, queue, failures>>

ConnectPipe(t) ==
  /\ At(t, "connect") /\ lsn.pipe[t] = "connected"
  /\ lsn' = [lsn EXCEPT !.pc[t] = "read"]
  /\ UNCHANGED <<uiRest, queue, failures>>

ReadPipe(t) ==
  /\ At(t, "read")
  /\ lsn' = [lsn EXCEPT !.pc[t] = "close", !.got[t] = lsn.inbox[t]]
  /\ UNCHANGED <<uiRest, queue, failures>>

ClosePipe(t) ==
  /\ At(t, "close")
  /\ lsn' = [Close(lsn, t) EXCEPT !.pc[t] = "forget"]
  /\ UNCHANGED <<uiRest, queue, failures>>

\* Slip: the handle is never forgotten.
PipeKept(t) ==
  /\ \/ At(t, "forget") /\ lsn' = [lsn EXCEPT !.pc[t] = "fields"]
     \/ At(t, "failed") /\ lsn' = End(lsn, t)
  /\ UNCHANGED <<uiRest, queue, failures>>

\* hPipe = NULL, a statement behind CloseHandle.
ForgetPipe(t) ==
  /\ \/ At(t, "forget") /\ lsn' = [lsn EXCEPT !.pc[t] = "fields", !.hPipe = None]
     \/ At(t, "failed") /\ lsn' = [End(lsn, t) EXCEPT !.hPipe = None]
  /\ UNCHANGED <<uiRest, queue, failures>>

\* The fields are posted, and a second later the click on OK.
PostMessage(t, msg) ==
  /\ At(t, msg)
  /\ lsn.target[t] => Len(queue) < MaxPosted
  /\ queue' = IF lsn.target[t] THEN Append(queue, [msg |-> msg, login |-> lsn.got[t]]) ELSE queue
  /\ lsn' = IF msg = "ok" THEN End(lsn, t) ELSE [lsn EXCEPT !.pc[t] = "ok"]
  /\ UNCHANGED <<uiRest, failures>>

ThreadFunc(t) ==
  \/ CreatePipe(t) \/ StorePipe(t) \/ ConnectPipe(t) \/ ReadPipe(t)
  \/ ClosePipe(t) \/ ForgetPipe(t) \/ PostMessage(t, "fields") \/ PostMessage(t, "ok")
-----------------------------------------------------------------------------
(***************************************************************************)
(* The agent: a login command, or another try of one, finds an instance    *)
(* that listens and waits there for a reply, which never comes.            *)
(***************************************************************************)
agentRest == <<stub, dialogVars, failures, interruptions>>

CallPipe(t) ==
  /\ client = None /\ lsn.pipe[t] = "listening"
  /\ \E l \in Logins : lsn' = [lsn EXCEPT !.pipe[t] = "connected", !.inbox[t] = l]
  /\ client' = t
  /\ UNCHANGED agentRest

CallFails ==
  /\ client # None /\ lsn.pipe[client] = "closed"
  /\ client' = None
  /\ UNCHANGED <<agentRest, lsn>>
-----------------------------------------------------------------------------
Winlogon ==
  \/ Boot \/ WlxInitialize
  \/ ShowNotice \/ NoticeAnswered \/ ShowLogon
  \/ OtherMessage \/ FieldsPosted \/ OkPosted \/ DestroyDialog

People ==
  \/ CallOriginal \/ WlxDisconnectNotify
  \/ PersonAnswers \/ PersonTypes \/ PersonPressesOk \/ CancelOrTimeout \/ SessionChange

Agent == CallFails \/ \E t \in Threads : CallPipe(t)

Next == Winlogon \/ People \/ Agent \/ \E t \in Threads : ThreadFunc(t) \/ Fails(t)

Spec == Init /\ [][Next]_vars

\* Winlogon and the threads go on, and a dialog that is shown gets messages.
LiveSpec ==
  /\ Spec
  /\ WF_vars(Boot \/ WlxInitialize \/ ShowNotice \/ NoticeAnswered \/ ShowLogon \/ DestroyDialog)
  /\ WF_vars(FieldsPosted \/ OkPosted)
  /\ WF_vars(OtherMessage)
  /\ \A t \in Threads : WF_vars(ThreadFunc(t))
  /\ WF_vars(CallFails)
-----------------------------------------------------------------------------
(***************************************************************************)
(* Properties.                                                             *)
(***************************************************************************)
Pcs == {"none", "create", "store", "connect", "read", "close", "forget", "failed", "fields", "ok"}
Live == {t \in Threads : lsn.pc[t] # "none"}

\* Type invariant.
TypeOK ==
  /\ stub.at \in {"boot", "refused", "negotiated", "running", "crashed"}
  /\ stub.version \in Versions /\ stub.registry \in Registries
  /\ screen.dialog \in Dialogs \cup {"none"}
  /\ screen.stage \in {"none", "due", "open", "answered", "passed", "cancelled"}
  /\ fields \in [user : Logins \cup {Blank, Person}, password : Logins \cup {Blank, Person}]
  /\ touched \in BOOLEAN /\ disconnected \in BOOLEAN
  /\ queue \in Seq([msg : {"fields", "ok"}, login : Logins]) /\ Len(queue) <= MaxPosted
  /\ lsn \in [hThread : {None} \cup Threads, hPipe : {None} \cup Threads, attempted : BOOLEAN,
              pc : [Threads -> Pcs], pipe : [Threads -> {"closed", "listening", "connected"}],
              target : [Threads -> BOOLEAN],
              inbox : [Threads -> Logins \cup {Blank}], got : [Threads -> Logins \cup {Blank}]]
  /\ client \in {None} \cup Threads
  /\ failures \in Nat /\ interruptions \in Nat

\* There is one listener at most, the one whose handle is stored; while a logon
\* dialog is shown, it posts to that dialog and no other.  The handle that ending
\* it would close is that of its own pipe, which is open, but for the moment in
\* which the listener has closed it and not yet forgotten it.
ListenerIsOfTheDialog ==
  /\ \A t \in Live : t = lsn.hThread
  /\ Open /\ Listened => \A t \in Live : lsn.target[t]
  /\ \A t \in Threads : lsn.hPipe = t =>
       /\ lsn.hThread = t
       /\ lsn.pc[t] \in {"forget", "failed"} \/ lsn.pipe[t] # "closed"

\* When the stub has agreed on a version, the original has every function that
\* Winlogon calls at this version, except optional ones.
NegotiatedIsLoaded ==
  stub.at \in {"negotiated", "running"} => Calls(stub.version) \ Optional \subseteq stub.pf

\* The listener's click on OK submits the user name and password of its own
\* message, unless a person or another attempt changed the fields in the second
\* between.
OkIsOfItsLogin ==
  [][\A l \in Logins :
       /\ Open /\ Fills("user") /\ Fills("password")
       /\ queue # <<>> /\ Head(queue) = [msg |-> "ok", login |-> l] /\ queue' = Tail(queue)
       => touched \/ fields = [user |-> l, password |-> l]]_vars

\* Where the stub answers all dialogs itself, nobody is needed for the machine
\* to be ready for credentials: at boot, after a failed attempt, after a
\* cancelled dialog and after the session has been locked.
Unattended == stub.at = "running" /\ Wrapped = Dialogs /\ Config.restart

Ready ==
  \/ \E t \in Threads : lsn.pipe[t] = "listening" /\ lsn.target[t]
  \/ screen.dialog = "none"

LogonIsReady == Unattended ~> (Ready \/ disconnected \/ failures > 0 \/ stub.at = "crashed")
=============================================================================
