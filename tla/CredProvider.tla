---------------------------- MODULE CredProvider ----------------------------
(***************************************************************************)
(* The Windows credential provider (windows-credprov) between the guest    *)
(* agent and LogonUI.  LogonUI creates a provider, gives it a usage        *)
(* scenario, listens to it and asks it for credentials; the provider's     *)
(* channel is a named pipe with a thread that serves one client; the       *)
(* client is the agent's login command.  The two threads of LogonUI's      *)
(* process share the provider's fields without a lock, so each access of   *)
(* one that the other may disturb is a step.                               *)
(*                                                                         *)
(* A pipe instance and the thread started for it have the same number.     *)
(* Strings are named by the login they come from; 0 is NULL.               *)
(***************************************************************************)
EXTENDS Naturals, FiniteSets

CONSTANTS
  MaxLogins,    \* login commands the agent gets
  MaxChannels,  \* pipe instances created
  MaxFailures,  \* calls that fail for want of memory or another resource
  Blank,        \* logins with an empty user name or password
  Local         \* logins whose user name has no "@domain"

Logins == 1 .. MaxLogins
Channels == 1 .. MaxChannels

ASSUME CredProviderAssumption ==
  /\ MaxLogins \in Nat /\ MaxChannels \in Nat /\ MaxFailures \in Nat
  /\ Blank \subseteq Logins /\ Local \subseteq Logins

VARIABLES
  ui,        \* where LogonUI's thread is
  prov,      \* the provider: references, has it a channel, is it advised
  creds,     \* the credential object: references, user, password, domain
  chan,      \* the channel's fields: hPipe, hThread, listener
  pipe,      \* the pipe instances
  inbox,     \* the message in each instance
  thread,    \* where the thread of each instance is
  got,       \* the login each thread has read
  created,   \* instances created so far
  dllRefs,   \* g_nRefCount
  changed,   \* CredentialsChanged has been called and not yet looked at
  read,      \* the strings LogonUI has taken for a serialization
  submitted, \* the serializations handed to LogonUI
  agent,     \* the agent's login command
  failures   \* calls that failed

vars == <<ui, prov, creds, chan, pipe, inbox, thread, got, created, dllRefs, changed,
          read, submitted, agent, failures>>

Null == 0
NoPipe == 0                  \* INVALID_HANDLE_VALUE as a pipe
InvalidThread == 0           \* INVALID_HANDLE_VALUE as a thread
NullThread == MaxChannels + 1

NoProvider == [refs |-> 0, channel |-> FALSE, events |-> FALSE]
NoCreds == [refs |-> 0, user |-> Null, password |-> Null, domain |-> Null]
NewChannel == [hPipe |-> NoPipe, hThread |-> InvalidThread, listener |-> FALSE]
NoRead == [user |-> Null, password |-> Null, domain |-> Null]

IdleAgent == [pc |-> "idle", login |-> 0, tries |-> 0, at |-> NoPipe]

Init ==
  /\ ui = "start"
  /\ prov = NoProvider /\ creds = NoCreds /\ chan = NewChannel
  /\ pipe = [c \in Channels |-> "none"]
  /\ inbox = [c \in Channels |-> Null]
  /\ thread = [c \in Channels |-> "none"]
  /\ got = [c \in Channels |-> Null]
  /\ created = 0 /\ dllRefs = 0 /\ changed = FALSE
  /\ read = NoRead /\ submitted = {}
  /\ agent = IdleAgent
  /\ failures = 0

channelVars == <<chan, pipe, inbox, thread, got, created>>
uiVars == <<read, submitted>>

\* A call that may fail does so at most MaxFailures times in a behaviour.
Outcome(ok) ==
  /\ ok \/ failures < MaxFailures
  /\ failures' = IF ok THEN failures ELSE failures + 1

(***************************************************************************)
(* Reference counts.  An interface an object does not have is refused      *)
(* without a reference.                                                    *)
(***************************************************************************)
ProviderInterfaces == {"IUnknown", "ICredentialProvider"}
ProviderQueryInterface(p, iid) == IF iid \in ProviderInterfaces THEN [p EXCEPT !.refs = @ + 1] ELSE p

CredentialInterfaces == {"IUnknown", "ICredentialProviderCredential"}
CredentialQueryInterface(c, iid) == IF iid \in CredentialInterfaces THEN [c EXCEPT !.refs = @ + 1] ELSE c

CredentialRelease(c) == IF c.refs = 1 THEN NoCreds ELSE [c EXCEPT !.refs = @ - 1]

Freed(c) == IF c.refs = 1 THEN 1 ELSE 0

(***************************************************************************)
(* The strings of the credential object.                                   *)
(***************************************************************************)
GotUserAndPassword(c) == c.user # Null /\ c.password # Null

GotCredentials(c) == c.user # Null /\ c.password # Null /\ c.domain # Null

ResetCredentials(c) == [c EXCEPT !.user = Null, !.password = Null, !.domain = Null]
-----------------------------------------------------------------------------
(***************************************************************************)
(* LogonUI: creation.  The class factory makes a provider with one         *)
(* reference, asks it for the interface and lets go of its own reference.  *)
(***************************************************************************)
CreateInstance ==
  /\ ui = "start" /\ created < MaxChannels
  /\ \E ok \in BOOLEAN :
       /\ Outcome(ok)
       /\ IF ok
          THEN LET new == [NoProvider EXCEPT !.refs = 1]
                   asked == ProviderQueryInterface(new, "ICredentialProvider")
               IN  /\ prov' = [asked EXCEPT !.refs = @ - 1]
                   /\ dllRefs' = dllRefs + 1
                   /\ ui' = "created"
          ELSE UNCHANGED <<prov, dllRefs, ui>>
  /\ UNCHANGED <<creds, channelVars, changed, uiVars, agent>>

\* Scenarios other than logging on and unlocking are refused, and LogonUI lets
\* the provider go.
RefusedScenario ==
  /\ ui = "created"
  /\ ui' = "leaving"
  /\ UNCHANGED <<prov, creds, channelVars, dllRefs, changed, uiVars, agent, failures>>

\* The call makes the credential and the channel object; without memory for
\* both there is neither, and it fails.
SetUsageScenarioUncounted ==
  /\ ui = "created"
  /\ prov' = [prov EXCEPT !.channel = TRUE]
  /\ creds' = [NoCreds EXCEPT !.refs = 1] /\ ui' = "pipe"
  /\ UNCHANGED <<channelVars, dllRefs, changed, uiVars, agent, failures>>

SetUsageScenario ==
  /\ ui = "created"
  /\ \E ok \in BOOLEAN :
       /\ Outcome(ok)
       /\ prov' = [prov EXCEPT !.channel = ok]
       /\ IF ok
          THEN creds' = [NoCreds EXCEPT !.refs = 1] /\ dllRefs' = dllRefs + 1 /\ ui' = "pipe"
          ELSE UNCHANGED <<creds, dllRefs>> /\ ui' = "leaving"
  /\ UNCHANGED <<channelVars, changed, uiVars, agent>>

(***************************************************************************)
(* CreateChannel.  A false result is the HRESULT S_OK and a true one       *)
(* S_FALSE: LogonUI goes on in either case.                                *)
(***************************************************************************)
CreateChannelPipe ==
  /\ ui = "pipe"
  /\ \E ok \in BOOLEAN :
       /\ Outcome(ok)
       /\ created' = created + 1
       /\ chan' = [chan EXCEPT !.hPipe = IF ok THEN created + 1 ELSE NoPipe]
       /\ pipe' = IF ok THEN [pipe EXCEPT ![created + 1] = "listening"] ELSE pipe
       /\ ui' = IF ok THEN "thread" ELSE "advise"
  /\ UNCHANGED <<prov, creds, inbox, thread, got, dllRefs, changed, uiVars, agent>>

\* The thread runs before its handle is stored.  A thread that cannot be
\* started gives NULL, which CreateChannel does not take for a failure.
CreateChannelThread ==
  /\ ui = "thread"
  /\ \E ok \in BOOLEAN :
       /\ Outcome(ok)
       /\ IF ok
          THEN /\ thread' = [thread EXCEPT ![created] = "connect"]
               /\ ui' = "save"
               /\ UNCHANGED chan
          ELSE /\ chan' = [chan EXCEPT !.hThread = NullThread]
               /\ ui' = "advise"
               /\ UNCHANGED thread
  /\ UNCHANGED <<prov, creds, pipe, inbox, got, created, dllRefs, changed, uiVars, agent>>

SaveThread ==
  /\ ui = "save"
  /\ chan' = [chan EXCEPT !.hThread = created]
  /\ ui' = "listen"
  /\ UNCHANGED <<prov, creds, pipe, inbox, thread, got, created, dllRefs, changed, uiVars, agent, failures>>

SaveListener ==
  /\ ui = "listen"
  /\ chan' = [chan EXCEPT !.listener = TRUE]
  /\ ui' = "advise"
  /\ UNCHANGED <<prov, creds, pipe, inbox, thread, got, created, dllRefs, changed, uiVars, agent, failures>>

(***************************************************************************)
(* LogonUI: listening to the provider, and asking it for a credential at   *)
(* first and whenever CredentialsChanged has been called.  The tile has no *)
(* fields; a credential is submitted without anybody's click.              *)
(***************************************************************************)
Advise ==
  /\ ui = "advise"
  /\ prov' = [prov EXCEPT !.events = TRUE]
  /\ ui' = "count"
  /\ UNCHANGED <<creds, channelVars, dllRefs, changed, uiVars, agent, failures>>

Notice ==
  /\ ui = "idle" /\ changed
  /\ changed' = FALSE
  /\ ui' = "count"
  /\ UNCHANGED <<prov, creds, channelVars, dllRefs, uiVars, agent, failures>>

FieldDescriptorCount == 0

\* What the tile answers: per-field calls are not implemented, and SetSelected
\* leaves the auto-logon flag to the provider's GetCredentialCount.
TileAnswer(method) ==
  CASE method \in {"Advise", "UnAdvise", "SetDeselected"} -> "S_OK"
    [] method = "SetSelected" -> "S_FALSE"
    [] OTHER -> "E_NOTIMPL"

Succeeded(hr) == hr \in {"S_OK", "S_FALSE"}

GetCredentialCount ==
  /\ ui = "count"
  /\ ui' = IF GotCredentials(creds) THEN "tile" ELSE "idle"
  /\ UNCHANGED <<prov, creds, channelVars, dllRefs, changed, uiVars, agent, failures>>

GetCredentialAt ==
  /\ ui = "tile"
  /\ creds' = CredentialQueryInterface(creds, "ICredentialProviderCredential")
  /\ ui' = IF FieldDescriptorCount = 0 /\ Succeeded(TileAnswer("SetSelected")) THEN "domain" ELSE "verdict"
  /\ UNCHANGED <<prov, channelVars, dllRefs, changed, uiVars, agent, failures>>

\* The three strings are shared, not copied, one after the other.
TakeString(field, next) ==
  /\ ui = field
  /\ read' = [read EXCEPT ![field] = creds[field]]
  /\ ui' = next
  /\ UNCHANGED <<prov, creds, channelVars, dllRefs, changed, submitted, agent, failures>>

\* LogonUI's process ends; its handles are closed and it is started again.
ProcessGone ==
  /\ ui' = "start"
  /\ prov' = NoProvider /\ creds' = NoCreds /\ chan' = NewChannel
  /\ pipe' = [c \in Channels |-> IF pipe[c] = "none" THEN "none" ELSE "closed"]
  /\ thread' = [c \in Channels |-> IF thread[c] = "none" THEN "none" ELSE "done"]
  /\ dllRefs' = 0 /\ changed' = FALSE /\ read' = NoRead
  /\ UNCHANGED <<inbox, got, created, submitted>>

\* Packing copies the strings into the serialization; with a string missing, or
\* without memory or an authentication package, LogonUI gets an error instead.
Complete(strings) == \A field \in DOMAIN strings : strings[field] # Null

Pack ==
  /\ ui = "pack"
  /\ \E ok \in BOOLEAN :
       /\ IF Complete(read) THEN Outcome(ok) ELSE ~ok /\ UNCHANGED failures
       /\ submitted' = IF ok THEN submitted \cup {read} ELSE submitted
  /\ ui' = "verdict"
  /\ read' = NoRead
  /\ UNCHANGED <<prov, creds, channelVars, dllRefs, changed, agent>>

\* ReportResult does nothing: after a refused logon the credential is still there.
ReportResult ==
  /\ ui = "verdict"
  /\ dllRefs' = dllRefs - Freed(creds)
  /\ creds' = CredentialRelease(creds)
  /\ ui' \in {"idle", "leaving"}
  /\ UNCHANGED <<prov, channelVars, changed, uiVars, agent, failures>>

(***************************************************************************)
(* LogonUI: letting the provider go.                                       *)
(***************************************************************************)
GoAway ==
  /\ ui = "idle"
  /\ ui' = "leaving"
  /\ UNCHANGED <<prov, creds, channelVars, dllRefs, changed, uiVars, agent, failures>>

UnAdvise ==
  /\ ui = "leaving"
  /\ prov' = [prov EXCEPT !.events = FALSE]
  /\ ui' = "release"
  /\ UNCHANGED <<creds, channelVars, dllRefs, changed, uiVars, agent, failures>>

\* DestroyChannel ends the thread its handle names, wherever that thread is.
LeftRunning(h) == thread

Terminated(h) == IF h \in Channels THEN [thread EXCEPT ![h] = "done"] ELSE thread

DestroyThread ==
  /\ ui = "release"
  /\ IF prov.channel
     THEN /\ thread' = Terminated(chan.hThread)
          /\ chan' = [chan EXCEPT !.hThread = InvalidThread]
     ELSE UNCHANGED <<thread, chan>>
  /\ ui' = "destroy"
  /\ UNCHANGED <<prov, creds, pipe, inbox, got, created, dllRefs, changed, uiVars, agent, failures>>

DeleteKeepsPipe ==
  /\ ui = "destroy"
  /\ chan' = NewChannel
  /\ dllRefs' = dllRefs - 1 - (IF creds.refs = 1 THEN 1 ELSE 0)
  /\ creds' = IF creds.refs = 0 THEN creds ELSE CredentialRelease(creds)
  /\ prov' = NoProvider
  /\ changed' = FALSE
  /\ ui' = "start"
  /\ UNCHANGED <<pipe, inbox, thread, got, created, uiVars, agent, failures>>

\* The rest of the destructors: the pipe, the credential, the provider.
Delete ==
  /\ ui = "destroy"
  /\ pipe' = IF chan.hPipe # NoPipe THEN [pipe EXCEPT ![chan.hPipe] = "closed"] ELSE pipe
  /\ chan' = NewChannel
  /\ dllRefs' = dllRefs - 1 - (IF creds.refs = 1 THEN 1 ELSE 0)
  /\ creds' = IF creds.refs = 0 THEN creds ELSE CredentialRelease(creds)
  /\ prov' = NoProvider
  /\ changed' = FALSE
  /\ ui' = "start"
  /\ UNCHANGED <<inbox, thread, got, created, uiVars, agent, failures>>

(***************************************************************************)
(* COM asks whether it may unload the library.  DllCanUnloadNow gives the  *)
(* truth of "no references" as a HRESULT, so it is 0, S_OK, while objects  *)
(* are in use, and the process loses their code.                           *)
(***************************************************************************)
DllCanUnloadNow == IF dllRefs = 0 THEN "S_FALSE" ELSE "S_OK"

FreeUnusedLibraries ==
  /\ DllCanUnloadNow = "S_OK"
  /\ Outcome(FALSE)
  /\ ProcessGone
  /\ UNCHANGED agent
-----------------------------------------------------------------------------
(***************************************************************************)
(* The channel's thread c.                                                 *)
(***************************************************************************)
At(c, where) == thread[c] = where
Goto(c, where) == thread' = [thread EXCEPT ![c] = where]

threadRest == <<ui, prov, created, dllRefs, uiVars>>

\* ConnectNamedPipe: waits for a client of the instance the field names.
ConnectPipe(c) ==
  /\ At(c, "connect")
  /\ IF chan.hPipe = NoPipe \/ pipe[chan.hPipe] = "closed" THEN Goto(c, "reply")
     ELSE pipe[chan.hPipe] = "connected" /\ Goto(c, "read")
  /\ UNCHANGED <<threadRest, creds, chan, pipe, inbox, got, changed, agent, failures>>

ReadPipe(c) ==
  /\ At(c, "read")
  /\ IF chan.hPipe # NoPipe /\ inbox[chan.hPipe] # Null
     THEN got' = [got EXCEPT ![c] = inbox[chan.hPipe]] /\ Goto(c, "parse")
     ELSE UNCHANGED got /\ Goto(c, "reply")
  /\ UNCHANGED <<threadRest, creds, chan, pipe, inbox, changed, agent, failures>>

\* Credentials without a name or a password, or that arrive before the
\* listener has been stored, are dropped.
ParseCredentials(c) ==
  /\ At(c, "parse")
  /\ \E ok \in BOOLEAN :
       /\ Outcome(ok)
       /\ Goto(c, IF ok /\ got[c] \notin Blank /\ chan.listener THEN "reset" ELSE "reply")
  /\ UNCHANGED <<threadRest, creds, chan, pipe, inbox, got, changed, agent>>

\* SetCredentials: first nothing, then the user, the password and the domain.
ResetOld(c) ==
  /\ At(c, "reset")
  /\ creds' = ResetCredentials(creds)
  /\ Goto(c, "user")
  /\ UNCHANGED <<threadRest, chan, pipe, inbox, got, changed, agent, failures>>

SetUser(c) ==
  /\ At(c, "user")
  /\ creds' = [creds EXCEPT !.user = got[c]]
  /\ Goto(c, "password")
  /\ UNCHANGED <<threadRest, chan, pipe, inbox, got, changed, agent, failures>>

SetPassword(c) ==
  /\ At(c, "password")
  /\ creds' = [creds EXCEPT !.password = got[c]]
  /\ Goto(c, "domain")
  /\ UNCHANGED <<threadRest, chan, pipe, inbox, got, changed, agent, failures>>

\* A name without a domain gets the computer's name, if there is one.
SetDomain(c) ==
  /\ At(c, "domain")
  /\ \E ok \in BOOLEAN :
       /\ ok \/ got[c] \in Local
       /\ Outcome(ok)
       /\ creds' = [creds EXCEPT !.domain = IF ok THEN got[c] ELSE Null]
  /\ Goto(c, "check")
  /\ UNCHANGED <<threadRest, chan, pipe, inbox, got, changed, agent>>

CheckCredentials(c) ==
  /\ At(c, "check")
  /\ creds' = IF GotCredentials(creds) THEN creds ELSE ResetCredentials(creds)
  /\ Goto(c, "events")
  /\ UNCHANGED <<threadRest, chan, pipe, inbox, got, changed, agent, failures>>

\* OnCredentialsArrivial tests the events pointer and uses it in a second step.
TestEvents(c) ==
  /\ At(c, "events")
  /\ Goto(c, IF prov.events THEN "notify" ELSE "reply")
  /\ UNCHANGED <<threadRest, creds, chan, pipe, inbox, got, changed, agent, failures>>

NotifyForgotten(c) ==
  /\ At(c, "notify")
  /\ prov.events
  /\ Goto(c, "reply")
  /\ UNCHANGED <<threadRest, creds, chan, pipe, inbox, got, changed, agent, failures>>

Notify(c) ==
  /\ At(c, "notify")
  /\ prov.events
  /\ changed' = TRUE
  /\ Goto(c, "reply")
  /\ UNCHANGED <<threadRest, creds, chan, pipe, inbox, got, agent, failures>>

\* UnAdvise came in between: the pointer is NULL or its object gone.
NotifyGone(c) ==
  /\ At(c, "notify")
  /\ ~prov.events
  /\ ProcessGone
  /\ UNCHANGED <<agent, failures>>

\* The empty reply the agent's call waits for.
Reply(c) ==
  /\ At(c, "reply")
  /\ agent' = IF chan.hPipe # NoPipe /\ agent.pc = "waiting" /\ agent.at = chan.hPipe
              THEN [agent EXCEPT !.pc = "idle", !.tries = 0, !.at = NoPipe] ELSE agent
  /\ Goto(c, "close")
  /\ UNCHANGED <<threadRest, creds, chan, pipe, inbox, got, changed, failures>>

ClosePipe(c) ==
  /\ At(c, "close")
  /\ pipe' = IF chan.hPipe # NoPipe THEN [pipe EXCEPT ![chan.hPipe] = "closed"] ELSE pipe
  /\ chan' = [chan EXCEPT !.hPipe = NoPipe]
  /\ Goto(c, "clear")
  /\ UNCHANGED <<threadRest, creds, inbox, got, changed, agent, failures>>

ClearThread(c) ==
  /\ At(c, "clear")
  /\ chan' = [chan EXCEPT !.hThread = NullThread]
  /\ Goto(c, "done")
  /\ UNCHANGED <<threadRest, creds, pipe, inbox, got, changed, agent, failures>>

CredentialsChannelWait(c) ==
  \/ ConnectPipe(c) \/ ReadPipe(c) \/ ParseCredentials(c)
  \/ ResetOld(c) \/ SetUser(c) \/ SetPassword(c) \/ SetDomain(c) \/ CheckCredentials(c)
  \/ TestEvents(c) \/ Notify(c) \/ NotifyGone(c)
  \/ Reply(c) \/ ClosePipe(c) \/ ClearThread(c)
-----------------------------------------------------------------------------
(***************************************************************************)
(* The agent's login command.  It is dropped when the desktop is not       *)
(* locked; otherwise it tries the pipe three times.  CallNamedPipe takes   *)
(* an instance that listens, waits while all are taken, fails when there   *)
(* is none or its instance is closed before the reply.                     *)
(***************************************************************************)
agentRest == <<ui, prov, creds, chan, thread, got, created, dllRefs, changed, uiVars, failures>>

Retries == 3

LoginCommand ==
  /\ agent.pc = "idle" /\ agent.login < MaxLogins
  /\ \E locked \in BOOLEAN :
       agent' = IF locked THEN [pc |-> "asleep", login |-> agent.login + 1, tries |-> 1, at |-> NoPipe]
                ELSE [agent EXCEPT !.login = @ + 1]
  /\ UNCHANGED <<agentRest, pipe, inbox>>

CallPipe(c) ==
  /\ agent.pc = "asleep"
  /\ pipe[c] = "listening"
  /\ pipe' = [pipe EXCEPT ![c] = "connected"]
  /\ inbox' = [inbox EXCEPT ![c] = agent.login]
  /\ agent' = [agent EXCEPT !.pc = "waiting", !.at = c]
  /\ UNCHANGED agentRest

CallFails ==
  /\ \/ agent.pc = "asleep" /\ \A c \in Channels : pipe[c] \in {"none", "closed"}
     \/ agent.pc = "waiting" /\ pipe[agent.at] = "closed"
  /\ agent' = IF agent.tries < Retries
              THEN [agent EXCEPT !.pc = "asleep", !.tries = @ + 1, !.at = NoPipe]
              ELSE [agent EXCEPT !.pc = "idle", !.tries = 0, !.at = NoPipe]
  /\ UNCHANGED <<agentRest, pipe, inbox>>
-----------------------------------------------------------------------------
LogonUI ==
  \/ CreateInstance \/ RefusedScenario \/ SetUsageScenario
  \/ CreateChannelPipe \/ CreateChannelThread \/ SaveThread \/ SaveListener
  \/ Advise \/ Notice \/ GetCredentialCount \/ GetCredentialAt
  \/ TakeString("domain", "user") \/ TakeString("user", "password") \/ TakeString("password", "pack")
  \/ Pack \/ ReportResult
  \/ GoAway \/ UnAdvise \/ DestroyThread \/ Delete
  \/ FreeUnusedLibraries

Next ==
  \/ LogonUI
  \/ \E c \in Channels : CredentialsChannelWait(c)
  \/ LoginCommand \/ CallFails \/ \E c \in Channels : CallPipe(c)

\* LogonUI finishes what it has begun; whether and when it comes or goes is
\* its own business.
LogonUIGoesOn ==
  \/ SetUsageScenario \/ CreateChannelPipe \/ CreateChannelThread \/ SaveThread \/ SaveListener
  \/ Advise \/ Notice \/ GetCredentialCount \/ GetCredentialAt
  \/ TakeString("domain", "user") \/ TakeString("user", "password") \/ TakeString("password", "pack")
  \/ Pack \/ ReportResult \/ UnAdvise \/ DestroyThread \/ Delete

Fairness ==
  /\ WF_vars(LogonUIGoesOn)
  /\ \A c \in Channels : WF_vars(CredentialsChannelWait(c))
  /\ WF_vars(CallFails) /\ WF_vars(\E c \in Channels : CallPipe(c))

Spec == Init /\ [][Next]_vars

LiveSpec == Spec /\ Fairness
-----------------------------------------------------------------------------
(***************************************************************************)
(* Properties.                                                             *)
(***************************************************************************)
UiPcs == {"start", "created", "pipe", "thread", "save", "listen", "advise", "count", "idle", "tile",
          "domain", "user", "password", "pack", "verdict", "leaving", "release", "destroy"}
ThreadPcs == {"none", "connect", "read", "parse", "reset", "user", "password", "domain", "check",
              "events", "notify", "reply", "close", "clear", "done"}
Strings == [user : {Null} \cup Logins, password : {Null} \cup Logins, domain : {Null} \cup Logins]

ProvType == [refs : 0 .. 1, channel : BOOLEAN, events : BOOLEAN]
CredsType ==
  [refs : 0 .. 2, user : {Null} \cup Logins, password : {Null} \cup Logins, domain : {Null} \cup Logins]
ChanType == [hPipe : {NoPipe} \cup Channels, hThread : 0 .. NullThread, listener : BOOLEAN]
AgentType ==
  [pc : {"idle", "asleep", "waiting"}, login : 0 .. MaxLogins, tries : 0 .. Retries, at : {NoPipe} \cup Channels]

\* The library's count of references is that of the objects there are, whichever
\* allocation failed and however often the credential was taken and given back.
ReferencesCounted == dllRefs = (IF prov.refs > 0 THEN 1 ELSE 0) + (IF creds.refs > 0 THEN 1 ELSE 0)

\* Type invariant.  An object's reference count is never negative.
TypeOK ==
  /\ ui \in UiPcs
  /\ prov \in ProvType /\ creds \in CredsType /\ chan \in ChanType /\ agent \in AgentType
  /\ pipe \in [Channels -> {"none", "listening", "connected", "closed"}]
  /\ inbox \in [Channels -> {Null} \cup Logins]
  /\ thread \in [Channels -> ThreadPcs]
  /\ got \in [Channels -> {Null} \cup Logins]
  /\ created \in 0 .. MaxChannels
  /\ ReferencesCounted
  /\ changed \in BOOLEAN
  /\ read \in Strings /\ submitted \in SUBSET Strings
  /\ failures \in 0 .. MaxFailures

\* Once LogonUI has been told that there is a credential, its strings are there
\* until they have been packed, and what is submitted is one login of the agent
\* with all three strings from it.
SubmittedWhole ==
  /\ ui \in {"domain", "user", "password", "pack"} => Null \notin {creds.user, creds.password, creds.domain}
  /\ \A s \in submitted : s.user \in Logins \ Blank /\ s.password = s.user /\ s.domain = s.user

\* No thread of a channel uses the provider after it has been deleted.
Using == ThreadPcs \ {"none", "done"}

NoThreadAfterDelete == ui \in {"start", "created"} => \A c \in Channels : thread[c] \notin Using

\* The assertion of OnCredentialsArrivial: LogonUI listens when credentials
\* arrive.
ArrivalIsAdvised == \A c \in Channels : thread[c] = "reset" => prov.events

\* The agent's login command comes back, unless it is connected to an instance
\* for which no thread could be started.
NoThreadFor(c) == pipe[c] = "connected" /\ thread[c] = "none"

AgentReturns ==
  agent.pc # "idle" ~> (agent.pc = "idle" \/ \E c \in Channels : NoThreadFor(c))

\* Credentials in the credential object are submitted, whenever they arrived,
\* unless LogonUI lets the provider go or a call fails.
StoredIsSubmitted ==
  \A l \in Logins :
    (creds.refs > 0 /\ GotCredentials(creds) /\ creds.user = l)
      ~> ((\E s \in submitted : s.user = l) \/ creds.refs = 0 \/ failures > 0)
=============================================================================
