----------------------------- MODULE CredServer -----------------------------
(***************************************************************************)
(* Single sign-on on Linux: how the credentials of a 'login' command get   *)
(* from the agent to the PAM module of a greeter.                          *)
(*                                                                         *)
(* CredServer.py: the listener thread of the agent runs user_authenticated,*)
(* which opens a one-shot channel (a CredChannel thread listening on an    *)
(* abstract socket), announces its token in a D-Bus signal, and waits for  *)
(* the channel to end.  pam-ovirt-cred/cred_channel.c: a client, started   *)
(* by a greeter that heard the signal, connects, sends the token it was    *)
(* given and waits for the credentials.                                    *)
(*                                                                         *)
(* A login is known by its number; so are its token and its credentials.   *)
(* (Tokens are random: that two logins draw the same one is left out.)     *)
(***************************************************************************)
EXTENDS Integers, Sequences, FiniteSets

CONSTANTS
    Client,        \* processes that run the PAM module, once each
    Root,          \* those of them whose user id is 0, the one allowed
    NoClient,
    Backlog,       \* connections the kernel queues for listen(1)
    MaxRequests,   \* bound: login commands of the host
    MaxFailures    \* bound: lost buses and dying clients

ASSUME CredAssumption ==
    /\ Root \subseteq Client
    /\ NoClient \notin Client
    /\ Backlog \in Nat \ {0}
    /\ {MaxRequests, MaxFailures} \subseteq Nat

VARIABLES
    server,      \* CredServer.run: "starting", on the "bus", or "failed"
    listener,    \* user_authenticated: "idle", "started" or "joining"
    busy,        \* _cred_channel is not None
    login,       \* number of the last login a channel was opened for
    channel,     \* the CredChannel thread
    open,        \* its socket listens
    backlog,     \* connections not yet accepted
    conn,        \* the accepted connection
    announced,   \* tokens the signal has carried
    client,      \* how far each client has come
    presented,   \* the token each client was given
    sentToken,   \* the clients whose token has reached the socket
    unnamed,     \* those whose token came without their user id
    reply,       \* the login whose credentials were sent to each client, or 0
    raised,      \* history: the signal could not be emitted
    requests, failures   \* counters of the bounds

channelVars == <<channel, open, backlog, conn>>
clientVars == <<client, presented, sentToken, unnamed>>
boundVars == <<requests, failures>>
vars == <<server, listener, busy, login, channelVars, announced, clientVars,
          reply, raised, boundVars>>

Login == 1..MaxRequests

Init ==
    /\ server = "starting"
    /\ listener = "idle" /\ busy = FALSE /\ login = 0
    /\ channel = "none" /\ open = FALSE /\ backlog = <<>> /\ conn = NoClient
    /\ announced = {}
    /\ client = [c \in Client |-> "away"]
    /\ presented = [c \in Client |-> 0]
    /\ sentToken = {} /\ unnamed = {}
    /\ reply = [c \in Client |-> 0]
    /\ raised = FALSE
    /\ requests = 0 /\ failures = 0

-----------------------------------------------------------------------------
(* CredServer.run exports the object on the system bus; when there is no   *)
(* bus the thread dies and _dbus is never set.                             *)
ServerOnBus ==
    /\ server = "starting"
    /\ server' = "bus"
    /\ UNCHANGED <<listener, busy, login, channelVars, announced, clientVars,
                   reply, raised, boundVars>>

ServerFails ==
    /\ server = "starting"
    /\ failures < MaxFailures
    /\ server' = "failed"
    /\ failures' = failures + 1
    /\ UNCHANGED <<listener, busy, login, channelVars, announced, clientVars,
                   reply, raised, requests>>

-----------------------------------------------------------------------------
(* user_authenticated, on the listener thread.                             *)

(* No channel is there: make one, draw its token and start its thread.     *)
OpenChannel ==
    /\ listener = "idle"
    /\ ~busy
    /\ requests < MaxRequests
    /\ requests' = requests + 1
    /\ busy' = TRUE
    /\ login' = login + 1
    /\ channel' = "unbound"
    /\ listener' = "started"
    /\ UNCHANGED <<server, open, backlog, conn, announced, clientVars, reply,
                   raised, failures>>

(* "Ignored authentication while another one is in progress."              *)
IgnoreLogin ==
    /\ listener = "idle"
    /\ busy
    /\ requests < MaxRequests
    /\ requests' = requests + 1
    /\ UNCHANGED <<server, listener, busy, login, channelVars, announced,
                   clientVars, reply, raised, failures>>

Announce ==
    /\ listener = "started"
    /\ server = "bus"
    /\ announced' = announced \cup {login}
    /\ listener' = "joining"
    /\ UNCHANGED <<server, busy, login, channelVars, clientVars, reply,
                   raised, boundVars>>

(* There is no _dbus, or the bus has gone: the exception leaves            *)
(* user_authenticated before it forgets the channel; doListen logs it.     *)
AnnounceRaises ==
    /\ listener = "started"
    /\ \/ server # "bus" /\ UNCHANGED failures
       \/ /\ server = "bus"
          /\ failures < MaxFailures
          /\ failures' = failures + 1
    /\ listener' = "idle"
    /\ raised' = TRUE
    /\ UNCHANGED <<server, busy, login, channelVars, announced, clientVars,
                   reply, requests>>

(* Slip: the finished channel is not forgotten.                            *)
JoinedKeeping ==
    /\ listener = "joining"
    /\ channel = "over"
    /\ listener' = "idle"
    /\ channel' = "none"
    /\ open' = FALSE
    /\ backlog' = <<>>
    /\ UNCHANGED <<server, busy, login, conn, announced, clientVars, reply,
                   raised, boundVars>>

(* The thread has ended; dropping the channel closes what it left open.    *)
Joined ==
    /\ listener = "joining"
    /\ channel = "over"
    /\ listener' = "idle"
    /\ busy' = FALSE
    /\ channel' = "none"
    /\ open' = FALSE
    /\ backlog' = <<>>
    /\ UNCHANGED <<server, login, conn, announced, clientVars, reply, raised,
                   boundVars>>

-----------------------------------------------------------------------------
(* CredChannel.run.                                                        *)

Bind ==
    /\ channel = "unbound"
    /\ channel' = "listening"
    /\ open' = TRUE
    /\ UNCHANGED <<server, listener, busy, login, backlog, conn, announced,
                   clientVars, reply, raised, boundVars>>

Accept ==
    /\ channel = "listening"
    /\ backlog # <<>>
    /\ conn' = Head(backlog)
    /\ backlog' = Tail(backlog)
    /\ channel' = "accepted"
    /\ UNCHANGED <<server, listener, busy, login, open, announced,
                   clientVars, reply, raised, boundVars>>

(* SO_PASSCRED: from now on a message names the user who sent it.          *)
PassCred ==
    /\ channel = "accepted"
    /\ channel' = "peeking"
    /\ UNCHANGED <<server, listener, busy, login, open, backlog, conn,
                   announced, clientVars, reply, raised, boundVars>>

(* Slip: accept waits without a timeout.                                   *)
AcceptWaits == FALSE /\ UNCHANGED vars

(* Nobody came within five seconds: the one path that closes the socket.   *)
AcceptTimesOut ==
    /\ channel = "listening"
    /\ backlog = <<>>
    /\ channel' = "over"
    /\ open' = FALSE
    /\ UNCHANGED <<server, listener, busy, login, backlog, conn, announced,
                   clientVars, reply, raised, boundVars>>

Gone(c) == client[c] \in {"served", "refused", "timedout", "dead"}

(* _read_cred blocks until the client has sent something or hung up, and   *)
(* learns its user from the message, if it tells, without taking it.       *)
Peek ==
    /\ channel = "peeking"
    /\ conn \in sentToken \/ Gone(conn)
    /\ IF conn \in (sentToken \ unnamed) \cap Root
       THEN channel' = "receiving" /\ UNCHANGED conn
       ELSE channel' = "over" /\ conn' = NoClient
    /\ UNCHANGED <<server, listener, busy, login, open, backlog, announced,
                   clientVars, reply, raised, boundVars>>

(* Slips: any token will do; the channel serves on after an answer; the    *)
(* token is compared the wrong way round.                                  *)
AnswerAnyToken ==
    /\ channel = "receiving"
    /\ reply' = [reply EXCEPT ![conn] = login]
    /\ channel' = "over"
    /\ conn' = NoClient
    /\ UNCHANGED <<server, listener, busy, login, open, backlog, announced,
                   clientVars, raised, boundVars>>

AnswerAndListen ==
    /\ channel = "receiving"
    /\ reply' = IF presented[conn] = login /\ ~Gone(conn)
                THEN [reply EXCEPT ![conn] = login] ELSE reply
    /\ channel' = "listening"
    /\ conn' = NoClient
    /\ UNCHANGED <<server, listener, busy, login, open, backlog, announced,
                   clientVars, raised, boundVars>>

AnswerOthers ==
    /\ channel = "receiving"
    /\ reply' = IF presented[conn] # login /\ ~Gone(conn)
                THEN [reply EXCEPT ![conn] = login] ELSE reply
    /\ channel' = "over"
    /\ conn' = NoClient
    /\ UNCHANGED <<server, listener, busy, login, open, backlog, announced,
                   clientVars, raised, boundVars>>

(* The token decides; either way the connection ends here.                 *)
Answer ==
    /\ channel = "receiving"
    /\ reply' = IF presented[conn] = login /\ ~Gone(conn)
                THEN [reply EXCEPT ![conn] = login] ELSE reply
    /\ channel' = "over"
    /\ conn' = NoClient
    /\ UNCHANGED <<server, listener, busy, login, open, backlog, announced,
                   clientVars, raised, boundVars>>

-----------------------------------------------------------------------------
(* The PAM module: do_acquire_user_credentials.                            *)

Become(c, phase) == client' = [client EXCEPT ![c] = phase]

Linked(c) == c = conn \/ \E i \in 1..Len(backlog) : backlog[i] = c

ServerUnchanged ==
    UNCHANGED <<server, listener, busy, login, channel, open, announced,
                reply, raised, requests>>

(* A greeter heard a token, now or long ago, and answers the PAM           *)
(* conversation of its client with it.                                     *)
Prompt(c) ==
    /\ client[c] = "away"
    /\ \E token \in announced : presented' = [presented EXCEPT ![c] = token]
    /\ Become(c, "prompted")
    /\ UNCHANGED <<sentToken, unnamed, backlog, conn, failures>>
    /\ ServerUnchanged

Connect(c) ==
    /\ client[c] = "prompted"
    /\ IF open
       THEN /\ Len(backlog) < Backlog
            /\ backlog' = Append(backlog, c)
            /\ Become(c, "connected")
       ELSE Become(c, "refused") /\ UNCHANGED backlog
    /\ UNCHANGED <<presented, sentToken, unnamed, conn, failures>>
    /\ ServerUnchanged

(* A message between accept and SO_PASSCRED goes out without its sender's  *)
(* user id on the kernels that attach it only where it is asked for.       *)
SendToken(c) ==
    /\ client[c] = "connected"
    /\ IF Linked(c)
       THEN /\ Become(c, "waiting")
            /\ sentToken' = sentToken \cup {c}
            /\ \/ UNCHANGED unnamed
               \/ /\ channel = "accepted" /\ c = conn
                  /\ unnamed' = unnamed \cup {c}
       ELSE Become(c, "refused") /\ UNCHANGED <<sentToken, unnamed>>
    /\ UNCHANGED <<presented, backlog, conn, failures>> /\ ServerUnchanged

(* select reports data or the end of the connection.                       *)
ReadReply(c) ==
    /\ client[c] = "waiting"
    /\ reply[c] # 0 \/ ~Linked(c)
    /\ Become(c, IF reply[c] # 0 THEN "served" ELSE "refused")
    /\ UNCHANGED <<presented, sentToken, unnamed, backlog, conn, failures>>
    /\ ServerUnchanged

(* Three seconds without an answer.                                        *)
GiveUp(c) ==
    /\ client[c] = "waiting"
    /\ reply[c] = 0 /\ Linked(c)
    /\ Become(c, "timedout")
    /\ UNCHANGED <<presented, sentToken, unnamed, backlog, conn, failures>>
    /\ ServerUnchanged

(* The greeter kills its PAM process between two calls.                    *)
Die(c) ==
    /\ client[c] \in {"connected", "waiting"}
    /\ failures < MaxFailures
    /\ failures' = failures + 1
    /\ Become(c, "dead")
    /\ UNCHANGED <<presented, sentToken, unnamed, backlog, conn>>
    /\ ServerUnchanged

-----------------------------------------------------------------------------
ListenerStep == Announce \/ AnnounceRaises \/ Joined

ChannelStep ==
    Bind \/ Accept \/ AcceptTimesOut \/ PassCred \/ Peek \/ Answer

ClientStep(c) == Connect(c) \/ SendToken(c) \/ ReadReply(c) \/ GiveUp(c)

Next ==
    \/ ServerOnBus \/ ServerFails
    \/ OpenChannel \/ IgnoreLogin
    \/ ListenerStep
    \/ ChannelStep
    \/ \E c \in Client : Prompt(c) \/ ClientStep(c) \/ Die(c)

Spec == Init /\ [][Next]_vars

(* The threads of the agent and the calls of the PAM module go on; no host *)
(* need ask for a login and no greeter need answer one.                    *)
FairSpec ==
    /\ Spec
    /\ WF_vars(ListenerStep)
    /\ WF_vars(ChannelStep)
    /\ \A c \in Client : WF_vars(ClientStep(c))

-----------------------------------------------------------------------------
(* Properties.                                                             *)

FlagsOK == busy \in BOOLEAN /\ open \in BOOLEAN /\ raised \in BOOLEAN

FieldsOK ==
    /\ server \in {"starting", "bus", "failed"}
    /\ listener \in {"idle", "started", "joining"}
    /\ login \in 0..MaxRequests
    /\ channel \in {"none", "unbound", "listening", "accepted", "peeking",
                    "receiving", "over"}
    /\ backlog \in Seq(Client)
    /\ conn \in Client \cup {NoClient}
    /\ announced \subseteq Login
    /\ client \in [Client -> {"away", "prompted", "connected", "waiting",
                              "served", "refused", "timedout", "dead"}]
    /\ presented \in [Client -> 0..MaxRequests]
    /\ sentToken \subseteq Client /\ unnamed \subseteq Client
    /\ reply \in [Client -> 0..MaxRequests]
    /\ requests \in 0..MaxRequests /\ failures \in 0..MaxFailures

(* The type invariant.                                                     *)
TypeOK == FlagsOK /\ FieldsOK

(* A client gets the credentials of the very login its greeter heard of,   *)
(* and only as root: not those of a later login whose channel it reached   *)
(* because it was slow.                                                    *)
RightCredentials ==
    \A c \in Client :
        reply[c] # 0 => c \in Root /\ presented[c] = reply[c]
                        /\ reply[c] \in announced

(* The credentials of a login leave the agent at most once, however many   *)
(* greeters hear the signal.                                               *)
DeliveredOnce ==
    \A c, d \in Client : reply[c] # 0 /\ reply[c] = reply[d] => c = d

(* Why both hold: a client that is not yet prompted has no connection and  *)
(* no reply; what a prompted one was given had been announced; only root's *)
(* connection gets as far as its token; and once a channel has answered,   *)
(* it never answers again.                                                 *)
AwayIsOutside ==
    \A c \in Client :
        client[c] = "away" => ~Linked(c) /\ reply[c] = 0

PromptedIsAnnounced ==
    \A c \in Client : client[c] = "away" \/ presented[c] \in announced

ReceivingIsRoot == channel = "receiving" => conn \in Root

AnsweredIsOver ==
    \A c \in Client :
        /\ reply[c] <= login
        /\ reply[c] # 0 /\ reply[c] = login => channel \in {"none", "over"}

DeliveryInv ==
    /\ AwayIsOutside /\ PromptedIsAnnounced /\ ReceivingIsRoot
    /\ AnsweredIsOver /\ RightCredentials /\ DeliveredOnce

(* When the signal was always emitted, _cred_channel is set exactly while  *)
(* the listener is inside user_authenticated.                              *)
BusyOnlyInside == ~raised => (busy <=> listener # "idle")

(* The log says "Ignored authentication while another one is in progress"  *)
(* (CredServer.py:281): a login is ignored only while a channel is alive.  *)
IgnoredOnlyWhileInProgress ==
    [][IgnoreLogin => channel # "over"]_vars

(* A login command gives the listener back, whatever the clients do: the   *)
(* agent takes the next command of the host.                               *)
LoginReturns == (listener # "idle") ~> (listener = "idle")

(* A root client the channel has accepted gets its credentials if its      *)
(* token is the current one, unless its own timeout or death comes first   *)
(* or its token slipped in before SO_PASSCRED.                             *)
AcceptedIsServed ==
    \A c \in Client :
        (conn = c /\ c \in Root /\ presented[c] = login)
            ~> \/ client[c] \in {"served", "timedout", "dead"}
               \/ c \in unnamed
=============================================================================
