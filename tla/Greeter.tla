------------------------------ MODULE Greeter -------------------------------
(***************************************************************************)
(* A display manager's greeter with the oVirt plugin in it.  The agent's   *)
(* credentials server announces a token on the system bus; the plugin      *)
(* keeps it, asks the greeter to start its PAM conversation and answers    *)
(* PAM's "Token?" with it.  "kind" says which of the three plugins runs;   *)
(* "ext" is its structure, changed only by the handlers of GdmExtension,   *)
(* Gdm2Extension and KdmGreeter.  The greeter, the bus and the people at   *)
(* the screen are the environment: what they call, and in which order, is  *)
(* read off the plugins' interfaces.                                       *)
(***************************************************************************)
EXTENDS Naturals, Sequences, FiniteSets

CONSTANTS
  MaxToken,        \* logins announced in a behaviour
  MaxMessages,     \* texts PAM shows in a behaviour
  MaxBusFailures   \* times the system bus cannot be reached

ASSUME GreeterAssumption ==
  MaxToken \in Nat /\ MaxMessages \in Nat /\ MaxBusFailures \in Nat

Gdm  == INSTANCE GdmExtension
Gdm2 == INSTANCE Gdm2Extension
Kdm  == INSTANCE KdmGreeter

VARIABLES
  kind,       \* which plugin
  ext,        \* its structure
  host,       \* what the greeter is doing with it
  bus,        \* UserAuthenticated signals on their way, oldest first
  pidFile,    \* what /var/run/ovirt-guest-agent.pid names
  processes,  \* which of the processes it may name exist
  announced,  \* tokens announced so far
  heard,      \* the newest token delivered to the plugin
  served,     \* the last token the plugin answered a question with
  given,      \* answers it gave with a token
  shown,      \* texts PAM has shown
  failures,   \* times the bus could not be reached
  disturbed   \* somebody cancelled or asked another question

vars == <<kind, ext, host, bus, pidFile, processes, announced, heard, served, given, shown, failures, disturbed>>
agentVars == <<pidFile, processes>>
answers == <<served, given>>
boundVars == <<shown, failures>>

Kinds == {"gdm", "gdm2", "kdm"}
Tokens == 1 .. MaxToken
None == 0

(***************************************************************************)
(* The greeter: waiting for set_ready, ready, in another extension's       *)
(* conversation, in the plugin's (chosen, then asked, then answered), over *)
(* (stopping, draining the messages) or gone.                              *)
(***************************************************************************)
InConversation == {"chosen", "asked", "answered"}
Hosts == InConversation \cup {"resetting", "ready", "other", "stopping", "draining", "gone"}

\* choose_user succeeds when the greeter is waiting for a user.
Free == host = "ready"

NewPlugin(k) == CASE k = "gdm" -> Gdm!New [] k = "gdm2" -> Gdm2!New [] k = "kdm" -> Kdm!New

Init ==
  /\ kind \in Kinds
  /\ ext = NewPlugin(kind)
  /\ host = IF kind = "kdm" THEN "ready" ELSE "resetting"
  /\ bus = <<>>
  /\ pidFile \in {"missing", "garbage", "agent"}
  /\ processes = IF pidFile = "agent" THEN {"agent"} ELSE {}
  /\ announced = 0
  /\ heard = 0 /\ served = 0 /\ given = 0
  /\ shown = 0 /\ failures = 0 /\ disturbed = FALSE

(***************************************************************************)
(* The agent: it starts and writes its pid file, stops and removes it, or  *)
(* dies and leaves it.  It announces logins; the bus keeps the order and   *)
(* drops what nobody listens for.                                          *)
(***************************************************************************)
AgentLives == "agent" \in processes

AgentChanges ==
  /\ \/ pidFile # "agent" /\ pidFile' = "agent" /\ processes' = {"agent"}
     \/ AgentLives /\ pidFile' = "missing" /\ processes' = {}
     \/ AgentLives /\ processes' = {} /\ UNCHANGED pidFile
  /\ UNCHANGED <<kind, ext, host, bus, announced, heard, answers, boundVars, disturbed>>

Announce ==
  /\ announced < MaxToken
  /\ AgentLives
  /\ announced' = announced + 1
  /\ bus' = IF ext.proxy THEN Append(bus, announced + 1) ELSE bus
  /\ UNCHANGED <<kind, ext, host, agentVars, heard, answers, boundVars, disturbed>>

(***************************************************************************)
(* A token arrives.  A plugin of GDM that is refused cancels what goes on, *)
(* which makes the greeter reset its extensions; the one of KDM starts a   *)
(* conversation if the greeter has none.                                   *)
(***************************************************************************)
Authenticated ==
  LET t == Head(bus)
  IN  /\ bus # <<>>
      /\ bus' = Tail(bus)
      /\ heard' = t
      /\ ext' = CASE kind = "gdm"  -> Gdm!OnUserAuthenticated(ext, t, Free)
                  [] kind = "gdm2" -> Gdm2!OnUserAuthenticated(ext, t, Free)
                  [] kind = "kdm"  -> Kdm!UserAuthenticated(ext, t)
      /\ host' = IF Free THEN "chosen"
                 ELSE IF kind # "kdm" /\ host \in InConversation \cup {"other"} THEN "stopping"
                 ELSE host
      /\ UNCHANGED <<kind, agentVars, announced, answers, boundVars, disturbed>>

(***************************************************************************)
(* People: one picks the plugin in the list, types into another dialog,    *)
(* leaves that again, or cancels.                                          *)
(***************************************************************************)
Offered ==
  CASE kind = "gdm"  -> ext.enabled /\ Gdm!IsChoosable(ext) /\ Gdm!IsVisible(pidFile, processes)
    [] kind = "gdm2" -> ext.enabled /\ Gdm2!IsChoosable(ext) /\ Gdm2!IsVisible(pidFile, processes)
    [] kind = "kdm"  -> TRUE

Pick ==
  /\ host = "ready" /\ Offered
  /\ host' = "chosen"
  /\ UNCHANGED <<kind, ext, bus, agentVars, announced, heard, answers, boundVars, disturbed>>

UseOther ==
  /\ host = "ready"
  /\ host' = "other"
  /\ UNCHANGED <<kind, ext, bus, agentVars, announced, heard, answers, boundVars, disturbed>>

Cancel ==
  /\ host \in InConversation \cup {"other"}
  /\ host' = "stopping"
  /\ disturbed' = TRUE
  /\ UNCHANGED <<kind, ext, bus, agentVars, announced, heard, answers, boundVars>>

(***************************************************************************)
(* PAM's questions.  Only "Token?" is answered; the greeter of GDM 2 can   *)
(* also ask for the answer to a question on show.                          *)
(***************************************************************************)
Given(reply) ==
  /\ ext' = reply.ext
  /\ host' = IF reply.answered THEN "answered" ELSE "asked"
  /\ IF reply.answered /\ reply.answer # None
     THEN served' = reply.answer /\ given' = given + 1
     ELSE UNCHANGED answers

AskToken ==
  /\ host = "chosen"
  /\ Given(CASE kind = "gdm"  -> Gdm!AskSecret(ext)
             [] kind = "gdm2" -> Gdm2!AskSecret(ext)
             [] kind = "kdm"  -> Kdm!TextPrompt(ext))
  /\ UNCHANGED <<kind, bus, agentVars, announced, heard, boundVars, disturbed>>

AskOther ==
  /\ host \in {"chosen", "answered"}
  /\ host' = "asked"
  /\ disturbed' = TRUE
  /\ UNCHANGED <<kind, ext, bus, agentVars, announced, heard, answers, boundVars>>

RequestAnswer ==
  /\ kind = "gdm2" /\ host = "asked"
  /\ Given(Gdm2!RequestAnswer(ext))
  /\ UNCHANGED <<kind, bus, agentVars, announced, heard, boundVars, disturbed>>

(***************************************************************************)
(* PAM's texts and its verdict: a refusal is shown as a problem, a login   *)
(* takes the greeter away.                                                 *)
(***************************************************************************)
Show(m) ==
  /\ shown < MaxMessages
  /\ shown' = shown + 1
  /\ ext' = CASE kind = "gdm"  -> Gdm!QueueMessage(ext, m)
              [] kind = "gdm2" -> Gdm2!SetMessage(ext)
              [] kind = "kdm"  -> Kdm!TextMessage(ext)

Inform ==
  /\ host \in InConversation
  /\ Show("info")
  /\ UNCHANGED <<kind, host, bus, agentVars, announced, heard, answers, failures, disturbed>>

Refuse ==
  /\ host = "answered"
  /\ host' = "stopping"
  /\ Show("problem") \/ UNCHANGED <<ext, shown>>
  /\ UNCHANGED <<kind, bus, agentVars, announced, heard, answers, failures, disturbed>>

MessageTimeout ==
  /\ kind # "kdm" /\ ext.sources > 0
  /\ ext' = IF kind = "gdm" THEN Gdm!MessageTimeout(ext) ELSE Gdm2!OnMessageExpired(ext)
  /\ host' = IF kind = "gdm" /\ host = "draining" /\ Gdm!MessageQueueEmpty(ext) THEN "stopping" ELSE host
  /\ UNCHANGED <<kind, bus, agentVars, announced, heard, answers, boundVars, disturbed>>

(***************************************************************************)
(* After a conversation the greeter resets the plugin, after a refusal     *)
(* once it has shown what it has queued, and makes it ready again.  KDM    *)
(* calls clear() and revive().                                             *)
(***************************************************************************)
Stop ==
  /\ host = "stopping"
  /\ \/ /\ kind = "gdm" /\ Gdm!HasQueuedMessages(ext)
        /\ host' = "draining" /\ UNCHANGED ext
     \/ /\ host' = IF kind = "kdm" THEN "ready" ELSE "resetting"
        /\ ext' = CASE kind = "gdm"  -> Gdm!Reset(ext)
                    [] kind = "gdm2" -> Gdm2!Reset(ext)
                    [] kind = "kdm"  -> Kdm!NothingDone(ext)
  /\ UNCHANGED <<kind, bus, agentVars, announced, heard, answers, boundVars, disturbed>>

SetReady ==
  /\ host = "resetting"
  /\ \E busUp, chosen \in BOOLEAN :
       /\ busUp \/ (~ext.proxy /\ failures < MaxBusFailures)
       /\ chosen => ext.selectWhenReady
       /\ failures' = IF busUp THEN failures ELSE failures + 1
       /\ ext' = IF kind = "gdm" THEN Gdm!SetReady(ext, busUp, chosen)
                 ELSE Gdm2!SetReady(ext, busUp, chosen)
       /\ host' = IF chosen THEN "chosen" ELSE "ready"
  /\ UNCHANGED <<kind, bus, agentVars, announced, heard, answers, shown, disturbed>>

\* The greeter goes away, with a session or without; its signals go with it.
Leave ==
  /\ host # "gone"
  /\ host' = "gone"
  /\ ext' = CASE kind = "gdm"  -> Gdm!Finalize(ext)
              [] kind = "gdm2" -> Gdm2!Finalize(ext)
              [] kind = "kdm"  -> Kdm!Destroy(ext)
  /\ bus' = <<>>
  /\ UNCHANGED <<kind, agentVars, announced, heard, answers, boundVars, disturbed>>

Next ==
  \/ AgentChanges \/ Announce \/ Authenticated
  \/ Pick \/ UseOther \/ Cancel
  \/ AskToken \/ AskOther \/ RequestAnswer
  \/ Inform \/ Refuse \/ MessageTimeout
  \/ Stop \/ SetReady \/ Leave

Fairness ==
  /\ WF_vars(Authenticated) /\ WF_vars(AskToken) /\ WF_vars(MessageTimeout)
  /\ WF_vars(Stop) /\ WF_vars(SetReady)

Spec == Init /\ [][Next]_vars

LiveSpec == Spec /\ Fairness
-----------------------------------------------------------------------------
(***************************************************************************)
(* Properties.                                                             *)
(***************************************************************************)

\* Type invariant.
ExtType ==
  [token : {None} \cup Tokens, selectWhenReady : BOOLEAN, proxy : BOOLEAN, enabled : BOOLEAN,
   queue : Seq({"info", "problem"}), timer : BOOLEAN, sources : Nat]

TypeOK ==
  /\ kind \in Kinds /\ ext \in ExtType /\ host \in Hosts
  /\ bus \in Seq(Tokens)
  /\ pidFile \in {"missing", "garbage", "agent"} /\ processes \in SUBSET {"agent"}
  /\ announced \in 0 .. MaxToken
  /\ heard \in 0 .. MaxToken /\ served \in 0 .. MaxToken /\ given \in Nat
  /\ shown \in 0 .. MaxMessages /\ failures \in 0 .. MaxBusFailures
  /\ disturbed \in BOOLEAN

\* Every timeout attached to the main loop for the plugin is the one its
\* message_timeout_id names, messages wait only behind a running timeout, and
\* none survives the plugin, whose callback would then use freed memory.
TimeoutsAccounted ==
  /\ ext.sources = IF ext.timer /\ host # "gone" THEN 1 ELSE 0
  /\ ext.queue # <<>> => ext.timer

\* Each token is given to at most one question, and only while it is the newest
\* one heard: the plugin implements the promise of TokenBroker.
Broker == INSTANCE TokenBroker

ImplementsTokenBroker == Broker!Spec

\* A login that found the greeter free is answered with its token, unless a
\* newer one comes, somebody disturbs the conversation or the greeter leaves.
LoginIsServed ==
  \A t \in Tokens :
    (host = "chosen" /\ ext.token = t)
      ~> (served = t \/ disturbed \/ host = "gone" \/ heard > t)
=============================================================================
