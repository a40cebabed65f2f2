---------------------------- MODULE GdmExtension ----------------------------
(***************************************************************************)
(* The login extension of GDM 3 (gdm-plugin): the private structure of the *)
(* extension as a record and each handler as an operator from the record   *)
(* before a call to the record after it.  The greeter calls them from its  *)
(* main loop, one at a time; module Greeter does the calling.              *)
(***************************************************************************)
EXTENDS PluginState

(***************************************************************************)
(* The message queue.                                                      *)
(***************************************************************************)
PurgeMessageQueue(x) ==
  [x EXCEPT !.sources = IF x.timer THEN @ - 1 ELSE @, !.timer = FALSE, !.queue = <<>>]

\* Shows the head of the queue and comes back when it has been read; with an
\* empty queue there is no timer any more and message-queue-empty is emitted.
DequeueMessage(x) ==
  IF x.queue # <<>>
  THEN [x EXCEPT !.queue = Tail(@), !.timer = TRUE, !.sources = @ + 1]
  ELSE [x EXCEPT !.timer = FALSE]

\* The timeout of the message on show: its source goes because the callback
\* returns FALSE.
MessageTimeout(x) == DequeueMessage([x EXCEPT !.sources = @ - 1])

MessageQueueEmpty(x) == x.queue = <<>>

QueueMessage(x, m) ==
  LET queued == [x EXCEPT !.queue = Append(@, m)]
  IN  IF x.timer THEN queued ELSE DequeueMessage(queued)

HasQueuedMessages(x) == x.timer \/ x.queue # <<>>

(***************************************************************************)
(* The token.  choose_user asks the greeter to start the extension's PAM   *)
(* conversation; "chosen" is what it returned.                             *)
(***************************************************************************)
OnUserAuthenticated(x, t, chosen) ==
  [x EXCEPT !.token = t, !.selectWhenReady = @ \/ ~chosen]

\* The answer to "Token?": whatever token there is, which stays in place.
AskSecret(x) == [answered |-> TRUE, answer |-> x.token, ext |-> x]

Reset(x) == [PurgeMessageQueue([x EXCEPT !.token = None]) EXCEPT !.enabled = FALSE]

\* The proxy stays NULL while the system bus cannot be reached.
ServerStart(x, busUp) == [x EXCEPT !.proxy = busUp]

ServerStop(x) == [x EXCEPT !.proxy = FALSE]

SetReady(x, busUp, chosen) ==
  LET enabled   == [x EXCEPT !.enabled = TRUE]
      listening == IF x.proxy THEN enabled ELSE ServerStart(enabled, busUp)
  IN  [listening EXCEPT !.selectWhenReady = @ /\ ~chosen]

(***************************************************************************)
(* The extension is offered while the agent's process can be found through *)
(* its pid file: a file that is missing or starts with no number, or a     *)
(* process that is gone, hides it.                                         *)
(***************************************************************************)
IsVisible(pidFile, processes) ==
  /\ pidFile \notin {"missing", "garbage"}
  /\ pidFile \in processes

IsChoosable(x) == TRUE

\* A new extension is reset before the greeter sees it.
New == Reset(Blank)

Finalize(x) == ServerStop([PurgeMessageQueue(x) EXCEPT !.token = None])
=============================================================================
