--------------------------- MODULE Gdm2Extension ----------------------------
(***************************************************************************)
(* The greeter extension of GDM 2.x (gdm2-plugin), an earlier interface    *)
(* with one message on show instead of a queue, and a token that is gone   *)
(* once it has been given.                                                 *)
(***************************************************************************)
EXTENDS PluginState

(***************************************************************************)
(* One message at a time, taken down after two seconds.                    *)
(***************************************************************************)
SetMessageOver(x) == [x EXCEPT !.sources = @ + 1, !.timer = TRUE]

SetMessage(x) ==
  [x EXCEPT !.sources = (IF x.timer THEN @ - 1 ELSE @) + 1, !.timer = TRUE]

OnMessageExpired(x) == [x EXCEPT !.sources = @ - 1, !.timer = FALSE]

(***************************************************************************)
(* The token.                                                              *)
(***************************************************************************)
OnUserAuthenticated(x, t, chosen) ==
  [x EXCEPT !.token = t, !.selectWhenReady = @ \/ ~chosen]

\* Answers the question on show, whatever it was, and forgets the token.
RequestAnswerCleared(x) ==
  [answered |-> TRUE, answer |-> None, ext |-> [x EXCEPT !.token = None]]

RequestAnswer(x) ==
  [answered |-> TRUE, answer |-> x.token, ext |-> [x EXCEPT !.token = None]]

\* "Token?" is answered at once when a token is there; otherwise the question
\* stays on show.
AskSecret(x) ==
  IF x.token # None THEN RequestAnswer(x)
  ELSE [answered |-> FALSE, answer |-> None, ext |-> x]

\* The message on show and its timer are left alone.
Reset(x) == [x EXCEPT !.token = None, !.enabled = FALSE]

ServerStart(x, busUp) == [x EXCEPT !.proxy = busUp]

ServerStop(x) == [x EXCEPT !.proxy = FALSE]

SetReady(x, busUp, chosen) ==
  LET enabled   == [x EXCEPT !.enabled = TRUE]
      listening == IF x.proxy THEN enabled ELSE ServerStart(enabled, busUp)
  IN  [listening EXCEPT !.selectWhenReady = @ /\ ~chosen]

IsVisible(pidFile, processes) ==
  /\ pidFile \notin {"missing", "garbage"}
  /\ pidFile \in processes

IsChoosable(x) == TRUE

New == Reset(Blank)

\* Removing source 0 only draws a warning.
Finalize(x) ==
  [ServerStop([x EXCEPT !.token = None]) EXCEPT !.sources = IF x.timer THEN @ - 1 ELSE @]
=============================================================================
