----------------------------- MODULE KdmGreeter -----------------------------
(***************************************************************************)
(* The greeter plugin of KDM (kdm-plugin): it listens from its constructor *)
(* to its destructor, keeps the newest token and gives it away once.  The  *)
(* queue and the timer of PluginState are unused.                          *)
(***************************************************************************)
EXTENDS PluginState

\* The constructor connects the signal of the proxy.
New == [Blank EXCEPT !.proxy = TRUE, !.enabled = TRUE]

Destroy(x) == [x EXCEPT !.proxy = FALSE]

UserAuthenticated(x, t) == [x EXCEPT !.token = t]

\* A prompt that mentions "Token?" is answered with the token, which may be
\* empty, and the token is cleared.
TextPromptKeeping(x) == [answered |-> TRUE, answer |-> x.token, ext |-> x]

TextPrompt(x) ==
  [answered |-> TRUE, answer |-> x.token, ext |-> [x EXCEPT !.token = None]]

\* start, suspend, resume, next, abort, succeeded, failed, revive and clear
\* have empty bodies: none of them touches the token.
NothingDone(x) == x

\* An error text aborts, another one is shown by the handler.
TextMessage(x) == NothingDone(x)
=============================================================================
