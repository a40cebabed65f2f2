---------------------------- MODULE PluginState -----------------------------
(***************************************************************************)
(* What a greeter plugin keeps.  The structure is the one of the extension *)
(* of GDM 3; the plugins of GDM 2 and KDM use a part of it.  "sources"     *)
(* counts the timeouts that glib's main loop holds for the plugin, which   *)
(* it should keep in step with its message_timeout_id ("timer").           *)
(***************************************************************************)
EXTENDS Naturals, Sequences

None == 0             \* the NULL token

Blank == [token |-> None, selectWhenReady |-> FALSE, proxy |-> FALSE, enabled |-> FALSE,
          queue |-> <<>>, timer |-> FALSE, sources |-> 0]
=============================================================================
