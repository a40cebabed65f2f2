------------------------------- MODULE GinaMC --------------------------------
(***************************************************************************)
(* Winlogons and original GINAs, old and new, complete and incomplete.     *)
(***************************************************************************)
EXTENDS Gina

Full == Calls(4)
Dll(version, missing) == [found |-> TRUE, exports |-> Full \ missing, version |-> version]
NotFound == [found |-> FALSE, exports |-> {}, version |-> 0]

MCOriginals ==
  [MSGINA |-> {Dll(4, {})},
   custom |-> {Dll(3, Names(Since14)), Dll(4, {"StartApplication"}), Dll(4, {"ReconnectNotify"}), NotFound}]

Key(gina, restart, present, ids) ==
  [key |-> TRUE, gina |-> gina, restart |-> restart, present |-> present, ids |-> ids]

MCRegistries ==
  {[key |-> FALSE, gina |-> "none", restart |-> "none", present |-> "none", ids |-> {}],
   Key("none", "on", "off", {}),
   Key("custom", "off", "on", Dialogs)}
=============================================================================
