------------------------------ MODULE GinaStub -------------------------------
(***************************************************************************)
(* The GINA stub of older Windows (GinaSSO): what it takes from the        *)
(* original GINA when Winlogon negotiates a version with it, what it reads *)
(* from the registry, and which dialog procedures it wraps.  Everything    *)
(* here is called by Winlogon's one thread.                                *)
(*                                                                         *)
(* Version 1.n is the number n.  A library is the set of functions it      *)
(* exports and the highest version it negotiates.                          *)
(***************************************************************************)
EXTENDS Naturals, Sequences

Versions == 0 .. 4

GINASTUB_VERSION == 4

Lowest(a, b) == IF a < b THEN a ELSE b

(***************************************************************************)
(* The functions of the original, in the order the stub looks them up.     *)
(* StartApplication and ScreenSaverNotify are "not must".                  *)
(***************************************************************************)
Since10 == <<"Initialize", "DisplaySASNotice", "LoggedOutSAS", "ActivateUserShell", "LoggedOnSAS",
             "DisplayLockedNotice", "IsLockOk", "WkstaLockedSAS", "IsLogoffOk", "Logoff", "Shutdown">>
Since11 == <<"StartApplication", "ScreenSaverNotify">>
Since13 == <<"NetworkProviderLoad", "DisplayStatusMessage", "GetStatusMessage", "RemoveStatusMessage">>
Since14 == <<"GetConsoleSwitchCredentials", "ReconnectNotify", "DisconnectNotify">>

Optional == {"StartApplication", "ScreenSaverNotify"}

Names(s) == {s[i] : i \in DOMAIN s}

\* What a Winlogon of a version calls.
Calls(version) ==
  Names(Since10)
    \cup (IF version >= 1 THEN Names(Since11) ELSE {})
    \cup (IF version >= 3 THEN Names(Since13) ELSE {})
    \cup (IF version >= 4 THEN Names(Since14) ELSE {})

(***************************************************************************)
(* The registry key of the stub: whether it exists, the GINA that was      *)
(* there before ("none", "empty" or "custom"), two switches, and the       *)
(* dialog and control identifiers that have a value.                       *)
(***************************************************************************)
Dialogs == {"sasnotice", "loggedout", "locked", "loggedon", "message"}
Controls == {"loggedout_user", "loggedout_password", "loggedon_user", "loggedon_password"}

\* The name is looked up in the key; without it, or if it is empty, the original is MSGINA.
LoadOriginalGina(registry) == registry.key /\ registry.gina # "none"

ChainedGina(registry) ==
  IF LoadOriginalGina(registry) /\ registry.gina # "empty" THEN registry.gina ELSE "MSGINA"

\* The functions are looked up one after the other, up to the first one that
\* is missing and a must.
MyInitialize(dll, version) ==
  LET wanted == Since10
                  \o (IF version > 0 THEN Since11 ELSE <<>>)
                  \o (IF version > 2 THEN Since13 ELSE <<>>)
                  \o (IF version > 3 THEN Since14 ELSE <<>>)
      missing == {i \in DOMAIN wanted : wanted[i] \notin dll.exports \cup Optional}
      tried == {i \in DOMAIN wanted : \A j \in missing : i <= j}
  IN  [ok |-> missing = {}, pf |-> {wanted[i] : i \in tried} \cap dll.exports]

\* The original answers with the version it can do, the stub looks its
\* functions up for that version and tells Winlogon.
Refused == [ok |-> FALSE, pf |-> {}, version |-> GINASTUB_VERSION]

WlxNegotiateOffered(winlogon, dll) ==
  LET offer == Lowest(GINASTUB_VERSION, winlogon)
      loaded == MyInitialize(dll, Lowest(offer, dll.version))
  IN  IF dll.found /\ loaded.ok THEN [ok |-> TRUE, pf |-> loaded.pf, version |-> offer] ELSE Refused

WlxNegotiate(winlogon, dll) ==
  LET agreed == Lowest(Lowest(GINASTUB_VERSION, winlogon), dll.version)
      loaded == MyInitialize(dll, agreed)
  IN  IF dll.found /\ loaded.ok THEN [ok |-> TRUE, pf |-> loaded.pf, version |-> agreed] ELSE Refused

\* An identifier is the registry's, MSGINA's, or, when there is no key, zero.
ReadOriginalGinaControlValues(registry) ==
  [id \in Dialogs \cup Controls |->
     IF ~registry.key THEN "zero" ELSE IF id \in registry.ids THEN "custom" ELSE "MSGINA"]

Switch(registry, value) == registry.key /\ value # "off"

ReadConfigValues(registry) ==
  [restart |-> Switch(registry, registry.restart),
   present |-> Switch(registry, registry.present),
   ids |-> ReadOriginalGinaControlValues(registry)]

\* The dialogs the stub puts its procedure in front of: those whose identifier
\* is the original's own.  The message to users is wrapped to be answered, so
\* only if it shall not be shown.
MyWlxDialogBoxParam(config, original) ==
  {d \in Dialogs : config.ids[d] = original /\ (d = "message" => ~config.present)}
=============================================================================
