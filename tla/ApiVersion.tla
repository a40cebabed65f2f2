----------------------------- MODULE ApiVersion -----------------------------
(***************************************************************************)
(* The message vocabulary of the agent and the rule that gates it: every   *)
(* message has the lowest API version it may be sent under, and the agent  *)
(* keeps one current version, capped at the highest it supports.           *)
(* (ovirt-guest-agent/OVirtAgentLogic.py)                                  *)
(***************************************************************************)
EXTENDS Integers

MaxSupportedApiVersion == 3
DisabledApiVersion == 0

CompletionEra == {"completion", "containers"}     \* introduced by version 3
OsInfoEra == {"os-info", "timezone"}              \* introduced by version 2
CpuEra == {"number-of-cpus"}                      \* introduced by version 1

MessageName ==
    CompletionEra \cup OsInfoEra \cup CpuEra \cup
    {"active-user", "applications", "disks-usage", "echo", "fqdn",
     "heartbeat", "host-name", "memory-stats", "network-interfaces",
     "os-version", "session-lock", "session-logoff", "session-logon",
     "session-shutdown", "session-startup", "session-unlock"}

MinVersion ==
    [m \in MessageName |-> IF m \in CompletionEra THEN 3
                           ELSE IF m \in OsInfoEra THEN 2
                           ELSE IF m \in CpuEra THEN 1 ELSE 0]

(* The test _send makes before it writes m while the agent is at version v. *)
Supported(m, v) == MinVersion[m] <= v

(* What setAPIVersion stores for a requested integer: there is an upper cap *)
(* and no lower one, so a negative version mutes every message.             *)
Capped(requested) ==
    IF MaxSupportedApiVersion < requested THEN MaxSupportedApiVersion
    ELSE requested
=============================================================================
