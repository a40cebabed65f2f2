---------------------------- MODULE AgentLogicMC ----------------------------
(* Small instances of AgentLogic for TLC. *)
EXTENDS AgentLogic

CONSTANT u1

TwoUsers == {NoUser, u1}

Refresh(named) == [cmd |-> "refresh", arg |-> IF named THEN 1 ELSE 0]
ApiVersionIs(v) == [cmd |-> "api-version", arg |-> v]

(* Commands that move the version in every direction, and beyond both ends. *)
VersionCommands ==
    {Refresh(TRUE), Refresh(FALSE), ApiVersionIs(-1), ApiVersionIs(4)}

(* What can make the two reporters of a Linux agent meet. *)
ReportCommands == {Refresh(FALSE), ApiVersionIs(3)}

(* A command that makes the listener report, and one a handler may fail.   *)
LiveCommands == {Refresh(FALSE), [cmd |-> "delegate", arg |-> 0]}

(* Every kind of command, with both outcomes of each argument test. *)
OtherCommands ==
    {[cmd |-> "echo", arg |-> 0],
     [cmd |-> "set-number-of-cpus", arg |-> 0],
     [cmd |-> "set-number-of-cpus", arg |-> 2],
     [cmd |-> "lifecycle-event", arg |-> 0],
     [cmd |-> "lifecycle-event", arg |-> 1],
     [cmd |-> "delegate", arg |-> 0],
     [cmd |-> "ignored", arg |-> 0]}

AllCommands == VersionCommands \cup OtherCommands

(* The one command Windows answers differently. *)
WindowsCommands == {[cmd |-> "set-number-of-cpus", arg |-> 2]}

(* A version that knows the number of CPUs, and the order to change it. *)
CpuCommands == {ApiVersionIs(3)} \cup WindowsCommands

(* The order of the default periods (5, 10, 120, 300 and 60 s), compressed. *)
ShortRates ==
    [c \in Timer |-> CASE c = "heartbeat" -> 1 [] c = "users" -> 1
                       [] c = "cpus" -> 2 [] c = "apps" -> 2
                       [] c = "disks" -> 2]

(* Everything is due in every iteration. *)
UnitRates == [c \in Timer |-> 1]
=============================================================================
