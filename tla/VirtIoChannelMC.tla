--------------------------- MODULE VirtIoChannelMC ---------------------------
(* Small instances of VirtIoChannel for TLC. *)
EXTENDS VirtIoChannel

ThreadNames == {"worker", "listener"}
LineSizes == {1, 3}
Longest == 3

(* One thread and a port that splits lines anywhere, or both threads and a *)
(* port that takes every line whole; each with the host writing too, and   *)
(* with a port that fails.                                                 *)
SafeSettings ==
    {[writers |-> w, atLeast |-> n, messages |-> 2, lines |-> 2, errors |-> 0] :
        <<w, n>> \in {<<{"worker"}, 1>>, <<ThreadNames, Longest>>}}
    \cup
    {[writers |-> w, atLeast |-> n, messages |-> 3, lines |-> 0, errors |-> 2] :
        <<w, n>> \in {<<{"worker"}, 1>>, <<ThreadNames, Longest>>}}

(* Both threads and a port that may take part of a line. *)
SplitSettings ==
    {[writers |-> ThreadNames, atLeast |-> 1, messages |-> 1, lines |-> 0,
      errors |-> 0]}
=============================================================================
