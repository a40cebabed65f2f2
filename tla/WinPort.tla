------------------------------ MODULE WinPort ------------------------------
(***************************************************************************)
(* The port of the Windows agent: WinFile.write under the loop of          *)
(* VirtIoChannel.write.  The threads of the agent write through one        *)
(* OVERLAPPED structure, _write_ovrlpd: a WriteFile of any of them marks   *)
(* it pending, the completion of any buffer stores its count there, and    *)
(* GetOverlappedResult reads what is there.                                *)
(*                                                                         *)
(* The driver takes buffers whole and in their order (VirtIoChannel has    *)
(* the ports that do not).  Since the rest of a message ends with its      *)
(* newline, each buffer taken is one line of the host: the message from    *)
(* the place where the loop stood.                                         *)
(***************************************************************************)
EXTENDS Integers, Sequences

CONSTANTS
    Threads,    \* the threads that write
    Lengths,    \* possible lengths of a message
    MaxLines,   \* bound: messages of each thread
    MaxOutages  \* bound: times the device stops taking buffers

ASSUME PortAssumption == Lengths \subseteq Nat \ {0} /\ {MaxLines, MaxOutages} \subseteq Nat

VARIABLES
    opened,     \* one of the two ports could be opened: there is an _hfile
    down,       \* calls on the port fail at the moment
    at,         \* of each thread: idle, before WriteFile, or waiting for the result
    started,    \* how many messages each thread has started to write
    whole,      \* the length of the current one
    unsent,     \* what is left of it: the local `message`
    issued,     \* buffers the driver holds, oldest first
    ovrlpd,     \* _write_ovrlpd: Pending, or the count of the last completion
    host,       \* the lines that arrived
    shared,     \* history: a call used the structure while another waited for it
    failed,     \* history: a call failed
    outages     \* counter of its bound

threadVars == <<at, started, whole, unsent>>
portVars == <<opened, down, threadVars, issued, ovrlpd, host, shared, failed, outages>>

Pending == -1

(* A call that fails is an exception, for which write() returns 0.         *)
Failure == 0

Line(t, from) == [of |-> <<t, started[t]>>, from |-> from, length |-> whole[t] - from]

(* __init__ tries both names; when neither opens it logs that and goes on, *)
(* and every later call fails for want of _hfile.                          *)
PortInit ==
    /\ opened \in BOOLEAN
    /\ down = ~opened
    /\ at = [t \in Threads |-> "idle"]
    /\ started = [t \in Threads |-> 0]
    /\ whole = [t \in Threads |-> 0] /\ unsent = [t \in Threads |-> 0]
    /\ issued = <<>> /\ ovrlpd = Failure /\ host = <<>>
    /\ shared = FALSE /\ failed = FALSE /\ outages = 0

BeginWrite(t, s) ==
    /\ at[t] = "idle" /\ started[t] < MaxLines
    /\ started' = [started EXCEPT ![t] = @ + 1]
    /\ whole' = [whole EXCEPT ![t] = s]
    /\ unsent' = [unsent EXCEPT ![t] = s]
    /\ at' = [at EXCEPT ![t] = "call"]
    /\ UNCHANGED <<opened, down, issued, ovrlpd, host, shared, failed, outages>>

Waiting(t) == at[t] = "wait"

Touches(t) == shared' = (shared \/ \E u \in Threads \ {t} : Waiting(u))

WriteFile(t) ==
    /\ at[t] = "call" /\ ~down
    /\ issued' = Append(issued, Line(t, whole[t] - unsent[t]))
    /\ ovrlpd' = Pending
    /\ at' = [at EXCEPT ![t] = "wait"]
    /\ Touches(t)
    /\ UNCHANGED <<opened, down, started, whole, unsent, host, failed, outages>>

(* Slip: an exception counts as written.                                   *)
WriteFileFailsQuietly(t) ==
    /\ at[t] = "call" /\ down
    /\ unsent' = [unsent EXCEPT ![t] = 0]
    /\ at' = [at EXCEPT ![t] = "idle"]
    /\ failed' = TRUE
    /\ Touches(t)
    /\ UNCHANGED <<opened, down, started, whole, issued, ovrlpd, host, outages>>

(* The exception is logged, the thread sleeps, write() returns 0, and the  *)
(* loop calls it with the same buffer again.  A call that got as far as    *)
(* the system may leave the structure pending.                             *)
WriteFileFails(t) ==
    /\ at[t] = "call" /\ down
    /\ ovrlpd' \in {ovrlpd} \cup (IF opened THEN {Pending} ELSE {})
    /\ failed' = TRUE
    /\ Touches(t)
    /\ UNCHANGED <<opened, down, threadVars, issued, host, outages>>

(* What is left when the count stored in the structure is taken off.      *)
Rest(t) == IF ovrlpd >= unsent[t] THEN 0 ELSE unsent[t] - ovrlpd

(* Slip: the result is asked for without waiting, which raises while the   *)
(* buffer is pending.                                                      *)
GetResultAtOnce(t) ==
    /\ Waiting(t)
    /\ unsent' = [unsent EXCEPT ![t] = IF ovrlpd = Pending THEN @ ELSE Rest(t)]
    /\ at' = [at EXCEPT ![t] = IF unsent'[t] = 0 THEN "idle" ELSE "call"]
    /\ UNCHANGED <<opened, down, started, whole, issued, ovrlpd, host, shared, failed, outages>>

(* GetOverlappedResult, which waits while the structure is pending, and    *)
(* message = message[written:].                                            *)
GetResult(t) ==
    /\ Waiting(t) /\ ovrlpd # Pending
    /\ unsent' = [unsent EXCEPT ![t] = Rest(t)]
    /\ at' = [at EXCEPT ![t] = IF Rest(t) = 0 THEN "idle" ELSE "call"]
    /\ UNCHANGED <<opened, down, started, whole, issued, ovrlpd, host, shared, failed, outages>>

-----------------------------------------------------------------------------
(* The driver and the device.                                              *)

Completes ==
    /\ issued # <<>>
    /\ issued' = Tail(issued)
    /\ IF down
       THEN ovrlpd' = Failure /\ failed' = TRUE /\ UNCHANGED host
       ELSE /\ ovrlpd' = Head(issued).length
            /\ host' = Append(host, Head(issued))
            /\ UNCHANGED failed
    /\ UNCHANGED <<opened, down, threadVars, shared, outages>>

DeviceChanges ==
    /\ opened
    /\ down' = ~down
    /\ outages' = IF down THEN outages ELSE outages + 1
    /\ outages' <= MaxOutages
    /\ UNCHANGED <<opened, threadVars, issued, ovrlpd, host, shared, failed>>

-----------------------------------------------------------------------------
Write(t) == WriteFile(t) \/ WriteFileFails(t) \/ GetResult(t)

PortNext ==
    \/ \E t \in Threads : Write(t) \/ \E s \in Lengths : BeginWrite(t, s)
    \/ Completes \/ DeviceChanges

PortSpec == PortInit /\ [][PortNext]_portVars

(* The loop of each write() goes on and the driver completes what it has.  *)
FairPortSpec ==
    /\ PortSpec
    /\ \A t \in Threads : WF_portVars(Write(t))
    /\ WF_portVars(Completes)

-----------------------------------------------------------------------------
(* Properties.                                                             *)

Clean == ~shared \/ ~failed

Lines == {host[i] : i \in 1..Len(host)} \cup {issued[i] : i \in 1..Len(issued)}

Returned(t, n) == n < started[t] \/ at[t] = "idle"

(* A write() that has returned has given its whole line to the port,       *)
(* though the count it went by may be another thread's: what can be wrong  *)
(* then is a tail too many, not a line too few.  With a failure, a count   *)
(* of another thread may hide it.                                          *)
EveryLineArrives ==
    Clean => \A t \in Threads : \A n \in 1..started[t] :
                Returned(t, n) => \E l \in Lines : l.of = <<t, n>> /\ l.from = 0

(* As long as no two threads used the structure at once, the host gets     *)
(* every line whole and once, through any number of failed calls.          *)
AloneIsExact ==
    ~shared =>
        /\ \A l \in Lines : l.from = 0
        /\ \A i, j \in 1..Len(host) : i # j => host[i].of # host[j].of

(* A port that comes back for good lets every write() return.              *)
WriteReturns ==
    (<>[]~down /\ []Clean) => \A t \in Threads : [](at[t] # "idle" => <>(at[t] = "idle"))
=============================================================================
