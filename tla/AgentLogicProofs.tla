-------------------------- MODULE AgentLogicProofs --------------------------
(***************************************************************************)
(* Theorems about AgentLogic, for any set of users and commands, any       *)
(* periods, and no bound on what the environment does but a finite one.    *)
(***************************************************************************)
EXTENDS AgentLogic, SequenceTheorems, TLAPS

-----------------------------------------------------------------------------
(* The scripts are sequences of operations.                                *)

(* A script that is empty unless a condition holds is still a script.      *)
LEMMA WhenType ==
    ASSUME NEW condition, NEW script \in Seq(Op)
    PROVE  When(condition, script) \in Seq(Op)
  BY DEF When

(* Putting scripts one after the other gives a script.                     *)
LEMMA ConcatType ==
    ASSUME NEW s \in Seq(Op), NEW r \in Seq(Op)
    PROVE  s \o r \in Seq(Op)
  OBVIOUS

(* Every fixed script of the code lists operations only.                   *)
LEMMA ScriptType ==
    /\ SendInfo \in Seq(Op)
    /\ StartupScript \in Seq(Op)
    /\ RefreshScript \in Seq(Op)
    /\ \A due \in SUBSET Timer : LoopScript(due) \in Seq(Op)
  <1> USE DEF Op, MessageName, InternalOps, CompletionEra, OsInfoEra, CpuEra
  <1>1. SendInfo \in Seq(Op)
    BY DEF SendInfo
  <1>2. StartupScript \in Seq(Op)
    <2>1. <<"session-startup">> \in Seq(Op)
      OBVIOUS
    <2>2. <<"read-user", "applications", "containers", "fqdn", "timezone",
            "os-info">> \in Seq(Op)
      OBVIOUS
    <2>3. QED
      BY <1>1, <2>1, <2>2, ConcatType DEF StartupScript
  <1>3. RefreshScript \in Seq(Op)
    <2>1. <<"session-startup", "read-user-forced", "applications",
            "containers">> \in Seq(Op)
      OBVIOUS
    <2>2. <<"disks-usage", "fqdn", "timezone", "os-info">> \in Seq(Op)
      OBVIOUS
    <2>3. QED
      BY <1>1, <2>1, <2>2, ConcatType DEF RefreshScript
  <1>4. ASSUME NEW due \in SUBSET Timer
        PROVE  LoopScript(due) \in Seq(Op)
    <2>1. /\ <<"heartbeat">> \in Seq(Op)
          /\ <<"read-user">> \in Seq(Op)
          /\ <<"applications", "containers">> \in Seq(Op)
          /\ <<"fqdn">> \in Seq(Op)
          /\ <<"disks-usage">> \in Seq(Op)
          /\ <<"number-of-cpus">> \in Seq(Op)
      OBVIOUS
    <2> HIDE DEF Op
    <2>2. When("heartbeat" \in due, <<"heartbeat">>) \in Seq(Op)
      BY <2>1, WhenType
    <2>3. When("users" \in due, <<"read-user">>) \in Seq(Op)
      BY <2>1, WhenType
    <2>4. When("apps" \in due,
               <<"applications", "containers">> \o SendInfo \o <<"fqdn">>)
              \in Seq(Op)
      <3>1. <<"applications", "containers">> \o SendInfo \o <<"fqdn">>
                \in Seq(Op)
        BY <1>1, <2>1, ConcatType
      <3>2. QED
        BY <3>1, WhenType
    <2>5. When("disks" \in due, <<"disks-usage">>) \in Seq(Op)
      BY <2>1, WhenType
    <2>6. When("cpus" \in due, <<"number-of-cpus">>) \in Seq(Op)
      BY <2>1, WhenType
    <2>7. QED
      BY <2>2, <2>3, <2>4, <2>5, <2>6, ConcatType DEF LoopScript
  <1>5. QED
    BY <1>1, <1>2, <1>3, <1>4

-----------------------------------------------------------------------------
(* Type correctness.                                                       *)

(* A step that drops or replaces the first operation leaves a script.      *)
LEMMA AdvanceType ==
    ASSUME TypeOK, NEW t \in Thread, todo[t] # <<>>
    PROVE  /\ Head(todo[t]) \in Op
           /\ Advance(t) => todo' \in [Thread -> Seq(Op)]
           /\ \A ops \in Seq(Op) :
                  Become(t, ops) => todo' \in [Thread -> Seq(Op)]
  <1>1. todo[t] \in Seq(Op) /\ todo \in [Thread -> Seq(Op)]
    BY DEF TypeOK
  <1>2. Head(todo[t]) \in Op /\ Tail(todo[t]) \in Seq(Op)
    BY <1>1
  <1>3. \A ops \in Seq(Op) : ops \o Tail(todo[t]) \in Seq(Op)
    BY <1>2, ConcatType
  <1>4. QED
    BY <1>1, <1>2, <1>3 DEF Advance, Become

(* The internal operations a step puts in front of a script.               *)
LEMMA InternalScripts ==
    /\ <<"compare">> \in Seq(Op)
    /\ <<"compare-forced">> \in Seq(Op)
    /\ <<"active-user">> \in Seq(Op)
    /\ <<"active-user", "cache-user">> \in Seq(Op)
    /\ <<"session-shutdown">> \in Seq(Op)
  BY DEF Op, MessageName, InternalOps

(* The bounds on the environment are natural numbers, one by one.          *)
LEMMA BoundsAreNat ==
    /\ LogonRetries \in Nat
    /\ MaxCommands \in Nat
    /\ MaxUserChanges \in Nat
    /\ MaxSessionEvents \in Nat
    /\ MaxFailures \in Nat
  BY ConstantsAssumption DEF ConstantsAssumption

(* Every initial state is well typed.                                      *)
LEMMA TypeInit == Init => TypeOK
  <1> SUFFICES ASSUME Init PROVE TypeOK
    OBVIOUS
  <1> USE ConstantsAssumption DEF ConstantsAssumption, Init
  <1>1. todo \in [Thread -> Seq(Op)]
    BY ScriptType
  <1>2. /\ late \in [Thread -> Nat]
        /\ pending \in [Thread -> MessageName \cup {NoMessage}]
        /\ cur \in [Thread -> Users \cup {Unreported}]
    OBVIOUS
  <1>3. timers \in [Timer -> Int]
    OBVIOUS
  <1>4. current \in Command
    BY DEF Command
  <1>5. /\ retries \in 0..LogonRetries
        /\ sent \in 0..MaxCommands
        /\ userChanges \in 0..MaxUserChanges
        /\ sessionEvents \in 0..MaxSessionEvents
        /\ failures \in 0..MaxFailures
    BY BoundsAreNat
  <1>6. inbox \in Seq(HostCommands)
    OBVIOUS
  <1> HIDE ConstantsAssumption DEF ConstantsAssumption, Init
  <1>7. /\ apiVersion \in Int
        /\ workerPhase \in {"startup", "loop", "closing", "done"}
        /\ listenerPhase \in {"check", "read", "done"}
        /\ hostSession \in {"none", "session-startup", "session-shutdown"}
    BY DEF Init, DisabledApiVersion
  <1>8. /\ activeUser \in Users \cup {Unreported}
        /\ guestUser \in Users
        /\ hostUser \in Users \cup {Unreported}
        /\ replied \subseteq MessageName
    BY DEF Init
  <1>9. /\ desktopLocked \in BOOLEAN
        /\ waitStop \in BOOLEAN
        /\ overlapped \in BOOLEAN
    BY DEF Init
  <1>10. QED
    BY <1>1, <1>2, <1>3, <1>4, <1>5, <1>6, <1>7, <1>8, <1>9 DEF TypeOK

(* What OnOther puts on the listener's list, for any command.              *)
LEMMA OtherScriptType ==
    ASSUME NEW c \in Command, OnOther(c)
    PROVE  \E script \in Seq(Op) : Answer(script)
  <1>1. /\ <<"echo">> \in Seq(Op)
        /\ <<"handler", "number-of-cpus">> \in Seq(Op)
        /\ <<"handler">> \in Seq(Op)
        /\ <<"completion">> \in Seq(Op)
        /\ <<>> \in Seq(Op)
    BY DEF Op, MessageName, InternalOps, CompletionEra, CpuEra
  <1>2. When(c.arg > 0 /\ ~Windows, <<"handler", "number-of-cpus">>)
            \in Seq(Op)
    BY <1>1, WhenType
  <1>3. When(c.arg = 1, <<"completion">>) \in Seq(Op)
    BY <1>1, WhenType
  <1>4. <<"handler">> \o When(c.arg = 1, <<"completion">>) \in Seq(Op)
    BY <1>1, <1>3, ConcatType
  <1>5. CASE c.cmd = "echo"
    BY <1>1, <1>5 DEF OnOther
  <1>6. CASE c.cmd = "set-number-of-cpus"
    BY <1>2, <1>6 DEF OnOther
  <1>7. CASE c.cmd = "lifecycle-event"
    BY <1>4, <1>7 DEF OnOther
  <1>8. CASE c.cmd = "delegate"
    BY <1>1, <1>8 DEF OnOther
  <1>9. CASE c.cmd = "ignored"
    BY <1>1, <1>9 DEF OnOther
  <1>10. QED
    BY <1>5, <1>6, <1>7, <1>8, <1>9 DEF OnOther, Command

(* Every step of every thread, and of the environment, keeps the types.    *)
LEMMA TypeNext == TypeOK /\ [Next]_vars => TypeOK'
  <1> SUFFICES ASSUME TypeOK, [Next]_vars PROVE TypeOK'
    OBVIOUS
  <1> USE DEF hostVars, historyVars, boundVars
  <1>1. ASSUME NEW t \in Thread, Gate(t) PROVE TypeOK'
    <2>1. todo' \in [Thread -> Seq(Op)]
      BY <1>1, AdvanceType DEF Gate
    <2>2. pending' \in [Thread -> MessageName \cup {NoMessage}]
      BY <1>1 DEF Gate, TypeOK
    <2>3. QED
      BY <1>1, <2>1, <2>2 DEF Gate, TypeOK
  <1>2. ASSUME NEW t \in Thread, WriteMessage(t) PROVE TypeOK'
    <2>1. pending' \in [Thread -> MessageName \cup {NoMessage}]
      BY <1>2 DEF WriteMessage, TypeOK
    <2>2. hostUser' \in Users \cup {Unreported}
      BY <1>2 DEF WriteMessage, TypeOK
    <2>3. hostSession' \in {"none", "session-startup", "session-shutdown"}
      BY <1>2 DEF WriteMessage, TypeOK
    <2>4. late' \in [Thread -> Nat]
      BY <1>2 DEF WriteMessage, TypeOK
    <2>5. replied' \subseteq MessageName
      BY <1>2 DEF WriteMessage, TypeOK
    <2>6. QED
      BY <1>2, <2>1, <2>2, <2>3, <2>4, <2>5 DEF WriteMessage, TypeOK
  <1>3. ASSUME NEW t \in Thread, ReadUser(t) PROVE TypeOK'
    <2>1. todo' \in [Thread -> Seq(Op)]
      BY <1>3, AdvanceType, InternalScripts DEF ReadUser, Ready
    <2>2. cur' \in [Thread -> Users \cup {Unreported}]
      BY <1>3 DEF ReadUser, TypeOK
    <2>3. overlapped' \in BOOLEAN
      BY <1>3 DEF ReadUser, TypeOK
    <2>4. QED
      BY <1>3, <2>1, <2>2, <2>3 DEF ReadUser, TypeOK
  <1>4. ASSUME NEW t \in Thread, CompareUser(t) PROVE TypeOK'
    <2>1. todo' \in [Thread -> Seq(Op)]
      BY <1>4, AdvanceType, InternalScripts DEF CompareUser, Ready
    <2>2. QED
      BY <1>4, <2>1 DEF CompareUser, TypeOK
  <1>5. ASSUME NEW t \in Thread, CacheUser(t) PROVE TypeOK'
    <2>1. todo' \in [Thread -> Seq(Op)]
      BY <1>5, AdvanceType DEF CacheUser, Ready
    <2>2. activeUser' \in Users \cup {Unreported}
      BY <1>5 DEF CacheUser, TypeOK
    <2>3. QED
      BY <1>5, <2>1, <2>2 DEF CacheUser, TypeOK
  <1>6. ASSUME NEW t \in Thread, HandlerReturns(t) PROVE TypeOK'
    <2>1. todo' \in [Thread -> Seq(Op)]
      BY <1>6, AdvanceType DEF HandlerReturns, Ready
    <2>2. QED
      BY <1>6, <2>1 DEF HandlerReturns, TypeOK
  <1>7. ASSUME NEW t \in Thread, Raise(t) PROVE TypeOK'
    <2>1. todo' \in [Thread -> Seq(Op)]
      <3>1. <<>> \in Seq(Op) /\ <<"session-shutdown">> \in Seq(Op)
        BY InternalScripts
      <3>2. QED
        BY <1>7, <3>1 DEF Raise, TypeOK
    <2>2. pending' \in [Thread -> MessageName \cup {NoMessage}]
      BY <1>7 DEF Raise, TypeOK
    <2>3. workerPhase' \in {"startup", "loop", "closing", "done"}
      BY <1>7 DEF Raise, TypeOK
    <2>4. failures' \in 0..MaxFailures
      BY <1>7, BoundsAreNat DEF Raise, TypeOK
    <2>5. QED
      BY <1>7, <2>1, <2>2, <2>3, <2>4 DEF Raise, TypeOK
  <1>8. CASE WorkerLoop
    <2>1. todo' \in [Thread -> Seq(Op)]
      <3>1. LoopScript(Due) \in Seq(Op) /\ <<"session-shutdown">> \in Seq(Op)
        BY ScriptType, InternalScripts DEF Due
      <3>2. QED
        BY <1>8, <3>1 DEF WorkerLoop, TypeOK
    <2>2. timers' \in [Timer -> Int]
      BY <1>8, ConstantsAssumption DEF WorkerLoop, TypeOK, ConstantsAssumption
    <2>3. workerPhase' \in {"startup", "loop", "closing", "done"}
      BY <1>8 DEF WorkerLoop
    <2>4. QED
      BY <1>8, <2>1, <2>2, <2>3 DEF WorkerLoop, TypeOK
  <1>9. CASE WorkerDone
    <2>1. workerPhase' \in {"startup", "loop", "closing", "done"}
      BY <1>9 DEF WorkerDone
    <2>2. QED
      BY <1>9, <2>1 DEF WorkerDone, TypeOK
  <1>10. CASE ListenerCheck
    <2>1. listenerPhase' \in {"check", "read", "done"}
      BY <1>10 DEF ListenerCheck
    <2>2. QED
      BY <1>10, <2>1 DEF ListenerCheck, TypeOK
  <1>11. CASE Receive
    <2>1. /\ Head(inbox) \in HostCommands
          /\ Tail(inbox) \in Seq(HostCommands)
      BY <1>11 DEF Receive, TypeOK
    <2>2. Head(inbox) \in Command
      BY <2>1, ConstantsAssumption DEF ConstantsAssumption
    <2>3. PICK c \in Command : /\ c = Head(inbox)
                               /\ OnApiVersion(c) \/ OnRefresh(c) \/ OnOther(c)
                               /\ current' = c
      BY <1>11, <2>2 DEF Receive
    <2>4. c.arg \in Int /\ apiVersion \in Int
      BY <2>3 DEF Command, TypeOK
    <2>5. apiVersion' \in Int
      BY <2>3, <2>4 DEF OnApiVersion, OnRefresh, OnOther, SetApiVersion,
                        Capped, MaxSupportedApiVersion, DisabledApiVersion
    <2>6. late' \in [Thread -> Nat]
      BY <2>3 DEF OnApiVersion, OnRefresh, OnOther, SetApiVersion, TypeOK
    <2>7. \E script \in Seq(Op) : Answer(script)
      <3>1. CASE OnApiVersion(c)
        BY <3>1, ScriptType, WhenType DEF OnApiVersion
      <3>2. CASE OnRefresh(c)
        BY <3>2, ScriptType DEF OnRefresh
      <3>3. CASE OnOther(c)
        BY <2>3, <3>3, OtherScriptType DEF OnOther
      <3>4. QED
        BY <2>3, <3>1, <3>2, <3>3
    <2>8. todo' \in [Thread -> Seq(Op)]
      BY <2>7 DEF Answer, TypeOK
    <2>9. /\ listenerPhase' \in {"check", "read", "done"}
          /\ replied' \subseteq MessageName
      BY <1>11 DEF Receive
    <2>10. current' \in Command /\ inbox' \in Seq(HostCommands)
      BY <1>11, <2>1, <2>3 DEF Receive
    <2>11. QED
      BY <1>11, <2>5, <2>6, <2>8, <2>9, <2>10 DEF Receive, TypeOK
  <1>12. CASE SessionLogon
    <2>1. todo' \in [Thread -> Seq(Op)]
      <3>1. <<"await-user", "read-user", "session-logon">> \in Seq(Op)
        BY DEF Op, MessageName, InternalOps
      <3>2. QED
        BY <1>12, <3>1 DEF SessionLogon, TypeOK
    <2>2. retries' \in 0..LogonRetries
      BY <1>12, BoundsAreNat DEF SessionLogon
    <2>3. sessionEvents' \in 0..MaxSessionEvents
      BY <1>12, BoundsAreNat DEF SessionLogon, SessionNotified, TypeOK
    <2>4. desktopLocked' \in BOOLEAN
      BY <1>12 DEF SessionLogon
    <2>5. QED
      BY <1>12, <2>1, <2>2, <2>3, <2>4
         DEF SessionLogon, SessionUnchanged, TypeOK
  <1>13. CASE AwaitUser
    <2>1. todo' \in [Thread -> Seq(Op)]
      <3>1. CASE UNCHANGED todo
        BY <3>1 DEF TypeOK
      <3>2. CASE Advance("session")
        BY <1>13, <3>2, AdvanceType DEF AwaitUser, Ready, Thread
      <3>3. QED
        BY <1>13, <3>1, <3>2 DEF AwaitUser
    <2>2. retries' \in 0..LogonRetries
      BY <1>13, BoundsAreNat DEF AwaitUser, TypeOK
    <2>3. QED
      BY <1>13, <2>1, <2>2 DEF AwaitUser, SessionUnchanged, TypeOK
  <1>14. CASE SessionLogoff
    <2>1. todo' \in [Thread -> Seq(Op)]
      <3>1. <<"session-logoff", "fetch-cached">> \in Seq(Op)
        BY DEF Op, MessageName, InternalOps
      <3>2. QED
        BY <1>14, <3>1 DEF SessionLogoff, TypeOK
    <2>2. activeUser' \in Users \cup {Unreported}
      BY <1>14, ConstantsAssumption DEF SessionLogoff, ConstantsAssumption
    <2>3. sessionEvents' \in 0..MaxSessionEvents
      BY <1>14, BoundsAreNat DEF SessionLogoff, SessionNotified, TypeOK
    <2>4. desktopLocked' \in BOOLEAN /\ overlapped' \in BOOLEAN
      BY <1>14 DEF SessionLogoff, TypeOK
    <2>5. QED
      BY <1>14, <2>1, <2>2, <2>3, <2>4
         DEF SessionLogoff, SessionUnchanged, TypeOK
  <1>15. CASE FetchCached
    <2>1. todo' \in [Thread -> Seq(Op)]
      BY <1>15, AdvanceType, InternalScripts DEF FetchCached, Ready, Thread
    <2>2. cur' \in [Thread -> Users \cup {Unreported}]
      BY <1>15 DEF FetchCached, TypeOK
    <2>3. QED
      BY <1>15, <2>1, <2>2 DEF FetchCached, TypeOK
  <1>16. ASSUME NEW locked \in BOOLEAN, SessionLockChange(locked)
         PROVE  TypeOK'
    <2>1. todo' \in [Thread -> Seq(Op)]
      <3>1. <<"session-lock">> \in Seq(Op) /\ <<"session-unlock">> \in Seq(Op)
        BY DEF Op, MessageName, InternalOps
      <3>2. QED
        BY <1>16, <3>1 DEF SessionLockChange, TypeOK
    <2>2. sessionEvents' \in 0..MaxSessionEvents
      BY <1>16, BoundsAreNat DEF SessionLockChange, SessionNotified, TypeOK
    <2>3. desktopLocked' \in BOOLEAN
      BY <1>16 DEF SessionLockChange
    <2>4. QED
      BY <1>16, <2>1, <2>2, <2>3
         DEF SessionLockChange, SessionUnchanged, TypeOK
  <1>17. ASSUME NEW c \in HostCommands, HostSends(c) PROVE TypeOK'
    <2>1. inbox' \in Seq(HostCommands)
      BY <1>17 DEF HostSends, TypeOK
    <2>2. sent' \in 0..MaxCommands
      BY <1>17, BoundsAreNat DEF HostSends, TypeOK
    <2>3. QED
      BY <1>17, <2>1, <2>2 DEF HostSends, agentVars, TypeOK
  <1>18. ASSUME NEW u \in Users, GuestUserChanges(u) PROVE TypeOK'
    <2>1. userChanges' \in 0..MaxUserChanges
      BY <1>18, BoundsAreNat DEF GuestUserChanges, TypeOK
    <2>2. QED
      BY <1>18, <2>1 DEF GuestUserChanges, agentVars, TypeOK
  <1>19. CASE Stop
    <2>1. waitStop' \in BOOLEAN
      BY <1>19 DEF Stop
    <2>2. QED
      BY <1>19, <2>1 DEF Stop, TypeOK
  <1>20. CASE UNCHANGED vars
    BY <1>20 DEF vars, agentVars, TypeOK
  <1>21. ASSUME NEW t \in Thread, ThreadStep(t) PROVE TypeOK'
    BY <1>1, <1>2, <1>3, <1>4, <1>5, <1>6, <1>21 DEF ThreadStep
  <1>22. QED
    BY <1>7, <1>8, <1>9, <1>10, <1>11, <1>12, <1>13, <1>14, <1>15, <1>16,
       <1>17, <1>18, <1>19, <1>20, <1>21
       DEF Next, WorkerStep, ListenerStep, SessionStep, SessionEvent,
           Environment, Thread

(* Every field of the agent always holds a value of its kind.              *)
THEOREM TypeCorrect == Spec => []TypeOK
  BY TypeInit, TypeNext, PTL DEF Spec

-----------------------------------------------------------------------------
(* The version gate.                                                       *)

(* Initially nothing is in flight.                                         *)
LEMMA GateInit == Init => GateInv
  BY DEF Init, GateInv, ReadingIsIdle, Idle, LateBudget, ListenerNeverLate,
         AtMostOneLate, Thread

(* A step that neither gates nor writes a message nor changes the version  *)
(* keeps the gate invariant, as long as it does not enter or disturb a     *)
(* read of the listener; a raise may only drop messages.                   *)
LEMMA GateFrame ==
    ASSUME TypeOK, GateInv,
           apiVersion' = apiVersion, late' = late,
           \A t \in Thread : pending'[t] \in {pending[t], NoMessage},
           listenerPhase' = "read" =>
               /\ todo'["listener"] = <<>>
               /\ pending'["listener"] = NoMessage
    PROVE  GateInv'
  <1>1. ReadingIsIdle'
    BY DEF ReadingIsIdle, Idle
  <1>2. LateBudget'
    BY DEF GateInv, LateBudget, Supported
  <1>3. ListenerNeverLate'
    BY DEF GateInv, ListenerNeverLate, Supported, Thread
  <1>4. AtMostOneLate'
    BY DEF GateInv, AtMostOneLate
  <1>5. QED
    BY <1>1, <1>2, <1>3, <1>4 DEF GateInv

(* No step of any thread or of the environment breaks the invariant.       *)
LEMMA GateNext == TypeOK /\ GateInv /\ [Next]_vars => GateInv'
  <1> SUFFICES ASSUME TypeOK, GateInv, [Next]_vars PROVE GateInv'
    OBVIOUS
  <1> USE DEF hostVars, historyVars, boundVars
  <1>0. /\ listenerPhase = "read" =>
              todo["listener"] = <<>> /\ pending["listener"] = NoMessage
        /\ \A t \in Thread : pending[t] \in {pending[t], NoMessage}
    BY DEF GateInv, ReadingIsIdle, Idle
  <1>1. ASSUME NEW t \in Thread, Gate(t) PROVE GateInv'
    <2>1. \/ pending' = pending
          \/ /\ pending' = [pending EXCEPT ![t] = Head(todo[t])]
             /\ Supported(Head(todo[t]), apiVersion)
      BY <1>1 DEF Gate
    <2>2. LateBudget'
      BY <1>1, <2>1 DEF Gate, GateInv, LateBudget, Supported, TypeOK
    <2>3. ListenerNeverLate'
      BY <1>1, <2>1
         DEF Gate, GateInv, ListenerNeverLate, Supported, TypeOK, Thread
    <2>4. AtMostOneLate'
      BY <1>1 DEF Gate, GateInv, AtMostOneLate
    <2>5. ReadingIsIdle'
      BY <1>0, <1>1 DEF Gate, ReadingIsIdle, Idle, Advance, TypeOK, Thread
    <2>6. QED
      BY <2>2, <2>3, <2>4, <2>5 DEF GateInv
  <1>2. ASSUME NEW t \in Thread, WriteMessage(t) PROVE GateInv'
    <2>1. /\ apiVersion' = apiVersion /\ todo' = todo
          /\ listenerPhase' = listenerPhase
          /\ pending[t] # NoMessage
          /\ pending' = [pending EXCEPT ![t] = NoMessage]
          /\ late' = IF Supported(pending[t], apiVersion) THEN late
                     ELSE [late EXCEPT ![t] = @ + 1]
      BY <1>2 DEF WriteMessage
    <2>2. late[t] \in Nat /\ (~Supported(pending[t], apiVersion) => late[t] = 0)
      BY <2>1 DEF GateInv, LateBudget, TypeOK
    <2>3. AtMostOneLate'
      BY <2>1, <2>2 DEF GateInv, AtMostOneLate, TypeOK
    <2>4. LateBudget'
      BY <2>1 DEF GateInv, LateBudget, Supported, TypeOK
    <2>5. ListenerNeverLate'
      BY <2>1 DEF GateInv, ListenerNeverLate, Supported, TypeOK, Thread
    <2>6. ReadingIsIdle'
      BY <1>0, <2>1 DEF ReadingIsIdle, Idle, TypeOK, Thread
    <2>7. QED
      BY <2>3, <2>4, <2>5, <2>6 DEF GateInv
  <1>3. ASSUME NEW t \in Thread,
               \/ ReadUser(t) \/ CompareUser(t) \/ CacheUser(t)
               \/ HandlerReturns(t)
        PROVE  GateInv'
    <2>1. /\ apiVersion' = apiVersion /\ late' = late /\ pending' = pending
          /\ listenerPhase' = listenerPhase
      BY <1>3 DEF ReadUser, CompareUser, CacheUser, HandlerReturns
    <2>2. todo[t] # <<>> /\ (\A u \in Thread : u # t => todo'[u] = todo[u])
      BY <1>3 DEF ReadUser, CompareUser, CacheUser, HandlerReturns, Ready,
                  Advance, Become, TypeOK
    <2>3. listenerPhase' = "read" => todo'["listener"] = <<>>
      BY <1>0, <2>1, <2>2 DEF Thread
    <2>4. QED
      BY <1>0, <2>1, <2>3, GateFrame
  <1>4. ASSUME NEW t \in Thread, Raise(t) PROVE GateInv'
    <2>1. /\ apiVersion' = apiVersion /\ late' = late
          /\ listenerPhase' = listenerPhase
          /\ pending' = [pending EXCEPT ![t] = NoMessage]
          /\ t = "listener" => todo'["listener"] = <<>>
          /\ t # "listener" => todo'["listener"] = todo["listener"]
      BY <1>4 DEF Raise, TypeOK, Thread
    <2>2. /\ \A u \in Thread : pending'[u] \in {pending[u], NoMessage}
          /\ listenerPhase' = "read" =>
                 todo'["listener"] = <<>> /\ pending'["listener"] = NoMessage
      BY <1>0, <2>1 DEF TypeOK, Thread
    <2>3. QED
      BY <2>1, <2>2, GateFrame
  <1>5. CASE ListenerCheck
    <2>1. /\ apiVersion' = apiVersion /\ late' = late
          /\ pending' = pending /\ todo' = todo
          /\ todo["listener"] = <<>> /\ pending["listener"] = NoMessage
      BY <1>5 DEF ListenerCheck, Idle
    <2>2. QED
      BY <1>0, <2>1, GateFrame
  <1>6. CASE Receive
    <2>1. /\ listenerPhase' = "check" /\ listenerPhase = "read"
          /\ pending' = pending
      BY <1>6 DEF Receive
    <2>2. PICK c : OnApiVersion(c) \/ OnRefresh(c) \/ OnOther(c)
      BY <1>6 DEF Receive
    <2>3. \/ apiVersion' = apiVersion /\ late' = late
          \/ late' = [t \in Thread |-> 0]
      BY <2>2 DEF OnApiVersion, OnRefresh, OnOther, SetApiVersion
    <2>4. CASE apiVersion' = apiVersion /\ late' = late
      BY <1>0, <2>1, <2>4, GateFrame
    <2>5. CASE late' = [t \in Thread |-> 0]
      <3>1. LateBudget' /\ AtMostOneLate'
        BY <2>5 DEF LateBudget, AtMostOneLate
      <3>2. ListenerNeverLate'
        BY <1>0, <2>1, <2>5 DEF ListenerNeverLate, Thread
      <3>3. ReadingIsIdle'
        BY <2>1 DEF ReadingIsIdle
      <3>4. QED
        BY <3>1, <3>2, <3>3 DEF GateInv
    <2>6. QED
      BY <2>3, <2>4, <2>5
  <1>7. ASSUME \/ WorkerLoop \/ WorkerDone
               \/ AwaitUser \/ FetchCached \/ SessionEvent
               \/ \E c \in HostCommands : HostSends(c)
               \/ \E u \in Users : GuestUserChanges(u)
               \/ Stop \/ UNCHANGED vars
        PROVE  GateInv'
    <2>1. /\ apiVersion' = apiVersion /\ late' = late /\ pending' = pending
          /\ listenerPhase' = listenerPhase
      BY <1>7 DEF WorkerLoop, WorkerDone, AwaitUser, FetchCached,
                  SessionEvent, SessionLogon, SessionLogoff,
                  SessionLockChange, SessionUnchanged, HostSends,
                  GuestUserChanges, Stop, vars, agentVars
    <2>2. todo'["listener"] = todo["listener"]
      BY <1>7 DEF WorkerLoop, WorkerDone, AwaitUser, FetchCached, Advance,
                  Become, SessionEvent, SessionLogon, SessionLogoff,
                  SessionLockChange, SessionUnchanged, HostSends,
                  GuestUserChanges, Stop, vars, agentVars, TypeOK, Thread
    <2>3. QED
      BY <1>0, <2>1, <2>2, GateFrame
  <1>8. ASSUME NEW t \in Thread, ThreadStep(t) PROVE GateInv'
    BY <1>1, <1>2, <1>3, <1>8 DEF ThreadStep
  <1>9. QED
    BY <1>4, <1>5, <1>6, <1>7, <1>8
       DEF Next, WorkerStep, ListenerStep, SessionStep, Environment, Thread

(* The gate invariant holds in every reachable state.                      *)
THEOREM GateCorrect == Spec => []GateInv
  <1>1. TypeOK /\ GateInv /\ [Next]_vars => TypeOK' /\ GateInv'
    BY TypeNext, GateNext
  <1>2. QED
    BY <1>1, TypeInit, GateInit, PTL DEF Spec

(* No reply to a command ever carries a message above the version in force *)
(* when it is written.                                                     *)
THEOREM RepliesAreGated == Spec => []ListenerNeverLate
  BY GateCorrect, PTL DEF GateInv

(* After a version change every thread writes at most one stale message.   *)
THEOREM LateIsBounded == Spec => []AtMostOneLate
  BY GateCorrect, PTL DEF GateInv

-----------------------------------------------------------------------------
(* What a script lists, and what it still sends.                           *)

(* Some operation of the script is one of ops.                             *)
Listed(ops, script) == \E i \in 1..Len(script) : script[i] \in ops

(* The message an operation leads to, when nothing but the listener's own  *)
(* forced report is counted among the internal ones.                       *)
Sends(op) ==
    IF op \in {"read-user-forced", "compare-forced"} THEN {"active-user"}
    ELSE {op} \cap MessageName

Coming(script) == UNION {Sends(script[i]) : i \in 1..Len(script)}

(* A script that is not empty is its head, followed by its tail.           *)
LEMMA HeadAndTail ==
    ASSUME NEW s \in Seq(Op), s # <<>>
    PROVE  /\ Head(s) \in Op /\ Tail(s) \in Seq(Op)
           /\ Len(s) \in Nat \ {0} /\ Len(Tail(s)) = Len(s) - 1
           /\ Head(s) = s[1]
           /\ \A i \in 1..Len(Tail(s)) : Tail(s)[i] = s[i + 1]
  OBVIOUS

(* An operation put before a script becomes its head.                      *)
LEMMA PutBefore ==
    ASSUME NEW a \in Op, NEW s \in Seq(Op)
    PROVE  /\ <<a>> \o s \in Seq(Op) /\ <<a>> \o s # <<>>
           /\ Head(<<a>> \o s) = a
           /\ Tail(<<a>> \o s) = s
  <1>1. /\ <<a>> \o s \in Seq(Op) /\ Len(<<a>> \o s) = Len(s) + 1
        /\ (<<a>> \o s)[1] = a
        /\ \A i \in 1..Len(s) : (<<a>> \o s)[i + 1] = s[i]
    OBVIOUS
  <1>2. <<a>> \o s # <<>> /\ Head(<<a>> \o s) = a
    BY <1>1, HeadAndTail
  <1>3. /\ Tail(<<a>> \o s) \in Seq(Op) /\ Len(Tail(<<a>> \o s)) = Len(s)
        /\ \A i \in 1..Len(s) : Tail(<<a>> \o s)[i] = s[i]
    BY <1>1, <1>2, HeadAndTail
  <1>4. Tail(<<a>> \o s) = s
    BY <1>3, SeqEqual
  <1>5. QED
    BY <1>1, <1>2, <1>4

(* Two operations put before a script, one after the other.                *)
LEMMA PutTwoBefore ==
    ASSUME NEW a \in Op, NEW b \in Op, NEW s \in Seq(Op)
    PROVE  <<a, b>> \o s = <<a>> \o (<<b>> \o s)
  <1>1. <<a, b>> \o s \in Seq(Op) /\ <<a>> \o (<<b>> \o s) \in Seq(Op)
    OBVIOUS
  <1>2. /\ Len(<<a, b>> \o s) = Len(s) + 2
        /\ Len(<<a>> \o (<<b>> \o s)) = Len(s) + 2
    OBVIOUS
  <1>3. \A i \in 1..(Len(s) + 2) :
            (<<a, b>> \o s)[i] = (<<a>> \o (<<b>> \o s))[i]
    OBVIOUS
  <1>4. QED
    BY <1>1, <1>2, <1>3, SeqEqual

(* What a script lists is at its head or in its tail, and what it still    *)
(* sends is what the head leads to and what the tail sends.                *)
LEMMA ListedSplit ==
    ASSUME NEW s \in Seq(Op), s # <<>>
    PROVE  /\ \A ops :
              Listed(ops, s) <=> Head(s) \in ops \/ Listed(ops, Tail(s))
           /\ Coming(s) = Sends(Head(s)) \cup Coming(Tail(s))
  <1>1. /\ \A i \in 1..Len(s) : i = 1 \/ i - 1 \in 1..Len(Tail(s))
        /\ \A i \in 1..Len(Tail(s)) : i + 1 \in 1..Len(s) /\ 1 \in 1..Len(s)
        /\ 1 \in 1..Len(s)
        /\ \A i \in 1..Len(Tail(s)) : Tail(s)[i] = s[i + 1]
        /\ \A i \in 1..Len(s) : i # 1 => Tail(s)[i - 1] = s[i]
        /\ Head(s) = s[1]
    BY HeadAndTail
  <1>2. ASSUME NEW ops
        PROVE  Listed(ops, s) <=> Head(s) \in ops \/ Listed(ops, Tail(s))
    BY <1>1 DEF Listed
  <1>3. Coming(s) = Sends(Head(s)) \cup Coming(Tail(s))
    <2> HIDE DEF Sends
    <2>1. ASSUME NEW m \in Coming(s)
          PROVE  m \in Sends(Head(s)) \cup Coming(Tail(s))
      BY <1>1, <2>1 DEF Coming
    <2>2. ASSUME NEW m \in Sends(Head(s)) \cup Coming(Tail(s))
          PROVE  m \in Coming(s)
      BY <1>1, <2>2 DEF Coming
    <2>3. QED
      BY <2>1, <2>2
  <1>4. QED
    BY <1>2, <1>3

(* The same for two scripts one after the other.                           *)
LEMMA ListedConcat ==
    ASSUME NEW r \in Seq(Op), NEW s \in Seq(Op)
    PROVE  /\ \A ops : Listed(ops, r \o s) <=> Listed(ops, r) \/ Listed(ops, s)
           /\ Coming(r \o s) = Coming(r) \cup Coming(s)
  <1>1. /\ Len(r) \in Nat /\ Len(s) \in Nat
        /\ Len(r \o s) = Len(r) + Len(s)
        /\ \A i \in 1..Len(r) : (r \o s)[i] = r[i]
        /\ \A i \in 1..Len(s) : (r \o s)[i + Len(r)] = s[i]
    OBVIOUS
  <1>2. /\ \A i \in 1..Len(r \o s) :
               \/ i \in 1..Len(r) /\ (r \o s)[i] = r[i]
               \/ i - Len(r) \in 1..Len(s) /\ (r \o s)[i] = s[i - Len(r)]
        /\ \A i \in 1..Len(r) : i \in 1..Len(r \o s)
        /\ \A i \in 1..Len(s) : i + Len(r) \in 1..Len(r \o s)
    BY <1>1
  <1>3. ASSUME NEW ops
        PROVE  Listed(ops, r \o s) <=> Listed(ops, r) \/ Listed(ops, s)
    BY <1>1, <1>2 DEF Listed
  <1>4. Coming(r \o s) = Coming(r) \cup Coming(s)
    <2>1. ASSUME NEW m \in Coming(r \o s)
          PROVE  m \in Coming(r) \cup Coming(s)
      BY <1>2, <2>1 DEF Coming
    <2>2. ASSUME NEW m \in Coming(r)
          PROVE  m \in Coming(r \o s)
      BY <1>1, <1>2, <2>2 DEF Coming
    <2>3. ASSUME NEW m \in Coming(s)
          PROVE  m \in Coming(r \o s)
      BY <1>1, <1>2, <2>3 DEF Coming
    <2>4. QED
      BY <2>1, <2>2, <2>3
  <1>5. QED
    BY <1>3, <1>4

(* The empty script lists nothing, and a script of one operation just that. *)
LEMMA ListedOne ==
    /\ \A ops : ~Listed(ops, <<>>)
    /\ Coming(<<>>) = {}
    /\ \A a \in Op : /\ Coming(<<a>>) = Sends(a)
                     /\ \A ops : Listed(ops, <<a>>) <=> a \in ops
  <1>1. /\ \A ops : ~Listed(ops, <<>>)
        /\ Coming(<<>>) = {}
    BY DEF Listed, Coming
  <1>2. ASSUME NEW a \in Op
        PROVE  /\ Coming(<<a>>) = Sends(a)
               /\ \A ops : Listed(ops, <<a>>) <=> a \in ops
    <2>1. /\ <<a>> \in Seq(Op) /\ <<a>> # <<>>
          /\ Head(<<a>>) = a /\ Tail(<<a>>) = <<>>
      OBVIOUS
    <2>2. /\ Coming(<<a>>) = Sends(Head(<<a>>)) \cup Coming(Tail(<<a>>))
          /\ \A ops : Listed(ops, <<a>>)
                       <=> Head(<<a>>) \in ops \/ Listed(ops, Tail(<<a>>))
      BY <2>1, ListedSplit
    <2>3. QED
      BY <1>1, <2>1, <2>2
  <1>3. QED
    BY <1>1, <1>2

(* One or two operations before a script.                                  *)
LEMMA OneThenMore ==
    ASSUME NEW a \in Op, NEW s \in Seq(Op)
    PROVE  /\ <<a>> \o s \in Seq(Op)
           /\ Coming(<<a>> \o s) = Sends(a) \cup Coming(s)
           /\ \A ops : Listed(ops, <<a>> \o s) <=> a \in ops \/ Listed(ops, s)
  <1>1. PICK r \in Seq(Op) : /\ r = <<a>> \o s /\ r # <<>>
                             /\ Head(r) = a /\ Tail(r) = s
    BY PutBefore
  <1>2. r # <<>> /\ Head(r) = a /\ Tail(r) = s
    BY <1>1
  <1>3. /\ Coming(r) = Sends(Head(r)) \cup Coming(Tail(r))
        /\ \A ops : Listed(ops, r) <=> Head(r) \in ops \/ Listed(ops, Tail(r))
    BY <1>2, ListedSplit
  <1>4. QED
    BY <1>1, <1>3

LEMMA TwoThenMore ==
    ASSUME NEW a \in Op, NEW b \in Op, NEW s \in Seq(Op)
    PROVE  /\ <<a, b>> \o s \in Seq(Op)
           /\ Coming(<<a, b>> \o s) = Sends(a) \cup Sends(b) \cup Coming(s)
           /\ \A ops : Listed(ops, <<a, b>> \o s) <=>
                           a \in ops \/ b \in ops \/ Listed(ops, s)
  <1>1. PICK q \in Seq(Op) : /\ q = <<b>> \o s
                             /\ Coming(q) = Sends(b) \cup Coming(s)
                             /\ \A ops : Listed(ops, q) <=>
                                             b \in ops \/ Listed(ops, s)
    BY OneThenMore
  <1>2. PICK r \in Seq(Op) : /\ r = <<a>> \o q
                             /\ Coming(r) = Sends(a) \cup Coming(q)
                             /\ \A ops : Listed(ops, r) <=>
                                             a \in ops \/ Listed(ops, q)
    BY OneThenMore
  <1>3. r = <<a, b>> \o s
    BY <1>1, <1>2, PutTwoBefore
  <1>4. QED
    BY <1>1, <1>2, <1>3

(* What the listener's scripts send, and that none of them polls.          *)
LEMMA ListenerScripts ==
    /\ Coming(RefreshScript) = RefreshReply
    /\ ~Listed({"read-user", "compare"}, RefreshScript)
    /\ Listed({"read-user-forced"}, RefreshScript)
    /\ ~Listed(ReportingOps, RefreshScript)
  <1> DEFINE first == <<"session-startup", "read-user-forced", "applications",
                        "containers">>
             last == <<"disks-usage", "fqdn", "timezone", "os-info">>
  <1>1. /\ first \in Seq(Op) /\ SendInfo \in Seq(Op) /\ last \in Seq(Op)
        /\ first \o SendInfo \in Seq(Op)
    <2>1. first \in Seq(Op) /\ SendInfo \in Seq(Op) /\ last \in Seq(Op)
      BY DEF Op, MessageName, InternalOps, CompletionEra, OsInfoEra, SendInfo
    <2>2. QED
      BY <2>1, ConcatType
  <1>2. /\ Coming(first) = {"session-startup", "active-user",
                            "applications", "containers"}
        /\ Coming(SendInfo) = {"host-name", "os-version",
                               "network-interfaces"}
        /\ Coming(last) = {"disks-usage", "fqdn", "timezone", "os-info"}
    BY DEF Coming, Sends, SendInfo, MessageName, CompletionEra, OsInfoEra
  <1>3. ASSUME NEW ops,
               ops = {"read-user", "compare"} \/ ops = ReportingOps
        PROVE  ~Listed(ops, first) /\ ~Listed(ops, SendInfo)
               /\ ~Listed(ops, last)
    BY <1>3 DEF Listed, SendInfo, ReportingOps
  <1>4. Listed({"read-user-forced"}, first)
    BY DEF Listed
  <1>5. RefreshScript = first \o SendInfo \o last
    BY DEF RefreshScript
  <1> HIDE DEF first, last
  <1>6. Coming(RefreshScript) =
            Coming(first) \cup Coming(SendInfo) \cup Coming(last)
    BY <1>1, <1>5, ListedConcat
  <1>7. ASSUME NEW ops
        PROVE  Listed(ops, RefreshScript) <=>
                   \/ Listed(ops, first) \/ Listed(ops, SendInfo)
                   \/ Listed(ops, last)
    BY <1>1, <1>5, ListedConcat
  <1>8. Coming(RefreshScript) = RefreshReply
    BY <1>2, <1>6 DEF RefreshReply
  <1>9. QED
    BY <1>3, <1>4, <1>7, <1>8

(* The scripts of the worker report to nobody yet, and force nothing.      *)
LEMMA WorkerScripts ==
    ASSUME NEW ops, ops = ReportingOps \/ ops = {"read-user-forced"}
    PROVE  /\ ~Listed(ops, StartupScript)
           /\ \A due \in SUBSET Timer : ~Listed(ops, LoopScript(due))
           /\ ~Listed(ops, <<"session-shutdown">>)
  <1> DEFINE Plain(s) == s \in Seq(Op) /\ ~Listed(ops, s)
  <1>1. /\ Plain(<<"session-startup">>) /\ Plain(SendInfo)
        /\ Plain(<<"read-user", "applications", "containers", "fqdn",
                   "timezone", "os-info">>)
        /\ Plain(<<"heartbeat">>) /\ Plain(<<"read-user">>)
        /\ Plain(<<"applications", "containers">>) /\ Plain(<<"fqdn">>)
        /\ Plain(<<"disks-usage">>) /\ Plain(<<"number-of-cpus">>)
        /\ Plain(<<"session-shutdown">>) /\ Plain(<<>>)
    <2>1. /\ <<"session-startup">> \in Seq(Op) /\ SendInfo \in Seq(Op)
          /\ <<"read-user", "applications", "containers", "fqdn",
               "timezone", "os-info">> \in Seq(Op)
          /\ <<"heartbeat">> \in Seq(Op) /\ <<"read-user">> \in Seq(Op)
          /\ <<"applications", "containers">> \in Seq(Op)
          /\ <<"fqdn">> \in Seq(Op) /\ <<"disks-usage">> \in Seq(Op)
          /\ <<"number-of-cpus">> \in Seq(Op)
          /\ <<"session-shutdown">> \in Seq(Op) /\ <<>> \in Seq(Op)
      BY DEF Op, MessageName, InternalOps, CompletionEra, OsInfoEra, CpuEra,
             SendInfo
    <2>2. QED
      BY <2>1 DEF Listed, SendInfo, ReportingOps
  <1>2. \A r, s : Plain(r) /\ Plain(s) => Plain(r \o s)
    BY ListedConcat, ConcatType
  <1>3. \A condition, s : Plain(s) => Plain(When(condition, s))
    BY <1>1 DEF When
  <1> HIDE DEF Plain
  <1>4. Plain(StartupScript)
    BY <1>1, <1>2 DEF StartupScript
  <1>5. ASSUME NEW due \in SUBSET Timer
        PROVE  Plain(LoopScript(due))
    <2>1. Plain(<<"applications", "containers">> \o SendInfo \o <<"fqdn">>)
      BY <1>1, <1>2
    <2>2. QED
      BY <1>1, <1>2, <1>3, <2>1 DEF LoopScript
  <1>6. QED
    BY <1>1, <1>4, <1>5 DEF Plain

-----------------------------------------------------------------------------
(* The answer to a command.                                                *)

(* What the listener has written since it took the command, is about to    *)
(* write and will still write of its script.                               *)
Reply ==
    replied \cup ({pending["listener"]} \ {NoMessage})
    \cup {m \in Coming(todo["listener"]) : Supported(m, apiVersion)}

(* As long as nothing raises, the whole reply is the part of one of the    *)
(* command's answers that the version supports; and the listener never     *)
(* polls, so its reports of the user are all forced.                       *)
AnswerInv ==
    failures = 0 =>
        /\ ~Listed({"read-user", "compare"}, todo["listener"])
        /\ \E answer \in Answers(current) :
               Reply = {m \in answer : Supported(m, apiVersion)}

(* Initially no command has been taken and no reply is due.                *)
LEMMA AnswerInit == Init => AnswerInv
  <1> SUFFICES ASSUME Init PROVE AnswerInv
    OBVIOUS
  <1>1. /\ todo["listener"] = <<>> /\ pending["listener"] = NoMessage
        /\ replied = {} /\ Answers(current) = {{}}
    BY DEF Init, Thread, Answers
  <1>2. QED
    BY <1>1, ListedOne DEF AnswerInv, Reply

(* A step that takes no command keeps the invariant if the reply as a      *)
(* whole stays as it is.                                                   *)
LEMMA AnswerFrame ==
    ASSUME AnswerInv,
           apiVersion' = apiVersion, current' = current,
           failures' = failures, Reply' = Reply,
           ~Listed({"read-user", "compare"}, todo["listener"]) =>
               ~Listed({"read-user", "compare"}, todo["listener"])'
    PROVE  AnswerInv'
  BY DEF AnswerInv, Answers, RefreshReply, Supported

(* A step of the listener that keeps the version and the command, and      *)
(* moves a message along or replaces the head of its script by operations  *)
(* that lead to the same message.                                          *)
LEMMA AnswerOfListener ==
    ASSUME TypeOK, AnswerInv, ThreadStep("listener")
    PROVE  AnswerInv'
  <1> DEFINE l == "listener"
             s == todo[l]
             polls == {"read-user", "compare"}
  <1> USE DEF hostVars, historyVars, boundVars
  <1>0. /\ l \in Thread /\ s \in Seq(Op)
        /\ pending[l] \in MessageName \cup {NoMessage}
        /\ pending \in [Thread -> MessageName \cup {NoMessage}]
        /\ todo \in [Thread -> Seq(Op)]
        /\ s # <<>> => /\ Head(s) \in Op /\ Tail(s) \in Seq(Op)
                       /\ Coming(s) = Sends(Head(s)) \cup Coming(Tail(s))
                       /\ Listed(polls, s)
                            <=> Head(s) \in polls \/ Listed(polls, Tail(s))
    BY HeadAndTail, ListedSplit DEF TypeOK, Thread
  <1>1. NoMessage \notin MessageName
    BY ConstantsAssumption DEF ConstantsAssumption
  <1>2. /\ \A m \in MessageName : Sends(m) = {m}
        /\ Sends("read-user-forced") = Sends("compare-forced")
        /\ Sends("compare-forced") = {"active-user"}
        /\ Sends("active-user") = {"active-user"}
        /\ Sends("cache-user") = {} /\ Sends("handler") = {}
    BY DEF Sends, MessageName, CompletionEra, OsInfoEra, CpuEra
  <1>3. /\ {"compare-forced", "active-user", "cache-user"} \subseteq Op
        /\ \A op \in {"compare-forced", "active-user", "cache-user"} :
               op \notin polls
    BY DEF Op, MessageName, InternalOps
  <1> HIDE DEF polls
  <1>4. CASE Gate(l)
    <2>1. /\ pending[l] = NoMessage /\ s # <<>> /\ Head(s) \in MessageName
          /\ todo'[l] = Tail(s)
          /\ pending'[l] = IF Supported(Head(s), apiVersion) THEN Head(s)
                           ELSE NoMessage
          /\ replied' = replied /\ apiVersion' = apiVersion
          /\ current' = current /\ failures' = failures
      BY <1>0, <1>4 DEF Gate, Advance
    <2>2. Coming(s) = {Head(s)} \cup Coming(Tail(s))
      BY <1>0, <1>2, <2>1
    <2>3. Reply' = Reply
      BY <1>1, <2>1, <2>2 DEF Reply, Supported
    <2>4. QED
      BY <1>0, <2>1, <2>3, AnswerFrame DEF polls
  <1>5. CASE WriteMessage(l)
    <2>1. /\ pending[l] # NoMessage /\ pending'[l] = NoMessage
          /\ replied' = replied \cup {pending[l]}
          /\ todo' = todo /\ apiVersion' = apiVersion
          /\ current' = current /\ failures' = failures
      BY <1>0, <1>5 DEF WriteMessage
    <2>2. Reply' = Reply
      BY <2>1 DEF Reply, Supported
    <2>3. QED
      BY <2>1, <2>2, AnswerFrame
  <1>6. CASE ReadUser(l) \/ CompareUser(l) \/ CacheUser(l) \/ HandlerReturns(l)
    <2>1. /\ pending' = pending /\ replied' = replied /\ s # <<>>
          /\ apiVersion' = apiVersion
          /\ current' = current /\ failures' = failures
      BY <1>6 DEF ReadUser, CompareUser, CacheUser, HandlerReturns, Ready
    <2>2. CASE Listed(polls, s)
      BY <2>1, <2>2 DEF AnswerInv, polls
    <2>3. CASE ~Listed(polls, s)
      <3>1. Head(s) \notin polls
        BY <1>0, <2>1, <2>3
      <3>2. \/ Head(s) = "read-user-forced"
               /\ todo'[l] = <<"compare-forced">> \o Tail(s)
            \/ Head(s) = "compare-forced"
               /\ todo'[l] = <<"active-user", "cache-user">> \o Tail(s)
            \/ Head(s) \in {"cache-user", "handler"} /\ todo'[l] = Tail(s)
        BY <1>0, <1>6, <3>1 DEF ReadUser, CompareUser, CacheUser,
           HandlerReturns, Ready, Become, Advance, polls
      <3>3. Coming(todo'[l]) = Coming(s) /\ ~Listed(polls, todo'[l])
        <4>0. /\ Coming(s) = Sends(Head(s)) \cup Coming(Tail(s))
              /\ ~Listed(polls, Tail(s))
          BY <1>0, <2>1, <2>3
        <4>1. CASE Head(s) = "read-user-forced"
          <5>1. todo'[l] = <<"compare-forced">> \o Tail(s)
            BY <3>2, <4>1
          <5>2. Tail(s) \in Seq(Op) /\ "compare-forced" \in Op
            BY <1>0, <1>3, <2>1
          <5>3. /\ Coming(<<"compare-forced">> \o Tail(s)) =
                       Sends("compare-forced") \cup Coming(Tail(s))
                /\ Listed(polls, <<"compare-forced">> \o Tail(s))
                       <=> "compare-forced" \in polls
                           \/ Listed(polls, Tail(s))
            BY <5>2, OneThenMore
          <5>4. QED
            BY <1>2, <1>3, <4>0, <4>1, <5>1, <5>3
        <4>2. CASE Head(s) = "compare-forced"
          <5>1. todo'[l] = <<"active-user", "cache-user">> \o Tail(s)
            BY <3>2, <4>2
          <5>2. /\ Tail(s) \in Seq(Op)
                /\ "active-user" \in Op /\ "cache-user" \in Op
            BY <1>0, <1>3, <2>1
          <5>3. /\ Coming(<<"active-user", "cache-user">> \o Tail(s)) =
                       Sends("active-user") \cup Sends("cache-user")
                       \cup Coming(Tail(s))
                /\ Listed(polls, <<"active-user", "cache-user">> \o Tail(s))
                       <=> \/ "active-user" \in polls
                           \/ "cache-user" \in polls
                           \/ Listed(polls, Tail(s))
            BY <5>2, TwoThenMore
          <5>4. QED
            BY <1>2, <1>3, <4>0, <4>2, <5>1, <5>3
        <4>3. CASE Head(s) \in {"cache-user", "handler"}
          BY <1>2, <3>2, <4>0, <4>3
        <4>4. QED
          BY <3>2, <4>1, <4>2, <4>3
      <3>4. Reply' = Reply
        BY <2>1, <3>3 DEF Reply, Supported, Coming
      <3>5. QED
        BY <2>1, <3>3, <3>4, AnswerFrame DEF polls, Listed
    <2>4. QED
      BY <2>2, <2>3
  <1>7. QED
    BY <1>4, <1>5, <1>6 DEF ThreadStep

(* Taking a command: what is due is one of its answers, as far as the      *)
(* version it leaves behind supports it.                                   *)
LEMMA AnswerOfReceive ==
    ASSUME TypeOK, GateInv, AnswerInv, Receive
    PROVE  AnswerInv'
  <1> DEFINE polls == {"read-user", "compare"}
             Said(script) ==
                 /\ ~Listed(polls, script)
                 /\ Coming(script) \in Answers(current')
  <1>1. /\ todo \in [Thread -> Seq(Op)] /\ "listener" \in Thread
        /\ pending["listener"] = NoMessage
        /\ pending' = pending /\ replied' = {}
    BY DEF Receive, TypeOK, Thread, GateInv, ReadingIsIdle, Idle
  <1>2. Head(inbox) \in Command
    BY ConstantsAssumption DEF Receive, TypeOK, ConstantsAssumption
  <1>3. PICK c \in Command : /\ current' = c
                             /\ OnApiVersion(c) \/ OnRefresh(c) \/ OnOther(c)
    BY <1>2 DEF Receive
  <1>4. Coming(<<>>) = {} /\ ~Listed(polls, <<>>)
    BY ListedOne
  <1>5. /\ Coming(<<"echo">>) = {"echo"}
        /\ Coming(<<"handler">>) = {}
        /\ Coming(<<"completion">>) = {"completion"}
        /\ Coming(<<"number-of-cpus">>) = {"number-of-cpus"}
        /\ \A op \in {"echo", "handler", "completion", "number-of-cpus"} :
               op \in Op /\ <<op>> \in Seq(Op) /\ ~Listed(polls, <<op>>)
        /\ Sends("handler") = {} /\ "handler" \notin polls
    <2>1. \A op \in {"echo", "handler", "completion", "number-of-cpus"} :
              op \in Op /\ op \notin polls
      BY DEF Op, MessageName, InternalOps, CompletionEra, OsInfoEra, CpuEra
    <2>2. /\ Sends("echo") = {"echo"} /\ Sends("handler") = {}
          /\ Sends("completion") = {"completion"}
          /\ Sends("number-of-cpus") = {"number-of-cpus"}
      BY DEF Sends, MessageName, InternalOps, CompletionEra, OsInfoEra, CpuEra
    <2> HIDE DEF polls
    <2>3. QED
      BY <2>1, <2>2, ListedOne
  <1>6. ~Listed(polls, RefreshScript) /\ <<>> \in Seq(Op)
    BY ListenerScripts
  <1> HIDE DEF polls
  <1>7. PICK script \in Seq(Op) : Answer(script) /\ Said(script)
    <2>1. CASE OnApiVersion(c)
      <3>1. PICK script : /\ Answer(script)
                          /\ script = RefreshScript \/ script = <<>>
        BY <2>1 DEF OnApiVersion, When
      <3>2. Answers(c) = {{}, RefreshReply}
        BY <2>1 DEF OnApiVersion, Answers
      <3>3. script \in Seq(Op) /\ Said(script)
        BY <1>3, <1>4, <1>6, <3>1, <3>2, ListenerScripts, ScriptType
      <3>4. QED
        BY <3>1, <3>2, <3>3
    <2>2. CASE OnRefresh(c)
      <3>1. Answer(RefreshScript) /\ Answers(c) = {RefreshReply}
        BY <2>2 DEF OnRefresh, Answers
      <3>2. RefreshScript \in Seq(Op) /\ Said(RefreshScript)
        BY <1>3, <1>6, <3>1, ListenerScripts, ScriptType
      <3>3. QED
        BY <3>1, <3>2
    <2>3. CASE OnOther(c)
      <3>1. CASE c.cmd = "echo"
        <4>1. Answer(<<"echo">>) /\ Answers(c) = {{"echo"}}
          BY <2>3, <3>1 DEF OnOther, Answers
        <4>2. <<"echo">> \in Seq(Op) /\ Said(<<"echo">>)
          BY <1>3, <1>5, <4>1
        <4>3. QED
          BY <4>1, <4>2
      <3>2. CASE c.cmd = "set-number-of-cpus"
        <4>1. PICK script :
                  /\ Answer(script)
                  /\ \/ /\ script = <<"handler", "number-of-cpus">>
                        /\ c.arg > 0 /\ ~Windows
                     \/ script = <<>> /\ ~(c.arg > 0 /\ ~Windows)
          BY <2>3, <3>2 DEF OnOther, When
        <4>2. Answers(c) = {IF c.arg > 0 /\ ~Windows THEN {"number-of-cpus"}
                            ELSE {}}
          BY <3>2 DEF Answers
        <4>3. /\ Coming(<<"handler">> \o <<"number-of-cpus">>) =
                     Sends("handler") \cup Coming(<<"number-of-cpus">>)
              /\ Listed(polls, <<"handler">> \o <<"number-of-cpus">>)
                     <=> "handler" \in polls
                         \/ Listed(polls, <<"number-of-cpus">>)
              /\ <<"handler">> \o <<"number-of-cpus">> \in Seq(Op)
          <5>1. "handler" \in Op /\ <<"number-of-cpus">> \in Seq(Op)
            BY <1>5
          <5>2. QED
            BY <5>1, OneThenMore
        <4>4. <<"handler", "number-of-cpus">> =
                  <<"handler">> \o <<"number-of-cpus">>
          OBVIOUS
        <4>5. /\ <<"handler", "number-of-cpus">> \in Seq(Op)
              /\ Coming(<<"handler", "number-of-cpus">>) = {"number-of-cpus"}
              /\ ~Listed(polls, <<"handler", "number-of-cpus">>)
          BY <1>5, <4>3, <4>4, Zenon
        <4>6. script \in Seq(Op) /\ Said(script)
          BY <1>3, <1>4, <1>6, <4>1, <4>2, <4>5
        <4>7. QED
          BY <4>1, <4>6
      <3>3. CASE c.cmd = "lifecycle-event"
        <4>1. PICK more : /\ Answer(<<"handler">> \o more)
                          /\ \/ more = <<"completion">> /\ c.arg = 1
                             \/ more = <<>> /\ c.arg # 1
          BY <2>3, <3>3 DEF OnOther, When
        <4>2. Answers(c) = {IF c.arg = 1 THEN {"completion"} ELSE {}}
          BY <3>3 DEF Answers
        <4>3. /\ more \in Seq(Op) /\ ~Listed(polls, more)
              /\ Coming(more) = IF c.arg = 1 THEN {"completion"} ELSE {}
          BY <1>4, <1>5, <1>6, <4>1
        <4>4. /\ <<"handler">> \o more \in Seq(Op)
              /\ ~Listed(polls, <<"handler">> \o more)
              /\ Coming(<<"handler">> \o more) = Coming(more)
          BY <1>5, <4>3, OneThenMore
        <4>5. Said(<<"handler">> \o more)
          BY <1>3, <4>2, <4>3, <4>4
        <4>6. QED
          BY <4>1, <4>4, <4>5
      <3>4. CASE c.cmd = "delegate"
        <4>1. Answer(<<"handler">>) /\ Answers(c) = {{}}
          BY <2>3, <3>4 DEF OnOther, Answers
        <4>2. <<"handler">> \in Seq(Op) /\ Said(<<"handler">>)
          BY <1>3, <1>5, <4>1
        <4>3. QED
          BY <4>1, <4>2
      <3>5. CASE c.cmd = "ignored"
        <4>1. Answer(<<>>) /\ Answers(c) = {{}}
          BY <2>3, <3>5 DEF OnOther, Answers
        <4>2. QED
          BY <1>3, <1>4, <1>6, <4>1
      <3>6. QED
        BY <2>3, <3>1, <3>2, <3>3, <3>4, <3>5 DEF OnOther, Command
    <2>4. QED
      BY <1>3, <2>1, <2>2, <2>3
  <1>8. todo'["listener"] = script
    BY <1>1, <1>7 DEF Answer
  <1>9. Reply' = {m \in Coming(script) : Supported(m, apiVersion)'}
    BY <1>1, <1>8 DEF Reply, Supported, Coming
  <1>10. QED
    BY <1>7, <1>8, <1>9 DEF AnswerInv, Supported, Listed, polls

(* Every step of every thread, and of the environment, keeps the reply     *)
(* what it has to be.                                                      *)
LEMMA AnswerNext == TypeOK /\ GateInv /\ AnswerInv /\ [Next]_vars => AnswerInv'
  <1> SUFFICES ASSUME TypeOK, GateInv, AnswerInv, [Next]_vars
               PROVE  AnswerInv'
    OBVIOUS
  <1> USE DEF hostVars, historyVars, boundVars
  <1>1. ASSUME apiVersion' = apiVersion, current' = current,
               failures' = failures, replied' = replied,
               todo'["listener"] = todo["listener"],
               pending'["listener"] = pending["listener"]
        PROVE  AnswerInv'
    <2>1. Reply' = Reply
      BY <1>1 DEF Reply, Coming, Supported
    <2>2. QED
      BY <1>1, <2>1, AnswerFrame DEF Listed
  <1>2. ASSUME NEW t \in Thread, t # "listener", ThreadStep(t)
        PROVE  AnswerInv'
    <2>1. /\ apiVersion' = apiVersion /\ current' = current
          /\ failures' = failures /\ replied' = replied
      BY <1>2 DEF ThreadStep, Gate, WriteMessage, ReadUser, CompareUser,
                  CacheUser, HandlerReturns
    <2>2. todo'["listener"] = todo["listener"]
      BY <1>2 DEF ThreadStep, Gate, WriteMessage, ReadUser, CompareUser,
                  CacheUser, HandlerReturns, Advance, Become, TypeOK, Thread
    <2>3. pending'["listener"] = pending["listener"]
      BY <1>2 DEF ThreadStep, Gate, WriteMessage, ReadUser, CompareUser,
                  CacheUser, HandlerReturns, TypeOK, Thread
    <2>4. QED
      BY <1>1, <2>1, <2>2, <2>3
  <1>3. ASSUME NEW t \in Thread, Raise(t) PROVE AnswerInv'
    <2>1. failures' # 0
      BY <1>3 DEF Raise, TypeOK
    <2>2. QED
      BY <2>1 DEF AnswerInv
  <1>4. ASSUME \/ WorkerLoop \/ WorkerDone \/ ListenerCheck
               \/ AwaitUser \/ FetchCached \/ SessionEvent
               \/ \E c \in HostCommands : HostSends(c)
               \/ \E u \in Users : GuestUserChanges(u)
               \/ Stop \/ UNCHANGED vars
        PROVE  AnswerInv'
    <2>1. /\ apiVersion' = apiVersion /\ current' = current
          /\ failures' = failures /\ replied' = replied /\ pending' = pending
      BY <1>4 DEF WorkerLoop, WorkerDone, ListenerCheck, AwaitUser,
                  FetchCached, SessionEvent, SessionLogon, SessionLogoff,
                  SessionLockChange, SessionUnchanged, HostSends,
                  GuestUserChanges, Stop, vars, agentVars
    <2>2. todo'["listener"] = todo["listener"]
      BY <1>4 DEF WorkerLoop, WorkerDone, ListenerCheck, AwaitUser,
                  FetchCached, Advance, Become, SessionEvent, SessionLogon,
                  SessionLogoff, SessionLockChange, SessionUnchanged,
                  HostSends, GuestUserChanges, Stop, vars, agentVars, TypeOK,
                  Thread
    <2>3. QED
      BY <1>1, <2>1, <2>2
  <1>5. QED
    BY <1>2, <1>3, <1>4, AnswerOfListener, AnswerOfReceive
       DEF Next, WorkerStep, ListenerStep, SessionStep, Environment, Thread

(* A command is answered by exactly the messages of one of its answers     *)
(* that the version, as the command left it, supports.                     *)
THEOREM AnswerCorrect == Spec => []CommandAnswered
  <1>1. TypeOK /\ AnswerInv => CommandAnswered
    <2> SUFFICES ASSUME AnswerInv, Idle("listener"), failures = 0
                 PROVE  \E answer \in Answers(current) :
                            replied = {m \in answer : Supported(m, apiVersion)}
      BY DEF CommandAnswered
    <2>1. Reply = replied
      BY ListedOne DEF Reply, Idle
    <2>2. QED
      BY <2>1 DEF AnswerInv
  <1>2. TypeOK /\ GateInv /\ AnswerInv /\ [Next]_vars
            => TypeOK' /\ GateInv' /\ AnswerInv'
    BY TypeNext, GateNext, AnswerNext
  <1>3. QED
    BY <1>1, <1>2, TypeInit, GateInit, AnswerInit, PTL DEF Spec

(* On Linux, ChangeLog:1470 is kept: a positive count is confirmed.        *)
THEOREM CpusConfirmedOnLinux ==
    ASSUME ~Windows
    PROVE  Spec => []CpusConfirmed
  <1>1. CommandAnswered => CpusConfirmed
    <2> SUFFICES ASSUME CommandAnswered,
                        Idle("listener"), failures = 0,
                        current.cmd = "set-number-of-cpus", current.arg > 0,
                        Supported("number-of-cpus", apiVersion)
                 PROVE  "number-of-cpus" \in replied
      BY DEF CpusConfirmed
    <2>1. Answers(current) = {{"number-of-cpus"}}
      BY DEF Answers
    <2>2. QED
      BY <2>1 DEF CommandAnswered
  <1>2. QED
    BY <1>1, AnswerCorrect, PTL

-----------------------------------------------------------------------------
(* The cache and the host's view of the user.                              *)

Starts(script, op) == script # <<>> /\ Head(script) = op

Quiet(script) == ~Listed(ReportingOps, script)

(* Where a thread may be in a report, by the script that is left and by    *)
(* what it has gated: not in one; about to compare; about to send and then *)
(* to cache; about to cache; in a log-off, about to say so, about to fetch *)
(* the cache, or about to send what it fetched.                            *)
Resting(s, p) == Quiet(s) /\ p # "active-user"

Comparing(s, p, op) == p = NoMessage /\ Starts(s, op) /\ Quiet(Tail(s))

Telling(s, p) ==
    /\ p = NoMessage
    /\ Starts(s, "active-user") /\ Starts(Tail(s), "cache-user")
    /\ Quiet(Tail(Tail(s)))

Caching(s, p) ==
    /\ p \in {NoMessage, "active-user"}
    /\ Starts(s, "cache-user") /\ Quiet(Tail(s))

LoggingOff(s, p) ==
    /\ p = NoMessage
    /\ Starts(s, "session-logoff") /\ Starts(Tail(s), "fetch-cached")
    /\ Quiet(Tail(Tail(s)))

Fetching(s, p) ==
    p # "active-user" /\ Starts(s, "fetch-cached") /\ Quiet(Tail(s))

LoggedOff(s, p) ==
    \/ p = NoMessage /\ Starts(s, "active-user") /\ Quiet(Tail(s))
    \/ p = "active-user" /\ Quiet(s)

Shape(s, p) ==
    \/ Resting(s, p)
    \/ Comparing(s, p, "compare") \/ Comparing(s, p, "compare-forced")
    \/ Telling(s, p) \/ Caching(s, p)
    \/ LoggingOff(s, p) \/ Fetching(s, p) \/ LoggedOff(s, p)

Busy(s, p) == p = "active-user" \/ Listed(ReportingOps, s)

(* What the host knows at each place of a report, where it is told h, the  *)
(* cache holds a and the thread has read c.                                *)
Knows(s, p, h, a, c) ==
    /\ Comparing(s, p, "compare") => h = a
    /\ Caching(s, p) /\ p = NoMessage => h = c
    /\ LoggedOff(s, p) => c = a

(* Threads report one at a time until the history variable says otherwise. *)
OneReporter ==
    ~overlapped =>
        \A t, u \in Thread : Reporting(t) /\ Reporting(u) => t = u

(* Nothing stands between the cache and the host: no muted messages, no    *)
(* failures, no meeting, and no forced report that is still to make up for *)
(* a version under which messages were muted.                              *)
Settled ==
    /\ apiVersion >= 0 /\ failures = 0 /\ ~overlapped
    /\ \A t \in Thread : ~HasOp(t, {"read-user-forced"})

(* Every thread is somewhere in a report or in none, they report one at a  *)
(* time, and if all is settled, the host's view is what it should be: the  *)
(* cache's, or what the one report under way has made of it so far.        *)
ViewInv ==
    /\ \A t \in Thread : Shape(todo[t], pending[t])
    /\ OneReporter
    /\ Settled =>
         /\ (\A t \in Thread : ~Reporting(t)) => hostUser = activeUser
         /\ \A t \in Thread :
                Knows(todo[t], pending[t], hostUser, activeUser, cur[t])

(* A script that is not quiet is so at its head or further on.             *)
LEMMA QuietSplit ==
    ASSUME NEW s \in Seq(Op), s # <<>>
    PROVE  Quiet(s) <=> Head(s) \notin ReportingOps /\ Quiet(Tail(s))
  BY ListedSplit DEF Quiet

(* The head of the script of a thread with nothing gated tells its place.  *)
LEMMA ShapeByHead ==
    ASSUME NEW s \in Seq(Op), s # <<>>, Shape(s, NoMessage)
    PROVE  /\ Head(s) = "compare" => Comparing(s, NoMessage, "compare")
           /\ Head(s) = "compare-forced" =>
                  Comparing(s, NoMessage, "compare-forced")
           /\ Head(s) = "cache-user" => Caching(s, NoMessage)
           /\ Head(s) = "fetch-cached" => Fetching(s, NoMessage)
           /\ Head(s) = "active-user" =>
                  Telling(s, NoMessage) \/ LoggedOff(s, NoMessage)
           /\ Head(s) = "session-logoff" =>
                  Resting(s, NoMessage) \/ LoggingOff(s, NoMessage)
           /\ Head(s) \notin ReportingOps \cup {"session-logoff"} =>
                  Resting(s, NoMessage)
  <1>1. NoMessage # "active-user"
    BY ConstantsAssumption DEF ConstantsAssumption, MessageName
  <1>2. Quiet(s) => Head(s) \notin ReportingOps
    BY QuietSplit
  <1>3. QED
    BY <1>1, <1>2 DEF Shape, Resting, Comparing, Telling, Caching,
       LoggingOff, Fetching, LoggedOff, Starts, ReportingOps

(* In every place but rest the thread counts as reporting.                 *)
LEMMA ShapeIsBusy ==
    ASSUME NEW s \in Seq(Op), NEW p
    PROVE  /\ Resting(s, p) <=> ~Busy(s, p)
           /\ \A op \in {"compare", "compare-forced"} :
                  Comparing(s, p, op) => Busy(s, p)
           /\ Telling(s, p) => Busy(s, p)
           /\ Caching(s, p) => Busy(s, p)
           /\ LoggingOff(s, p) => Busy(s, p)
           /\ Fetching(s, p) => Busy(s, p)
           /\ LoggedOff(s, p) => Busy(s, p)
  <1>1. \A op \in ReportingOps : Starts(s, op) => Listed(ReportingOps, s)
    BY ListedSplit DEF Starts
  <1>2. s # <<>> /\ Starts(Tail(s), "fetch-cached") => Listed(ReportingOps, s)
    <2> SUFFICES ASSUME s # <<>>, Starts(Tail(s), "fetch-cached")
                 PROVE  Listed(ReportingOps, s)
      OBVIOUS
    <2>1. Tail(s) \in Seq(Op) /\ "fetch-cached" \in ReportingOps
      BY DEF ReportingOps
    <2>2. Listed(ReportingOps, Tail(s))
      BY <2>1, ListedSplit DEF Starts
    <2>3. QED
      BY <2>2, ListedSplit
  <1>3. QED
    BY <1>1, <1>2 DEF Resting, Comparing, Telling, Caching, LoggingOff,
       Fetching, LoggedOff, Busy, Quiet, Starts, ReportingOps

(* The gate: the head of the script is gated, or dropped.                  *)
LEMMA GateShape ==
    ASSUME NEW s \in Seq(Op), s # <<>>, Head(s) \in MessageName,
           Shape(s, NoMessage), NEW p \in {Head(s), NoMessage}
    PROVE  /\ Shape(Tail(s), p)
           /\ Busy(Tail(s), p) => Busy(s, NoMessage)
           /\ p = Head(s) \/ Head(s) # "active-user" =>
                  /\ Busy(s, NoMessage) => Busy(Tail(s), p)
                  /\ \A h, a, c : Knows(s, NoMessage, h, a, c)
                                      => Knows(Tail(s), p, h, a, c)
  <1>1. /\ NoMessage \notin MessageName /\ "active-user" \in MessageName
        /\ \A m \in MessageName : m \notin ReportingOps \/ m = "active-user"
        /\ Tail(s) \in Seq(Op)
    BY ConstantsAssumption
       DEF ConstantsAssumption, MessageName, ReportingOps, CompletionEra,
           OsInfoEra, CpuEra
  <1>2. Quiet(s) <=> Head(s) \notin ReportingOps /\ Quiet(Tail(s))
    BY QuietSplit
  <1>3. CASE Head(s) = "active-user"
    <2>1. CASE Telling(s, NoMessage)
      <3>1. Caching(Tail(s), p)
        BY <1>3, <2>1 DEF Telling, Caching
      <3>2. Busy(s, NoMessage) /\ Busy(Tail(s), p)
        BY <1>1, <2>1, <3>1, ShapeIsBusy
      <3>3. p = "active-user" => \A h, a, c : Knows(Tail(s), p, h, a, c)
        <4>1. p = "active-user" =>
                  /\ ~Comparing(Tail(s), p, "compare")
                  /\ ~LoggedOff(Tail(s), p)
                  /\ p # NoMessage
          BY <1>1, <3>1, QuietSplit
             DEF Comparing, LoggedOff, Caching, Starts, ReportingOps
        <4>2. QED
          BY <4>1 DEF Knows
      <3>4. QED
        BY <1>3, <3>1, <3>2, <3>3 DEF Shape
    <2>2. CASE LoggedOff(s, NoMessage)
      <3>1. Quiet(Tail(s)) /\ Busy(s, NoMessage)
        BY <1>1, <2>2, ShapeIsBusy DEF LoggedOff
      <3>2. CASE p = "active-user"
        <4>1. LoggedOff(Tail(s), p) /\ Busy(Tail(s), p)
          BY <3>1, <3>2 DEF LoggedOff, Busy
        <4>2. ~Comparing(Tail(s), p, "compare") /\ p # NoMessage
          BY <1>1, <3>2 DEF Comparing
        <4>3. QED
          BY <2>2, <3>1, <4>1, <4>2 DEF Shape, Knows
      <3>3. CASE p = NoMessage
        <4>1. Resting(Tail(s), p)
          BY <1>1, <3>1, <3>3 DEF Resting
        <4>2. QED
          BY <1>1, <1>3, <3>1, <3>3, <4>1 DEF Shape
      <3>4. QED
        BY <1>3, <3>2, <3>3
    <2>3. QED
      BY <1>3, <2>1, <2>2, ShapeByHead
  <1>4. CASE Head(s) # "active-user"
    <2>1. CASE Resting(s, NoMessage)
      <3>1. Resting(Tail(s), p) /\ Quiet(Tail(s))
        BY <1>1, <1>2, <1>4, <2>1 DEF Resting
      <3>2. ~Busy(s, NoMessage) /\ ~Busy(Tail(s), p)
        BY <1>1, <2>1, <3>1, ShapeIsBusy
      <3>3. \A h, a, c : Knows(Tail(s), p, h, a, c)
        BY <1>1, <3>2, ShapeIsBusy DEF Knows
      <3>4. QED
        BY <3>1, <3>2, <3>3 DEF Shape
    <2>2. CASE LoggingOff(s, NoMessage)
      <3>1. Fetching(Tail(s), p)
        BY <1>1, <1>4, <2>2 DEF LoggingOff, Fetching
      <3>2. Busy(s, NoMessage) /\ Busy(Tail(s), p)
        BY <1>1, <2>2, <3>1, ShapeIsBusy
      <3>3. \A h, a, c : Knows(Tail(s), p, h, a, c)
        BY <3>1 DEF Knows, Fetching, Comparing, Caching, LoggedOff, Starts
      <3>4. QED
        BY <3>1, <3>2, <3>3 DEF Shape
    <2>3. QED
      BY <1>1, <1>4, <2>1, <2>2, ShapeByHead
  <1>5. QED
    BY <1>3, <1>4

(* A write: what was gated is with the host.                               *)
LEMMA WriteShape ==
    ASSUME NEW s \in Seq(Op), NEW p \in MessageName, Shape(s, p)
    PROVE  /\ Shape(s, NoMessage)
           /\ Busy(s, NoMessage) => Busy(s, p)
           /\ p # "active-user" => (Busy(s, p) <=> Busy(s, NoMessage))
           /\ \A h, a, c :
                  Knows(s, p, h, a, c) =>
                      /\ Knows(s, NoMessage,
                               IF p = "active-user" THEN c ELSE h, a, c)
                      /\ p = "active-user" /\ ~Busy(s, NoMessage) => c = a
  <1>1. p # NoMessage /\ NoMessage # "active-user"
    BY ConstantsAssumption DEF ConstantsAssumption, MessageName
  <1>2. CASE Resting(s, p)
    <2>1. Resting(s, NoMessage) /\ p # "active-user"
      BY <1>1, <1>2 DEF Resting
    <2>2. ~Busy(s, p) /\ ~Busy(s, NoMessage)
      BY <1>2, <2>1, ShapeIsBusy
    <2>3. \A h, a, c : Knows(s, NoMessage, h, a, c)
      BY <2>2, ShapeIsBusy DEF Knows
    <2>4. QED
      BY <2>1, <2>2, <2>3 DEF Shape
  <1>3. CASE Caching(s, p)
    <2>1. Caching(s, NoMessage) /\ p = "active-user"
      BY <1>1, <1>3 DEF Caching
    <2>2. Busy(s, p) /\ Busy(s, NoMessage)
      BY <1>3, <2>1, ShapeIsBusy
    <2>3. \A a, c : Knows(s, NoMessage, c, a, c)
      BY <1>1, <2>1 DEF Knows, Caching, Comparing, LoggedOff, Starts
    <2>4. QED
      BY <2>1, <2>2, <2>3 DEF Shape
  <1>4. CASE Fetching(s, p)
    <2>1. Fetching(s, NoMessage) /\ p # "active-user"
      BY <1>1, <1>4 DEF Fetching
    <2>2. Busy(s, p) /\ Busy(s, NoMessage)
      BY <1>4, <2>1, ShapeIsBusy
    <2>3. \A h, a, c : Knows(s, NoMessage, h, a, c)
      BY <1>1, <2>1 DEF Knows, Fetching, Comparing, Caching, LoggedOff, Starts
    <2>4. QED
      BY <2>1, <2>2, <2>3 DEF Shape
  <1>5. CASE LoggedOff(s, p)
    <2>1. p = "active-user" /\ Resting(s, NoMessage)
      BY <1>1, <1>5 DEF LoggedOff, Resting
    <2>2. Busy(s, p) /\ ~Busy(s, NoMessage)
      BY <1>5, <2>1, ShapeIsBusy
    <2>3. \A h, a, c : Knows(s, NoMessage, h, a, c)
      BY <2>2, ShapeIsBusy DEF Knows
    <2>4. \A h, a, c : Knows(s, p, h, a, c) => c = a
      BY <1>5 DEF Knows
    <2>5. QED
      BY <2>1, <2>2, <2>3, <2>4 DEF Shape
  <1>6. QED
    BY <1>1, <1>2, <1>3, <1>4, <1>5
       DEF Shape, Comparing, Telling, LoggingOff

(* What a step of one thread has to show, when it leaves the version and   *)
(* the failures alone and the other threads where they are.                *)
LEMMA ViewOfStep ==
    ASSUME TypeOK, TypeOK', ViewInv, NEW t \in Thread,
           apiVersion' = apiVersion, failures' = failures,
           overlapped => overlapped',
           \A u \in Thread : u # t =>
               /\ todo'[u] = todo[u] /\ pending'[u] = pending[u]
               /\ cur'[u] = cur[u],
           Shape(todo'[t], pending'[t]),
           Busy(todo'[t], pending'[t]) =>
               \/ Reporting(t) \/ overlapped'
               \/ \A u \in Thread : ~Reporting(u),
           Settled' /\ (\E u \in Thread : u # t /\ Reporting(u)) =>
               Settled /\ hostUser' = hostUser /\ activeUser' = activeUser,
           Settled' /\ (\A u \in Thread : u # t => ~Reporting(u)) =>
               /\ ~Busy(todo'[t], pending'[t]) => hostUser' = activeUser'
               /\ Knows(todo'[t], pending'[t], hostUser', activeUser', cur'[t])
    PROVE  ViewInv'
  <1>1. \A u \in Thread :
            /\ Reporting(u) <=> Busy(todo[u], pending[u])
            /\ Reporting(u)' <=> Busy(todo'[u], pending'[u])
    BY DEF Reporting, HasOp, Busy, Listed
  <1>2. (\A u \in Thread : Shape(todo[u], pending[u]))'
    BY DEF ViewInv
  <1>3. OneReporter'
    BY <1>1 DEF ViewInv, OneReporter
  <1>4. ASSUME Settled'
        PROVE  /\ (\A u \in Thread : ~Reporting(u)') => hostUser' = activeUser'
               /\ \A u \in Thread : Knows(todo'[u], pending'[u], hostUser',
                                          activeUser', cur'[u])
    <2>1. CASE \A u \in Thread : u # t => ~Reporting(u)
      <3>1. ASSUME NEW u \in Thread, u # t
            PROVE  Knows(todo'[u], pending'[u], hostUser', activeUser',
                         cur'[u])
        <4>1. ~Busy(todo'[u], pending'[u]) /\ todo'[u] \in Seq(Op)
          BY <1>1, <2>1, <3>1 DEF TypeOK
        <4>2. QED
          BY <4>1, ShapeIsBusy DEF Knows
      <3>2. QED
        BY <1>1, <1>4, <2>1, <3>1
    <2>2. CASE \E u \in Thread : u # t /\ Reporting(u)
      <3>1. PICK w \in Thread : w # t /\ Reporting(w)
        BY <2>2
      <3>2. /\ Settled /\ hostUser' = hostUser /\ activeUser' = activeUser
            /\ ~overlapped' /\ ~overlapped
        BY <1>4, <2>2 DEF Settled
      <3>3. ~Reporting(t) /\ ~Busy(todo'[t], pending'[t])
        BY <3>1, <3>2 DEF ViewInv, OneReporter
      <3>4. \A u \in Thread : u # t =>
                Knows(todo'[u], pending'[u], hostUser', activeUser', cur'[u])
        BY <3>2 DEF ViewInv
      <3>5. Knows(todo'[t], pending'[t], hostUser', activeUser', cur'[t])
        <4>1. todo'[t] \in Seq(Op)
          BY DEF TypeOK
        <4>2. QED
          BY <3>3, <4>1, ShapeIsBusy DEF Knows
      <3>6. Reporting(w)'
        BY <1>1, <3>1
      <3>7. QED
        BY <3>4, <3>5, <3>6
    <2>3. QED
      BY <2>1, <2>2
  <1>5. QED
    BY <1>2, <1>3, <1>4 DEF ViewInv

(* Going past an operation that has nothing to do with reports.            *)
LEMMA ViewOfAdvance ==
    ASSUME TypeOK, TypeOK', ViewInv, NEW t \in Thread,
           NEW op, Ready(t, op), Advance(t) \/ todo' = todo,
           op \notin ReportingOps \cup {"session-logoff", "read-user-forced"},
           apiVersion' = apiVersion, failures' = failures,
           pending' = pending, cur' = cur, overlapped' = overlapped,
           hostUser' = hostUser, activeUser' = activeUser
    PROVE  ViewInv'
  <1> DEFINE s == todo[t]
             kept == {"read-user-forced"}
  <1>1. /\ s \in Seq(Op) /\ s # <<>> /\ Head(s) = op
        /\ pending[t] = NoMessage
        /\ Shape(s, NoMessage) /\ NoMessage # "active-user"
        /\ \A u \in Thread : u # t => todo'[u] = todo[u]
        /\ todo'[t] \in {s, Tail(s)} /\ Tail(s) \in Seq(Op)
    <2>1. s \in Seq(Op) /\ todo \in [Thread -> Seq(Op)]
      BY DEF TypeOK
    <2>2. s # <<>> /\ Head(s) = op /\ pending[t] = NoMessage
      BY DEF Ready
    <2>3. Shape(s, NoMessage)
      BY <2>2 DEF ViewInv
    <2>4. NoMessage # "active-user"
      BY ConstantsAssumption DEF MessageName
    <2>5. Tail(s) \in Seq(Op)
      BY <2>1, <2>2
    <2>6. /\ \A u \in Thread : u # t => todo'[u] = todo[u]
          /\ todo'[t] \in {s, Tail(s)}
      BY <2>1 DEF Advance
    <2>7. QED
      BY <2>1, <2>2, <2>3, <2>4, <2>5, <2>6
  <1>2. Resting(s, NoMessage)
    BY <1>1, ShapeByHead
  <1>3. Resting(todo'[t], NoMessage)
    <2>1. Quiet(s) /\ Quiet(Tail(s))
      BY <1>1, <1>2, QuietSplit DEF Resting
    <2>2. QED
      BY <1>1, <2>1 DEF Resting
  <1>4. /\ ~Busy(todo'[t], NoMessage) /\ Shape(todo'[t], NoMessage)
        /\ ~Reporting(t)
    BY <1>1, <1>2, <1>3, ShapeIsBusy
       DEF Shape, Reporting, HasOp, Busy, Listed
  <1>5. Listed(kept, s) => Listed(kept, todo'[t])
    <2>1. Listed(kept, s) <=> Head(s) \in kept \/ Listed(kept, Tail(s))
      BY <1>1, ListedSplit
    <2>2. QED
      BY <1>1, <2>1
  <1>6. Settled' => Settled
    BY <1>1, <1>5 DEF Settled, HasOp, Listed
  <1>7. Knows(todo'[t], NoMessage, hostUser', activeUser', cur'[t])
    BY <1>1, <1>4, ShapeIsBusy DEF Knows
  <1>8. QED
    BY <1>1, <1>4, <1>6, <1>7, ViewOfStep DEF ViewInv

(* The steps every thread is made of, from ThreadStep.                     *)
LEMMA ViewOfThread ==
    ASSUME TypeOK, TypeOK', ViewInv, NEW t \in Thread, ThreadStep(t)
    PROVE  ViewInv'
  <1> DEFINE s == todo[t]
             p == pending[t]
             others == /\ apiVersion' = apiVersion /\ failures' = failures
                       /\ \A u \in Thread : u # t =>
                              /\ todo'[u] = todo[u] /\ pending'[u] = pending[u]
                              /\ cur'[u] = cur[u]
             same == hostUser' = hostUser /\ activeUser' = activeUser
             Mine == Busy(s, p)
             kept == {"read-user-forced"}
  <1> USE DEF hostVars, historyVars, boundVars
  <1>0. /\ s \in Seq(Op) /\ p \in MessageName \cup {NoMessage}
        /\ todo \in [Thread -> Seq(Op)]
        /\ cur \in [Thread -> Users \cup {Unreported}]
        /\ pending \in [Thread -> MessageName \cup {NoMessage}]
        /\ Shape(s, p)
        /\ NoMessage # "active-user" /\ NoMessage \notin MessageName
        /\ Reporting(t) <=> Mine
    BY ConstantsAssumption
       DEF ConstantsAssumption, TypeOK, ViewInv, Reporting, HasOp, Busy,
           Listed, MessageName
  <1>1. ASSUME others,
               Listed(kept, s) => Listed(kept, todo'[t]),
               ~overlapped' => ~overlapped
        PROVE  Settled' => Settled
    BY <1>1 DEF Settled, HasOp, Listed
  <1>2. ASSUME Settled
        PROVE  /\ Knows(s, p, hostUser, activeUser, cur[t])
               /\ (\A u \in Thread : ~Reporting(u)) => hostUser = activeUser
    BY <1>2 DEF ViewInv
  <1>3. CASE Gate(t)
    <2>1. /\ p = NoMessage /\ s # <<>> /\ Head(s) \in MessageName
          /\ todo'[t] = Tail(s) /\ others /\ same /\ cur' = cur
          /\ overlapped' = overlapped
          /\ pending'[t] \in {Head(s), NoMessage}
          /\ Supported(Head(s), apiVersion) => pending'[t] = Head(s)
      BY <1>0, <1>3 DEF Gate, Advance
    <2>2. Settled' => Settled
      <3>1. Listed(kept, s) => Listed(kept, Tail(s))
        <4>1. Head(s) \notin kept
          BY <2>1 DEF MessageName, CompletionEra, OsInfoEra, CpuEra
        <4>2. QED
          BY <1>0, <2>1, <4>1, ListedSplit
      <3>2. QED
        BY <1>1, <2>1, <3>1
    <2>3. Settled' => pending'[t] = Head(s) \/ Head(s) # "active-user"
      BY <2>1, <2>2 DEF Settled, Supported, MinVersion, MessageName,
         CompletionEra, OsInfoEra, CpuEra
    <2>4. /\ Shape(Tail(s), pending'[t])
          /\ Busy(Tail(s), pending'[t]) => Mine
          /\ Settled' =>
                 /\ Mine => Busy(Tail(s), pending'[t])
                 /\ Knows(Tail(s), pending'[t], hostUser, activeUser, cur[t])
      BY <1>0, <1>2, <2>1, <2>2, <2>3, GateShape
    <2>5. QED
      BY <1>0, <1>2, <2>1, <2>2, <2>4, ViewOfStep
  <1>4. CASE WriteMessage(t)
    <2>1. /\ p # NoMessage /\ pending'[t] = NoMessage
          /\ todo' = todo /\ others /\ cur' = cur
          /\ activeUser' = activeUser /\ overlapped' = overlapped
          /\ hostUser' = IF p = "active-user" THEN cur[t] ELSE hostUser
      BY <1>0, <1>4 DEF WriteMessage
    <2>2. Settled' => Settled
      BY <1>1, <2>1
    <2>3. /\ Shape(s, NoMessage)
          /\ Busy(s, NoMessage) => Mine
          /\ p # "active-user" => (Mine <=> Busy(s, NoMessage))
          /\ Settled' =>
                /\ Knows(s, NoMessage, hostUser', activeUser, cur[t])
                /\ p = "active-user" /\ ~Busy(s, NoMessage)
                      => cur[t] = activeUser
      BY <1>0, <1>2, <2>1, <2>2, WriteShape
    <2>4. p = "active-user" => Mine
      BY DEF Busy
    <2>5. ASSUME Settled', NEW u \in Thread, u # t, Reporting(u)
          PROVE  hostUser' = hostUser
      BY <1>0, <2>1, <2>2, <2>4, <2>5 DEF ViewInv, OneReporter, Settled
    <2>6. QED
      BY <1>0, <1>2, <2>1, <2>2, <2>3, <2>4, <2>5, ViewOfStep
  <1>5. CASE ReadUser(t)
    <2>1. PICK op \in {"compare", "compare-forced"} :
              /\ p = NoMessage /\ s # <<>>
              /\ Head(s) = IF op = "compare" THEN "read-user"
                           ELSE "read-user-forced"
              /\ todo'[t] = <<op>> \o Tail(s)
      BY <1>0, <1>5 DEF ReadUser, Ready, Become
    <2>2. /\ others /\ same /\ pending' = pending
          /\ overlapped' =
                 (overlapped \/ \E u \in Thread \ {t} : Reporting(u))
      BY <1>0, <1>5 DEF ReadUser, Become
    <2>3. Resting(s, NoMessage) /\ ~Mine
      <3>1. Resting(s, NoMessage)
        BY <1>0, <2>1, ShapeByHead DEF ReportingOps
      <3>2. QED
        BY <1>0, <2>1, <3>1, ShapeIsBusy
    <2>4. /\ Comparing(todo'[t], NoMessage, op)
          /\ Shape(todo'[t], NoMessage) /\ Busy(todo'[t], NoMessage)
      <3>1. op \in Op /\ Tail(s) \in Seq(Op)
        BY <1>0, <2>1 DEF Op, InternalOps
      <3>2. /\ todo'[t] \in Seq(Op) /\ todo'[t] # <<>>
            /\ Head(todo'[t]) = op /\ Tail(todo'[t]) = Tail(s)
        BY <2>1, <3>1, PutBefore
      <3>3. Quiet(Tail(s))
        BY <1>0, <2>1, <2>3, QuietSplit DEF Resting
      <3>4. Comparing(todo'[t], NoMessage, op)
        BY <3>2, <3>3 DEF Comparing, Starts
      <3>5. QED
        BY <3>2, <3>4, ShapeIsBusy DEF Shape
    <2>5. ASSUME Settled'
          PROVE  /\ \A u \in Thread : ~Reporting(u)
                 /\ op = "compare" => Settled
      <3>1. \A u \in Thread : ~Reporting(u)
        BY <1>0, <2>2, <2>3, <2>5 DEF Settled
      <3>2. ASSUME op = "compare" PROVE Settled
        <4>1. Listed(kept, s) => Listed(kept, Tail(s))
          BY <1>0, <2>1, <3>2, ListedSplit
        <4>2. op \in Op /\ Tail(s) \in Seq(Op)
          BY <1>0, <2>1 DEF Op, InternalOps
        <4>3. Listed(kept, Tail(s)) => Listed(kept, todo'[t])
          BY <2>1, <4>2, OneThenMore
        <4>4. QED
          BY <1>1, <2>2, <2>5, <4>1, <4>3
      <3>3. QED
        BY <3>1, <3>2
    <2>6. Settled' =>
            Knows(todo'[t], NoMessage, hostUser', activeUser', cur'[t])
      <3>1. ~Caching(todo'[t], NoMessage) /\ ~LoggedOff(todo'[t], NoMessage)
        BY <1>0, <2>1, <2>4 DEF Comparing, Caching, LoggedOff, Starts
      <3>2. op # "compare" => ~Comparing(todo'[t], NoMessage, "compare")
        BY <2>4 DEF Comparing, Starts
      <3>3. QED
        BY <1>2, <2>2, <2>5, <3>1, <3>2 DEF Knows
    <2>7. QED
      BY <1>0, <2>1, <2>2, <2>4, <2>5, <2>6, ViewOfStep
  <1>6. CASE CompareUser(t)
    <2>1. PICK op \in {"compare", "compare-forced"} :
              /\ p = NoMessage /\ s # <<>> /\ Head(s) = op
              /\ \/ /\ op = "compare" /\ cur[t] = activeUser
                    /\ todo'[t] = Tail(s)
                 \/ todo'[t] = <<"active-user", "cache-user">> \o Tail(s)
      BY <1>0, <1>6 DEF CompareUser, Ready, Become, Advance
    <2>2. /\ others /\ same /\ pending' = pending /\ cur' = cur
          /\ overlapped' = overlapped
      BY <1>0, <1>6 DEF CompareUser, Become, Advance
    <2>3. Comparing(s, NoMessage, op) /\ Mine /\ Tail(s) \in Seq(Op)
      <3>1. Comparing(s, NoMessage, op)
        BY <1>0, <2>1, ShapeByHead
      <3>2. QED
        BY <1>0, <2>1, <3>1, ShapeIsBusy
    <2>4. CASE todo'[t] = Tail(s) /\ op = "compare" /\ cur[t] = activeUser
      <3>1. Resting(Tail(s), NoMessage)
        BY <1>0, <2>3 DEF Comparing, Resting
      <3>2. ~Busy(Tail(s), NoMessage) /\ Shape(Tail(s), NoMessage)
        BY <2>3, <3>1, ShapeIsBusy DEF Shape
      <3>3. Settled' => Settled
        <4>1. Listed(kept, s) => Listed(kept, Tail(s))
          BY <1>0, <2>1, ListedSplit
        <4>2. QED
          BY <1>1, <2>2, <2>4, <4>1
      <3>4. Settled' => hostUser' = activeUser'
        BY <1>2, <2>1, <2>2, <2>3, <2>4, <3>3 DEF Knows
      <3>5. Knows(Tail(s), NoMessage, hostUser', activeUser', cur'[t])
        BY <2>3, <3>2, ShapeIsBusy DEF Knows
      <3>6. QED
        BY <1>0, <2>1, <2>2, <2>4, <3>2, <3>3, <3>4, <3>5, ViewOfStep
    <2>5. CASE todo'[t] = <<"active-user", "cache-user">> \o Tail(s)
      <3>1. {"active-user", "cache-user"} \subseteq Op
        BY DEF Op, MessageName, InternalOps
      <3>2. PICK r \in Seq(Op) : r = <<"cache-user">> \o Tail(s)
        BY <2>3, <3>1, PutBefore
      <3>3. /\ r # <<>> /\ Head(r) = "cache-user" /\ Tail(r) = Tail(s)
        BY <2>3, <3>1, <3>2, PutBefore
      <3>4. todo'[t] = <<"active-user">> \o r
        BY <2>3, <2>5, <3>1, <3>2, PutTwoBefore
      <3>5. /\ todo'[t] \in Seq(Op) /\ todo'[t] # <<>>
            /\ Head(todo'[t]) = "active-user" /\ Tail(todo'[t]) = r
        BY <3>1, <3>2, <3>4, PutBefore
      <3>6. Quiet(Tail(s))
        BY <2>3 DEF Comparing
      <3>7. Telling(todo'[t], NoMessage)
        BY <3>3, <3>5, <3>6 DEF Telling, Starts
      <3>8. Shape(todo'[t], NoMessage) /\ Busy(todo'[t], NoMessage)
        BY <3>5, <3>7, ShapeIsBusy DEF Shape
      <3>9. Knows(todo'[t], NoMessage, hostUser', activeUser', cur'[t])
        <4>1. ~Quiet(r)
          BY <3>2, <3>3, QuietSplit DEF ReportingOps
        <4>2. QED
          BY <1>0, <3>5, <4>1 DEF Knows, Comparing, Caching, LoggedOff, Starts
      <3>10. Settled' => Settled
        <4>1. Listed(kept, s) => Listed(kept, Tail(s))
          BY <1>0, <2>1, ListedSplit
        <4>2. Listed(kept, Tail(s)) => Listed(kept, r)
          BY <3>2, <3>3, ListedSplit
        <4>3. Listed(kept, r) => Listed(kept, todo'[t])
          BY <3>5, ListedSplit
        <4>4. QED
          BY <1>1, <2>2, <4>1, <4>2, <4>3
      <3>11. QED
        BY <1>0, <2>1, <2>2, <2>3, <3>8, <3>9, <3>10, ViewOfStep
    <2>6. QED
      BY <2>1, <2>4, <2>5
  <1>7. CASE CacheUser(t)
    <2>1. /\ p = NoMessage /\ s # <<>> /\ Head(s) = "cache-user"
          /\ todo'[t] = Tail(s) /\ activeUser' = cur[t]
          /\ others /\ pending' = pending /\ cur' = cur
          /\ hostUser' = hostUser /\ overlapped' = overlapped
      BY <1>0, <1>7 DEF CacheUser, Ready, Advance
    <2>2. Caching(s, NoMessage) /\ Mine /\ Tail(s) \in Seq(Op)
      <3>1. Caching(s, NoMessage)
        BY <1>0, <2>1, ShapeByHead
      <3>2. QED
        BY <1>0, <2>1, <3>1, ShapeIsBusy
    <2>3. Resting(Tail(s), NoMessage)
      BY <1>0, <2>2 DEF Caching, Resting
    <2>4. ~Busy(Tail(s), NoMessage) /\ Shape(Tail(s), NoMessage)
      BY <2>2, <2>3, ShapeIsBusy DEF Shape
    <2>5. Settled' => Settled
      <3>1. Listed(kept, s) => Listed(kept, Tail(s))
        BY <1>0, <2>1, ListedSplit
      <3>2. QED
        BY <1>1, <2>1, <3>1
    <2>6. Settled' => hostUser' = activeUser'
      BY <1>2, <2>1, <2>2, <2>5 DEF Knows
    <2>7. Knows(Tail(s), NoMessage, hostUser', activeUser', cur'[t])
      BY <2>2, <2>4, ShapeIsBusy DEF Knows
    <2>8. ~(Settled' /\ \E u \in Thread : u # t /\ Reporting(u))
      BY <1>0, <2>1, <2>2 DEF ViewInv, OneReporter, Settled
    <2>9. QED
      BY <1>0, <2>1, <2>4, <2>6, <2>7, <2>8, ViewOfStep
  <1>8. CASE HandlerReturns(t)
    <2>1. /\ Ready(t, "handler") /\ Advance(t)
          /\ others /\ same /\ pending' = pending /\ cur' = cur
          /\ overlapped' = overlapped
      BY <1>0, <1>8 DEF HandlerReturns, Advance
    <2>2. QED
      BY <2>1, ViewOfAdvance DEF ReportingOps
  <1>9. QED
    BY <1>3, <1>4, <1>5, <1>6, <1>7, <1>8 DEF ThreadStep

(* A thread with nothing under way is given a script without reports, or   *)
(* loses the one it had because something raised.                          *)
LEMMA ViewOfScript ==
    ASSUME TypeOK, TypeOK', ViewInv, NEW t \in Thread, NEW script \in Seq(Op),
           todo' = [todo EXCEPT ![t] = script],
           pending' = [pending EXCEPT ![t] = NoMessage],
           ~Listed(ReportingOps, script),
           Settled' => Settled /\ Idle(t),
           cur' = cur, overlapped' = overlapped,
           hostUser' = hostUser, activeUser' = activeUser
    PROVE  ViewInv'
  <1>1. /\ \A u \in Thread : u # t =>
               /\ todo'[u] = todo[u] /\ pending'[u] = pending[u]
        /\ todo'[t] = script /\ pending'[t] = NoMessage
        /\ NoMessage # "active-user"
    BY ConstantsAssumption DEF ConstantsAssumption, TypeOK, MessageName
  <1>2. /\ ~Busy(script, NoMessage) /\ Shape(script, NoMessage)
    BY <1>1, ShapeIsBusy DEF Shape, Busy
  <1>3. \A u \in Thread :
            /\ Reporting(u) <=> Busy(todo[u], pending[u])
            /\ Reporting(u)' <=> Busy(todo'[u], pending'[u])
    BY DEF Reporting, HasOp, Busy, Listed
  <1>4. (\A u \in Thread : Shape(todo[u], pending[u]))'
    BY <1>1, <1>2 DEF ViewInv
  <1>5. OneReporter'
    BY <1>1, <1>2, <1>3 DEF ViewInv, OneReporter
  <1>6. ASSUME Settled'
        PROVE  /\ (\A u \in Thread : ~Reporting(u)') => hostUser' = activeUser'
               /\ \A u \in Thread : Knows(todo'[u], pending'[u], hostUser',
                                          activeUser', cur'[u])
    <2>1. Settled /\ Idle(t)
      BY <1>6
    <2>2. ~Busy(todo[t], pending[t])
      BY <1>1, <2>1, ListedOne DEF Idle, Busy
    <2>3. Knows(script, NoMessage, hostUser', activeUser', cur'[t])
      BY <1>2, ShapeIsBusy DEF Knows
    <2>4. QED
      BY <1>1, <1>2, <1>3, <2>1, <2>2, <2>3 DEF ViewInv
  <1>7. QED
    BY <1>4, <1>5, <1>6 DEF ViewInv

(* A step that touches nothing of all this.                                *)
LEMMA ViewFrame ==
    ASSUME ViewInv,
           todo' = todo, pending' = pending, cur' = cur,
           apiVersion' = apiVersion, failures' = failures,
           overlapped' = overlapped,
           hostUser' = hostUser, activeUser' = activeUser
    PROVE  ViewInv'
  BY DEF ViewInv, OneReporter, Settled, Knows, Reporting, HasOp, Shape,
         Resting, Comparing, Telling, Caching, LoggingOff, Fetching,
         LoggedOff, Starts, Quiet, Listed, ReportingOps

(* Initially only the worker has a script, and the user is to be reported. *)
LEMMA ViewInit == Init => ViewInv
  <1> SUFFICES ASSUME Init PROVE ViewInv
    OBVIOUS
  <1>1. /\ NoMessage # "active-user"
        /\ todo \in [Thread -> Seq(Op)]
    <2>1. NoMessage # "active-user"
      BY ConstantsAssumption DEF MessageName
    <2>2. StartupScript \in Seq(Op) /\ <<>> \in Seq(Op)
      BY ScriptType
    <2>3. QED
      BY <2>1, <2>2 DEF Init
  <1>2. \A t \in Thread : ~Busy(todo[t], pending[t])
    <2>1. ~Listed(ReportingOps, StartupScript) /\ ~Listed(ReportingOps, <<>>)
      BY WorkerScripts, ListedOne
    <2>2. QED
      BY <1>1, <2>1 DEF Init, Busy
  <1>3. \A t \in Thread : ~Reporting(t)
    BY <1>2 DEF Reporting, HasOp, Busy, Listed
  <1>4. \A t \in Thread : Shape(todo[t], pending[t])
    BY <1>1, <1>2, ShapeIsBusy DEF Shape
  <1>5. \A t \in Thread :
            Knows(todo[t], pending[t], hostUser, activeUser, cur[t])
    BY <1>1, <1>2, ShapeIsBusy DEF Knows
  <1>6. hostUser = activeUser
    BY DEF Init
  <1>7. QED
    BY <1>3, <1>4, <1>5, <1>6 DEF ViewInv, OneReporter

(* The steps of the session thread and of the service's events.            *)
LEMMA ViewOfSession ==
    ASSUME TypeOK, TypeOK', ViewInv, AwaitUser \/ FetchCached \/ SessionEvent
    PROVE  ViewInv'
  <1> DEFINE s == todo["session"]
             kept == {"read-user-forced"}
  <1> USE DEF hostVars, historyVars, boundVars
  <1>0. /\ "session" \in Thread /\ s \in Seq(Op)
        /\ todo \in [Thread -> Seq(Op)]
        /\ pending \in [Thread -> MessageName \cup {NoMessage}]
        /\ cur \in [Thread -> Users \cup {Unreported}]
        /\ Shape(s, pending["session"])
        /\ NoMessage # "active-user"
    BY ConstantsAssumption
       DEF ConstantsAssumption, TypeOK, ViewInv, Thread, MessageName
  <1>1. CASE AwaitUser
    <2>1. Ready("session", "await-user")
      BY <1>1 DEF AwaitUser
    <2>2. Advance("session") \/ todo' = todo
      BY <1>1 DEF AwaitUser
    <2>3. /\ apiVersion' = apiVersion /\ failures' = failures
          /\ pending' = pending /\ cur' = cur /\ overlapped' = overlapped
          /\ hostUser' = hostUser /\ activeUser' = activeUser
      BY <1>1 DEF AwaitUser, SessionUnchanged
    <2>4. QED
      BY <1>0, <2>1, <2>2, <2>3, ViewOfAdvance DEF ReportingOps
  <1>2. ASSUME NEW script \in Seq(Op), SessionNotified,
               ~Listed(ReportingOps, script), ~Listed(kept, script),
               todo' = [todo EXCEPT !["session"] = script],
               UNCHANGED <<activeUser, overlapped>>, SessionUnchanged
        PROVE  ViewInv'
    <2>1. /\ Idle("session") /\ pending["session"] = NoMessage
          /\ pending' = pending /\ cur' = cur
          /\ apiVersion' = apiVersion /\ failures' = failures
          /\ hostUser' = hostUser
      BY <1>2 DEF SessionNotified, SessionUnchanged, Idle
    <2>2. pending' = [pending EXCEPT !["session"] = NoMessage]
      BY <1>0, <2>1
    <2>3. Settled' => Settled
      BY <1>0, <1>2, <2>1, ListedOne DEF Settled, HasOp, Listed, Idle
    <2>4. QED
      BY <1>0, <1>2, <2>1, <2>2, <2>3, ViewOfScript
  <1>3. CASE SessionLogon
    <2>1. /\ <<"await-user", "read-user", "session-logon">> \in Seq(Op)
          /\ ~Listed(ReportingOps,
                     <<"await-user", "read-user", "session-logon">>)
          /\ ~Listed(kept, <<"await-user", "read-user", "session-logon">>)
      BY DEF Op, MessageName, InternalOps, Listed, ReportingOps
    <2>2. QED
      BY <1>2, <1>3, <2>1 DEF SessionLogon
  <1>4. ASSUME NEW locked \in BOOLEAN, SessionLockChange(locked)
        PROVE  ViewInv'
    <2>1. \A op \in {"session-lock", "session-unlock"} :
              /\ <<op>> \in Seq(Op)
              /\ ~Listed(ReportingOps, <<op>>) /\ ~Listed(kept, <<op>>)
      BY DEF Op, MessageName, InternalOps, Listed, ReportingOps
    <2>2. PICK op \in {"session-lock", "session-unlock"} :
              todo' = [todo EXCEPT !["session"] = <<op>>]
      BY <1>4 DEF SessionLockChange
    <2>3. QED
      BY <1>2, <1>4, <2>1, <2>2 DEF SessionLockChange
  <1>5. CASE SessionLogoff
    <2> DEFINE script == <<"session-logoff", "fetch-cached">>
    <2>1. /\ Idle("session") /\ pending["session"] = NoMessage
          /\ pending' = pending /\ cur' = cur
          /\ apiVersion' = apiVersion /\ failures' = failures
          /\ hostUser' = hostUser
          /\ todo' = [todo EXCEPT !["session"] = script]
          /\ overlapped' = (overlapped \/ \E t \in Thread : Reporting(t))
      BY <1>5 DEF SessionLogoff, SessionNotified, SessionUnchanged, Idle
    <2>2. /\ script \in Seq(Op) /\ script # <<>>
          /\ Head(script) = "session-logoff"
          /\ Tail(script) = <<"fetch-cached">>
          /\ Tail(script) \in Seq(Op) /\ Tail(script) # <<>>
          /\ Head(Tail(script)) = "fetch-cached"
          /\ Tail(Tail(script)) = <<>>
      BY DEF Op, MessageName, InternalOps
    <2> HIDE DEF script
    <2>3. LoggingOff(script, NoMessage)
      BY <2>2, ListedOne DEF LoggingOff, Starts, Quiet
    <2>4. Shape(script, NoMessage) /\ Busy(script, NoMessage)
      BY <2>2, <2>3, ShapeIsBusy DEF Shape
    <2>5. \A h, a, c : Knows(script, NoMessage, h, a, c)
      BY <1>0, <2>2 DEF Knows, Comparing, Caching, LoggedOff, Starts
    <2>6. todo'["session"] = script
      BY <1>0, <2>1
    <2>7. Settled' => \A t \in Thread : ~Reporting(t)
      BY <2>1 DEF Settled
    <2>8. \A u \in Thread : u # "session" => todo'[u] = todo[u]
      BY <1>0, <2>1
    <2>9. QED
      BY <1>0, <2>1, <2>4, <2>5, <2>6, <2>7, <2>8, ViewOfStep
  <1>6. CASE FetchCached
    <2>1. /\ pending["session"] = NoMessage /\ s # <<>>
          /\ Head(s) = "fetch-cached"
          /\ todo' = [todo EXCEPT !["session"] = <<"active-user">> \o Tail(s)]
          /\ cur' = [cur EXCEPT !["session"] = activeUser]
          /\ pending' = pending /\ overlapped' = overlapped
          /\ apiVersion' = apiVersion /\ failures' = failures
          /\ hostUser' = hostUser /\ activeUser' = activeUser
      BY <1>6 DEF FetchCached, Ready, Become
    <2>2. Fetching(s, NoMessage) /\ Busy(s, NoMessage) /\ Reporting("session")
      <3>1. Fetching(s, NoMessage)
        BY <1>0, <2>1, ShapeByHead
      <3>2. QED
        BY <1>0, <2>1, <3>1, ShapeIsBusy DEF Reporting, HasOp, Busy, Listed
    <2>3. PICK r \in Seq(Op) : /\ r = <<"active-user">> \o Tail(s)
                               /\ r # <<>> /\ Head(r) = "active-user"
                               /\ Tail(r) = Tail(s)
      <3>1. "active-user" \in Op /\ Tail(s) \in Seq(Op)
        BY <1>0, <2>1 DEF Op, MessageName
      <3>2. QED
        BY <3>1, PutBefore
    <2>4. LoggedOff(r, NoMessage)
      BY <2>2, <2>3 DEF LoggedOff, Fetching, Starts
    <2>5. Shape(r, NoMessage) /\ Busy(r, NoMessage)
      BY <2>3, <2>4, ShapeIsBusy DEF Shape
    <2>6. \A h, a : Knows(r, NoMessage, h, a, a)
      BY <1>0, <2>3 DEF Knows, Comparing, Caching, Starts
    <2>7. todo'["session"] = r /\ cur'["session"] = activeUser
      BY <1>0, <2>1, <2>3
    <2>8. Settled' => Settled
      <3>1. Listed(kept, s) => Listed(kept, Tail(s))
        BY <1>0, <2>1, ListedSplit
      <3>2. Listed(kept, Tail(s)) => Listed(kept, r)
        BY <2>3, ListedSplit
      <3>3. QED
        BY <1>0, <2>1, <2>7, <3>1, <3>2 DEF Settled, HasOp, Listed
    <2>9. \A u \in Thread : u # "session" =>
              todo'[u] = todo[u] /\ cur'[u] = cur[u]
      BY <1>0, <2>1
    <2>10. QED
      BY <1>0, <2>1, <2>2, <2>5, <2>6, <2>7, <2>8, <2>9, ViewOfStep
  <1>7. QED
    BY <1>1, <1>3, <1>4, <1>5, <1>6 DEF SessionEvent

(* Every step of every thread, and of the environment.                     *)
LEMMA ViewNext ==
    TypeOK /\ TypeOK' /\ GateInv /\ ViewInv /\ [Next]_vars => ViewInv'
  <1> SUFFICES ASSUME TypeOK, TypeOK', GateInv, ViewInv, [Next]_vars
               PROVE  ViewInv'
    OBVIOUS
  <1> USE DEF hostVars, historyVars, boundVars
  <1>0. /\ todo \in [Thread -> Seq(Op)]
        /\ pending \in [Thread -> MessageName \cup {NoMessage}]
        /\ {"worker", "listener"} \subseteq Thread
    BY DEF TypeOK, Thread
  <1>1. ASSUME NEW t \in Thread, Raise(t) PROVE ViewInv'
    <2>1. PICK script :
              /\ script = <<>> \/ script = <<"session-shutdown">>
              /\ todo' = [todo EXCEPT ![t] = script]
      BY <1>1 DEF Raise
    <2>2. script \in Seq(Op) /\ ~Listed(ReportingOps, script)
      <3>1. /\ <<>> \in Seq(Op) /\ ~Listed(ReportingOps, <<>>)
            /\ <<"session-shutdown">> \in Seq(Op)
            /\ ~Listed(ReportingOps, <<"session-shutdown">>)
        BY WorkerScripts, ListedOne, InternalScripts
      <3>2. QED
        BY <2>1, <3>1
    <2>3. /\ pending' = [pending EXCEPT ![t] = NoMessage]
          /\ cur' = cur /\ overlapped' = overlapped
          /\ hostUser' = hostUser /\ activeUser' = activeUser
      BY <1>1 DEF Raise
    <2>4. ~Settled'
      BY <1>1 DEF Raise, Settled, TypeOK
    <2>5. QED
      BY <2>1, <2>2, <2>3, <2>4, ViewOfScript
  <1>2. CASE WorkerLoop
    <2>1. PICK script \in {LoopScript(Due), <<"session-shutdown">>} :
              todo' = [todo EXCEPT !["worker"] = script]
      BY <1>2 DEF WorkerLoop
    <2>2. /\ script \in Seq(Op) /\ ~Listed(ReportingOps, script)
          /\ ~Listed({"read-user-forced"}, script)
      BY WorkerScripts, ScriptType, InternalScripts DEF Due
    <2>3. /\ Idle("worker") /\ pending' = pending
          /\ cur' = cur /\ overlapped' = overlapped
          /\ hostUser' = hostUser /\ activeUser' = activeUser
          /\ apiVersion' = apiVersion /\ failures' = failures
      BY <1>2 DEF WorkerLoop
    <2>4. pending' = [pending EXCEPT !["worker"] = NoMessage]
      BY <1>0, <2>3 DEF Idle
    <2>5. Settled' => Settled
      BY <1>0, <2>1, <2>2, <2>3, ListedOne DEF Settled, HasOp, Listed, Idle
    <2>6. QED
      BY <1>0, <2>1, <2>2, <2>3, <2>4, <2>5, ViewOfScript
  <1>3. CASE Receive
    <2>1. /\ Idle("listener") /\ pending' = pending
          /\ cur' = cur /\ overlapped' = overlapped
          /\ hostUser' = hostUser /\ activeUser' = activeUser
          /\ failures' = failures
      BY <1>3 DEF Receive, GateInv, ReadingIsIdle
    <2>2. pending' = [pending EXCEPT !["listener"] = NoMessage]
      BY <1>0, <2>1 DEF Idle
    <2>3. PICK script \in Seq(Op) :
              /\ todo' = [todo EXCEPT !["listener"] = script]
              /\ ~Listed(ReportingOps, script)
              /\ \/ apiVersion' = apiVersion
                 \/ Listed({"read-user-forced"}, script)
      <3>1. Head(inbox) \in Command
        BY <1>3, ConstantsAssumption DEF Receive, TypeOK, ConstantsAssumption
      <3>2. PICK c \in Command : OnApiVersion(c) \/ OnRefresh(c) \/ OnOther(c)
        BY <1>3, <3>1 DEF Receive
      <3>3. CASE OnApiVersion(c)
        <4>1. \/ Answer(RefreshScript)
              \/ Answer(<<>>) /\ apiVersion' = apiVersion
          BY <3>3 DEF OnApiVersion, SetApiVersion, When
        <4>2. <<>> \in Seq(Op) /\ ~Listed(ReportingOps, <<>>)
          BY ListedOne
        <4>3. QED
          BY <4>1, <4>2, ListenerScripts, ScriptType DEF Answer
      <3>4. CASE OnRefresh(c)
        BY <3>4, ListenerScripts, ScriptType DEF OnRefresh, Answer
      <3>5. CASE OnOther(c)
        <4>1. \/ Answer(<<"echo">>) \/ Answer(<<"handler">>)
              \/ Answer(<<"handler", "number-of-cpus">>)
              \/ Answer(<<"handler">> \o <<"completion">>)
              \/ Answer(<<"handler">> \o <<>>)
              \/ Answer(<<>>)
          <5>1. CASE c.cmd = "echo"
            BY <3>5, <5>1 DEF OnOther
          <5>2. CASE c.cmd = "set-number-of-cpus"
            BY <3>5, <5>2 DEF OnOther, When
          <5>3. CASE c.cmd = "lifecycle-event"
            BY <3>5, <5>3 DEF OnOther, When
          <5>4. CASE c.cmd = "delegate" \/ c.cmd = "ignored"
            BY <3>5, <5>4 DEF OnOther
          <5>5. QED
            BY <3>5, <5>1, <5>2, <5>3, <5>4 DEF OnOther, Command
        <4>2. \A op \in {"echo", "handler", "number-of-cpus", "completion"} :
                  op \in Op /\ op \notin ReportingOps
          BY DEF Op, MessageName, InternalOps, CompletionEra, CpuEra,
                 ReportingOps
        <4>3. /\ <<>> \in Seq(Op) /\ ~Listed(ReportingOps, <<>>)
              /\ <<"echo">> \in Seq(Op) /\ ~Listed(ReportingOps, <<"echo">>)
              /\ <<"handler">> \in Seq(Op)
              /\ ~Listed(ReportingOps, <<"handler">>)
              /\ <<"completion">> \in Seq(Op)
              /\ ~Listed(ReportingOps, <<"completion">>)
          BY <4>2, ListedOne
        <4>4. /\ <<"handler", "number-of-cpus">> \in Seq(Op)
              /\ ~Listed(ReportingOps, <<"handler", "number-of-cpus">>)
          BY <4>2 DEF Listed
        <4>5. \A more \in Seq(Op) :
                  /\ <<"handler">> \o more \in Seq(Op)
                  /\ ~Listed(ReportingOps, more) =>
                         ~Listed(ReportingOps, <<"handler">> \o more)
          BY <4>2, OneThenMore
        <4>6. PICK script \in Seq(Op) :
                  Answer(script) /\ ~Listed(ReportingOps, script)
          BY <4>1, <4>3, <4>4, <4>5
        <4>7. QED
          BY <3>5, <4>6 DEF OnOther, Answer
      <3>6. QED
        BY <3>2, <3>3, <3>4, <3>5
    <2>4. Settled' => Settled
      <3>1. Settled' => ~Listed({"read-user-forced"}, script)
        BY <1>0, <2>3 DEF Settled, HasOp, Listed
      <3>2. QED
        BY <1>0, <2>1, <2>3, <3>1, ListedOne DEF Settled, HasOp, Listed, Idle
    <2>5. QED
      BY <1>0, <2>1, <2>2, <2>3, <2>4, ViewOfScript
  <1>4. ASSUME \/ WorkerDone \/ ListenerCheck
               \/ \E c \in HostCommands : HostSends(c)
               \/ \E u \in Users : GuestUserChanges(u)
               \/ Stop \/ UNCHANGED vars
        PROVE  ViewInv'
    <2>1. /\ todo' = todo /\ pending' = pending /\ cur' = cur
          /\ apiVersion' = apiVersion /\ failures' = failures
          /\ overlapped' = overlapped
          /\ hostUser' = hostUser /\ activeUser' = activeUser
      BY <1>4 DEF WorkerDone, ListenerCheck, HostSends, GuestUserChanges,
                  Stop, vars, agentVars
    <2>2. QED
      BY <2>1, ViewFrame
  <1>5. QED
    BY <1>1, <1>2, <1>3, <1>4, ViewOfThread, ViewOfSession
       DEF Next, WorkerStep, ListenerStep, SessionStep, Environment, Thread

(* With no report under way, the cache names the user the host was told    *)
(* last, provided that no two threads ever reported at once, nothing       *)
(* raised, and messages are not muted.                                     *)
THEOREM ViewCorrect == Spec => []CacheIsHostView
  <1>1. TypeOK /\ ViewInv => CacheIsHostView
    BY DEF ViewInv, CacheIsHostView, Settled
  <1>2. TypeOK /\ GateInv /\ ViewInv /\ [Next]_vars
            => TypeOK' /\ GateInv' /\ ViewInv'
    BY TypeNext, GateNext, ViewNext
  <1>3. QED
    BY <1>1, <1>2, TypeInit, GateInit, ViewInit, PTL DEF Spec

=============================================================================
