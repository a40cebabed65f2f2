------------------------- MODULE WinServiceProofs --------------------------
(***************************************************************************)
(* Theorems about WinService, for any set of sessions and any number of    *)
(* controls, logins and exceptions.                                        *)
(***************************************************************************)
EXTENDS WinService, TLAPS

(* An agent that has ended, or is about to, has its cause recorded; a      *)
(* shutdown that is the cause has set _shutting_down before; and nothing   *)
(* reports the stop before the very end.                                   *)
EndInv ==
    /\ waitStop \/ worker \in {"bye", "over"} \/ svc \in {"returned", "over"} => cause # "none"
    /\ handler = "shutdown" \/ cause = "shutdown" => shuttingDown
    /\ "stopped" \in eventLog => svc = "over"
    /\ NoEventAtShutdown

(* The last change of a session that is on its way, being handled, or in   *)
(* the flag already, in this order: if it left that session unlocked, then *)
(* some session is.  Without an agent the flag has its first value.        *)
NoChangeAfter(i) == \A j \in 1..Len(controls) : controls[j] \in Changes => j <= i

Unlocked == \E s \in Sessions : desktop[s] = "unlocked"
Unlocking == {"logon", "unlock"}

FlagInv ==
    /\ desktopLocked \in BOOLEAN
    /\ desktop \in [Sessions -> {"free", "locked", "unlocked"}]
    /\ controls \in Seq(Controls)
    /\ ~vdsAgent => desktopLocked /\ handler \notin Changes
    /\ \A i \in 1..Len(controls) : controls[i] \in Unlocking /\ NoChangeAfter(i) => Unlocked
    /\ NoChangeAfter(0) =>
           /\ handler \in Unlocking => Unlocked
           /\ handler \notin Changes /\ ~desktopLocked => Unlocked

-----------------------------------------------------------------------------
(* Every variable keeps its type.                                          *)
THEOREM TypeCorrect == Spec => []TypeOK
  <1>1. Init => TypeOK
    <2> SUFFICES ASSUME Init PROVE TypeOK
      OBVIOUS
    <2>1. controls \in Seq(Controls)
      BY DEF Init
    <2> QED
      BY <2>1 DEF Init, TypeOK
  <1>2. TypeOK /\ ReportStarted => TypeOK'
    BY DEF TypeOK, svcVars, machineVars, ReportStarted
  <1>3. TypeOK /\ CreateAgent => TypeOK'
    BY DEF TypeOK, svcVars, machineVars, CreateAgent
  <1>4. TypeOK /\ StartListener => TypeOK'
    BY DEF TypeOK, svcVars, machineVars, StartListener
  <1>5. TypeOK /\ StartWorker => TypeOK'
    BY DEF TypeOK, svcVars, machineVars, StartWorker
  <1>6. TypeOK /\ Joined => TypeOK'
    BY DEF TypeOK, svcVars, machineVars, Joined
  <1>7. TypeOK /\ ReportStopped => TypeOK'
    BY DEF TypeOK, svcVars, machineVars, ReportStopped
  <1>8. TypeOK /\ CreateFails => TypeOK'
    BY DEF TypeOK, svcVars, machineVars, CreateFails, Fail, EndedBy
  <1>9. TypeOK /\ RunFails => TypeOK'
    BY DEF TypeOK, svcVars, machineVars, RunFails, Fail, EndedBy
  <1>10. TypeOK /\ WorkerFails => TypeOK'
    BY DEF TypeOK, svcVars, machineVars, WorkerFails, Fail, EndedBy
  <1>11. TypeOK /\ WorkerLoop => TypeOK'
    BY DEF TypeOK, svcVars, machineVars, WorkerLoop
  <1>12. TypeOK /\ WorkerWrites => TypeOK'
    BY DEF TypeOK, svcVars, machineVars, WorkerWrites
  <1>13. TypeOK /\ LoginDropped => TypeOK'
    BY DEF TypeOK, svcVars, machineVars, LoginDropped
  <1>14. TypeOK /\ CommandStarts => TypeOK'
    BY DEF TypeOK, svcVars, machineVars, CommandStarts
  <1>15. TypeOK /\ CommandEnds => TypeOK'
    BY DEF TypeOK, svcVars, machineVars, CommandEnds
  <1>16. TypeOK /\ TakeStop => TypeOK'
    BY DEF TypeOK, svcVars, machineVars, TakeStop, Take, Rest
  <1>17. TypeOK /\ TakeShutdown => TypeOK'
    BY DEF TypeOK, svcVars, machineVars, TakeShutdown, Take, Rest
  <1>18. TypeOK /\ StopAgent => TypeOK'
    <2> SUFFICES ASSUME TypeOK, StopAgent PROVE TypeOK'
      OBVIOUS
    <2>1. waitStop' \in BOOLEAN /\ cause' \in {"none", "stop", "shutdown", "failure"}
      BY DEF TypeOK, StopAgent, EndedBy
    <2>2. handler' = "idle" /\ UNCHANGED <<svcVars, shuttingDown, worker, listener, desktopLocked,
                                          machineVars, logins, failures>>
      BY DEF StopAgent
    <2> QED
      BY <2>1, <2>2 DEF TypeOK, svcVars, machineVars
  <1>19. TypeOK /\ SetLocked => TypeOK'
    BY DEF TypeOK, svcVars, machineVars, SetLocked
  <1>20. TypeOK /\ ChangeReported => TypeOK'
    BY DEF TypeOK, svcVars, machineVars, ChangeReported
  <1>21. TypeOK /\ PortChanges => TypeOK'
    BY DEF TypeOK, svcVars, machineVars, PortChanges
  <1>22. ASSUME NEW c \in Changes PROVE TypeOK /\ TakeChange(c) => TypeOK'
    BY DEF TypeOK, svcVars, Rest, TakeChange, Take
  <1>23. ASSUME NEW s \in Sessions, NEW c \in Changes PROVE TypeOK /\ SessionChanges(s, c) => TypeOK'
    <2>1. After(c) \in {"free", "locked", "unlocked"}
      BY DEF After, Changes
    <2>2. c \in Controls
      BY DEF Controls
    <2> QED
      BY <2>1, <2>2 DEF TypeOK, svcVars, SessionChanges, Deliver
  <1>24. ASSUME NEW c \in {"stop", "shutdown"} PROVE TypeOK /\ EndIsAsked(c) => TypeOK'
    <2>1. c \in Controls
      BY DEF Controls
    <2> QED
      BY <2>1 DEF TypeOK, svcVars, EndIsAsked, Deliver
  <1>25. TypeOK /\ UNCHANGED vars => TypeOK'
    BY DEF TypeOK, svcVars, machineVars, vars
  <1>26. TypeOK /\ [Next]_vars => TypeOK'
    BY <1>2, <1>3, <1>4, <1>5, <1>6, <1>7, <1>8, <1>9, <1>10, <1>11, <1>12, <1>13, <1>14, <1>15, <1>16, <1>17,
       <1>18, <1>19, <1>20, <1>21, <1>22, <1>23, <1>24, <1>25
       DEF Next, SvcDoRun, Worker, SvcCtrlHandler
  <1> QED
    BY <1>1, <1>26, PTL DEF Spec

-----------------------------------------------------------------------------
LEMMA EndNext == TypeOK /\ EndInv /\ [Next]_vars => EndInv'
  <1> SUFFICES ASSUME TypeOK, EndInv, [Next]_vars PROVE EndInv'
    OBVIOUS
  <1> USE DEF EndInv, NoEventAtShutdown, EndedBy, svcVars, machineVars
  <1>1. CASE ReportStarted
    BY <1>1 DEF ReportStarted
  <1>2. CASE CreateAgent \/ StartListener \/ StartWorker
    BY <1>2 DEF CreateAgent, StartListener, StartWorker
  <1>3. CASE Joined
    BY <1>3 DEF Joined
  <1>4. CASE ReportStopped
    BY <1>4 DEF ReportStopped
  <1>5. CASE CreateFails \/ RunFails \/ WorkerFails
    BY <1>5 DEF CreateFails, RunFails, WorkerFails
  <1>6. CASE Worker
    BY <1>6 DEF Worker, WorkerLoop, WorkerWrites
  <1>7. CASE LoginDropped \/ CommandStarts \/ CommandEnds
    BY <1>7 DEF LoginDropped, CommandStarts, CommandEnds
  <1>8. CASE TakeStop \/ TakeShutdown
    BY <1>8 DEF TakeStop, TakeShutdown, Take
  <1>9. CASE StopAgent
    BY <1>9 DEF StopAgent
  <1>10. CASE SetLocked \/ ChangeReported
    BY <1>10 DEF SetLocked, ChangeReported, Changes
  <1>11. ASSUME NEW c \in Changes, TakeChange(c) PROVE EndInv'
    BY <1>11 DEF TakeChange, Take, Changes
  <1>12. ASSUME NEW s \in Sessions, NEW c \in Changes, SessionChanges(s, c) PROVE EndInv'
    BY <1>12 DEF SessionChanges
  <1>13. CASE EndIsAsked("stop") \/ EndIsAsked("shutdown")
    BY <1>13 DEF EndIsAsked
  <1>14. CASE PortChanges \/ UNCHANGED vars
    BY <1>14 DEF PortChanges, vars
  <1> QED
    BY <1>1, <1>2, <1>3, <1>4, <1>5, <1>6, <1>7, <1>8, <1>9, <1>10, <1>11, <1>12, <1>13, <1>14
       DEF Next, SvcDoRun, SvcCtrlHandler

(* An agent that a shutdown of the machine ended reports no "stopped"      *)
(* event: the flag is set before the agent is stopped, and is tested only  *)
(* after it has ended.                                                     *)
THEOREM EventCorrect == Spec => []NoEventAtShutdown
  <1>1. Init => EndInv
    BY DEF Init, EndInv, NoEventAtShutdown
  <1>2. EndInv => NoEventAtShutdown
    BY DEF EndInv
  <1> QED
    BY <1>1, <1>2, TypeCorrect, EndNext, PTL DEF Spec

-----------------------------------------------------------------------------
(* What comes behind the controls is the last change, or none.             *)
LEMMA FlagDeliver ==
  ASSUME FlagInv, NEW c \in Controls, controls' = Append(controls, c),
         UNCHANGED <<vdsAgent, handler, desktopLocked>>,
         desktop' \in [Sessions -> {"free", "locked", "unlocked"}],
         c \in Unlocking => Unlocked',
         c \notin Changes => UNCHANGED desktop
  PROVE  FlagInv'
  <1> USE DEF FlagInv
  <1>1. controls' \in Seq(Controls) /\ Len(controls') = Len(controls) + 1
        /\ Len(controls) \in Nat /\ controls'[Len(controls) + 1] = c
        /\ \A i \in 1..Len(controls) : controls'[i] = controls[i]
    OBVIOUS
  <1>2. CASE c \in Changes
    <2>1. ASSUME NEW i \in 0..Len(controls'), NoChangeAfter(i)' PROVE i = Len(controls) + 1
      BY <1>1, <1>2, <2>1 DEF NoChangeAfter
    <2> QED
      BY <1>1, <2>1
  <1>3. CASE c \notin Changes
    <2>1. ASSUME NEW i \in 0..Len(controls), NoChangeAfter(i)' PROVE NoChangeAfter(i)
      BY <1>1, <2>1 DEF NoChangeAfter
    <2>2. c \notin Unlocking
      BY <1>3 DEF Unlocking, Changes
    <2>3. Unlocked' <=> Unlocked
      BY <1>3 DEF Unlocked
    <2>4. ASSUME NEW i \in 1..Len(controls'), controls'[i] \in Unlocking, NoChangeAfter(i)'
          PROVE  Unlocked'
      <3>1. i \in 1..Len(controls)
        BY <1>1, <2>2, <2>4
      <3> QED
        BY <1>1, <2>1, <2>3, <2>4, <3>1
    <2>5. NoChangeAfter(0)' => NoChangeAfter(0)
      BY <1>1, <2>1
    <2> QED
      BY <1>1, <2>3, <2>4, <2>5
  <1> QED
    BY <1>2, <1>3

(* The control that is taken is in the handler then, or was none of a      *)
(* session, or came before the agent.                                      *)
LEMMA FlagTake ==
  ASSUME FlagInv, controls # <<>>, controls' = Tail(controls), handler = "idle",
         UNCHANGED <<vdsAgent, desktop, desktopLocked>>,
         handler' = Head(controls) \/ (handler' = "idle" /\ ~vdsAgent),
         handler' \in Changes => vdsAgent
  PROVE  FlagInv'
  <1> USE DEF FlagInv
  <1>1. controls' \in Seq(Controls) /\ Len(controls) \in Nat \ {0} /\ Len(controls') = Len(controls) - 1
        /\ Head(controls) = controls[1]
        /\ \A i \in 1..Len(controls') : controls'[i] = controls[i + 1]
    OBVIOUS
  <1>2. Unlocked' <=> Unlocked
    BY DEF Unlocked
  <1>3. ASSUME NEW i \in 0..Len(controls'), NoChangeAfter(i)' PROVE NoChangeAfter(i + 1)
    <2> SUFFICES ASSUME NEW j \in 1..Len(controls), controls[j] \in Changes PROVE j <= i + 1
      BY DEF NoChangeAfter
    <2>1. CASE j = 1
      BY <1>3, <2>1
    <2>2. CASE j # 1
      <3>1. j - 1 \in 1..Len(controls') /\ controls'[j - 1] = controls[(j - 1) + 1]
        BY <1>1, <2>2
      <3>2. (j - 1) + 1 = j /\ (j - 1 <= i => j <= i + 1)
        OBVIOUS
      <3> QED
        BY <1>3, <3>1, <3>2 DEF NoChangeAfter
    <2> QED
      BY <2>1, <2>2
  <1>4. ASSUME NEW i \in 1..Len(controls'), controls'[i] \in Unlocking, NoChangeAfter(i)'
        PROVE  Unlocked'
    <2>1. i + 1 \in 1..Len(controls) /\ controls[i + 1] \in Unlocking
      BY <1>1, <1>4
    <2>2. NoChangeAfter(i + 1)
      BY <1>1, <1>3, <1>4
    <2> QED
      BY <1>2, <2>1, <2>2
  <1>5. ASSUME NoChangeAfter(0)', handler' \in Unlocking PROVE Unlocked'
    <2>1. handler' = controls[1]
      BY <1>1, <1>5 DEF Unlocking
    <2>2. NoChangeAfter(1)
      BY <1>1, <1>3, <1>5
    <2> QED
      BY <1>1, <1>2, <1>5, <2>1, <2>2
  <1>6. ASSUME NoChangeAfter(0)', handler' \notin Changes, ~desktopLocked' PROVE Unlocked'
    <2>1. vdsAgent
      BY <1>6
    <2>2. controls[1] \notin Changes
      BY <1>1, <1>6, <2>1
    <2>3. NoChangeAfter(1)
      BY <1>1, <1>3, <1>6
    <2>4. NoChangeAfter(0)
      BY <1>1, <2>2, <2>3 DEF NoChangeAfter
    <2> QED
      BY <1>2, <1>6, <2>4 DEF Changes
  <1> QED
    BY <1>1, <1>4, <1>5, <1>6

(* Steps of the other threads, and those of the handler that are about     *)
(* something else.                                                         *)
LEMMA FlagElse ==
  ASSUME FlagInv, UNCHANGED <<desktop, controls, desktopLocked>>,
         vdsAgent' = vdsAgent \/ vdsAgent',
         handler' = handler \/ (handler \notin Changes /\ handler' \notin Changes)
  PROVE  FlagInv'
  <1>1. (Unlocked' <=> Unlocked) /\ \A i \in 0..Len(controls) : NoChangeAfter(i)' <=> NoChangeAfter(i)
    BY DEF Unlocked, NoChangeAfter
  <1>2. handler' \in Unlocking => handler \in Unlocking
    BY DEF Unlocking, Changes
  <1>3. handler' \notin Changes => handler \notin Changes
    OBVIOUS
  <1> QED
    BY <1>1, <1>2, <1>3 DEF FlagInv

LEMMA FlagNext == TypeOK /\ FlagInv /\ [Next]_vars => FlagInv'
  <1> SUFFICES ASSUME TypeOK, FlagInv, [Next]_vars PROVE FlagInv'
    OBVIOUS
  <1>1. CASE SvcDoRun
    BY <1>1, FlagElse DEF SvcDoRun, ReportStarted, CreateAgent, StartListener, StartWorker, Joined,
                          ReportStopped, svcVars, machineVars
  <1>2. CASE CreateFails \/ RunFails \/ WorkerFails
    BY <1>2, FlagElse DEF CreateFails, RunFails, WorkerFails, svcVars, machineVars
  <1>3. CASE Worker
    BY <1>3, FlagElse DEF Worker, WorkerLoop, WorkerWrites, svcVars, machineVars
  <1>4. CASE LoginDropped \/ CommandStarts \/ CommandEnds
    BY <1>4, FlagElse DEF LoginDropped, CommandStarts, CommandEnds, svcVars, machineVars
  <1>5. CASE StopAgent \/ ChangeReported
    BY <1>5, FlagElse DEF StopAgent, ChangeReported, Changes, svcVars, machineVars
  <1>6. CASE PortChanges \/ UNCHANGED vars
    BY <1>6, FlagElse DEF PortChanges, vars, svcVars, machineVars
  <1>7. CASE TakeStop \/ TakeShutdown
    BY <1>7, FlagTake DEF TakeStop, TakeShutdown, Take, Rest, svcVars, Changes
  <1>8. ASSUME NEW c \in Changes, TakeChange(c) PROVE FlagInv'
    BY <1>8, FlagTake DEF TakeChange, Take, Rest, svcVars, Changes
  <1>9. CASE SetLocked
    <2>1. (Unlocked' <=> Unlocked) /\ \A i \in 0..Len(controls) : NoChangeAfter(i)' <=> NoChangeAfter(i)
      BY <1>9 DEF SetLocked, machineVars, Unlocked, NoChangeAfter
    <2>2. handler' \notin Changes /\ handler \in Changes /\ vdsAgent' /\ desktopLocked' \in BOOLEAN
      BY <1>9 DEF SetLocked, Changes, FlagInv, svcVars
    <2>3. ~desktopLocked' => handler \in Unlocking
      BY <1>9 DEF SetLocked, Changes, Unlocking
    <2>4. UNCHANGED <<controls, desktop>>
      BY <1>9 DEF SetLocked, machineVars
    <2>5. handler' \notin Unlocking
      BY <2>2 DEF Changes, Unlocking
    <2> QED
      BY <2>1, <2>2, <2>3, <2>4, <2>5 DEF FlagInv
  <1>10. ASSUME NEW s \in Sessions, NEW c \in Changes, SessionChanges(s, c) PROVE FlagInv'
    <2>1. desktop' = [desktop EXCEPT ![s] = After(c)] /\ controls' = Append(controls, c)
          /\ UNCHANGED <<vdsAgent, handler, desktopLocked>>
      BY <1>10 DEF SessionChanges, Deliver, svcVars
    <2>2. After(c) \in {"free", "locked", "unlocked"} /\ (c \in Unlocking => After(c) = "unlocked")
      BY DEF After, Changes, Unlocking
    <2>3. c \in Unlocking => Unlocked'
      BY <2>1, <2>2 DEF Unlocked, FlagInv
    <2>4. desktop' \in [Sessions -> {"free", "locked", "unlocked"}]
      BY <2>1, <2>2 DEF FlagInv
    <2>5. c \in Controls
      BY DEF Controls
    <2> QED
      BY <2>1, <2>3, <2>4, <2>5, FlagDeliver
  <1>11. ASSUME NEW c \in {"stop", "shutdown"}, EndIsAsked(c) PROVE FlagInv'
    <2>1. c \in Controls /\ c \notin Unlocking
      BY DEF Controls, Changes, Unlocking
    <2> QED
      BY <1>11, <2>1, FlagDeliver DEF EndIsAsked, Deliver, svcVars, FlagInv
  <1> QED
    BY <1>1, <1>2, <1>3, <1>4, <1>5, <1>6, <1>7, <1>8, <1>9, <1>10, <1>11 DEF Next, SvcCtrlHandler

(* A login is dropped as unnecessary only while a session is unlocked or   *)
(* the change of one has not been handled, for any number of sessions and  *)
(* whenever the service is started.                                        *)
THEOREM DropCorrect == Spec => DropIsExplained
  <1>1. Init => FlagInv
    <2> SUFFICES ASSUME Init PROVE FlagInv
      OBVIOUS
    <2>1. controls \in Seq(Controls) /\ Len(controls) = 0
      BY DEF Init
    <2> QED
      BY <2>1 DEF Init, FlagInv, Changes, Unlocking
  <1>2. FlagInv /\ [Next]_vars => [LoginDropped => SomeUnlocked]_vars
    <2> SUFFICES ASSUME FlagInv, LoginDropped, ~SomeUnlocked PROVE FALSE
      OBVIOUS
    <2>1. NoChangeAfter(0)
      BY DEF SomeUnlocked, NoChangeAfter
    <2> QED
      BY <2>1 DEF FlagInv, LoginDropped, SomeUnlocked, Unlocked
  <1> QED
    BY <1>1, <1>2, TypeCorrect, FlagNext, PTL DEF Spec, DropIsExplained
=============================================================================
