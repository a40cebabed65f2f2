-------------------------- MODULE AgentDaemonProofs --------------------------
(***************************************************************************)
(* Theorems about AgentDaemon, for any number of signals, logins and       *)
(* exceptions.  Each safety property gets the strengthening that says      *)
(* where the main thread is while the other threads are in what state.     *)
(***************************************************************************)
EXTENDS AgentDaemon, TLAPS

(* A stop finds the credential server over, and it is never started again: *)
(* its only start lies behind the main thread.                             *)
StopInv ==
    /\ main \in {"setup", "writepid", "register", "startcred"}
           => cred = "unborn"
    /\ StopIsComplete

(* Past its handler the main thread only gets on when the worker has       *)
(* ended, and a handler that raises finds it before the worker's start.    *)
WorkerBehind ==
    /\ main \in Handling => hears
    /\ main \in {"startlistener", "startworker", "wait"} => CredStarted
    /\ main \in {"setup", "writepid", "register", "startcred", "awaitcred",
                 "startlistener", "startworker", "raised"}
           => worker = "unborn"
    /\ main \in {"down", "finalize", "joincred", "exited"}
           => worker \in {"unborn", "done"}
    /\ worker = "done" /\ failures = 0 => announced

(* A signal that was counted is still to be handled, is being handled, or  *)
(* has thrown the main thread out of run().                                *)
One(x) == IF x THEN 1 ELSE 0

Signals ==
    One(term) + One(handler = "joining") + One(main = "raised" /\ hears)

(* The main thread passes the finally clause before it exits, and a signal *)
(* can only raise there if it is not the first.                            *)
PidFileInv ==
    /\ main \in {"setup", "writepid", "register"} => ~hears
    /\ term \/ handler = "joining" => hears
    /\ main \in {"startlistener", "startworker", "wait", "down"}
           => CredStarted
    /\ Signals <= terms
    /\ main \in {"finalize", "joincred"} /\ ownPidFile /\ pidFile
           => unlinkFailed \/ terms > 1
    /\ CleanExit

-----------------------------------------------------------------------------
(* The state is well typed; every count stays within its bound.            *)
THEOREM TypeCorrect == Spec => []TypeOK
  <1>0. MaxTerms \in Nat /\ MaxLogins \in Nat /\ MaxFailures \in Nat
    BY DaemonAssumption
  <1>1. Init => TypeOK
    <2> SUFFICES ASSUME Init PROVE TypeOK
      OBVIOUS
    <2>1. terms \in 0..MaxTerms /\ logins \in 0..MaxLogins
              /\ failures \in 0..MaxFailures
      BY <1>0 DEF Init
    <2> QED
      BY <2>1 DEF Init, TypeOK, Places, Handling
  <1>2. TypeOK /\ [Next]_vars => TypeOK'
    <2> SUFFICES ASSUME TypeOK, [Next]_vars PROVE TypeOK'
      OBVIOUS
    <2> USE <1>0
            DEF TypeOK, Places, Handling, Goes, Fails, signalVars, credVars,
                threadVars, fileVars, boundVars
    <2>1. CASE SetUp \/ WritePid \/ Register \/ StartCred \/ CredIsStarted
      <3>1. CASE SetUp \/ WritePid \/ CredIsStarted
        BY <3>1, ZenonT(40) DEF SetUp, WritePid, CredIsStarted
      <3>2. CASE Register
        BY <3>2 DEF Register
      <3>3. CASE StartCred
        BY <3>3 DEF StartCred
      <3> QED
        BY <2>1, <3>1, <3>2, <3>3
    <2>2. CASE StartListener \/ StartWorker \/ WorkerJoined \/ Unlink
      <3>1. CASE StartListener \/ StartWorker \/ WorkerJoined
        BY <3>1 DEF StartListener, StartWorker, WorkerJoined
      <3>2. CASE Unlink
        <4>1. main' \in Places /\ failures' \in 0..MaxFailures
          BY <3>2 DEF Unlink
        <4>2. pidFile' \in BOOLEAN /\ unlinkFailed' \in BOOLEAN
          BY <3>2, ZenonT(40) DEF Unlink
        <4>3. UNCHANGED <<signalVars, credVars, threadVars, ownPidFile,
                          announced, terms, logins>>
          BY <3>2 DEF Unlink
        <4> QED
          BY <4>1, <4>2, <4>3
      <3> QED
        BY <2>2, <3>1, <3>2
    <2>3. CASE JoinThread \/ ThreadJoined \/ Exit
      BY <2>3 DEF JoinThread, ThreadJoined, Exit
    <2>4. CASE HandlerStep
      <3>1. CASE HandleTerm
        <4>1. term' \in BOOLEAN /\ quit' \in BOOLEAN
          BY <3>1 DEF HandleTerm
        <4>2. handler' \in {"none", "joining"}
          BY <3>1 DEF HandleTerm
        <4>3. UNCHANGED <<main, hears, killed, waitStop, cred, threadVars,
                          fileVars, announced, boundVars>>
          BY <3>1 DEF HandleTerm
        <4> QED
          BY <4>1, <4>2, <4>3
      <3>2. CASE JoinRaises
        BY <3>2 DEF JoinRaises
      <3>3. CASE StopAfterJoin
        BY <3>3 DEF StopAfterJoin
      <3> QED
        BY <2>4, <3>1, <3>2, <3>3 DEF HandlerStep
    <2>5. CASE CredStep
      BY <2>5, ZenonT(40) DEF CredStep, CredBootstraps, CredOnBus, CredQuits
    <2>6. CASE WorkerStep
      BY <2>6, ZenonT(40) DEF WorkerStep, WorkerReports, WorkerStops, WorkerCloses
    <2>7. CASE ListenerStep \/ ChannelEnds
      BY <2>7 DEF ListenerStep, LoginRaises, LoginReturns, ListenerStops,
                  ChannelEnds
    <2>8. CASE Sigterm
      <3>1. terms' \in 0..MaxTerms
        BY <2>8 DEF Sigterm
      <3>2. main' \in Places /\ term' \in BOOLEAN /\ killed' \in BOOLEAN
        BY <2>8 DEF Sigterm
      <3>3. UNCHANGED <<hears, handler, waitStop, credVars, threadVars, fileVars,
                        announced, logins, failures>>
        BY <2>8 DEF Sigterm
      <3> QED
        BY <3>1, <3>2, <3>3
    <2>9. CASE StartFails
      BY <2>9 DEF StartFails
    <2>10. CASE CredFails
      BY <2>10 DEF CredFails
    <2>11. CASE WorkerRaises
      BY <2>11 DEF WorkerRaises
    <2>12. CASE Login
      BY <2>12 DEF Login
    <2>13. CASE UNCHANGED vars
      BY <2>13 DEF vars
    <2> QED
      BY <2>1, <2>2, <2>3, <2>4, <2>5, <2>6, <2>7, <2>8, <2>9, <2>10,
         <2>11, <2>12, <2>13 DEF Next, MainStep, Environment
  <1> QED
    BY <1>1, <1>2, PTL DEF Spec

-----------------------------------------------------------------------------
(* A stop that was completed has ended the credential server before, which *)
(* never starts again.                                                     *)
THEOREM StopCorrect == Spec => []StopIsComplete
  <1>1. Init => StopInv
    BY DEF Init, StopInv, StopIsComplete
  <1>2. StopInv /\ [Next]_vars => StopInv'
    <2> SUFFICES ASSUME StopInv, [Next]_vars PROVE StopInv'
      OBVIOUS
    <2> USE DEF StopInv, StopIsComplete, CredOver, Goes, signalVars,
                credVars, threadVars, fileVars, boundVars
    <2>1. CASE MainStep
      BY <2>1 DEF MainStep, SetUp, WritePid, Register, StartCred,
                  CredIsStarted, StartListener, StartWorker, WorkerJoined,
                  Unlink, JoinThread, ThreadJoined, Exit
    <2>2. CASE HandlerStep
      BY <2>2 DEF HandlerStep, HandleTerm, JoinRaises, StopAfterJoin
    <2>3. CASE CredStep \/ CredFails
      BY <2>3 DEF CredStep, CredBootstraps, CredOnBus, CredQuits, CredFails
    <2>4. CASE WorkerStep \/ WorkerRaises
      BY <2>4 DEF WorkerStep, WorkerReports, WorkerStops, WorkerCloses,
                  WorkerRaises
    <2>5. CASE ListenerStep \/ ChannelEnds \/ Login
      BY <2>5 DEF ListenerStep, LoginRaises, LoginReturns, ListenerStops,
                  ChannelEnds, Login
    <2>6. CASE Sigterm \/ StartFails
      BY <2>6 DEF Sigterm, StartFails
    <2>7. CASE UNCHANGED vars
      BY <2>7 DEF vars
    <2> QED
      BY <2>1, <2>2, <2>3, <2>4, <2>5, <2>6, <2>7 DEF Next, Environment
  <1>3. StopInv => StopIsComplete
    BY DEF StopInv
  <1> QED
    BY <1>1, <1>2, <1>3, PTL DEF Spec

-----------------------------------------------------------------------------
(* Without an exception the process does not exit before its worker has    *)
(* sent session-shutdown.                                                  *)
THEOREM ExitCorrect == Spec => []ExitIsAnnounced
  <1>1. Init => WorkerBehind
    BY DEF Init, WorkerBehind, Handling
  <1>2. TypeOK /\ WorkerBehind /\ [Next]_vars => WorkerBehind'
    <2> SUFFICES ASSUME TypeOK, WorkerBehind, [Next]_vars
                 PROVE  WorkerBehind'
      OBVIOUS
    <2> USE DEF WorkerBehind, Handling, CredStarted, Goes, signalVars, credVars,
                threadVars, fileVars, boundVars
    <2>0. failures \in Nat
      BY DaemonAssumption DEF TypeOK
    <2>1. CASE SetUp \/ WritePid \/ Register \/ StartCred \/ CredIsStarted
      BY <2>1 DEF SetUp, WritePid, Register, StartCred, CredIsStarted
    <2>2. CASE StartListener \/ StartWorker \/ WorkerJoined
      BY <2>2 DEF StartListener, StartWorker, WorkerJoined
    <2>13. CASE Unlink
      BY <2>0, <2>13 DEF Unlink, Fails
    <2>3. CASE JoinThread \/ ThreadJoined \/ Exit
      BY <2>3 DEF JoinThread, ThreadJoined, Exit
    <2>4. CASE HandlerStep
      BY <2>4 DEF HandlerStep, HandleTerm, JoinRaises, StopAfterJoin
    <2>5. CASE CredStep
      BY <2>5 DEF CredStep, CredBootstraps, CredOnBus, CredQuits
    <2>6. CASE CredFails
      BY <2>0, <2>6 DEF CredFails, Fails
    <2>7. CASE WorkerStep
      BY <2>7 DEF WorkerStep, WorkerReports, WorkerStops, WorkerCloses
    <2>8. CASE WorkerRaises
      BY <2>0, <2>8 DEF WorkerRaises, Fails
    <2>9. CASE ListenerStep \/ ChannelEnds \/ Login
      BY <2>9 DEF ListenerStep, LoginRaises, LoginReturns, ListenerStops,
                  ChannelEnds, Login
    <2>10. CASE Sigterm
      BY <2>10 DEF Sigterm, TypeOK, Places
    <2>11. CASE StartFails
      BY <2>0, <2>11 DEF StartFails, Fails
    <2>12. CASE UNCHANGED vars
      BY <2>12 DEF vars
    <2> QED
      BY <2>1, <2>2, <2>3, <2>4, <2>5, <2>6, <2>7, <2>8, <2>9, <2>10,
         <2>11, <2>12, <2>13 DEF Next, MainStep, Environment
  <1>3. WorkerBehind => ExitIsAnnounced
    BY DEF WorkerBehind, ExitIsAnnounced
  <1> QED
    BY <1>1, <1>2, <1>3, TypeCorrect, PTL DEF Spec

-----------------------------------------------------------------------------
(* A first signal can throw the main thread out of run(), and only another *)
(* one out of the clause that removes the pid file.                        *)
LEMMA RaisesCounted ==
  ASSUME TypeOK, PidFileInv, JoinRaises
  PROVE  PidFileInv'
  <1> USE DEF PidFileInv, CleanExit
  <1>0. /\ handler = "joining" /\ handler' = "none" /\ ~CredStarted /\ hears
        /\ UNCHANGED <<hears, term, killed, cred, ownPidFile, pidFile,
                       unlinkFailed, terms>>
    BY DEF JoinRaises, credVars, fileVars, boundVars
  <1>1. terms \in Nat /\ CredStarted' = CredStarted
    BY <1>0, DaemonAssumption DEF TypeOK, CredStarted
  <1>2. One(term) + 1 + One(main = "raised" /\ hears) <= terms
    BY <1>0 DEF Signals, One
  <1>3. Signals' = One(term) + One(main' = "raised" /\ hears)
    <2>1. One(handler' = "joining") = 0
      BY <1>0 DEF One
    <2> QED
      BY <1>0, <2>1 DEF Signals, One
  <1>4. Signals' <= terms'
    <2>1. One(term) \in 0..1 /\ One(main = "raised" /\ hears) \in 0..1
          /\ One(main' = "raised" /\ hears) \in 0..1
      BY DEF One
    <2> QED
      BY <1>0, <1>1, <1>2, <1>3, <2>1
  <1>5. main = "raised" => terms > 1
    <2>1. main = "raised" => One(main = "raised" /\ hears) = 1
      BY <1>0 DEF One
    <2>2. One(term) \in 0..1
      BY DEF One
    <2> QED
      BY <1>1, <1>2, <2>1, <2>2
  <1>6. main \notin {"startlistener", "startworker", "wait", "down"}
    BY <1>0
  <1>7. CASE main \in Handling /\ main' = "raised"
    BY <1>0, <1>1, <1>4, <1>7
  <1>8. CASE UNCHANGED main
    BY <1>0, <1>1, <1>4, <1>8
  <1>9. CASE main \in {"down", "raised"} /\ main' = "finalize"
    BY <1>0, <1>1, <1>4, <1>5, <1>6, <1>9
  <1>10. CASE main = "finalize" /\ main' = "exited"
    BY <1>0, <1>1, <1>4, <1>10
  <1> QED
    BY <1>7, <1>8, <1>9, <1>10 DEF JoinRaises

(* A pid file that an exit leaves behind could not be removed, or more was *)
(* in the way than one signal that found its handler.                      *)
THEOREM PidFileCorrect == Spec => []CleanExit
  <1>1. Init => PidFileInv
    BY DaemonAssumption
       DEF Init, PidFileInv, CleanExit, Signals, One, CredStarted
  <1>2. TypeOK /\ PidFileInv /\ [Next]_vars => PidFileInv'
    <2> SUFFICES ASSUME TypeOK, PidFileInv, [Next]_vars PROVE PidFileInv'
      OBVIOUS
    <2> USE DEF PidFileInv, CleanExit, CredStarted, Goes, signalVars,
                credVars, threadVars, fileVars, boundVars
    <2>0. terms \in Nat
      BY DaemonAssumption DEF TypeOK
    <2>1. CASE SetUp \/ WritePid \/ Register \/ StartCred \/ CredIsStarted
      BY <2>0, <2>1 DEF SetUp, WritePid, Register, StartCred, CredIsStarted,
                        Signals, One
    <2>2. CASE StartListener \/ StartWorker \/ WorkerJoined
      BY <2>0, <2>2 DEF StartListener, StartWorker, WorkerJoined, Signals, One
    <2>3. CASE Unlink
      <3>1. Signals' <= terms'
        BY <2>0, <2>3 DEF Unlink, Signals, One
      <3> QED
        BY <2>3, <3>1 DEF Unlink
    <2>4. CASE JoinThread \/ ThreadJoined \/ Exit
      BY <2>0, <2>4 DEF JoinThread, ThreadJoined, Exit, Signals, One
    <2>5. CASE HandleTerm
      BY <2>0, <2>5 DEF HandleTerm, Signals, One
    <2>6. CASE JoinRaises
      BY <2>6, RaisesCounted
    <2>7. CASE StopAfterJoin
      BY <2>0, <2>7 DEF StopAfterJoin, Signals, One
    <2>8. CASE CredStep \/ CredFails
      BY <2>8 DEF CredStep, CredBootstraps, CredOnBus, CredQuits, CredFails,
                  Signals
    <2>9. CASE WorkerStep \/ WorkerRaises
      BY <2>9 DEF WorkerStep, WorkerReports, WorkerStops, WorkerCloses,
                  WorkerRaises, Signals
    <2>10. CASE ListenerStep \/ ChannelEnds \/ Login
      BY <2>10 DEF ListenerStep, LoginRaises, LoginReturns, ListenerStops,
                   ChannelEnds, Login, Signals
    <2>11. CASE Sigterm
      BY <2>0, <2>11 DEF Sigterm, Signals, One
    <2>12. CASE StartFails
      <3>1. Signals' <= terms'
        BY <2>0, <2>12 DEF StartFails, Signals, One
      <3> QED
        BY <2>12, <3>1 DEF StartFails
    <2>13. CASE UNCHANGED vars
      BY <2>13 DEF vars, Signals
    <2> QED
      BY <2>1, <2>2, <2>3, <2>4, <2>5, <2>6, <2>7, <2>8, <2>9, <2>10, <2>11,
         <2>12, <2>13 DEF Next, MainStep, HandlerStep, Environment
  <1>3. PidFileInv => CleanExit
    BY DEF PidFileInv
  <1> QED
    BY <1>1, <1>2, <1>3, TypeCorrect, PTL DEF Spec
=============================================================================
