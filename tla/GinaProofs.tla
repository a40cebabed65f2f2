----------------------------- MODULE GinaProofs ------------------------------
(***************************************************************************)
(* Theorems about Gina, for every Winlogon, registry and set of original   *)
(* libraries, and any number of threads, logins and failures.              *)
(***************************************************************************)
EXTENDS Gina, SequenceTheorems, TLAPS

(***************************************************************************)
(* The version that is negotiated.                                         *)
(***************************************************************************)
\* Every function that a Winlogon may call.
All == Calls(4)

LEMMA NamesOfConcat ==
  ASSUME NEW s \in Seq(All), NEW u \in Seq(All)
  PROVE  s \o u \in Seq(All) /\ Names(s \o u) = Names(s) \cup Names(u)
  <1>1. /\ s \o u \in Seq(All) /\ Len(s \o u) = Len(s) + Len(u)
        /\ \A i \in 1 .. Len(s) + Len(u) : (s \o u)[i] = IF i <= Len(s) THEN s[i] ELSE u[i - Len(s)]
    BY ConcatProperties
  <1>2. Len(s) \in Nat /\ Len(u) \in Nat /\ DOMAIN s = 1 .. Len(s) /\ DOMAIN u = 1 .. Len(u)
        /\ DOMAIN (s \o u) = 1 .. Len(s) + Len(u)
    BY <1>1, LenProperties
  <1>3. ASSUME NEW i \in DOMAIN (s \o u) PROVE (s \o u)[i] \in Names(s) \cup Names(u)
    <2>1. CASE i <= Len(s)
      BY <1>1, <1>2, <2>1 DEF Names
    <2>2. CASE ~(i <= Len(s))
      <3>1. i - Len(s) \in DOMAIN u /\ (s \o u)[i] = u[i - Len(s)]
        BY <1>1, <1>2, <2>2
      <3> QED
        BY <3>1 DEF Names
    <2> QED
      BY <2>1, <2>2
  <1>4. ASSUME NEW i \in DOMAIN s PROVE s[i] \in Names(s \o u)
    <2>1. i \in DOMAIN (s \o u) /\ (s \o u)[i] = s[i]
      BY <1>1, <1>2
    <2> QED
      BY <2>1 DEF Names
  <1>5. ASSUME NEW i \in DOMAIN u PROVE u[i] \in Names(s \o u)
    <2>1. Len(s) + i \in DOMAIN (s \o u) /\ (s \o u)[Len(s) + i] = u[i]
      BY <1>1, <1>2
    <2> QED
      BY <2>1 DEF Names
  <1> QED
    BY <1>1, <1>3, <1>4, <1>5 DEF Names

\* The functions that are looked up are those a Winlogon of the version calls.
Wanted(version) ==
  Since10
    \o (IF version > 0 THEN Since11 ELSE <<>>)
    \o (IF version > 2 THEN Since13 ELSE <<>>)
    \o (IF version > 3 THEN Since14 ELSE <<>>)

LEMMA TupleOfNames ==
  ASSUME NEW s, NEW n \in Nat, DOMAIN s = 1 .. n, s = [i \in 1 .. n |-> s[i]], NEW S, Names(s) \subseteq S
  PROVE  s \in Seq(S)
  <1>1. \A i \in 1 .. n : s[i] \in S
    BY DEF Names
  <1> QED
    BY <1>1

LEMMA TheirNames ==
  /\ Since10 \in Seq(All) /\ Since11 \in Seq(All)
  /\ Since13 \in Seq(All) /\ Since14 \in Seq(All)
  <1>1. /\ Names(Since10) \subseteq All /\ Names(Since11) \subseteq All
        /\ Names(Since13) \subseteq All /\ Names(Since14) \subseteq All
    BY DEF All, Calls
  <1>2. Since10 \in Seq(All)
    <2>1. DOMAIN Since10 = 1 .. 11 /\ Since10 = [i \in 1 .. 11 |-> Since10[i]]
      BY DEF Since10
    <2> QED
      BY <1>1, <2>1, TupleOfNames
  <1>3. Since11 \in Seq(All)
    <2>1. DOMAIN Since11 = 1 .. 2 /\ Since11 = [i \in 1 .. 2 |-> Since11[i]]
      BY DEF Since11
    <2> QED
      BY <1>1, <2>1, TupleOfNames
  <1>4. Since13 \in Seq(All)
    <2>1. DOMAIN Since13 = 1 .. 4 /\ Since13 = [i \in 1 .. 4 |-> Since13[i]]
      BY DEF Since13
    <2> QED
      BY <1>1, <2>1, TupleOfNames
  <1>5. Since14 \in Seq(All)
    <2>1. DOMAIN Since14 = 1 .. 3 /\ Since14 = [i \in 1 .. 3 |-> Since14[i]]
      BY DEF Since14
    <2> QED
      BY <1>1, <2>1, TupleOfNames
  <1> QED
    BY <1>2, <1>3, <1>4, <1>5

LEMMA NamesFrom ==
  ASSUME NEW version \in Nat, NEW m \in Nat, NEW n \in Nat, n = m + 1, NEW s
  PROVE  Names(IF version > m THEN s ELSE <<>>) = IF version >= n THEN Names(s) ELSE {}
  <1>1. CASE version > m
    <2>1. version >= n
      BY <1>1
    <2> QED
      BY <1>1, <2>1
  <1>2. CASE ~(version > m)
    <2>1. ~(version >= n)
      BY <1>2
    <2>2. Names(<<>>) = {}
      BY DEF Names
    <2> QED
      BY <1>2, <2>1, <2>2
  <1> QED
    BY <1>1, <1>2

LEMMA WantedAreCalled ==
  ASSUME NEW version \in Nat
  PROVE  Wanted(version) \in Seq(All) /\ Names(Wanted(version)) = Calls(version)
  <1> DEFINE b == IF version > 0 THEN Since11 ELSE <<>>
             c == IF version > 2 THEN Since13 ELSE <<>>
             d == IF version > 3 THEN Since14 ELSE <<>>
  <1>1. Since10 \in Seq(All) /\ Since11 \in Seq(All) /\ Since13 \in Seq(All) /\ Since14 \in Seq(All)
    BY TheirNames
  <1>2. <<>> \in Seq(All) /\ Names(<<>>) = {}
    BY DEF Names
  <1>3. b \in Seq(All) /\ c \in Seq(All) /\ d \in Seq(All)
    BY <1>1, <1>2
  <1>14. Names(b) = IF version >= 1 THEN Names(Since11) ELSE {}
    BY NamesFrom
  <1>15. Names(c) = IF version >= 3 THEN Names(Since13) ELSE {}
    BY NamesFrom
  <1>16. Names(d) = IF version >= 4 THEN Names(Since14) ELSE {}
    BY NamesFrom
  <1>5. Wanted(version) = ((Since10 \o b) \o c) \o d
    BY DEF Wanted
  <1> HIDE DEF b, c, d
  <1>6. Since10 \o b \in Seq(All) /\ Names(Since10 \o b) = Names(Since10) \cup Names(b)
    BY <1>1, <1>3, NamesOfConcat
  <1>7. (Since10 \o b) \o c \in Seq(All) /\ Names((Since10 \o b) \o c) = Names(Since10 \o b) \cup Names(c)
    BY <1>3, <1>6, NamesOfConcat
  <1>8. Wanted(version) \in Seq(All) /\ Names(Wanted(version)) = Names((Since10 \o b) \o c) \cup Names(d)
    BY <1>3, <1>5, <1>7, NamesOfConcat
  <1> QED
    BY <1>14, <1>15, <1>16, <1>6, <1>7, <1>8 DEF Calls

\* A successful look-up has found everything that is a must.
LEMMA OkField ==
  ASSUME NEW x, NEW S, NEW T, x = [ok |-> S = {}, pf |-> T]
  PROVE  (x.ok <=> S = {}) /\ x.pf = T
  BY Zenon

LEMMA Loads ==
  ASSUME NEW dll, NEW version \in Nat, MyInitialize(dll, version).ok
  PROVE  Calls(version) \ Optional \subseteq MyInitialize(dll, version).pf
  <1> DEFINE wanted == Wanted(version)
             missing == {i \in DOMAIN wanted : wanted[i] \notin dll.exports \cup Optional}
             tried == {i \in DOMAIN wanted : \A j \in missing : i <= j}
  <1>1. MyInitialize(dll, version) = [ok |-> missing = {}, pf |-> {wanted[i] : i \in tried} \cap dll.exports]
    BY DEF MyInitialize, Wanted
  <1> HIDE DEF wanted
  <1>7. MyInitialize(dll, version).ok <=> missing = {}
    <2> HIDE DEF missing, tried
    <2> QED
      BY <1>1, OkField
  <1>2. missing = {}
    BY <1>7
  <1>3. MyInitialize(dll, version).pf = {wanted[i] : i \in tried} \cap dll.exports
    BY <1>1
  <1>4. tried = DOMAIN wanted
    BY <1>2
  <1>5. Names(wanted) = Calls(version)
    BY WantedAreCalled DEF wanted
  <1>6. \A i \in DOMAIN wanted : wanted[i] \in dll.exports \cup Optional
    BY <1>2
  <1> QED
    BY <1>3, <1>4, <1>5, <1>6 DEF Names

LEMMA Negotiates ==
  ASSUME NEW winlogon \in Nat, NEW dll, dll.version \in Nat, WlxNegotiate(winlogon, dll).ok
  PROVE  Calls(WlxNegotiate(winlogon, dll).version) \ Optional \subseteq WlxNegotiate(winlogon, dll).pf
  <1> DEFINE agreed == Lowest(Lowest(GINASTUB_VERSION, winlogon), dll.version)
             loaded == MyInitialize(dll, agreed)
  <1>1. agreed \in Nat
    BY DEF Lowest, GINASTUB_VERSION
  <1>2. CASE dll.found /\ loaded.ok
    <2>1. WlxNegotiate(winlogon, dll) = [ok |-> TRUE, pf |-> loaded.pf, version |-> agreed]
      BY <1>2 DEF WlxNegotiate
    <2> HIDE DEF agreed
    <2>2. Calls(agreed) \ Optional \subseteq loaded.pf
      BY <1>1, <1>2, Loads
    <2> QED
      BY <2>1, <2>2
  <1>3. CASE ~(dll.found /\ loaded.ok)
    <2>1. WlxNegotiate(winlogon, dll) = Refused
      BY <1>3 DEF WlxNegotiate
    <2>2. ~Refused.ok
      BY DEF Refused
    <2> QED
      BY <2>1, <2>2
  <1> QED
    BY <1>2, <1>3

(***************************************************************************)
(* The stub's variables, and what every step keeps of them.                *)
(***************************************************************************)
Stub ==
  /\ DOMAIN stub = {"at", "pf", "version", "registry"}
  /\ stub.registry \in Registries

IInv == Stub /\ NegotiatedIsLoaded

\* Only Boot changes what was negotiated.
Kept == stub' = stub \/ (stub.at \in {"negotiated", "running"} /\ \E at : stub' = [stub EXCEPT !.at = at])

LEMMA OthersKeep ==
  ASSUME Next, ~Boot
  PROVE  Kept
  <1>1. ASSUME NEW x \in {"negotiated", "running"}, NEW at, stub.at = x, stub' = [stub EXCEPT !.at = at]
        PROVE  Kept
    BY <1>1 DEF Kept
  <1>2. CASE WlxInitialize
    BY <1>2, <1>1 DEF WlxInitialize
  <1>3. CASE CallOriginal
    BY <1>3, <1>1 DEF CallOriginal
  <1>4. CASE ShowNotice \/ NoticeAnswered \/ ShowLogon \/ OtherMessage \/ FieldsPosted \/ OkPosted \/ DestroyDialog
    BY <1>4 DEF Kept, ShowNotice, NoticeAnswered, ShowLogon, OtherMessage, FieldsPosted, OkPosted, DestroyDialog
  <1>5. CASE WlxDisconnectNotify \/ PersonAnswers \/ PersonTypes \/ PersonPressesOk \/ CancelOrTimeout
               \/ SessionChange
    BY <1>5 DEF Kept, WlxDisconnectNotify, PersonAnswers, PersonTypes, PersonPressesOk, CancelOrTimeout, SessionChange
  <1>6. CASE Agent
    BY <1>6 DEF Kept, Agent, CallFails, CallPipe, agentRest
  <1>7. ASSUME NEW t \in Threads, ThreadFunc(t) \/ Fails(t) PROVE Kept
    BY <1>7 DEF Kept, ThreadFunc, Fails, CreatePipe, StorePipe, ConnectPipe, ReadPipe, ClosePipe, ForgetPipe, PostMessage,
                  uiRest
  <1> QED
    BY <1>2, <1>3, <1>4, <1>5, <1>6, <1>7 DEF Next, Winlogon, People

LEMMA StubInit ==
  Init => IInv
  BY DEF Init, IInv, Stub, NegotiatedIsLoaded

LEMMA StubNext ==
  IInv /\ [Next]_vars => IInv'
  <1> SUFFICES ASSUME IInv, [Next]_vars PROVE IInv'
    OBVIOUS
  <1> USE DEF IInv, Stub, NegotiatedIsLoaded
  <1>1. CASE Boot
    <2>1. PICK winlogon \in WinlogonVersions, dll \in Originals[ChainedGina(stub.registry)] :
            LET n == WlxNegotiate(winlogon, dll)
            IN  stub' = [stub EXCEPT !.at = IF n.ok THEN "negotiated" ELSE "refused",
                                     !.pf = n.pf, !.version = n.version]
      BY <1>1 DEF Boot
    <2> DEFINE n == WlxNegotiate(winlogon, dll)
    <2>2. winlogon \in Nat /\ dll.version \in Nat
      BY GinaAssumption
    <2>3. n.ok => Calls(n.version) \ Optional \subseteq n.pf
      BY <2>2, Negotiates
    <2>4. stub' = [stub EXCEPT !.at = IF n.ok THEN "negotiated" ELSE "refused",
                               !.pf = n.pf, !.version = n.version]
      BY <2>1
    <2> HIDE DEF n
    <2>5. CASE n.ok
      BY <2>3, <2>4, <2>5
    <2>6. CASE ~n.ok
      BY <2>4, <2>6
    <2> QED
      BY <2>5, <2>6
  <1>2. ASSUME Kept PROVE IInv'
    <2>1. CASE stub' = stub
      BY <2>1
    <2>2. ASSUME stub.at \in {"negotiated", "running"}, NEW at, stub' = [stub EXCEPT !.at = at] PROVE IInv'
      BY <2>2
    <2> QED
      BY <1>2, <2>1, <2>2 DEF Kept
  <1>3. CASE UNCHANGED vars
    BY <1>3, <1>2 DEF vars, Kept
  <1> QED
    BY <1>1, <1>2, <1>3, OthersKeep

\* What Winlogon and the original have agreed on, the stub can call.
THEOREM NegotiationCorrect == Spec => []NegotiatedIsLoaded
  <1>1. IInv => NegotiatedIsLoaded
    BY DEF IInv
  <1> QED
    BY <1>1, StubInit, StubNext, PTL DEF Spec

(***************************************************************************)
(* The listener: Mine(L) says that the dialog's variables L know every     *)
(* thread that lives and that its pipe is the thread's, which the thread   *)
(* has not closed, or is about to forget; Posts(L), that                   *)
(* whoever lives posts to the dialog that is shown.                        *)
(***************************************************************************)
Shape(L) ==
  /\ DOMAIN L = {"hThread", "hPipe", "attempted", "pc", "pipe", "target", "inbox", "got"}
  /\ DOMAIN L.pc = Threads /\ DOMAIN L.target = Threads /\ DOMAIN L.pipe = Threads
  /\ L.hThread \in {None} \cup Threads /\ L.hPipe \in {None} \cup Threads

\* Where a thread's handle may be stored.
Holding == {"connect", "read", "close", "forget", "failed"}

Mine(L) ==
  /\ Shape(L)
  /\ \A t \in Threads : L.pc[t] # "none" => t = L.hThread
  /\ \A t \in Threads : L.hPipe = t => L.hThread = t /\ L.pc[t] \in Holding
  /\ \A t \in Threads : L.pc[t] \in {"store", "connect", "read", "close"} => L.pipe[t] # "closed"

Posts(L) == \A t \in Threads : L.pc[t] # "none" => L.target[t]

Dead(L) == \A t \in Threads : L.pc[t] = "none"

LEMMA EndMine ==
  ASSUME NEW L, Shape(L), NEW t \in Threads
  PROVE  /\ Shape(End(L, t)) /\ End(L, t).hThread = L.hThread /\ End(L, t).hPipe = L.hPipe
         /\ End(L, t).pc = [L.pc EXCEPT ![t] = "none"] /\ End(L, t).pipe = L.pipe
         /\ \A s \in Threads \ {t} : End(L, t).target[s] = L.target[s]
  BY DEF End, Shape

LEMMA CloseMine ==
  ASSUME NEW L, Shape(L), NEW t \in Threads
  PROVE  /\ Shape(Close(L, t)) /\ Close(L, t).hThread = L.hThread /\ Close(L, t).hPipe = L.hPipe
         /\ Close(L, t).pc = L.pc /\ Close(L, t).target = L.target
         /\ Close(L, t).pipe = [L.pipe EXCEPT ![t] = "closed"]
  BY DEF Close, Shape

LEMMA KillMine ==
  ASSUME NEW L, Mine(L)
  PROVE  /\ Mine(KillListenerThread(L)) /\ Dead(KillListenerThread(L))
         /\ KillListenerThread(L).hThread = None /\ KillListenerThread(L).hPipe = None
  <1>1. None \notin Threads
    BY DEF None, Threads
  <1>2. CASE L.hThread = None
    <2>1. KillListenerThread(L) = L
      BY <1>2 DEF KillListenerThread
    <2> QED
      BY <1>1, <1>2, <2>1 DEF Mine, Shape, Dead
  <1>3. CASE L.hThread # None
    <2> DEFINE K == IF L.hPipe = None THEN L ELSE Close(L, L.hPipe)
               E == End(K, L.hThread)
    <2>1. L.hThread \in Threads
      BY <1>3 DEF Mine, Shape
    <2>2. Shape(K) /\ K.pc = L.pc
      <3>1. CASE L.hPipe = None
        BY <3>1 DEF Mine
      <3>2. CASE L.hPipe # None
        <4>1. Shape(L) /\ L.hPipe \in Threads /\ K = Close(L, L.hPipe)
          BY <3>2 DEF Mine, Shape
        <4>2. Shape(Close(L, L.hPipe)) /\ Close(L, L.hPipe).pc = L.pc
          BY <4>1, CloseMine
        <4> QED
          BY <4>1, <4>2
      <3> QED
        BY <3>1, <3>2
    <2> HIDE DEF K
    <2>3. Shape(E) /\ E.pc = [L.pc EXCEPT ![L.hThread] = "none"]
      BY <2>1, <2>2, EndMine
    <2>4. KillListenerThread(L) = [E EXCEPT !.hPipe = None, !.hThread = None]
      BY <1>3 DEF KillListenerThread, K
    <2> HIDE DEF E
    <2>5. \A t \in Threads : E.pc[t] = "none"
      BY <2>1, <2>3 DEF Mine, Shape
    <2>6. /\ Shape(KillListenerThread(L)) /\ KillListenerThread(L).pc = E.pc
          /\ KillListenerThread(L).hThread = None /\ KillListenerThread(L).hPipe = None
      BY <2>3, <2>4 DEF Shape
    <2> QED
      BY <1>1, <2>5, <2>6 DEF Mine, Dead
  <1> QED
    BY <1>2, <1>3

LEMMA CreateMine ==
  ASSUME NEW L, Mine(L), Dead(L), L.hPipe = None, NEW t \in Threads
  PROVE  Mine(CreateThread(L, t)) /\ Posts(CreateThread(L, t))
  <1> DEFINE C == CreateThread(L, t)
  <1>1. /\ Shape(C) /\ C.hThread = t /\ C.hPipe = None
        /\ C.pc = [L.pc EXCEPT ![t] = "create"] /\ C.target = [L.target EXCEPT ![t] = TRUE]
        /\ C.pipe = L.pipe
    BY DEF CreateThread, Mine, Shape
  <1>2. None \notin Threads
    BY DEF None, Threads
  <1>3. \A s \in Threads : C.pc[s] # "none" => s = t
    BY <1>1 DEF Mine, Shape, Dead
  <1>4. C.target[t]
    BY <1>1 DEF Mine, Shape
  <1> HIDE DEF C
  <1>5. Mine(C) /\ Posts(C)
    BY <1>1, <1>2, <1>3, <1>4 DEF Mine, Posts
  <1> QED
    BY <1>5 DEF C

LEMMA RestartMine ==
  ASSUME NEW L, Mine(L), NEW t \in Threads
  PROVE  Mine(RestartListenerThread(L, t)) /\ Posts(RestartListenerThread(L, t))
  BY KillMine, CreateMine DEF RestartListenerThread

LEMMA AttemptedMine ==
  ASSUME NEW L, Mine(L), NEW v
  PROVE  Mine([L EXCEPT !.attempted = v]) /\ (Posts(L) => Posts([L EXCEPT !.attempted = v]))
  <1> DEFINE A == [L EXCEPT !.attempted = v]
  <1>1. /\ A.pc = L.pc /\ A.target = L.target /\ A.pipe = L.pipe
        /\ A.hThread = L.hThread /\ A.hPipe = L.hPipe /\ DOMAIN A = DOMAIN L
    BY DEF Mine, Shape
  <1> HIDE DEF A
  <1>2. Mine(A) /\ (Posts(L) => Posts(A))
    BY <1>1 DEF Mine, Shape, Posts
  <1> QED
    BY <1>2 DEF A

LEMMA ProcMine ==
  ASSUME NEW L, Mine(L), NEW t \in Threads, NEW msg \in {"init", "ok", "other"}
  PROVE  /\ Mine(LogonDlgProc(L, msg, t))
         /\ (Posts(L) \/ msg = "init") => Posts(LogonDlgProc(L, msg, t))
  <1> DEFINE K == IF L.attempted /\ Config.restart
                 THEN [RestartListenerThread(L, t) EXCEPT !.attempted = FALSE] ELSE L
  <1>1. Mine(K) /\ (Posts(L) => Posts(K))
    <2>1. Mine(RestartListenerThread(L, t)) /\ Posts(RestartListenerThread(L, t))
      BY RestartMine
    <2>2. CASE L.attempted /\ Config.restart
      BY <2>1, <2>2, AttemptedMine
    <2>3. CASE ~(L.attempted /\ Config.restart)
      BY <2>3
    <2> QED
      BY <2>2, <2>3
  <1>2. LogonDlgProc(L, msg, t) = CASE msg = "init" -> RestartListenerThread(K, t)
                                    [] msg = "ok" -> [K EXCEPT !.attempted = TRUE]
                                    [] OTHER -> K
    BY DEF LogonDlgProc
  <1> HIDE DEF K
  <1>3. CASE msg = "init"
    BY <1>1, <1>2, <1>3, RestartMine
  <1>4. CASE msg = "ok"
    BY <1>1, <1>2, <1>4, AttemptedMine
  <1>5. CASE msg = "other"
    BY <1>1, <1>2, <1>5
  <1> QED
    BY <1>3, <1>4, <1>5

LInv ==
  /\ Stub
  /\ Mine(lsn)
  /\ Open /\ Listened => Posts(lsn)

LEMMA RegistryStays ==
  ASSUME Stub, [Next]_vars
  PROVE  Stub' /\ stub'.registry = stub.registry /\ Wrapped' = Wrapped /\ Config' = Config
  <1>1. Stub' /\ stub'.registry = stub.registry
    <2>1. CASE Boot
      <3>1. PICK a, b, c : stub' = [stub EXCEPT !.at = a, !.pf = b, !.version = c]
        BY <2>1 DEF Boot
      <3> QED
        BY <3>1 DEF Stub
    <2>2. CASE ~Boot /\ Next
      <3>1. Kept
        BY <2>2, OthersKeep
      <3>2. CASE stub' = stub
        BY <3>2 DEF Stub
      <3>3. ASSUME NEW at, stub' = [stub EXCEPT !.at = at] PROVE Stub' /\ stub'.registry = stub.registry
        BY <3>3 DEF Stub
      <3> QED
        BY <3>1, <3>2, <3>3 DEF Kept
    <2>3. CASE UNCHANGED vars
      BY <2>3 DEF vars, Stub
    <2> QED
      BY <2>1, <2>2, <2>3
  <1> QED
    BY <1>1 DEF Wrapped, Config

\* A step that leaves the listener alone opens no dialog that it posts to.
LEMMA LeftAlone ==
  ASSUME LInv, [Next]_vars, Mine(lsn'), Posts(lsn) => Posts(lsn'), screen' = screen, stub'.at = "running" => stub.at = "running"
  PROVE  LInv'
  BY RegistryStays DEF LInv, Open, Listened

LEMMA NotOpened ==
  ASSUME LInv, [Next]_vars, Mine(lsn'), ~Open'
  PROVE  LInv'
  BY RegistryStays DEF LInv

\* A dialog's procedure gets a message.
LEMMA DispatchMine ==
  ASSUME Mine(lsn), NEW msg \in {"init", "ok", "other"}, Dispatch(msg)
  PROVE  Mine(lsn') /\ (Posts(lsn) \/ msg = "init" => Posts(lsn'))
  <1>1. PICK t \in Free : lsn' = LogonDlgProc(lsn, msg, t)
    BY DEF Dispatch
  <1>2. t \in Threads
    BY DEF Free
  <1> QED
    BY <1>1, <1>2, ProcMine

LEMMA AttemptMine ==
  ASSUME LInv, [Next]_vars, Open, Attempt, UNCHANGED stub
  PROVE  LInv'
  <1>1. screen'.dialog = screen.dialog
    BY DEF Attempt, Then
  <1>2. Listened' = Listened
    BY <1>1, RegistryStays DEF LInv, Listened
  <1>3. CASE Listened
    <2>1. Dispatch("ok")
      BY <1>3 DEF Attempt
    <2>2. Mine(lsn') /\ Posts(lsn')
      BY <1>3, <2>1, DispatchMine DEF LInv
    <2> QED
      BY <2>2, RegistryStays DEF LInv
  <1>4. CASE ~Listened
    <2>1. lsn' = lsn
      BY <1>4 DEF Attempt
    <2> QED
      BY <1>2, <1>4, <2>1, RegistryStays DEF LInv
  <1> QED
    BY <1>3, <1>4

LEMMA ThreadMine ==
  ASSUME Mine(lsn), NEW t \in Threads, ThreadFunc(t) \/ Fails(t)
  PROVE  Mine(lsn') /\ (Posts(lsn) => Posts(lsn'))
  <1> USE DEF Mine, Posts, At
  <1>0. None \notin Threads
    BY DEF None, Threads
  <1>1. CASE CreatePipe(t)
    BY <1>1, <1>0 DEF CreatePipe, Shape, Holding
  <1>2. CASE StorePipe(t)
    BY <1>2, <1>0 DEF StorePipe, Shape, Holding
  <1>3. CASE ConnectPipe(t)
    BY <1>3, <1>0 DEF ConnectPipe, Shape, Holding
  <1>4. CASE ReadPipe(t)
    BY <1>4, <1>0 DEF ReadPipe, Shape, Holding
  <1>5. CASE ClosePipe(t)
    <2> DEFINE C == Close(lsn, t)
    <2>1. /\ Shape(C) /\ C.hThread = lsn.hThread /\ C.hPipe = lsn.hPipe /\ C.pc = lsn.pc
          /\ C.target = lsn.target /\ C.pipe = [lsn.pipe EXCEPT ![t] = "closed"]
      BY CloseMine
    <2>2. lsn' = [C EXCEPT !.pc[t] = "forget"] /\ lsn.pc[t] = "close"
      BY <1>5 DEF ClosePipe
    <2> HIDE DEF C
    <2> QED
      BY <1>0, <2>1, <2>2 DEF Shape, Holding
  <1>8. CASE ForgetPipe(t)
    <2>1. CASE At(t, "forget")
      <3>1. lsn' = [lsn EXCEPT !.pc[t] = "fields", !.hPipe = None] /\ lsn.pc[t] = "forget"
        BY <1>8, <2>1 DEF ForgetPipe
      <3> QED
        BY <1>0, <3>1 DEF Shape
    <2>2. CASE At(t, "failed")
      <3> DEFINE E == End(lsn, t)
      <3>1. /\ Shape(E) /\ E.hThread = lsn.hThread /\ E.pc = [lsn.pc EXCEPT ![t] = "none"]
            /\ E.pipe = lsn.pipe /\ \A s \in Threads \ {t} : E.target[s] = lsn.target[s]
        BY EndMine
      <3>2. lsn' = [E EXCEPT !.hPipe = None]
        BY <1>8, <2>2 DEF ForgetPipe
      <3> HIDE DEF E
      <3> QED
        BY <1>0, <3>1, <3>2 DEF Shape
    <2> QED
      BY <1>8, <2>1, <2>2 DEF ForgetPipe
  <1>6. ASSUME NEW msg \in {"fields", "ok"}, PostMessage(t, msg)
        PROVE  Mine(lsn') /\ (Posts(lsn) => Posts(lsn'))
    <2>1. CASE msg = "ok"
      <3>1. lsn' = End(lsn, t)
        BY <1>6, <2>1 DEF PostMessage
      <3>2. /\ Shape(lsn') /\ lsn'.hThread = lsn.hThread /\ lsn'.hPipe = lsn.hPipe
            /\ lsn'.pc = [lsn.pc EXCEPT ![t] = "none"] /\ lsn'.pipe = lsn.pipe
            /\ \A s \in Threads \ {t} : lsn'.target[s] = lsn.target[s]
        BY <3>1, EndMine
      <3>3. lsn.pc[t] = "ok"
        BY <1>6, <2>1 DEF PostMessage
      <3> QED
        BY <3>2, <3>3 DEF Shape, Holding
    <2>2. CASE msg # "ok"
      <3>1. lsn' = [lsn EXCEPT !.pc[t] = "ok"] /\ lsn.pc[t] = "fields"
        BY <1>6, <2>2 DEF PostMessage
      <3> QED
        BY <3>1 DEF Shape, Holding
    <2> QED
      BY <2>1, <2>2
  <1>7. CASE Fails(t)
    <2>1. CASE At(t, "create") /\ lsn' = [End(lsn, t) EXCEPT !.hPipe = None]
      <3> DEFINE E == End(lsn, t)
      <3>1. /\ Shape(E) /\ E.hThread = lsn.hThread /\ E.pc = [lsn.pc EXCEPT ![t] = "none"]
            /\ E.pipe = lsn.pipe /\ \A s \in Threads \ {t} : E.target[s] = lsn.target[s]
        BY EndMine
      <3>2. lsn' = [E EXCEPT !.hPipe = None]
        BY <2>1
      <3> HIDE DEF E
      <3> QED
        BY <1>0, <3>1, <3>2 DEF Shape
    <2>2. CASE (At(t, "connect") \/ At(t, "read")) /\ lsn' = [Close(lsn, t) EXCEPT !.pc[t] = "failed"]
      <3> DEFINE C == Close(lsn, t)
      <3>1. /\ Shape(C) /\ C.hThread = lsn.hThread /\ C.hPipe = lsn.hPipe /\ C.pc = lsn.pc
            /\ C.target = lsn.target /\ C.pipe = [lsn.pipe EXCEPT ![t] = "closed"]
        BY CloseMine
      <3>2. lsn' = [C EXCEPT !.pc[t] = "failed"] /\ lsn.pc[t] # "none"
        BY <2>2
      <3> HIDE DEF C
      <3> QED
        BY <1>0, <3>1, <3>2 DEF Shape, Holding
    <2> QED
      BY <1>7, <2>1, <2>2 DEF Fails
  <1> QED
    BY <1>1, <1>2, <1>3, <1>4, <1>5, <1>6, <1>7, <1>8 DEF ThreadFunc

LEMMA ListenerInit ==
  Init => LInv
  <1> SUFFICES ASSUME Init PROVE LInv
    OBVIOUS
  <1>1. Stub
    BY DEF Init, Stub
  <1>2. Mine(lsn) /\ Posts(lsn)
    BY DEF Init, NoListener, Mine, Shape, Posts, None, Threads
  <1> QED
    BY <1>1, <1>2 DEF LInv

LEMMA ListenerNext ==
  LInv /\ [Next]_vars => LInv'
  <1> SUFFICES ASSUME LInv, [Next]_vars PROVE LInv'
    OBVIOUS
  <1>0. Mine(lsn)
    BY DEF LInv
  <1>1. CASE Boot
    <2>1. lsn' = lsn /\ stub'.at # "running"
      BY <1>1 DEF Boot, LInv, Stub
    <2> QED
      BY <1>0, <2>1, NotOpened DEF Open
  <1>2. CASE WlxInitialize
    <2>1. lsn' = lsn /\ screen'.stage = "due"
      BY <1>2 DEF WlxInitialize
    <2> QED
      BY <1>0, <2>1, NotOpened DEF Open
  <1>3. CASE CallOriginal
    <2>1. lsn' = lsn /\ stub'.at # "running"
      BY <1>3 DEF CallOriginal, LInv, Stub
    <2> QED
      BY <1>0, <2>1, NotOpened DEF Open
  <1>4. CASE ShowNotice \/ PersonAnswers
    <2>1. lsn' = lsn /\ screen'.dialog \notin LogonDialogs
      BY <1>4 DEF ShowNotice, MyWlxDisplaySASNoticeDlgProc, MyWlxDisplayLockedNoticeDlgProc, MyUserMessageDlgProc,
                  SendAltCtrlDel, PostOk, Unwrapped, Then, PersonAnswers, Notices, LogonDialogs
    <2> QED
      BY <1>0, <2>1, NotOpened DEF Open
  <1>5. CASE NoticeAnswered \/ CancelOrTimeout \/ SessionChange
    <2>1. lsn' = lsn /\ screen'.stage # "open"
      BY <1>5 DEF NoticeAnswered, CancelOrTimeout, SessionChange, Then
    <2> QED
      BY <1>0, <2>1, NotOpened DEF Open
  <1>6. CASE ShowLogon
    <2>1. UNCHANGED stub
      BY <1>6 DEF ShowLogon
    <2>2. CASE Listened
      <3>1. Mine(lsn') /\ Posts(lsn')
        BY <1>0, <1>6, <2>2, DispatchMine DEF ShowLogon
      <3> QED
        BY <3>1, RegistryStays DEF LInv
    <2>3. CASE ~Listened
      <3>1. lsn' = lsn /\ screen'.dialog = screen.dialog
        BY <1>6, <2>3 DEF ShowLogon, Now, Then
      <3>2. ~Listened'
        BY <2>3, <3>1, RegistryStays DEF LInv, Listened
      <3> QED
        BY <1>0, <3>1, <3>2, RegistryStays DEF LInv
    <2> QED
      BY <2>2, <2>3
  <1>7. CASE OtherMessage \/ FieldsPosted
    <2>1. UNCHANGED <<stub, screen>> /\ Dispatch("other")
      BY <1>7 DEF OtherMessage, FieldsPosted, dialogVars
    <2>2. Mine(lsn') /\ (Posts(lsn) => Posts(lsn'))
      BY <1>0, <2>1, DispatchMine
    <2> QED
      BY <2>1, <2>2, LeftAlone
  <1>8. CASE OkPosted \/ PersonPressesOk
    BY <1>8, AttemptMine DEF OkPosted, PersonPressesOk
  <1>9. CASE DestroyDialog
    <2>1. screen'.stage # "open"
      <3>1. \/ Then("none", "none") \/ Then("sasnotice", "due") \/ Then("locked", "due")
        <4>1. CASE screen.stage = "passed"
          BY <1>9, <4>1 DEF DestroyDialog
        <4>2. CASE screen.stage # "passed" /\ screen.dialog = "loggedout"
          BY <1>9, <4>2 DEF DestroyDialog
        <4>3. CASE screen.stage # "passed" /\ screen.dialog # "loggedout"
          BY <1>9, <4>3 DEF DestroyDialog
        <4> QED
          BY <4>1, <4>2, <4>3
      <3> QED
        BY <3>1 DEF Then
    <2>2. Mine(lsn')
      <3>1. CASE Listened
        <4>1. PICK t \in Free : lsn' = [LogonDlgProc(lsn, "other", t) EXCEPT !.target = [s \in Threads |-> FALSE]]
          BY <1>9, <3>1 DEF DestroyDialog
        <4> DEFINE K == LogonDlgProc(lsn, "other", t)
        <4>2. Mine(K)
          BY <1>0, ProcMine DEF Free
        <4>3. lsn' = [K EXCEPT !.target = [s \in Threads |-> FALSE]]
          BY <4>1
        <4> HIDE DEF K
        <4> QED
          BY <4>2, <4>3 DEF Mine, Shape
      <3>2. CASE ~Listened
        BY <1>0, <1>9, <3>2 DEF DestroyDialog
      <3> QED
        BY <3>1, <3>2
    <2> QED
      BY <2>1, <2>2, NotOpened DEF Open
  <1>10. CASE WlxDisconnectNotify
    <2>1. lsn' = KillListenerThread(lsn) /\ UNCHANGED <<stub, screen>>
      BY <1>10 DEF WlxDisconnectNotify
    <2>2. Mine(lsn') /\ Posts(lsn')
      BY <1>0, <2>1, KillMine DEF Dead, Posts
    <2> QED
      BY <2>1, <2>2, LeftAlone
  <1>11. CASE PersonTypes \/ CallFails
    BY <1>0, <1>11, LeftAlone DEF PersonTypes, CallFails, agentRest, dialogVars
  <1>12. ASSUME NEW t \in Threads, CallPipe(t) PROVE LInv'
    <2>1. PICK l \in Logins : lsn' = [lsn EXCEPT !.pipe[t] = "connected", !.inbox[t] = l]
      BY <1>12 DEF CallPipe
    <2>2. Mine(lsn') /\ (Posts(lsn) => Posts(lsn'))
      BY <1>0, <2>1 DEF Mine, Shape, Posts
    <2> QED
      BY <1>12, <2>2, LeftAlone DEF CallPipe, agentRest, dialogVars
  <1>13. ASSUME NEW t \in Threads, ThreadFunc(t) \/ Fails(t) PROVE LInv'
    <2>1. UNCHANGED <<stub, screen>>
      BY <1>13 DEF ThreadFunc, Fails, CreatePipe, StorePipe, ConnectPipe, ReadPipe, ClosePipe, ForgetPipe, PostMessage,
                  uiRest
    <2> QED
      BY <1>0, <1>13, <2>1, ThreadMine, LeftAlone
  <1>14. CASE UNCHANGED vars
    BY <1>0, <1>14, LeftAlone DEF vars
  <1> QED
    BY <1>1, <1>2, <1>3, <1>4, <1>5, <1>6, <1>7, <1>8, <1>9, <1>10, <1>11, <1>12, <1>13, <1>14
       DEF Next, Winlogon, People, Agent

\* Whatever is posted to a logon dialog is posted by its own listener, which
\* the dialog can end.
THEOREM ListenerCorrect == Spec => []ListenerIsOfTheDialog
  <1>1. LInv => ListenerIsOfTheDialog
    BY DEF LInv, ListenerIsOfTheDialog, Live, Mine, Posts, Holding
  <1> QED
    BY <1>1, ListenerInit, ListenerNext, PTL DEF Spec

(***************************************************************************)
(* The click on OK.  The fields a listener has posted are the last message *)
(* of the queue, or else in the dialog, until it posts the click; and a    *)
(* click in the queue has its fields just before it.                       *)
(***************************************************************************)
Spoken == Logins \cup {Blank}

Posted == [msg : {"fields", "ok"}, login : Spoken]

Heard(L) == L.inbox \in [Threads -> Spoken] /\ L.got \in [Threads -> Spoken]

Quiet(L) == \A t \in Threads : ~L.target[t]

\* The dialog that a listener may have been started for.
Shown ==
  /\ stub.at \in {"running", "crashed"}
  /\ screen.dialog \in LogonDialogs /\ Listened
  /\ screen.stage \in {"open", "passed", "cancelled"}

\* Nothing is said of the fields where not both are filled, or after somebody
\* else has changed them.
Loose == ~Fills("user") \/ ~Fills("password") \/ touched

Both(l) == [user |-> l, password |-> l]

\* The fields that login l was about to be tried with come before place i.
Told(l, i) == IF i = 1 THEN Loose \/ fields = Both(l) ELSE queue[i - 1] = [msg |-> "fields", login |-> l]

InOrder ==
  /\ \A i \in 1 .. Len(queue) : queue[i].msg = "ok" => Told(queue[i].login, i)
  /\ \A t \in Threads : lsn.pc[t] = "ok" /\ lsn.target[t] => Told(lsn.got[t], Len(queue) + 1)

OInv ==
  /\ LInv
  /\ Heard(lsn) /\ queue \in Seq(Posted)
  /\ ~Shown => Quiet(lsn) /\ queue = <<>>
  /\ Open => InOrder

\* K is L after the click on OK has been thought of by no more threads.
Older(L, K) ==
  /\ Heard(K)
  /\ \A t \in Threads : K.pc[t] = "ok" /\ K.target[t]
       => L.pc[t] = "ok" /\ L.target[t] /\ K.got[t] = L.got[t]

Unready(L) == \A t \in Threads : L.pc[t] # "ok"

LEMMA EndHeard ==
  ASSUME NEW L, Shape(L), Heard(L), NEW t \in Threads
  PROVE  /\ Heard(End(L, t)) /\ (Quiet(L) => Quiet(End(L, t)))
         /\ End(L, t).got = [L.got EXCEPT ![t] = Blank]
         /\ End(L, t).target = [L.target EXCEPT ![t] = FALSE]
  <1>1. /\ End(L, t).inbox = L.inbox /\ End(L, t).got = [L.got EXCEPT ![t] = Blank]
        /\ End(L, t).target = [L.target EXCEPT ![t] = FALSE]
    BY DEF End, Shape
  <1> QED
    BY <1>1 DEF Heard, Quiet, Shape, Spoken

LEMMA CloseHeard ==
  ASSUME NEW L, Shape(L), Heard(L), NEW t \in Threads
  PROVE  Heard(Close(L, t)) /\ Close(L, t).got = L.got
  <1>1. Close(L, t).inbox = [L.inbox EXCEPT ![t] = Blank] /\ Close(L, t).got = L.got
    BY DEF Close, Shape
  <1> QED
    BY <1>1 DEF Heard, Spoken

LEMMA KillHeard ==
  ASSUME NEW L, Mine(L), Heard(L)
  PROVE  Heard(KillListenerThread(L)) /\ (Quiet(L) => Quiet(KillListenerThread(L)))
  <1>1. CASE L.hThread = None
    BY <1>1 DEF KillListenerThread
  <1>2. CASE L.hThread # None
    <2> DEFINE K == IF L.hPipe = None THEN L ELSE Close(L, L.hPipe)
               E == End(K, L.hThread)
    <2>1. L.hThread \in Threads
      BY <1>2 DEF Mine, Shape
    <2>2. Shape(K) /\ Heard(K) /\ K.target = L.target
      <3>1. CASE L.hPipe = None
        BY <3>1 DEF Mine
      <3>2. CASE L.hPipe # None
        <4>1. Shape(L) /\ L.hPipe \in Threads /\ K = Close(L, L.hPipe)
          BY <3>2 DEF Mine, Shape
        <4>2. /\ Shape(Close(L, L.hPipe)) /\ Heard(Close(L, L.hPipe))
              /\ Close(L, L.hPipe).target = L.target
          BY <4>1, CloseMine, CloseHeard
        <4> QED
          BY <4>1, <4>2
      <3> QED
        BY <3>1, <3>2
    <2>3. KillListenerThread(L) = [E EXCEPT !.hPipe = None, !.hThread = None]
      BY <1>2 DEF KillListenerThread
    <2> HIDE DEF K
    <2>4. Shape(E) /\ Heard(E) /\ (Quiet(K) => Quiet(E))
      BY <2>1, <2>2, EndMine, EndHeard
    <2> HIDE DEF E
    <2>5. /\ KillListenerThread(L).inbox = E.inbox /\ KillListenerThread(L).got = E.got
          /\ KillListenerThread(L).target = E.target
      BY <2>3, <2>4 DEF Shape
    <2> QED
      BY <2>2, <2>4, <2>5 DEF Heard, Quiet
  <1> QED
    BY <1>1, <1>2

LEMMA RestartHeard ==
  ASSUME NEW L, Mine(L), Heard(L), NEW t \in Threads
  PROVE  Heard(RestartListenerThread(L, t)) /\ Unready(RestartListenerThread(L, t))
  <1> DEFINE K == KillListenerThread(L)
             C == CreateThread(K, t)
  <1>1. Mine(K) /\ Dead(K) /\ Heard(K)
    BY KillMine, KillHeard
  <1>2. RestartListenerThread(L, t) = C
    BY DEF RestartListenerThread
  <1> HIDE DEF K
  <1>3. C.inbox = K.inbox /\ C.got = K.got /\ C.pc = [K.pc EXCEPT ![t] = "create"]
    BY <1>1 DEF CreateThread, Mine, Shape
  <1> HIDE DEF C
  <1> QED
    BY <1>1, <1>2, <1>3 DEF Heard, Unready, Dead, Mine, Shape

LEMMA AttemptedOlder ==
  ASSUME NEW L, Mine(L), Heard(L), NEW v
  PROVE  Older(L, [L EXCEPT !.attempted = v]) /\ (Unready(L) => Unready([L EXCEPT !.attempted = v]))
  <1> DEFINE A == [L EXCEPT !.attempted = v]
  <1>1. A.pc = L.pc /\ A.target = L.target /\ A.inbox = L.inbox /\ A.got = L.got
    BY DEF Mine, Shape
  <1> HIDE DEF A
  <1>2. Older(L, A) /\ (Unready(L) => Unready(A))
    BY <1>1 DEF Older, Heard, Unready
  <1> QED
    BY <1>2 DEF A

\* A message of the dialog makes no listener ready for the click.
LEMMA ProcOlder ==
  ASSUME NEW L, Mine(L), Heard(L), NEW t \in Threads, NEW msg \in {"init", "ok", "other"}
  PROVE  /\ Older(L, LogonDlgProc(L, msg, t))
         /\ msg = "init" => Unready(LogonDlgProc(L, msg, t))
  <1> DEFINE R == RestartListenerThread(L, t)
             K == IF L.attempted /\ Config.restart THEN [R EXCEPT !.attempted = FALSE] ELSE L
             A == [K EXCEPT !.attempted = TRUE]
             P == LogonDlgProc(L, msg, t)
  <1>1. Mine(R) /\ Heard(R) /\ Unready(R)
    BY RestartMine, RestartHeard
  <1>2. Mine(K) /\ Heard(K) /\ (K = L \/ Unready(K))
    <2> HIDE DEF R
    <2>1. CASE L.attempted /\ Config.restart
      BY <1>1, <2>1, AttemptedMine, AttemptedOlder DEF Older
    <2>2. CASE ~(L.attempted /\ Config.restart)
      BY <2>2
    <2> QED
      BY <2>1, <2>2
  <1>3. P = CASE msg = "init" -> RestartListenerThread(K, t) [] msg = "ok" -> A [] OTHER -> K
    BY DEF LogonDlgProc
  <1> HIDE DEF K, P
  <1>4. CASE msg = "init"
    <2>1. P = RestartListenerThread(K, t)
      BY <1>3, <1>4
    <2> QED
      BY <1>2, <1>4, <2>1, RestartHeard DEF Older, Unready, P
  <1>5. CASE msg = "ok"
    <2>1. P = A
      BY <1>3, <1>5
    <2>2. Older(K, A) /\ (Unready(K) => Unready(A))
      BY <1>2, AttemptedOlder
    <2> HIDE DEF A
    <2> QED
      BY <1>2, <1>5, <2>1, <2>2 DEF Older, Unready, P
  <1>6. CASE msg = "other"
    <2>1. P = K
      BY <1>3, <1>6
    <2> QED
      BY <1>2, <1>6, <2>1 DEF Older, Unready, P
  <1> QED
    BY <1>4, <1>5, <1>6

LEMMA DispatchOlder ==
  ASSUME Mine(lsn), Heard(lsn), NEW msg \in {"init", "ok", "other"}, Dispatch(msg)
  PROVE  Older(lsn, lsn') /\ (msg = "init" => Unready(lsn'))
  <1>1. PICK t \in Free : lsn' = LogonDlgProc(lsn, msg, t)
    BY DEF Dispatch
  <1>2. t \in Threads
    BY DEF Free
  <1> QED
    BY <1>1, <1>2, ProcOlder

\* What a listener's step means for the queue.
LEMMA ThreadOlder ==
  ASSUME OInv, NEW t \in Threads, ThreadFunc(t) \/ Fails(t)
  PROVE  /\ Heard(lsn') /\ (Quiet(lsn) => Quiet(lsn'))
         /\ \/ queue' = queue /\ Older(lsn, lsn')
            \/ \E msg \in {"fields", "ok"} :
                 /\ lsn.pc[t] = msg /\ lsn.target[t]
                 /\ queue' = Append(queue, [msg |-> msg, login |-> lsn.got[t]])
                 /\ msg = "fields" => lsn'.got = lsn.got
                 /\ msg = "ok" => lsn'.pc[t] = "none"
                 /\ \A s \in Threads \ {t} : lsn'.pc[s] = lsn.pc[s]
  <1>0. Mine(lsn) /\ Heard(lsn) /\ Shape(lsn)
    BY DEF OInv, LInv, Mine
  <1>1. CASE CreatePipe(t)
    BY <1>0, <1>1 DEF CreatePipe, Shape, Heard, Quiet, Older
  <1>2. CASE StorePipe(t)
    BY <1>0, <1>2 DEF StorePipe, Shape, Heard, Quiet, Older
  <1>3. CASE ConnectPipe(t)
    BY <1>0, <1>3 DEF ConnectPipe, Shape, Heard, Quiet, Older
  <1>4. CASE ReadPipe(t)
    <2>1. /\ lsn'.inbox = lsn.inbox /\ lsn'.got = [lsn.got EXCEPT ![t] = lsn.inbox[t]]
          /\ lsn'.pc = [lsn.pc EXCEPT ![t] = "close"] /\ lsn'.target = lsn.target /\ queue' = queue
      BY <1>0, <1>4 DEF ReadPipe, Shape
    <2> QED
      BY <1>0, <2>1 DEF Shape, Heard, Quiet, Older
  <1>5. CASE ClosePipe(t)
    <2> DEFINE C == Close(lsn, t)
    <2>1. Shape(C) /\ Heard(C) /\ C.pc = lsn.pc /\ C.target = lsn.target /\ C.got = lsn.got
      BY <1>0, CloseMine, CloseHeard
    <2>2. lsn' = [C EXCEPT !.pc[t] = "forget"] /\ queue' = queue
      BY <1>5 DEF ClosePipe
    <2> HIDE DEF C
    <2>3. /\ lsn'.inbox = C.inbox /\ lsn'.got = lsn.got /\ lsn'.target = lsn.target
          /\ lsn'.pc = [lsn.pc EXCEPT ![t] = "forget"]
      BY <2>1, <2>2 DEF Shape
    <2> QED
      BY <1>0, <2>1, <2>2, <2>3 DEF Shape, Heard, Quiet, Older
  <1>9. ASSUME lsn' = [End(lsn, t) EXCEPT !.hPipe = None], queue' = queue
        PROVE  Heard(lsn') /\ (Quiet(lsn) => Quiet(lsn')) /\ Older(lsn, lsn')
    <2> DEFINE E == End(lsn, t)
    <2>1. /\ Shape(E) /\ Heard(E) /\ (Quiet(lsn) => Quiet(E))
          /\ E.pc = [lsn.pc EXCEPT ![t] = "none"] /\ E.target = [lsn.target EXCEPT ![t] = FALSE]
          /\ E.got = [lsn.got EXCEPT ![t] = Blank]
      BY <1>0, EndMine, EndHeard
    <2>2. lsn' = [E EXCEPT !.hPipe = None]
      BY <1>9
    <2> HIDE DEF E
    <2>3. lsn'.pc = E.pc /\ lsn'.target = E.target /\ lsn'.got = E.got /\ lsn'.inbox = E.inbox
      BY <2>1, <2>2 DEF Shape
    <2> QED
      BY <1>0, <2>1, <2>3 DEF Shape, Heard, Quiet, Older
  <1>10. CASE ForgetPipe(t)
    <2>1. CASE At(t, "forget")
      <3>1. lsn' = [lsn EXCEPT !.pc[t] = "fields", !.hPipe = None] /\ queue' = queue
        BY <1>10, <2>1 DEF ForgetPipe, At
      <3>2. /\ lsn'.inbox = lsn.inbox /\ lsn'.got = lsn.got /\ lsn'.target = lsn.target
            /\ lsn'.pc = [lsn.pc EXCEPT ![t] = "fields"]
        BY <1>0, <3>1 DEF Shape
      <3> QED
        BY <1>0, <3>1, <3>2 DEF Shape, Heard, Quiet, Older
    <2>2. CASE At(t, "failed")
      <3>1. lsn' = [End(lsn, t) EXCEPT !.hPipe = None] /\ queue' = queue
        BY <1>10, <2>2 DEF ForgetPipe, At
      <3> QED
        BY <1>9, <3>1
    <2> QED
      BY <1>10, <2>1, <2>2 DEF ForgetPipe
  <1>6. CASE PostMessage(t, "fields")
    <2>1. /\ lsn' = [lsn EXCEPT !.pc[t] = "ok"] /\ lsn.pc[t] = "fields"
          /\ queue' = IF lsn.target[t] THEN Append(queue, [msg |-> "fields", login |-> lsn.got[t]]) ELSE queue
      BY <1>6 DEF PostMessage, At
    <2>2. /\ lsn'.inbox = lsn.inbox /\ lsn'.got = lsn.got /\ lsn'.target = lsn.target
          /\ lsn'.pc = [lsn.pc EXCEPT ![t] = "ok"]
      BY <1>0, <2>1 DEF Shape
    <2> QED
      BY <1>0, <2>1, <2>2 DEF Shape, Heard, Quiet, Older
  <1>7. CASE PostMessage(t, "ok")
    <2>1. /\ lsn' = End(lsn, t) /\ lsn.pc[t] = "ok"
          /\ queue' = IF lsn.target[t] THEN Append(queue, [msg |-> "ok", login |-> lsn.got[t]]) ELSE queue
      BY <1>7 DEF PostMessage, At
    <2>2. Heard(lsn') /\ (Quiet(lsn) => Quiet(lsn'))
      BY <1>0, <2>1, EndHeard
    <2>3. /\ lsn'.pc = [lsn.pc EXCEPT ![t] = "none"] /\ lsn'.got = [lsn.got EXCEPT ![t] = Blank]
          /\ lsn'.target = [lsn.target EXCEPT ![t] = FALSE]
      BY <1>0, <2>1, EndMine, EndHeard
    <2> QED
      BY <1>0, <2>1, <2>2, <2>3 DEF Shape, Older, Heard
  <1>8. CASE Fails(t)
    <2>1. CASE lsn' = [End(lsn, t) EXCEPT !.hPipe = None]
      <3>1. queue' = queue
        BY <1>8 DEF Fails
      <3> QED
        BY <1>9, <2>1, <3>1
    <2>2. CASE lsn' = [Close(lsn, t) EXCEPT !.pc[t] = "failed"]
      <3> DEFINE C == Close(lsn, t)
      <3>1. Shape(C) /\ Heard(C) /\ C.pc = lsn.pc /\ C.target = lsn.target /\ C.got = lsn.got
        BY <1>0, CloseMine, CloseHeard
      <3>2. lsn' = [C EXCEPT !.pc[t] = "failed"] /\ queue' = queue
        BY <1>8, <2>2 DEF Fails
      <3> HIDE DEF C
      <3>3. /\ lsn'.inbox = C.inbox /\ lsn'.got = lsn.got /\ lsn'.target = lsn.target
            /\ lsn'.pc = [lsn.pc EXCEPT ![t] = "failed"]
        BY <3>1, <3>2 DEF Shape
      <3> QED
        BY <1>0, <3>1, <3>2, <3>3 DEF Shape, Heard, Quiet, Older
    <2> QED
      BY <1>8, <2>1, <2>2 DEF Fails
  <1> QED
    BY <1>1, <1>2, <1>3, <1>4, <1>5, <1>6, <1>7, <1>8, <1>10 DEF ThreadFunc

\* The queue has room for order: what is before place i stays when something is
\* appended, and moves up when the first message is taken.
LEMMA Appended ==
  ASSUME queue \in Seq(Posted), NEW m \in Posted, queue' = Append(queue, m)
  PROVE  /\ queue' \in Seq(Posted) /\ Len(queue') = Len(queue) + 1 /\ Len(queue) \in Nat
         /\ queue'[Len(queue) + 1] = m
         /\ \A i \in 1 .. Len(queue) : queue'[i] = queue[i]
  OBVIOUS

LEMMA Taken ==
  ASSUME queue \in Seq(Posted), queue # <<>>, queue' = Tail(queue)
  PROVE  /\ queue' \in Seq(Posted) /\ Len(queue) \in Nat \ {0} /\ Len(queue') = Len(queue) - 1
         /\ Head(queue) = queue[1] /\ queue[1] \in Posted
         /\ \A i \in 1 .. Len(queue) - 1 : queue'[i] = queue[i + 1]
  OBVIOUS

LEMMA LooseStays ==
  ASSUME Stub, [Next]_vars, screen'.dialog = screen.dialog
  PROVE  /\ (Fills("user")' <=> Fills("user"))
         /\ (Fills("password")' <=> Fills("password"))
         /\ touched' => Loose'
         /\ touched' = touched => (Loose' <=> Loose)
  <1>1. stub'.registry = stub.registry /\ Config' = Config
    BY RegistryStays
  <1>2. (Fills("user")' <=> Fills("user")) /\ (Fills("password")' <=> Fills("password"))
    BY <1>1 DEF Fills
  <1>3. Loose' <=> ~Fills("user")' \/ ~Fills("password")' \/ touched'
    BY DEF Loose
  <1>4. Loose <=> ~Fills("user") \/ ~Fills("password") \/ touched
    BY DEF Loose
  <1> QED
    BY <1>2, <1>3, <1>4

\* The order, after a step.
Tells(l, i) ==
  IF i = 1 THEN Loose' \/ fields' = Both(l) ELSE queue'[i - 1] = [msg |-> "fields", login |-> l]

LEMMA NextInOrder ==
  ASSUME \A i \in 1 .. Len(queue') : queue'[i].msg = "ok" => Tells(queue'[i].login, i),
         \A t \in Threads : lsn'.pc[t] = "ok" /\ lsn'.target[t] => Tells(lsn'.got[t], Len(queue') + 1)
  PROVE  InOrder'
  BY DEF InOrder, Told, Both, Tells

\* The order is kept while the queue is left alone and no more listeners are
\* ready for the click.
LEMMA StaysInOrder ==
  ASSUME OInv, InOrder, [Next]_vars, screen'.dialog = screen.dialog,
         queue' = queue, Older(lsn, lsn'), touched' \/ UNCHANGED <<fields, touched>>
  PROVE  InOrder'
  <1>1. Loose' \/ ((Loose' <=> Loose) /\ fields' = fields)
    BY LooseStays DEF OInv, LInv
  <1>2. \A l, i : Told(l, i) => Tells(l, i)
    BY <1>1 DEF Told, Tells
  <1>3. ASSUME NEW i \in 1 .. Len(queue'), queue'[i].msg = "ok"
        PROVE  Tells(queue'[i].login, i)
    BY <1>2, <1>3 DEF InOrder
  <1>4. ASSUME NEW t \in Threads, lsn'.pc[t] = "ok", lsn'.target[t]
        PROVE  Tells(lsn'.got[t], Len(queue') + 1)
    BY <1>2, <1>4 DEF InOrder, Older
  <1> QED
    BY <1>3, <1>4, NextInOrder

\* The order is kept when the first message is taken, provided that the fields
\* are in the dialog if it was these.
LEMMA TakenInOrder ==
  ASSUME OInv, InOrder, queue # <<>>, queue' = Tail(queue), Older(lsn, lsn'),
         Loose' \/ (Head(queue).msg = "fields" /\ fields' = Both(Head(queue).login))
  PROVE  InOrder'
  <1>1. /\ queue' \in Seq(Posted) /\ Len(queue) \in Nat \ {0} /\ Len(queue') = Len(queue) - 1
        /\ Head(queue) = queue[1] /\ queue[1] \in Posted
        /\ \A i \in 1 .. Len(queue) - 1 : queue'[i] = queue[i + 1]
    BY Taken DEF OInv
  <1>2. ASSUME NEW l, NEW i \in 1 .. Len(queue), Told(l, i + 1)
        PROVE  Tells(l, i)
    <2>1. queue[i] = [msg |-> "fields", login |-> l]
      BY <1>1, <1>2 DEF Told
    <2>2. CASE i = 1
      BY <1>1, <2>1, <2>2 DEF Tells
    <2>3. CASE i # 1
      <3>1. i - 1 \in 1 .. Len(queue) - 1 /\ (i - 1) + 1 = i
        BY <1>1, <2>3
      <3>2. queue'[i - 1] = queue[i]
        BY <1>1, <3>1
      <3> QED
        BY <2>1, <2>3, <3>2 DEF Tells
    <2> QED
      BY <2>2, <2>3
  <1>3. ASSUME NEW i \in 1 .. Len(queue'), queue'[i].msg = "ok"
        PROVE  Tells(queue'[i].login, i)
    <2>1. i \in 1 .. Len(queue) - 1 /\ i \in 1 .. Len(queue) /\ i + 1 \in 1 .. Len(queue)
      BY <1>1
    <2>2. queue'[i] = queue[i + 1]
      BY <1>1, <2>1
    <2>3. Told(queue'[i].login, i + 1)
      BY <1>3, <2>1, <2>2 DEF InOrder
    <2> QED
      BY <1>2, <2>1, <2>3
  <1>4. ASSUME NEW t \in Threads, lsn'.pc[t] = "ok", lsn'.target[t]
        PROVE  Tells(lsn'.got[t], Len(queue') + 1)
    <2>1. Len(queue) \in 1 .. Len(queue) /\ Len(queue') + 1 = Len(queue)
      BY <1>1
    <2>2. Told(lsn'.got[t], Len(queue) + 1)
      BY <1>4 DEF InOrder, Older
    <2> QED
      BY <1>2, <2>1, <2>2
  <1> QED
    BY <1>3, <1>4, NextInOrder

\* A listener's step keeps the order, and posts nothing where no dialog is.
LEMMA ThreadInOrder ==
  ASSUME OInv, NEW t \in Threads, ThreadFunc(t) \/ Fails(t), InOrder, [Next]_vars,
         UNCHANGED <<screen, fields, touched>>
  PROVE  InOrder'
  <1>1. CASE queue' = queue /\ Older(lsn, lsn')
    BY <1>1, StaysInOrder
  <1>2. ASSUME NEW msg \in {"fields", "ok"}, lsn.pc[t] = msg, lsn.target[t],
               queue' = Append(queue, [msg |-> msg, login |-> lsn.got[t]]),
               msg = "fields" => lsn'.got = lsn.got,
               msg = "ok" => lsn'.pc[t] = "none",
               \A s \in Threads \ {t} : lsn'.pc[s] = lsn.pc[s]
        PROVE  InOrder'
    <2> DEFINE m == [msg |-> msg, login |-> lsn.got[t]]
               n == Len(queue)
    <2>1. m \in Posted
      BY DEF OInv, Heard, Posted
    <2>2. /\ queue \in Seq(Posted) /\ queue' \in Seq(Posted) /\ Len(queue') = n + 1 /\ n \in Nat
          /\ queue'[n + 1] = m
          /\ \A i \in 1 .. n : queue'[i] = queue[i]
      BY <1>2, <2>1, Appended DEF OInv
    <2>3. (Loose' <=> Loose) /\ fields' = fields
      BY LooseStays DEF OInv, LInv
    <2> HIDE DEF n
    <2>4. ASSUME NEW l, NEW i \in 1 .. n + 1, Told(l, i)
          PROVE  Tells(l, i)
      <3>1. CASE i = 1
        BY <2>3, <2>4, <3>1 DEF Told, Tells
      <3>2. CASE i # 1
        <4>1. i - 1 \in 1 .. n
          BY <2>2, <3>2
        <4>2. queue'[i - 1] = queue[i - 1]
          BY <2>2, <4>1
        <4> QED
          BY <2>4, <3>2, <4>2 DEF Told, Tells
      <3> QED
        BY <3>1, <3>2
    <2>5. ASSUME NEW i \in 1 .. Len(queue'), queue'[i].msg = "ok"
          PROVE  Tells(queue'[i].login, i)
      <3>0. i \in 1 .. n + 1
        BY <2>2
      <3>1. CASE i \in 1 .. n
        <4>1. queue'[i] = queue[i]
          BY <2>2, <3>1
        <4>2. Told(queue'[i].login, i)
          BY <2>5, <3>1, <4>1 DEF InOrder, n
        <4> QED
          BY <2>4, <3>0, <4>2
      <3>2. CASE i = n + 1
        <4>1. queue'[i] = m /\ msg = "ok"
          BY <2>2, <2>5, <3>2
        <4>2. queue'[i].login = lsn.got[t]
          BY <4>1
        <4>3. Told(queue'[i].login, i)
          BY <1>2, <3>2, <4>1, <4>2 DEF InOrder, n
        <4> QED
          BY <2>4, <3>0, <4>3
      <3> QED
        BY <2>2, <3>0, <3>1, <3>2
    <2>6. ASSUME NEW s \in Threads, lsn'.pc[s] = "ok", lsn'.target[s]
          PROVE  Tells(lsn'.got[s], Len(queue') + 1)
      <3>1. s = t
        <4>1. t = lsn.hThread
          BY <1>2 DEF OInv, LInv, Mine
        <4>2. s # t => lsn.pc[s] = "ok"
          BY <1>2, <2>6
        <4> QED
          BY <4>1, <4>2 DEF OInv, LInv, Mine
      <3>2. msg = "fields" /\ lsn'.got[s] = lsn.got[t]
        BY <1>2, <2>6, <3>1
      <3>3. queue'[n + 1] = [msg |-> "fields", login |-> lsn'.got[s]]
        BY <2>2, <3>2
      <3>4. Len(queue') + 1 - 1 = n + 1 /\ Len(queue') + 1 # 1
        BY <2>2
      <3> QED
        BY <3>3, <3>4 DEF Tells
    <2> QED
      BY <2>5, <2>6, NextInOrder
  <1> QED
    BY <1>1, <1>2, ThreadOlder

LEMMA OrderInit ==
  Init => OInv
  <1> SUFFICES ASSUME Init PROVE OInv
    OBVIOUS
  <1>1. LInv
    BY ListenerInit
  <1>2. Heard(lsn) /\ Quiet(lsn) /\ queue = <<>> /\ screen.stage = "none"
    BY DEF Init, NoListener, Heard, Quiet, Spoken
  <1> QED
    BY <1>1, <1>2 DEF OInv, Open

\* While nothing of what the dialog shows changes, it stays the one shown.
LEMMA ShownStays ==
  ASSUME Stub, [Next]_vars, screen'.dialog = screen.dialog,
         screen.stage \in {"open", "passed", "cancelled"} => screen'.stage \in {"open", "passed", "cancelled"},
         stub'.at = stub.at \/ stub'.at = "crashed"
  PROVE  Shown => Shown'
  BY RegistryStays DEF Shown, Listened

\* A step after which no logon dialog is open.
LEMMA NoneOpen ==
  ASSUME OInv, LInv', Heard(lsn'), ~Open',
         (Quiet(lsn') /\ queue' = <<>>) \/ (queue' \in Seq(Posted) /\ Shown')
  PROVE  OInv'
  <1>1. <<>> \in Seq(Posted)
    OBVIOUS
  <1>2. Quiet(lsn)' <=> Quiet(lsn')
    BY DEF Quiet
  <1> QED
    BY <1>1, <1>2, Zenon DEF OInv

\* A step of the dialog, of its listener or of others while it is shown.
LEMMA DialogGoesOn ==
  ASSUME OInv, LInv', [Next]_vars, Heard(lsn'), queue' \in Seq(Posted), UNCHANGED stub,
         screen'.dialog = screen.dialog,
         screen.stage \in {"open", "passed", "cancelled"} => screen'.stage \in {"open", "passed", "cancelled"},
         Open' => InOrder', ~Shown => Quiet(lsn') /\ queue' = <<>>
  PROVE  OInv'
  BY ShownStays DEF OInv, LInv

LEMMA AttemptInOrder ==
  ASSUME OInv, [Next]_vars, Open, Attempt, UNCHANGED stub, queue = queue' \/ (queue # <<>> /\ queue' = Tail(queue))
  PROVE  OInv'
  <1>1. /\ screen'.dialog = screen.dialog /\ screen'.stage \in {"open", "passed"} /\ touched'
        /\ screen.stage = "open" /\ stub.at = "running"
    BY DEF Attempt, Then, Open
  <1>2. Loose'
    BY <1>1, LooseStays DEF OInv, LInv
  <1>3. Older(lsn, lsn') /\ (~Shown => Quiet(lsn'))
    <2>1. CASE Listened
      <3>1. Dispatch("ok")
        BY <2>1 DEF Attempt
      <3>2. Shown
        BY <2>1 DEF Shown, Open
      <3> QED
        BY <3>1, <3>2, DispatchOlder DEF OInv, LInv
    <2>2. CASE ~Listened
      <3>1. lsn' = lsn
        BY <2>2 DEF Attempt
      <3> QED
        BY <3>1 DEF OInv, Older
    <2> QED
      BY <2>1, <2>2
  <1>4. InOrder'
    BY <1>1, <1>2, <1>3, StaysInOrder, TakenInOrder DEF OInv
  <1>5. queue' \in Seq(Posted) /\ (~Shown => queue' = <<>>)
    BY Taken DEF OInv
  <1>6. LInv'
    BY AttemptMine DEF OInv
  <1> QED
    BY <1>1, <1>3, <1>4, <1>5, <1>6, DialogGoesOn DEF Older

LEMMA OrderNext ==
  OInv /\ [Next]_vars => OInv'
  <1> SUFFICES ASSUME OInv, [Next]_vars PROVE OInv'
    OBVIOUS
  <1>0. /\ LInv /\ LInv' /\ Stub /\ Mine(lsn) /\ Heard(lsn) /\ queue \in Seq(Posted)
        /\ ~Shown => Quiet(lsn) /\ queue = <<>>
    BY ListenerNext DEF OInv, LInv
  <1>1. CASE Boot \/ WlxInitialize
    <2>1. stub.at \notin {"running", "crashed"}
      BY <1>1 DEF Boot, WlxInitialize
    <2>2. lsn' = lsn /\ queue' = queue /\ ~Shown
      BY <1>1, <2>1 DEF Boot, WlxInitialize, dialogVars, Shown
    <2>3. ~Open'
      <3>1. CASE Boot
        BY <3>1, <1>0 DEF Boot, Stub, Open
      <3>2. CASE WlxInitialize
        BY <3>2 DEF WlxInitialize, Open
      <3> QED
        BY <1>1, <3>1, <3>2
    <2> QED
      BY <1>0, <2>2, <2>3, NoneOpen
  <1>2. CASE CallOriginal
    <2>1. lsn' = lsn /\ queue' = queue /\ screen' = screen /\ stub'.at = "crashed"
      BY <1>0, <1>2 DEF CallOriginal, dialogVars, Stub
    <2>2. ~Open'
      BY <2>1 DEF Open
    <2> QED
      BY <1>0, <2>1, <2>2, ShownStays, NoneOpen
  <1>3. CASE ShowNotice \/ PersonAnswers \/ NoticeAnswered \/ SessionChange
    <2>1. lsn' = lsn /\ queue' = queue
      BY <1>3 DEF ShowNotice, PersonAnswers, NoticeAnswered, SessionChange
    <2>2. screen.dialog \notin LogonDialogs
      BY <1>3 DEF ShowNotice, MyWlxDisplaySASNoticeDlgProc, MyWlxDisplayLockedNoticeDlgProc, MyUserMessageDlgProc,
                  PersonAnswers, Notices, NoticeAnswered, SessionChange, Now, LogonDialogs
    <2>3. screen'.dialog \notin LogonDialogs \/ screen'.stage # "open"
      BY <1>3 DEF ShowNotice, MyWlxDisplaySASNoticeDlgProc, MyWlxDisplayLockedNoticeDlgProc, MyUserMessageDlgProc,
                  SendAltCtrlDel, PostOk, Unwrapped, Then, PersonAnswers, Notices, NoticeAnswered, SessionChange,
                  LogonDialogs
    <2>4. ~Shown /\ ~Open'
      BY <2>2, <2>3 DEF Shown, Open
    <2> QED
      BY <1>0, <2>1, <2>4, NoneOpen
  <1>4. CASE CancelOrTimeout
    <2>1. lsn' = lsn /\ queue' = queue /\ stub' = stub
      BY <1>4 DEF CancelOrTimeout
    <2>2. screen'.dialog = screen.dialog /\ screen'.stage = "cancelled"
      BY <1>4 DEF CancelOrTimeout, Then
    <2>3. ~Open'
      BY <2>2 DEF Open
    <2> QED
      BY <1>0, <2>1, <2>2, <2>3, DialogGoesOn
  <1>5. CASE ShowLogon
    <2>1. queue' = <<>> /\ screen.stage = "due" /\ stub.at = "running" /\ stub' = stub
      BY <1>5 DEF ShowLogon, Now
    <2>2. ~Shown
      BY <2>1 DEF Shown
    <2>3. Heard(lsn') /\ (\A t \in Threads : lsn'.pc[t] = "ok" => ~lsn'.target[t])
      <3>1. CASE Listened
        <4>1. Older(lsn, lsn') /\ Unready(lsn')
          BY <1>0, <1>5, <3>1, DispatchOlder DEF ShowLogon
        <4> QED
          BY <4>1 DEF Older, Unready
      <3>2. CASE ~Listened
        BY <1>0, <1>5, <2>2, <3>2 DEF ShowLogon, Quiet
      <3> QED
        BY <3>1, <3>2
    <2>4. InOrder'
      BY <2>1, <2>3 DEF InOrder
    <2>5. Shown' \/ Quiet(lsn')
      <3>1. CASE Listened
        <4>1. PICK d \in LogonDialogs : Now(d, "due") /\ Then(d, "open")
          BY <1>5 DEF ShowLogon
        <4>2. screen'.dialog = screen.dialog /\ screen'.dialog \in LogonDialogs /\ screen'.stage = "open"
          BY <4>1 DEF Now, Then
        <4> QED
          BY <1>0, <2>1, <3>1, <4>2, RegistryStays DEF Shown, Listened
      <3>2. CASE ~Listened
        BY <1>0, <1>5, <2>2, <3>2 DEF ShowLogon
      <3> QED
        BY <3>1, <3>2
    <2> QED
      BY <1>0, <2>1, <2>3, <2>4, <2>5 DEF OInv
  <1>6. CASE OtherMessage
    <2>1. Open /\ Listened /\ Dispatch("other") /\ UNCHANGED <<stub, screen, fields, touched, queue>>
      BY <1>6 DEF OtherMessage, dialogVars
    <2>2. Older(lsn, lsn') /\ Shown
      BY <1>0, <2>1, DispatchOlder DEF Shown, Open
    <2>3. InOrder'
      BY <2>1, <2>2, StaysInOrder DEF OInv
    <2> QED
      BY <1>0, <2>1, <2>2, <2>3, DialogGoesOn DEF Older
  <1>7. CASE FieldsPosted
    <2>1. /\ Open /\ queue # <<>> /\ queue' = Tail(queue) /\ Head(queue).msg = "fields"
          /\ Dispatch("other") /\ UNCHANGED <<stub, screen>>
      BY <1>7 DEF FieldsPosted
    <2>2. Older(lsn, lsn') /\ Shown
      BY <1>0, <2>1, DispatchOlder
    <2>3. Loose' \/ fields' = Both(Head(queue).login)
      <3>1. CASE Fills("user") /\ Fills("password")
        <4>1. fields' = [f \in {"user", "password"} |-> IF Fills(f) THEN Head(queue).login ELSE fields[f]]
          BY <1>7 DEF FieldsPosted
        <4> QED
          BY <3>1, <4>1 DEF Both
      <3>2. CASE ~Fills("user") \/ ~Fills("password")
        <4>1. ~Fills("user")' \/ ~Fills("password")'
          BY <1>0, <2>1, <3>2, LooseStays
        <4>2. Loose' <=> ~Fills("user")' \/ ~Fills("password")' \/ touched'
          BY DEF Loose
        <4> QED
          BY <4>1, <4>2
      <3> QED
        BY <3>1, <3>2
    <2>4. InOrder'
      BY <2>1, <2>2, <2>3, TakenInOrder DEF OInv
    <2>5. queue' \in Seq(Posted)
      BY <1>0, <2>1, Taken
    <2> QED
      BY <1>0, <2>1, <2>2, <2>4, <2>5, DialogGoesOn DEF Older
  <1>8. CASE OkPosted \/ PersonPressesOk
    BY <1>8, AttemptInOrder DEF OkPosted, PersonPressesOk
  <1>9. CASE DestroyDialog
    <2>1. queue' = <<>> /\ Heard(lsn') /\ Quiet(lsn')
      <3>1. CASE Listened
        <4>1. PICK t \in Free : lsn' = [LogonDlgProc(lsn, "other", t) EXCEPT !.target = [s \in Threads |-> FALSE]]
          BY <1>9, <3>1 DEF DestroyDialog
        <4> DEFINE K == LogonDlgProc(lsn, "other", t)
        <4>2. Mine(K) /\ Heard(K)
          BY <1>0, ProcMine, ProcOlder DEF Free, Older
        <4>3. lsn' = [K EXCEPT !.target = [s \in Threads |-> FALSE]]
          BY <4>1
        <4> HIDE DEF K
        <4> QED
          BY <1>9, <4>2, <4>3 DEF Mine, Shape, Heard, Quiet, DestroyDialog
      <3>2. CASE ~Listened
        BY <1>0, <1>9, <3>2 DEF DestroyDialog, Shown
      <3> QED
        BY <3>1, <3>2
    <2>2. InOrder'
      BY <2>1 DEF InOrder, Quiet
    <2> QED
      BY <1>0, <2>1, <2>2 DEF OInv
  <1>10. CASE WlxDisconnectNotify
    <2>1. lsn' = KillListenerThread(lsn) /\ UNCHANGED <<stub, screen, queue, fields, touched>>
      BY <1>10 DEF WlxDisconnectNotify
    <2>2. Heard(lsn') /\ (Quiet(lsn) => Quiet(lsn')) /\ Older(lsn, lsn')
      BY <1>0, <2>1, KillMine, KillHeard DEF Older, Dead
    <2>3. Open' => InOrder'
      BY <2>1, <2>2, StaysInOrder DEF OInv, Open
    <2> QED
      BY <1>0, <2>1, <2>2, <2>3, DialogGoesOn
  <1>11. CASE PersonTypes
    <2>1. Open /\ touched' /\ UNCHANGED <<stub, screen, queue, lsn>>
      BY <1>11 DEF PersonTypes
    <2>2. Older(lsn, lsn')
      BY <1>0, <2>1 DEF Older
    <2>3. InOrder'
      BY <2>1, <2>2, StaysInOrder DEF OInv
    <2> QED
      BY <1>0, <2>1, <2>3, DialogGoesOn
  <1>12. CASE CallFails \/ UNCHANGED vars
    <2>1. UNCHANGED <<stub, screen, queue, fields, touched, lsn>>
      BY <1>12 DEF CallFails, agentRest, dialogVars, vars
    <2>2. Open' => InOrder'
      BY <1>0, <2>1, StaysInOrder DEF OInv, Open, Older
    <2> QED
      BY <1>0, <2>1, <2>2, DialogGoesOn
  <1>13. ASSUME NEW t \in Threads, CallPipe(t) PROVE OInv'
    <2>1. PICK l \in Logins : lsn' = [lsn EXCEPT !.pipe[t] = "connected", !.inbox[t] = l]
      BY <1>13 DEF CallPipe
    <2>2. /\ lsn'.inbox = [lsn.inbox EXCEPT ![t] = l]
          /\ lsn'.got = lsn.got /\ lsn'.pc = lsn.pc /\ lsn'.target = lsn.target
      BY <1>0, <2>1 DEF Mine, Shape
    <2>3. Heard(lsn') /\ Older(lsn, lsn') /\ (Quiet(lsn) => Quiet(lsn'))
      BY <1>0, <2>2 DEF Heard, Older, Quiet, Spoken
    <2>4. UNCHANGED <<stub, screen, queue, fields, touched>>
      BY <1>13 DEF CallPipe, agentRest, dialogVars
    <2>5. Open' => InOrder'
      BY <2>3, <2>4, StaysInOrder DEF OInv, Open
    <2> QED
      BY <1>0, <2>3, <2>4, <2>5, DialogGoesOn
  <1>14. ASSUME NEW t \in Threads, ThreadFunc(t) \/ Fails(t) PROVE OInv'
    <2>1. UNCHANGED <<stub, screen, fields, touched>>
      BY <1>14 DEF ThreadFunc, Fails, CreatePipe, StorePipe, ConnectPipe, ReadPipe, ClosePipe, ForgetPipe, PostMessage,
                  uiRest
    <2>2. Open' => InOrder'
      BY <1>14, <2>1, ThreadInOrder DEF OInv, Open
    <2>3. Heard(lsn') /\ (Quiet(lsn) => Quiet(lsn'))
      BY <1>14, ThreadOlder
    <2>4. queue' \in Seq(Posted) /\ (~Shown => queue' = <<>>)
      <3>1. CASE queue' = queue
        BY <1>0, <3>1
      <3>2. ASSUME NEW msg \in {"fields", "ok"}, lsn.target[t],
                   queue' = Append(queue, [msg |-> msg, login |-> lsn.got[t]])
            PROVE  queue' \in Seq(Posted) /\ Shown
        <4>1. [msg |-> msg, login |-> lsn.got[t]] \in Posted
          BY <1>0 DEF Heard, Posted
        <4> QED
          BY <1>0, <3>2, <4>1, Appended DEF Quiet
      <3> QED
        BY <1>14, <3>1, <3>2, ThreadOlder
    <2> QED
      BY <1>0, <2>1, <2>2, <2>3, <2>4, DialogGoesOn
  <1> QED
    BY <1>1, <1>2, <1>3, <1>4, <1>5, <1>6, <1>7, <1>8, <1>9, <1>10, <1>11, <1>12, <1>13, <1>14
       DEF Next, Winlogon, People, Agent

\* A listener's click on OK submits the login it has posted, not what is left
\* of another, however attempts, other messages and failures come in between.
THEOREM ClickCorrect == Spec => OkIsOfItsLogin
  <1> DEFINE Submits == \A l \in Logins :
               /\ Open /\ Fills("user") /\ Fills("password")
               /\ queue # <<>> /\ Head(queue) = [msg |-> "ok", login |-> l] /\ queue' = Tail(queue)
               => touched \/ fields = [user |-> l, password |-> l]
  <1>1. OInv => Submits
    <2> SUFFICES ASSUME OInv, NEW l \in Logins, Open, Fills("user"), Fills("password"),
                        queue # <<>>, Head(queue) = [msg |-> "ok", login |-> l]
                 PROVE  touched \/ fields = [user |-> l, password |-> l]
      OBVIOUS
    <2>1. 1 \in 1 .. Len(queue) /\ queue[1] = Head(queue)
      BY DEF OInv
    <2>2. queue[1].msg = "ok" /\ queue[1].login = l
      BY <2>1
    <2>3. Told(l, 1)
      BY <2>1, <2>2 DEF OInv, InOrder
    <2> QED
      BY <2>3 DEF Told, Loose, Both
  <1>2. OkIsOfItsLogin <=> [][Submits]_vars
    BY DEF OkIsOfItsLogin
  <1> HIDE DEF Submits
  <1> QED
    BY <1>1, <1>2, OrderInit, OrderNext, PTL DEF Spec
=============================================================================
