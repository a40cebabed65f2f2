------------------------- MODULE CredProviderProofs --------------------------
(***************************************************************************)
(* Theorems about CredProvider, for any number of logins, pipe instances   *)
(* and failing calls, and about Serialization, for any strings and sizes   *)
(* of the buffers.                                                         *)
(***************************************************************************)
EXTENDS CredProvider, Serialization, SequenceTheorems,
        WellFoundedInduction, TLAPS

(***************************************************************************)
(* The inductive invariant.  Lives ties the reference counts to where      *)
(* LogonUI's thread is; OneThread says that the thread which may use the   *)
(* provider is that of the newest instance, and that the channel's handle  *)
(* is its own except in the step between its creation and the store of the *)
(* handle; Same says that the strings of the credential are those the      *)
(* thread has read, in the order in which it sets them.                    *)
(***************************************************************************)
Unborn == {"start", "created"}
Channeled == {"pipe", "thread", "save", "listen", "advise", "count", "idle", "tile"}
Taking == {"domain", "user", "password", "pack"}
Tiled == Taking \cup {"verdict"}
Leaving == {"leaving", "release", "destroy"}

Lives ==
  /\ prov.refs = IF ui = "start" THEN 0 ELSE 1
  /\ ui \in Unborn => ~prov.channel /\ creds = NoCreds
  /\ ui \in Channeled => prov.channel /\ creds.refs = 1
  /\ ui \in Tiled => prov.channel /\ creds.refs = 2
  /\ ui \in Leaving => creds.refs = IF prov.channel THEN 1 ELSE 0
  /\ creds.refs = 0 => creds = NoCreds

Started == UiPcs \ {"start", "created", "pipe", "thread", "destroy"}

OneThread ==
  /\ ui \in {"created", "pipe"} => created < MaxChannels
  /\ ui \in {"thread", "save", "listen"} => created \in Channels
  /\ ui = "thread" => thread[created] = "none"
  /\ \A c \in Channels : c > created => thread[c] = "none"
  /\ chan.hThread \in Channels => chan.hThread <= created
  /\ \A c \in Channels : thread[c] \in Using =>
       /\ c = created /\ ui \in Started /\ prov.channel
       /\ ui = "save" \/ chan.hThread = c

\* How far a thread is when it has set the user, the password, the domain.
SetsUser == {"password", "domain", "check", "events", "notify", "reply", "close", "clear", "done"}
SetsPassword == SetsUser \ {"password"}
SetsDomain == SetsPassword \ {"domain"}

Same ==
  /\ \A c \in Channels : thread[c] = "parse" => got[c] \in Logins
  /\ \A c \in Channels : thread[c] \in {"reset", "user", "password", "domain"} => got[c] \in Logins \ Blank
  /\ ui \in {"pipe", "thread"} => creds.user = Null /\ creds.password = Null /\ creds.domain = Null
  /\ \A f \in {"user", "password", "domain"} : creds[f] # Null =>
       /\ created \in Channels /\ creds[f] = got[created] /\ got[created] \in Logins \ Blank
       /\ f = "user" => thread[created] \in SetsUser
       /\ f = "password" => thread[created] \in SetsPassword
       /\ f = "domain" => thread[created] \in SetsDomain
  /\ ui \in {"tile"} \cup Taking => Null \notin {creds.user, creds.password, creds.domain}
  /\ \A f \in {"user", "password", "domain"} : read[f] # Null => ui \in Taking /\ read[f] = creds[f]
  /\ \A s \in submitted : s.user \in Logins \ Blank /\ s.password = s.user /\ s.domain = s.user

IInv == TypeOK /\ Lives /\ OneThread /\ Same

LEMMA BoundsAreNat == MaxLogins \in Nat /\ MaxChannels \in Nat /\ MaxFailures \in Nat
  BY CredProviderAssumption DEF CredProviderAssumption

LEMMA Blanks ==
  /\ NoProvider \in ProvType /\ NoCreds \in CredsType /\ NewChannel \in ChanType /\ IdleAgent \in AgentType
  /\ NoRead \in Strings
  BY BoundsAreNat DEF NoProvider, NoCreds, NewChannel, IdleAgent, NoRead, ProvType, CredsType, ChanType,
     AgentType,
     Strings, NoPipe, InvalidThread, NullThread, Null, Retries

LEMMA InvInit == Init => IInv
  <1> SUFFICES ASSUME Init PROVE IInv
    OBVIOUS
  <1>1. TypeOK
    <2>1. prov \in ProvType /\ creds \in CredsType /\ chan \in ChanType /\ agent \in AgentType /\ read \in Strings
      BY Blanks DEF Init
    <2>2. dllRefs = (IF prov.refs > 0 THEN 1 ELSE 0) + (IF creds.refs > 0 THEN 1 ELSE 0)
      BY DEF Init, NoProvider, NoCreds
    <2>3. changed \in BOOLEAN
      BY DEF Init
    <2> QED
      BY <2>1, <2>2, <2>3, BoundsAreNat DEF Init, TypeOK, ReferencesCounted, UiPcs, ThreadPcs
  <1>2. Lives /\ OneThread /\ Same
    BY DEF Init, Lives, Unborn, Channeled, Tiled, Taking, Leaving, OneThread, Started, Using, ThreadPcs, Same,
       NoProvider, NoCreds, NoRead, NewChannel, InvalidThread, Channels
  <1> QED
    BY <1>1, <1>2 DEF IInv

(***************************************************************************)
(* The records keep their types.                                           *)
(***************************************************************************)
LEMMA FirstReference ==
  ASSUME NEW q, q = [[[NoProvider EXCEPT !.refs = 1] EXCEPT !.refs = @ + 1] EXCEPT !.refs = @ - 1]
  PROVE  q \in ProvType /\ q.refs = 1 /\ ~q.channel
  <1> DEFINE Counted == [refs : Nat, channel : BOOLEAN, events : BOOLEAN]
             a == [NoProvider EXCEPT !.refs = 1]
             b == [a EXCEPT !.refs = @ + 1]
  <1>1. NoProvider \in Counted /\ ~NoProvider.channel
    BY DEF NoProvider
  <1>2. a \in Counted /\ a.refs = 1
    BY <1>1
  <1>3. ~a.channel
    BY <1>1
  <1>4. q = [b EXCEPT !.refs = @ - 1]
    OBVIOUS
  <1> HIDE DEF a
  <1>5. b \in Counted /\ b.refs = 2
    BY <1>2
  <1>6. ~b.channel
    BY <1>2, <1>3
  <1> HIDE DEF b
  <1>7. q.refs = 1
    BY <1>4, <1>5
  <1>8. [b EXCEPT !.refs = @ - 1] \in ProvType
    BY <1>5 DEF ProvType
  <1>9. ~q.channel
    BY <1>4, <1>5, <1>6
  <1> QED
    BY <1>4, <1>7, <1>8, <1>9, Zenon

LEMMA ChannelSet ==
  ASSUME NEW x \in ChanType, NEW h \in 0 .. NullThread
  PROVE  [x EXCEPT !.hThread = h] \in ChanType
  BY DEF ChanType

LEMMA PipeSet ==
  ASSUME NEW x \in ChanType, NEW p \in {NoPipe} \cup Channels
  PROVE  [x EXCEPT !.hPipe = p] \in ChanType
  BY DEF ChanType

LEMMA CredentialAsked ==
  ASSUME NEW x \in CredsType, x.refs = 1, NEW y, y = CredentialQueryInterface(x, "ICredentialProviderCredential")
  PROVE  y \in CredsType /\ y.refs = 2 /\ \A f \in {"user", "password", "domain"} : y[f] = x[f]
  <1>1. y = [x EXCEPT !.refs = @ + 1]
    BY DEF CredentialQueryInterface, CredentialInterfaces
  <1>2. y \in CredsType
    BY <1>1 DEF CredsType
  <1>3. y.refs = 2
    BY <1>1 DEF CredsType
  <1> QED
    BY <1>1, <1>2, <1>3 DEF CredsType

LEMMA CredentialReleased ==
  ASSUME NEW x \in CredsType, x.refs = 2, NEW y, y = CredentialRelease(x)
  PROVE  y \in CredsType /\ y.refs = 1 /\ \A f \in {"user", "password", "domain"} : y[f] = x[f]
  <1>1. y = [x EXCEPT !.refs = @ - 1]
    BY DEF CredentialRelease
  <1>2. y \in CredsType
    BY <1>1 DEF CredsType
  <1>3. y.refs = 1
    BY <1>1 DEF CredsType
  <1> QED
    BY <1>1, <1>2, <1>3 DEF CredsType

LEMMA AgentMoves ==
  ASSUME NEW a \in AgentType
  PROVE  /\ [a EXCEPT !.pc = "idle", !.tries = 0, !.at = NoPipe] \in AgentType
         /\ a.tries < Retries => [a EXCEPT !.pc = "asleep", !.tries = @ + 1, !.at = NoPipe] \in AgentType
         /\ a.login < MaxLogins => [a EXCEPT !.login = @ + 1] \in AgentType
         /\ a.login < MaxLogins => [pc |-> "asleep", login |-> a.login + 1, tries |-> 1, at |-> NoPipe] \in AgentType
         /\ \A c \in Channels : [a EXCEPT !.pc = "waiting", !.at = c] \in AgentType
  <1>0. ASSUME NEW p \in {"idle", "asleep", "waiting"}, NEW t \in 0 .. Retries, NEW w \in {NoPipe} \cup Channels
        PROVE  [a EXCEPT !.pc = p, !.tries = t, !.at = w] \in AgentType
    BY DEF AgentType
  <1>1. [a EXCEPT !.pc = "idle", !.tries = 0, !.at = NoPipe] \in AgentType
    <2>1. 0 \in 0 .. Retries
      BY DEF Retries
    <2> QED
      BY <1>0, <2>1
  <1>2. ASSUME a.tries < Retries PROVE [a EXCEPT !.pc = "asleep", !.tries = @ + 1, !.at = NoPipe] \in AgentType
    <2>1. a.tries + 1 \in 0 .. Retries
      BY <1>2 DEF AgentType, Retries
    <2> QED
      BY <1>0, <2>1
  <1>3. a.login < MaxLogins => [a EXCEPT !.login = @ + 1] \in AgentType
    BY BoundsAreNat DEF AgentType, Retries
  <1>4. a.login < MaxLogins => [pc |-> "asleep", login |-> a.login + 1, tries |-> 1, at |-> NoPipe] \in AgentType
    BY BoundsAreNat DEF AgentType, Retries
  <1>5. ASSUME NEW c \in Channels PROVE [a EXCEPT !.pc = "waiting", !.at = c] \in AgentType
    BY BoundsAreNat DEF AgentType, Retries
  <1> QED
    BY <1>1, <1>2, <1>3, <1>4, <1>5

(***************************************************************************)
(* Each step keeps the invariant.                                          *)
(***************************************************************************)
USE BoundsAreNat DEF channelVars, uiVars, threadRest, agentRest, Outcome, Goto, At, Channels, Logins

LEMMA InvCreateInstance ==
  ASSUME IInv, CreateInstance
  PROVE  IInv'
  <1>0. prov.refs = 0 /\ creds = NoCreds /\ creds.refs = 0
    BY DEF IInv, Lives, CreateInstance, Unborn, NoCreds
  <1>1. TypeOK' /\ (ui' = "created" => prov'.refs = 1 /\ ~prov'.channel) /\ (ui' # "created" => ui' = ui /\ prov' = prov)
    <2>1. PICK ok \in BOOLEAN :
            /\ ok \/ failures < MaxFailures
            /\ failures' = IF ok THEN failures ELSE failures + 1
            /\ IF ok THEN /\ prov' = [[[NoProvider EXCEPT !.refs = 1] EXCEPT !.refs = @ + 1] EXCEPT !.refs = @ - 1]
                          /\ dllRefs' = dllRefs + 1 /\ ui' = "created"
               ELSE UNCHANGED <<prov, dllRefs, ui>>
      BY DEF CreateInstance, ProviderQueryInterface, ProviderInterfaces
    <2>2. CASE ok
      <3>1. prov' \in ProvType /\ prov'.refs = 1 /\ ~prov'.channel
        BY <2>1, <2>2, FirstReference
      <3> QED
        BY <1>0, <2>1, <2>2, <3>1 DEF IInv, TypeOK, ReferencesCounted, CreateInstance, UiPcs
    <2>3. CASE ~ok
      BY <2>1, <2>3 DEF IInv, TypeOK, ReferencesCounted, CreateInstance, UiPcs
    <2> QED
      BY <2>2, <2>3
  <1>2. Lives'
    BY <1>0, <1>1 DEF IInv, Lives, Unborn, Channeled, Tiled, Taking, Leaving, CreateInstance
  <1>3. OneThread'
    BY <1>1 DEF IInv, TypeOK, OneThread, Using, Started, UiPcs, CreateInstance
  <1>4. Same'
    BY <1>1 DEF IInv, Same, Taking, CreateInstance
  <1> QED
    BY <1>1, <1>2, <1>3, <1>4 DEF IInv

\* LogonUI goes on without changing anything else.
LEMMA InvUiMoves ==
  ASSUME IInv, RefusedScenario \/ Notice \/ GetCredentialCount \/ GoAway
  PROVE  IInv'
  <1>1. TypeOK'
    BY DEF IInv, TypeOK, ReferencesCounted, UiPcs, ThreadPcs, RefusedScenario, Notice, GetCredentialCount, GoAway, GotCredentials
  <1>2. Lives'
    BY DEF IInv, TypeOK, Lives, OneThread, Unborn, Channeled, Tiled, Taking, Leaving, Using, Started, UiPcs,
       NoCreds, CredsType, ProvType, RefusedScenario, Notice, GetCredentialCount, GoAway, GotCredentials
  <1>3. OneThread'
    BY DEF IInv, TypeOK, Lives, OneThread, Unborn, Channeled, Tiled, Taking, Leaving, Using, Started, UiPcs,
       ThreadPcs, ChanType, NullThread, InvalidThread, RefusedScenario, Notice, GetCredentialCount, GoAway,
       GotCredentials
  <1>4. Same'
    BY DEF IInv, TypeOK, Lives, OneThread, Same, Unborn, Channeled, Tiled, Taking, Leaving, Using, Started,
       UiPcs, ThreadPcs, SetsUser, SetsPassword, SetsDomain, Null, CredsType, Strings, RefusedScenario, Notice,
       GetCredentialCount, GoAway, GotCredentials
  <1> QED
    BY <1>1, <1>2, <1>3, <1>4 DEF IInv

LEMMA InvAdvises ==
  ASSUME IInv, Advise \/ UnAdvise
  PROVE  IInv'
  <1>1. TypeOK'
    <2>1. prov' \in ProvType /\ prov'.refs = prov.refs
      BY DEF IInv, TypeOK, ReferencesCounted, ProvType, Advise, UnAdvise
    <2> QED
      BY <2>1 DEF IInv, TypeOK, ReferencesCounted, UiPcs, ThreadPcs, Advise, UnAdvise
  <1>5. prov'.channel = prov.channel /\ prov'.refs = prov.refs
    BY DEF IInv, TypeOK, ReferencesCounted, ProvType, Advise, UnAdvise
  <1>2. Lives'
    BY <1>5 DEF IInv, TypeOK, Lives, OneThread, Unborn, Channeled, Tiled, Taking, Leaving, Using, Started,
       UiPcs, NoCreds, CredsType, ProvType, Advise, UnAdvise
  <1>3. OneThread'
    BY <1>5 DEF IInv, TypeOK, Lives, OneThread, Unborn, Channeled, Tiled, Taking, Leaving, Using, Started,
       UiPcs, ThreadPcs, ChanType, NullThread, InvalidThread, Advise, UnAdvise
  <1>4. Same'
    BY <1>5 DEF IInv, TypeOK, Lives, OneThread, Same, Unborn, Channeled, Tiled, Taking, Leaving, Using,
       Started, UiPcs, ThreadPcs, SetsUser, SetsPassword, SetsDomain, Null, CredsType, Strings, Advise, UnAdvise
  <1> QED
    BY <1>1, <1>2, <1>3, <1>4 DEF IInv

LEMMA InvSetUsageScenario ==
  ASSUME IInv, SetUsageScenario
  PROVE  IInv'
  <1>0. /\ ui = "created" /\ creds = NoCreds /\ prov.refs = 1 /\ ui' \in {"pipe", "leaving"}
        /\ prov'.refs = 1 /\ (prov'.channel <=> ui' = "pipe")
        /\ creds' = IF ui' = "pipe" THEN [NoCreds EXCEPT !.refs = 1] ELSE NoCreds
    BY DEF IInv, TypeOK, Lives, Unborn, ProvType, SetUsageScenario
  <1>5. /\ creds'.user = Null /\ creds'.password = Null /\ creds'.domain = Null
        /\ creds'.refs = IF ui' = "pipe" THEN 1 ELSE 0
    BY <1>0 DEF NoCreds
  <1>1. TypeOK'
    <2>1. prov' \in ProvType /\ prov'.refs = prov.refs
      BY DEF IInv, TypeOK, ReferencesCounted, ProvType, SetUsageScenario
    <2>2. creds' \in CredsType
      BY DEF IInv, TypeOK, ReferencesCounted, CredsType, NoCreds, Null, SetUsageScenario
    <2> QED
      BY <2>1, <2>2 DEF IInv, TypeOK, ReferencesCounted, UiPcs, ThreadPcs, Lives, Unborn, NoCreds, SetUsageScenario
  <1>2. Lives'
    BY <1>0, <1>5 DEF Lives, Unborn, Channeled, Tiled, Taking, Leaving, NoCreds
  <1>3. OneThread'
    BY <1>0 DEF IInv, OneThread, Started, UiPcs, Using, ThreadPcs, SetUsageScenario
  <1>4. Same'
    BY <1>0, <1>5 DEF IInv, Same, Taking, SetUsageScenario
  <1> QED
    BY <1>1, <1>2, <1>3, <1>4 DEF IInv

LEMMA InvCreateChannelPipe ==
  ASSUME IInv, CreateChannelPipe
  PROVE  IInv'
  <1>1. TypeOK'
    <2>1. created + 1 \in Channels /\ created' = created + 1
      BY DEF IInv, TypeOK, OneThread, CreateChannelPipe
    <2>2. chan' \in ChanType
      BY <2>1 DEF IInv, TypeOK, ReferencesCounted, ChanType, NoPipe, CreateChannelPipe
    <2> QED
      BY <2>1, <2>2 DEF IInv, TypeOK, ReferencesCounted, UiPcs, ThreadPcs, CreateChannelPipe
  <1>2. Lives'
    BY DEF IInv, TypeOK, Lives, OneThread, Unborn, Channeled, Tiled, Taking, Leaving, Using, Started, UiPcs,
       NoCreds, CredsType, ProvType, CreateChannelPipe
  <1>3. OneThread'
    BY DEF IInv, TypeOK, Lives, OneThread, Unborn, Channeled, Tiled, Taking, Leaving, Using, Started, UiPcs,
       ThreadPcs, ChanType, NullThread, InvalidThread, CreateChannelPipe
  <1>4. Same'
    BY DEF IInv, TypeOK, Lives, OneThread, Same, Unborn, Channeled, Tiled, Taking, Leaving, Using, Started,
       UiPcs, ThreadPcs, SetsUser, SetsPassword, SetsDomain, Null, CredsType, Strings, CreateChannelPipe
  <1> QED
    BY <1>1, <1>2, <1>3, <1>4 DEF IInv

LEMMA InvCreateChannelThread ==
  ASSUME IInv, CreateChannelThread
  PROVE  IInv'
  <1>1. TypeOK'
    <2>1. chan' \in ChanType
      <3>1. NullThread \in 0 .. NullThread /\ chan \in ChanType
        BY DEF IInv, TypeOK, ReferencesCounted, NullThread
      <3>2. chan' = chan \/ chan' = [chan EXCEPT !.hThread = NullThread]
        BY DEF CreateChannelThread
      <3> QED
        BY <3>1, <3>2, ChannelSet
    <2>2. created \in Channels
      BY DEF IInv, OneThread, CreateChannelThread
    <2> QED
      BY <2>1, <2>2 DEF IInv, TypeOK, ReferencesCounted, UiPcs, ThreadPcs, CreateChannelThread
  <1>2. Lives'
    BY DEF IInv, TypeOK, Lives, OneThread, Unborn, Channeled, Tiled, Taking, Leaving, Using, Started, UiPcs,
       NoCreds, CredsType, ProvType, CreateChannelThread
  <1>3. OneThread'
    BY DEF IInv, TypeOK, Lives, OneThread, Unborn, Channeled, Tiled, Taking, Leaving, Using, Started, UiPcs,
       ThreadPcs, ChanType, NullThread, InvalidThread, CreateChannelThread
  <1>4. Same'
    BY DEF IInv, TypeOK, Lives, OneThread, Same, Unborn, Channeled, Tiled, Taking, Leaving, Using, Started,
       UiPcs, ThreadPcs, SetsUser, SetsPassword, SetsDomain, Null, CredsType, Strings, CreateChannelThread
  <1> QED
    BY <1>1, <1>2, <1>3, <1>4 DEF IInv

LEMMA InvSaves ==
  ASSUME IInv, SaveThread \/ SaveListener
  PROVE  IInv'
  <1>1. TypeOK'
    <2>1. created \in 0 .. NullThread /\ chan \in ChanType
      BY DEF IInv, TypeOK, ReferencesCounted, NullThread
    <2>2. SaveThread => chan' \in ChanType
      BY <2>1, ChannelSet DEF SaveThread
    <2>3. SaveListener => chan' \in ChanType
      BY <2>1 DEF SaveListener, ChanType
    <2> QED
      BY <2>2, <2>3 DEF IInv, TypeOK, ReferencesCounted, UiPcs, ThreadPcs, SaveThread, SaveListener
  <1>2. Lives'
    BY DEF IInv, TypeOK, Lives, OneThread, Unborn, Channeled, Tiled, Taking, Leaving, Using, Started, UiPcs,
       NoCreds, CredsType, ProvType, SaveThread, SaveListener
  <1>3. OneThread'
    BY DEF IInv, TypeOK, Lives, OneThread, Unborn, Channeled, Tiled, Taking, Leaving, Using, Started, UiPcs,
       ThreadPcs, ChanType, NullThread, InvalidThread, SaveThread, SaveListener
  <1>4. Same'
    BY DEF IInv, TypeOK, Lives, OneThread, Same, Unborn, Channeled, Tiled, Taking, Leaving, Using, Started,
       UiPcs, ThreadPcs, SetsUser, SetsPassword, SetsDomain, Null, CredsType, Strings, SaveThread, SaveListener
  <1> QED
    BY <1>1, <1>2, <1>3, <1>4 DEF IInv

LEMMA InvGetCredentialAt ==
  ASSUME IInv, GetCredentialAt
  PROVE  IInv'
  <1>0. /\ creds' \in CredsType /\ creds.refs = 1 /\ creds'.refs = 2
        /\ \A f \in {"user", "password", "domain"} : creds'[f] = creds[f]
    BY CredentialAsked DEF IInv, TypeOK, Lives, Channeled, GetCredentialAt
  <1>1. TypeOK'
    BY <1>0 DEF IInv, TypeOK, ReferencesCounted, UiPcs, ThreadPcs, GetCredentialAt
  <1>5. ui = "tile" /\ ui' = "domain"
    BY DEF GetCredentialAt, FieldDescriptorCount, TileAnswer, Succeeded
  <1>6. /\ UNCHANGED <<prov, created, thread, got, chan, read, submitted>>
    BY DEF GetCredentialAt
  <1>2. Lives'
    BY <1>0, <1>5, <1>6 DEF IInv, Lives, Unborn, Channeled, Tiled, Taking, Leaving, CredsType
  <1>3. OneThread'
    BY <1>5, <1>6 DEF IInv, OneThread, Started, UiPcs, Using, ThreadPcs
  <1>4. Same'
    BY <1>0, <1>5, <1>6 DEF IInv, Same, Taking
  <1> QED
    BY <1>1, <1>2, <1>3, <1>4 DEF IInv

LEMMA InvTakeStrings ==
  ASSUME IInv, TakeString("domain", "user") \/ TakeString("user", "password") \/ TakeString("password", "pack")
  PROVE  IInv'
  <1>1. TypeOK'
    <2>1. read' \in Strings
      BY DEF IInv, TypeOK, ReferencesCounted, Strings, CredsType, TakeString
    <2> QED
      BY <2>1 DEF IInv, TypeOK, ReferencesCounted, UiPcs, ThreadPcs, TakeString
  <1>2. Lives'
    BY DEF IInv, TypeOK, Lives, OneThread, Unborn, Channeled, Tiled, Taking, Leaving, Using, Started, UiPcs,
       NoCreds, CredsType, ProvType, TakeString
  <1>3. OneThread'
    BY DEF IInv, TypeOK, Lives, OneThread, Unborn, Channeled, Tiled, Taking, Leaving, Using, Started, UiPcs,
       ThreadPcs, ChanType, NullThread, InvalidThread, TakeString
  <1>4. Same'
    BY DEF IInv, TypeOK, Lives, OneThread, Same, Unborn, Channeled, Tiled, Taking, Leaving, Using, Started,
       UiPcs, ThreadPcs, SetsUser, SetsPassword, SetsDomain, Null, CredsType, Strings, TakeString
  <1> QED
    BY <1>1, <1>2, <1>3, <1>4 DEF IInv

LEMMA InvPack ==
  ASSUME IInv, Pack
  PROVE  IInv'
  <1>0. ui = "pack" /\ ui' = "verdict" /\ read' = NoRead /\ (submitted' = submitted \/ (submitted' = submitted \cup {read} /\ Complete(read)))
        /\ failures' \in 0 .. MaxFailures
    BY DEF IInv, TypeOK, ReferencesCounted, Pack
  <1>5. read' \in Strings
    BY <1>0, Blanks
  <1>1. TypeOK'
    BY <1>0, <1>5 DEF IInv, TypeOK, ReferencesCounted, UiPcs, ThreadPcs, Pack
  <1>2. Lives'
    BY <1>0 DEF IInv, Lives, Unborn, Channeled, Tiled, Taking, Leaving, Pack
  <1>3. OneThread'
    BY <1>0 DEF IInv, OneThread, Started, UiPcs, Using, ThreadPcs, Pack
  <1>4. Same'
    <2>1. \A f \in {"user", "password", "domain"} : read'[f] = Null
      BY <1>0 DEF NoRead
    <2>2. Complete(read) => read.user \in Logins \ Blank /\ read.password = read.user /\ read.domain = read.user
      BY DEF Complete, IInv, TypeOK, ReferencesCounted, Strings, Same
    <2> QED
      BY <1>0, <2>1, <2>2 DEF IInv, Same, Taking, Pack
  <1> QED
    BY <1>1, <1>2, <1>3, <1>4 DEF IInv

LEMMA InvReportResult ==
  ASSUME IInv, ReportResult
  PROVE  IInv'
  <1>0. /\ creds' \in CredsType /\ creds.refs = 2 /\ creds'.refs = 1 /\ dllRefs' = dllRefs
        /\ \A f \in {"user", "password", "domain"} : creds'[f] = creds[f]
    BY CredentialReleased DEF IInv, TypeOK, ReferencesCounted, Lives, Tiled, ReportResult, Freed
  <1>5. ui = "verdict" /\ ui' \in {"idle", "leaving"} /\ UNCHANGED <<prov, created, thread, got, chan, read, submitted>>
    BY DEF ReportResult
  <1>1. TypeOK'
    BY <1>0 DEF IInv, TypeOK, ReferencesCounted, UiPcs, ThreadPcs, ReportResult
  <1>2. Lives'
    BY <1>0, <1>5 DEF IInv, Lives, Unborn, Channeled, Tiled, Taking, Leaving
  <1>3. OneThread'
    BY <1>5 DEF IInv, OneThread, Started, UiPcs, Using, ThreadPcs
  <1>4. Same'
    BY <1>0, <1>5 DEF IInv, Same, Taking
  <1> QED
    BY <1>1, <1>2, <1>3, <1>4 DEF IInv

LEMMA InvDestroyThread ==
  ASSUME IInv, DestroyThread
  PROVE  IInv'
  <1>0. /\ ui = "release" /\ ui' = "destroy"
        /\ UNCHANGED <<prov, creds, pipe, inbox, got, created, dllRefs, changed, read, submitted, agent, failures>>
        /\ IF prov.channel /\ chan.hThread \in Channels
           THEN thread' = [thread EXCEPT ![chan.hThread] = "done"] ELSE thread' = thread
    BY DEF DestroyThread, Terminated
  <1>5. chan' \in ChanType
    BY DEF IInv, TypeOK, ReferencesCounted, ChanType, NullThread, InvalidThread, DestroyThread
  <1>6. thread' \in [Channels -> ThreadPcs]
    BY <1>0 DEF IInv, TypeOK, ReferencesCounted, ThreadPcs
  <1>7. \A c \in Channels : thread'[c] = thread[c] \/ thread'[c] = "done"
    BY <1>0 DEF IInv, TypeOK, ReferencesCounted
  <1>8. \A c \in Channels : thread'[c] \notin Using
    BY <1>0, <1>7 DEF IInv, TypeOK, OneThread, Using
  <1>9. \A c \in Channels : c > created => thread'[c] = "none"
    BY <1>0 DEF IInv, TypeOK, OneThread
  <1>10. chan'.hThread \in Channels => chan'.hThread <= created
    BY DEF IInv, TypeOK, ReferencesCounted, ChanType, OneThread, NullThread, InvalidThread, DestroyThread
  <1>1. TypeOK'
    BY <1>0, <1>5, <1>6 DEF IInv, TypeOK, ReferencesCounted, UiPcs
  <1>2. Lives'
    BY <1>0 DEF IInv, Lives, Unborn, Channeled, Tiled, Taking, Leaving
  <1>3. OneThread'
    BY <1>0, <1>8, <1>9, <1>10 DEF IInv, OneThread
  <1>4. Same'
    BY <1>0, <1>7 DEF IInv, Same, Taking, SetsUser, SetsPassword, SetsDomain
  <1> QED
    BY <1>1, <1>2, <1>3, <1>4 DEF IInv

LEMMA InvDelete ==
  ASSUME IInv, Delete
  PROVE  IInv'
  <1>0. /\ ui = "destroy" /\ ui' = "start" /\ chan' = NewChannel /\ prov' = NoProvider /\ changed' = FALSE
        /\ pipe' = IF chan.hPipe # NoPipe THEN [pipe EXCEPT ![chan.hPipe] = "closed"] ELSE pipe
        /\ UNCHANGED <<inbox, thread, got, created, read, submitted, agent, failures>>
    BY DEF Delete
  <1>5. creds' = NoCreds /\ dllRefs' = 0
    BY DEF IInv, TypeOK, ReferencesCounted, Lives, Leaving, Delete, CredentialRelease
  <1>6. /\ NoCreds.refs = 0 /\ NoCreds.user = Null /\ NoCreds.password = Null /\ NoCreds.domain = Null
        /\ NoProvider.refs = 0 /\ ~NoProvider.channel /\ NewChannel.hThread = InvalidThread
    BY DEF NoCreds, NoProvider, NewChannel
  <1>7. pipe' \in [Channels -> {"none", "listening", "connected", "closed"}]
    BY <1>0 DEF IInv, TypeOK, ReferencesCounted
  <1>8. changed' \in BOOLEAN
    BY <1>0
  <1>1. TypeOK'
    BY <1>0, <1>5, <1>6, <1>7, <1>8, Blanks DEF IInv, TypeOK, ReferencesCounted, UiPcs
  <1>2. Lives'
    BY <1>0, <1>5, <1>6 DEF Lives, Unborn, Channeled, Tiled, Taking, Leaving
  <1>3. OneThread'
    BY <1>0, <1>6 DEF IInv, TypeOK, OneThread, Started, UiPcs, Using, InvalidThread
  <1>4. Same'
    BY <1>0, <1>5, <1>6 DEF IInv, Same, Taking
  <1> QED
    BY <1>1, <1>2, <1>3, <1>4 DEF IInv

\* The process ends, by unloading or by a call through a pointer that is gone.
LEMMA InvProcessGone ==
  ASSUME IInv, ProcessGone, agent' = agent, failures' \in 0 .. MaxFailures
  PROVE  IInv'
  <1>0. /\ ui' = "start" /\ prov' = NoProvider /\ creds' = NoCreds /\ chan' = NewChannel
        /\ pipe' = [c \in Channels |-> IF pipe[c] = "none" THEN "none" ELSE "closed"]
        /\ thread' = [c \in Channels |-> IF thread[c] = "none" THEN "none" ELSE "done"]
        /\ dllRefs' = 0 /\ changed' = FALSE /\ read' = NoRead
        /\ UNCHANGED <<inbox, got, created, submitted>>
    BY DEF ProcessGone
  <1>6. /\ NoCreds.refs = 0 /\ NoCreds.user = Null /\ NoCreds.password = Null /\ NoCreds.domain = Null
        /\ NoProvider.refs = 0 /\ ~NoProvider.channel /\ NewChannel.hThread = InvalidThread
        /\ NoRead.user = Null /\ NoRead.password = Null /\ NoRead.domain = Null
    BY DEF NoCreds, NoProvider, NewChannel, NoRead
  <1>7. pipe' \in [Channels -> {"none", "listening", "connected", "closed"}] /\ thread' \in [Channels -> ThreadPcs]
    BY <1>0 DEF ThreadPcs
  <1>8. changed' \in BOOLEAN
    BY <1>0
  <1>1. TypeOK'
    BY <1>0, <1>6, <1>7, <1>8, Blanks DEF IInv, TypeOK, ReferencesCounted, UiPcs
  <1>2. Lives'
    BY <1>0, <1>6 DEF Lives, Unborn, Channeled, Tiled, Taking, Leaving
  <1>3. OneThread'
    BY <1>0, <1>6 DEF IInv, TypeOK, OneThread, Started, UiPcs, Using, InvalidThread
  <1>4. Same'
    BY <1>0, <1>6 DEF IInv, Same, Taking
  <1> QED
    BY <1>1, <1>2, <1>3, <1>4 DEF IInv

\* The agent takes, tries or gives up a login, or is answered.
LEMMA InvAgent ==
  ASSUME IInv, LoginCommand \/ CallFails \/ \E c \in Channels : CallPipe(c)
  PROVE  IInv'
  <1>0. UNCHANGED <<ui, prov, creds, chan, thread, got, created, dllRefs, changed, read, submitted, failures>>
    BY DEF LoginCommand, CallFails, CallPipe
  <1>5. agent \in AgentType
    BY DEF IInv, TypeOK, ReferencesCounted
  <1>6. ASSUME LoginCommand PROVE TypeOK'
    <2>1. agent' \in AgentType
      <3>1. agent' = [pc |-> "asleep", login |-> agent.login + 1, tries |-> 1, at |-> NoPipe]
              \/ agent' = [agent EXCEPT !.login = @ + 1]
        BY <1>6 DEF LoginCommand
      <3> QED
        BY <1>5, <1>6, <3>1, AgentMoves DEF LoginCommand
    <2> QED
      BY <1>0, <1>6, <2>1 DEF IInv, TypeOK, ReferencesCounted, LoginCommand
  <1>7. ASSUME CallFails PROVE TypeOK'
    <2>1. agent' \in AgentType
      BY <1>5, <1>7, AgentMoves DEF CallFails
    <2> QED
      BY <1>0, <1>7, <2>1 DEF IInv, TypeOK, ReferencesCounted, CallFails
  <1>8. ASSUME NEW c \in Channels, CallPipe(c) PROVE TypeOK'
    <2>1. agent' \in AgentType
      BY <1>5, <1>8, AgentMoves DEF CallPipe
    <2>2. pipe' = [pipe EXCEPT ![c] = "connected"] /\ inbox' = [inbox EXCEPT ![c] = agent.login]
      BY <1>8 DEF CallPipe
    <2>3. agent.login \in {Null} \cup Logins
      BY <1>5 DEF AgentType, Null
    <2>4. /\ pipe' \in [Channels -> {"none", "listening", "connected", "closed"}]
          /\ inbox' \in [Channels -> {Null} \cup Logins]
      BY <2>2, <2>3 DEF IInv, TypeOK, ReferencesCounted
    <2> QED
      BY <1>0, <2>1, <2>4 DEF IInv, TypeOK, ReferencesCounted
  <1>1. TypeOK'
    BY <1>6, <1>7, <1>8
  <1>2. Lives' /\ OneThread' /\ Same'
    BY <1>0 DEF IInv, Lives, OneThread, Same
  <1> QED
    BY <1>1, <1>2 DEF IInv

\* The thread goes on without changing a string.
LEMMA InvThreadMoves ==
  ASSUME IInv, NEW c \in Channels, ConnectPipe(c) \/ ParseCredentials(c) \/ TestEvents(c) \/ Notify(c)
  PROVE  IInv'
  <1>1. TypeOK'
    <2>1. thread' \in [Channels -> ThreadPcs] /\ failures' \in 0 .. MaxFailures
      BY DEF IInv, TypeOK, ReferencesCounted, ThreadPcs, ConnectPipe, ParseCredentials, TestEvents, Notify
    <2>2. changed' \in BOOLEAN
      BY DEF IInv, TypeOK, ReferencesCounted, ConnectPipe, ParseCredentials, TestEvents, Notify
    <2> QED
      BY <2>1, <2>2 DEF IInv, TypeOK, ReferencesCounted, ConnectPipe, ParseCredentials, TestEvents, Notify
  <1>2. Lives'
    BY DEF IInv, TypeOK, Lives, OneThread, Unborn, Channeled, Tiled, Taking, Leaving, Using, Started, UiPcs,
       NoCreds, CredsType, ProvType, ConnectPipe, ParseCredentials, TestEvents, Notify
  <1>3. OneThread'
    BY DEF IInv, TypeOK, Lives, OneThread, Unborn, Channeled, Tiled, Taking, Leaving, Using, Started, UiPcs,
       ThreadPcs, ChanType, NullThread, InvalidThread, ConnectPipe, ParseCredentials, TestEvents, Notify
  <1>4. Same'
    <2>1. CASE ConnectPipe(c)
      BY <2>1 DEF IInv, TypeOK, OneThread, Same, Taking, Using, ThreadPcs, SetsUser, SetsPassword, SetsDomain, Null,
         ConnectPipe
    <2>2. CASE ParseCredentials(c)
      BY <2>2 DEF IInv, TypeOK, OneThread, Same, Taking, Using, ThreadPcs, SetsUser, SetsPassword, SetsDomain, Null,
         ParseCredentials
    <2>3. CASE TestEvents(c)
      BY <2>3 DEF IInv, TypeOK, OneThread, Same, Taking, Using, ThreadPcs, SetsUser, SetsPassword, SetsDomain, Null,
         TestEvents
    <2>4. CASE Notify(c)
      BY <2>4 DEF IInv, TypeOK, OneThread, Same, Taking, Using, ThreadPcs, SetsUser, SetsPassword, SetsDomain, Null,
         Notify
    <2> QED
      BY <2>1, <2>2, <2>3, <2>4
  <1> QED
    BY <1>1, <1>2, <1>3, <1>4 DEF IInv

LEMMA InvReadPipe ==
  ASSUME IInv, NEW c \in Channels, ReadPipe(c)
  PROVE  IInv'
  <1>0. /\ thread[c] = "read" /\ thread' \in [Channels -> ThreadPcs] /\ got' \in [Channels -> {Null} \cup Logins]
        /\ thread'[c] \in {"parse", "reply"} /\ (thread'[c] = "parse" => got'[c] \in Logins)
        /\ \A d \in Channels \ {c} : thread'[d] = thread[d] /\ got'[d] = got[d]
        /\ UNCHANGED <<ui, prov, created, dllRefs, read, submitted, creds, chan, pipe, inbox, changed, agent, failures>>
    BY DEF IInv, TypeOK, ReferencesCounted, UiPcs, ThreadPcs, ChanType, NoPipe, Null, ReadPipe
  <1>5. c = created /\ ui \in Started
    BY <1>0 DEF IInv, OneThread, Using, ThreadPcs
  <1>6. creds.user = Null /\ creds.password = Null /\ creds.domain = Null
    BY <1>0, <1>5 DEF IInv, Same, SetsUser, SetsPassword, SetsDomain
  <1>1. TypeOK'
    BY <1>0 DEF IInv, TypeOK, ReferencesCounted
  <1>2. Lives'
    BY <1>0 DEF IInv, Lives
  <1>3. OneThread'
    BY <1>0, <1>5 DEF IInv, OneThread, Started, UiPcs, Using, ThreadPcs
  <1>4. Same'
    BY <1>0, <1>5, <1>6 DEF IInv, Same
  <1> QED
    BY <1>1, <1>2, <1>3, <1>4 DEF IInv

LEMMA InvResetOld ==
  ASSUME IInv, NEW c \in Channels, ResetOld(c)
  PROVE  IInv'
  <1>0. creds' \in CredsType /\ creds'.refs = creds.refs
    BY DEF IInv, TypeOK, Same, CredsType, Null, ResetOld, ResetCredentials
  <1>1. TypeOK'
    <2>1. thread' \in [Channels -> ThreadPcs] /\ failures' \in 0 .. MaxFailures
      BY DEF IInv, TypeOK, ReferencesCounted, ThreadPcs, ResetOld
    <2> QED
      BY <1>0, <2>1 DEF IInv, TypeOK, ReferencesCounted, ResetOld
  <1>2. Lives'
    <2>1. creds.refs # 0 /\ ui \notin Unborn
      BY DEF IInv, Lives, OneThread, Unborn, Channeled, Tiled, Taking, Leaving, Started, UiPcs, Using,
         ThreadPcs, ResetOld
    <2> QED
      BY <1>0, <2>1 DEF IInv, Lives, Unborn, Channeled, Tiled, Taking, Leaving, ResetOld
  <1>3. OneThread'
    BY DEF IInv, TypeOK, OneThread, Using, ThreadPcs, ResetOld
  <1>4. Same'
    <2>1. thread[c] = "reset" /\ thread' = [thread EXCEPT ![c] = "user"] /\ thread \in [Channels -> ThreadPcs]
      BY DEF IInv, TypeOK, ResetOld
    <2>2. UNCHANGED <<ui, created, got, read, submitted>>
      BY DEF ResetOld
    <2>3. c = created
      BY <2>1 DEF IInv, OneThread, Using, ThreadPcs
    <2>4. creds'.user = Null /\ creds'.password = Null /\ creds'.domain = Null
      BY DEF IInv, TypeOK, CredsType, ResetOld, ResetCredentials
    <2>5. creds.user = Null /\ creds.password = Null /\ creds.domain = Null
      BY <2>1, <2>3 DEF IInv, Same, SetsUser, SetsPassword, SetsDomain
    <2>6. ui \notin {"tile"} \cup Taking /\ (\A f \in {"user", "password", "domain"} : read[f] = Null)
      BY <2>5 DEF IInv, Same
    <2> QED
      BY <2>1, <2>2, <2>4, <2>6 DEF IInv, Same
  <1> QED
    BY <1>1, <1>2, <1>3, <1>4 DEF IInv

LEMMA InvSetUser ==
  ASSUME IInv, NEW c \in Channels, SetUser(c)
  PROVE  IInv'
  <1>0. creds' \in CredsType /\ creds'.refs = creds.refs
    BY DEF IInv, TypeOK, Same, CredsType, Null, SetUser
  <1>1. TypeOK'
    <2>1. thread' \in [Channels -> ThreadPcs] /\ failures' \in 0 .. MaxFailures
      BY DEF IInv, TypeOK, ReferencesCounted, ThreadPcs, SetUser
    <2> QED
      BY <1>0, <2>1 DEF IInv, TypeOK, ReferencesCounted, SetUser
  <1>2. Lives'
    <2>1. creds.refs # 0 /\ ui \notin Unborn
      BY DEF IInv, Lives, OneThread, Unborn, Channeled, Tiled, Taking, Leaving, Started, UiPcs, Using,
         ThreadPcs, SetUser
    <2> QED
      BY <1>0, <2>1 DEF IInv, Lives, Unborn, Channeled, Tiled, Taking, Leaving, SetUser
  <1>3. OneThread'
    BY DEF IInv, TypeOK, OneThread, Using, ThreadPcs, SetUser
  <1>4. Same'
    BY DEF IInv, TypeOK, Lives, OneThread, Same, Unborn, Channeled, Tiled, Taking, Leaving, Using, Started,
       UiPcs, ThreadPcs, SetsUser, SetsPassword, SetsDomain, Null, CredsType, Strings, SetUser
  <1> QED
    BY <1>1, <1>2, <1>3, <1>4 DEF IInv

LEMMA InvSetPassword ==
  ASSUME IInv, NEW c \in Channels, SetPassword(c)
  PROVE  IInv'
  <1>0. creds' \in CredsType /\ creds'.refs = creds.refs
    BY DEF IInv, TypeOK, Same, CredsType, Null, SetPassword
  <1>1. TypeOK'
    <2>1. thread' \in [Channels -> ThreadPcs] /\ failures' \in 0 .. MaxFailures
      BY DEF IInv, TypeOK, ReferencesCounted, ThreadPcs, SetPassword
    <2> QED
      BY <1>0, <2>1 DEF IInv, TypeOK, ReferencesCounted, SetPassword
  <1>2. Lives'
    <2>1. creds.refs # 0 /\ ui \notin Unborn
      BY DEF IInv, Lives, OneThread, Unborn, Channeled, Tiled, Taking, Leaving, Started, UiPcs, Using,
         ThreadPcs, SetPassword
    <2> QED
      BY <1>0, <2>1 DEF IInv, Lives, Unborn, Channeled, Tiled, Taking, Leaving, SetPassword
  <1>3. OneThread'
    BY DEF IInv, TypeOK, OneThread, Using, ThreadPcs, SetPassword
  <1>4. Same'
    BY DEF IInv, TypeOK, Lives, OneThread, Same, Unborn, Channeled, Tiled, Taking, Leaving, Using, Started,
       UiPcs, ThreadPcs, SetsUser, SetsPassword, SetsDomain, Null, CredsType, Strings, SetPassword
  <1> QED
    BY <1>1, <1>2, <1>3, <1>4 DEF IInv

LEMMA InvSetDomain ==
  ASSUME IInv, NEW c \in Channels, SetDomain(c)
  PROVE  IInv'
  <1>0. creds' \in CredsType /\ creds'.refs = creds.refs
    BY DEF IInv, TypeOK, Same, CredsType, Null, SetDomain
  <1>1. TypeOK'
    <2>1. thread' \in [Channels -> ThreadPcs] /\ failures' \in 0 .. MaxFailures
      BY DEF IInv, TypeOK, ReferencesCounted, ThreadPcs, SetDomain
    <2> QED
      BY <1>0, <2>1 DEF IInv, TypeOK, ReferencesCounted, SetDomain
  <1>2. Lives'
    <2>1. creds.refs # 0 /\ ui \notin Unborn
      BY DEF IInv, Lives, OneThread, Unborn, Channeled, Tiled, Taking, Leaving, Started, UiPcs, Using,
         ThreadPcs, SetDomain
    <2> QED
      BY <1>0, <2>1 DEF IInv, Lives, Unborn, Channeled, Tiled, Taking, Leaving, SetDomain
  <1>3. OneThread'
    BY DEF IInv, TypeOK, OneThread, Using, ThreadPcs, SetDomain
  <1>4. Same'
    BY DEF IInv, TypeOK, Lives, OneThread, Same, Unborn, Channeled, Tiled, Taking, Leaving, Using, Started,
       UiPcs, ThreadPcs, SetsUser, SetsPassword, SetsDomain, Null, CredsType, Strings, SetDomain
  <1> QED
    BY <1>1, <1>2, <1>3, <1>4 DEF IInv

LEMMA InvCheckCredentials ==
  ASSUME IInv, NEW c \in Channels, CheckCredentials(c)
  PROVE  IInv'
  <1>0. creds' \in CredsType /\ creds'.refs = creds.refs
    BY DEF IInv, TypeOK, Same, CredsType, Null, CheckCredentials, ResetCredentials, GotCredentials
  <1>1. TypeOK'
    <2>1. thread' \in [Channels -> ThreadPcs] /\ failures' \in 0 .. MaxFailures
      BY DEF IInv, TypeOK, ReferencesCounted, ThreadPcs, CheckCredentials
    <2> QED
      BY <1>0, <2>1 DEF IInv, TypeOK, ReferencesCounted, CheckCredentials
  <1>2. Lives'
    <2>1. creds.refs # 0 /\ ui \notin Unborn
      BY DEF IInv, Lives, OneThread, Unborn, Channeled, Tiled, Taking, Leaving, Started, UiPcs, Using,
         ThreadPcs, CheckCredentials
    <2> QED
      BY <1>0, <2>1 DEF IInv, Lives, Unborn, Channeled, Tiled, Taking, Leaving, CheckCredentials
  <1>3. OneThread'
    BY DEF IInv, TypeOK, OneThread, Using, ThreadPcs, CheckCredentials
  <1>4. Same'
    BY DEF IInv, TypeOK, Lives, OneThread, Same, Unborn, Channeled, Tiled, Taking, Leaving, Using, Started,
       UiPcs, ThreadPcs, SetsUser, SetsPassword, SetsDomain, Null, CredsType, Strings, CheckCredentials,
       ResetCredentials, GotCredentials
  <1> QED
    BY <1>1, <1>2, <1>3, <1>4 DEF IInv

LEMMA InvReply ==
  ASSUME IInv, NEW c \in Channels, Reply(c)
  PROVE  IInv'
  <1>1. TypeOK'
    <2>1. agent' \in AgentType
      <3>1. agent \in AgentType
        BY DEF IInv, TypeOK, ReferencesCounted
      <3>2. agent' = agent \/ agent' = [agent EXCEPT !.pc = "idle", !.tries = 0, !.at = NoPipe]
        BY DEF Reply
      <3> QED
        BY <3>1, <3>2, AgentMoves
    <2>2. thread' \in [Channels -> ThreadPcs]
      BY DEF IInv, TypeOK, ReferencesCounted, ThreadPcs, Reply
    <2> QED
      BY <2>1, <2>2 DEF IInv, TypeOK, ReferencesCounted, Reply
  <1>2. Lives'
    BY DEF IInv, TypeOK, Lives, OneThread, Unborn, Channeled, Tiled, Taking, Leaving, Using, Started, UiPcs,
       NoCreds, CredsType, ProvType, Reply
  <1>3. OneThread'
    BY DEF IInv, TypeOK, Lives, OneThread, Unborn, Channeled, Tiled, Taking, Leaving, Using, Started, UiPcs,
       ThreadPcs, ChanType, NullThread, InvalidThread, Reply
  <1>4. Same'
    BY DEF IInv, TypeOK, Lives, OneThread, Same, Unborn, Channeled, Tiled, Taking, Leaving, Using, Started,
       UiPcs, ThreadPcs, SetsUser, SetsPassword, SetsDomain, Null, CredsType, Strings, Reply
  <1> QED
    BY <1>1, <1>2, <1>3, <1>4 DEF IInv

LEMMA InvClosePipe ==
  ASSUME IInv, NEW c \in Channels, ClosePipe(c)
  PROVE  IInv'
  <1>1. TypeOK'
    <2>1. chan' \in ChanType
      <3>1. NoPipe \in {NoPipe} \cup Channels /\ chan \in ChanType
        BY DEF IInv, TypeOK, ReferencesCounted
      <3> QED
        BY <3>1, PipeSet DEF ClosePipe
    <2>2. /\ thread' \in [Channels -> ThreadPcs]
          /\ pipe' \in [Channels -> {"none", "listening", "connected", "closed"}]
      BY DEF IInv, TypeOK, ReferencesCounted, ChanType, ThreadPcs, ClosePipe
    <2> QED
      BY <2>1, <2>2 DEF IInv, TypeOK, ReferencesCounted, ClosePipe
  <1>2. Lives'
    BY DEF IInv, TypeOK, Lives, OneThread, Unborn, Channeled, Tiled, Taking, Leaving, Using, Started, UiPcs,
       NoCreds, CredsType, ProvType, ClosePipe
  <1>3. OneThread'
    BY DEF IInv, TypeOK, Lives, OneThread, Unborn, Channeled, Tiled, Taking, Leaving, Using, Started, UiPcs,
       ThreadPcs, ChanType, NullThread, InvalidThread, ClosePipe
  <1>4. Same'
    BY DEF IInv, TypeOK, Lives, OneThread, Same, Unborn, Channeled, Tiled, Taking, Leaving, Using, Started,
       UiPcs, ThreadPcs, SetsUser, SetsPassword, SetsDomain, Null, CredsType, Strings, ClosePipe
  <1> QED
    BY <1>1, <1>2, <1>3, <1>4 DEF IInv

LEMMA InvClearThread ==
  ASSUME IInv, NEW c \in Channels, ClearThread(c)
  PROVE  IInv'
  <1>1. TypeOK'
    <2>1. chan' \in ChanType
      <3>1. NullThread \in 0 .. NullThread /\ chan \in ChanType
        BY DEF IInv, TypeOK, ReferencesCounted, NullThread
      <3> QED
        BY <3>1, ChannelSet DEF ClearThread
    <2>2. thread' \in [Channels -> ThreadPcs]
      BY DEF IInv, TypeOK, ReferencesCounted, ThreadPcs, ClearThread
    <2> QED
      BY <2>1, <2>2 DEF IInv, TypeOK, ReferencesCounted, ClearThread
  <1>2. Lives'
    BY DEF IInv, TypeOK, Lives, OneThread, Unborn, Channeled, Tiled, Taking, Leaving, Using, Started, UiPcs,
       NoCreds, CredsType, ProvType, ClearThread
  <1>3. OneThread'
    BY DEF IInv, TypeOK, Lives, OneThread, Unborn, Channeled, Tiled, Taking, Leaving, Using, Started, UiPcs,
       ThreadPcs, ChanType, NullThread, InvalidThread, ClearThread
  <1>4. Same'
    BY DEF IInv, TypeOK, Lives, OneThread, Same, Unborn, Channeled, Tiled, Taking, Leaving, Using, Started,
       UiPcs, ThreadPcs, SetsUser, SetsPassword, SetsDomain, Null, CredsType, Strings, ClearThread
  <1> QED
    BY <1>1, <1>2, <1>3, <1>4 DEF IInv

LEMMA InvNext == IInv /\ [Next]_vars => IInv'
  <1> SUFFICES ASSUME IInv, [Next]_vars PROVE IInv'
    OBVIOUS
  <1>1. CASE UNCHANGED vars
    BY <1>1 DEF vars, IInv, TypeOK, ReferencesCounted, Lives, OneThread, Same
  <1>2. ASSUME LogonUI PROVE IInv'
    <2>1. ASSUME FreeUnusedLibraries PROVE IInv'
      <3>1. failures' \in 0 .. MaxFailures
        BY <2>1 DEF FreeUnusedLibraries, IInv, TypeOK, ReferencesCounted
      <3> QED
        BY <2>1, <3>1, InvProcessGone DEF FreeUnusedLibraries
    <2> QED
      BY <1>2, <2>1, InvCreateInstance, InvUiMoves, InvSetUsageScenario, InvCreateChannelPipe,
         InvCreateChannelThread,
         InvSaves, InvAdvises, InvGetCredentialAt, InvTakeStrings, InvPack, InvReportResult, InvDestroyThread,
         InvDelete DEF LogonUI
  <1>3. ASSUME NEW c \in Channels, CredentialsChannelWait(c) PROVE IInv'
    <2>1. ASSUME NotifyGone(c) PROVE IInv'
      <3>1. failures' \in 0 .. MaxFailures
        BY <2>1 DEF NotifyGone, IInv, TypeOK, ReferencesCounted
      <3> QED
        BY <2>1, <3>1, InvProcessGone DEF NotifyGone
    <2> QED
      BY <1>3, <2>1, InvThreadMoves, InvReadPipe, InvResetOld, InvSetUser, InvSetPassword, InvSetDomain,
         InvCheckCredentials, InvReply, InvClosePipe, InvClearThread DEF CredentialsChannelWait
  <1> QED
    BY <1>1, <1>2, <1>3, InvAgent DEF Next

LEMMA AlwaysIInv == Spec => []IInv
  BY InvInit, InvNext, PTL DEF Spec

\* Every variable keeps its type, and no reference count goes below zero.
THEOREM TypeCorrect == Spec => []TypeOK
  <1>1. IInv => TypeOK
    BY DEF IInv
  <1> QED
    BY <1>1, AlwaysIInv, PTL

\* The library's count of references is that of the objects there are, whichever
\* allocation failed and however often the credential was taken and given back.
THEOREM ReferencesCorrect == Spec => []ReferencesCounted
  <1>1. IInv => ReferencesCounted
    BY DEF IInv, TypeOK
  <1> QED
    BY <1>1, AlwaysIInv, PTL

\* The destructor has ended the channel's thread, wherever it was, before the
\* provider is gone.
THEOREM DeleteCorrect == Spec => []NoThreadAfterDelete
  <1>1. IInv => NoThreadAfterDelete
    BY DEF IInv, OneThread, NoThreadAfterDelete, Started
  <1> QED
    BY <1>1, AlwaysIInv, PTL

\* What LogonUI submits is one login of the agent with all three strings from
\* it, although they are set and read one by one without a lock.
THEOREM SubmissionCorrect == Spec => []SubmittedWhole
  <1>1. IInv => SubmittedWhole
    BY DEF IInv, Same, SubmittedWhole, Taking
  <1> QED
    BY <1>1, AlwaysIInv, PTL

-----------------------------------------------------------------------------
(* The way of the credentials (Serialization): any strings without a NUL   *)
(* and any sizes of buffers.                                               *)

(* A byte of the buffer.                                                   *)
Byte == Chars \cup {B!NUL}

(* A set of positions that is not empty has a first one.                   *)
LEMMA FirstOf ==
    ASSUME NEW T, T \subseteq Nat, T # {}
    PROVE  /\ (CHOOSE x \in T : \A y \in T : x <= y) \in T
           /\ \A y \in T : (CHOOSE x \in T : \A z \in T : x <= z) <= y
  <1>1. PICK x \in T : \A y \in T : ~(<<y, x>> \in OpToRel(<, Nat))
    BY WFMin, NatLessThanWellFounded
  <1>2. \A y \in T : <<y, x>> \in OpToRel(<, Nat) <=> y < x
    BY DEF OpToRel
  <1>3. \A y \in T : x <= y
    <2>1. \A y \in T : ~(y < x) /\ x \in Nat /\ y \in Nat
      BY <1>1, <1>2
    <2>2. QED
      BY <2>1
  <1>4. QED
    BY <1>3

(* A string that is followed by a NUL ends there.                          *)
LEMMA CStringEnds ==
    ASSUME NEW s \in Seq(Chars), NEW t \in Seq(Byte), Len(t) > Len(s),
           \A i \in 1..Len(s) : t[i] = s[i], t[Len(s) + 1] = B!NUL
    PROVE  B!CString(t) = s
  <1> DEFINE nuls == {i \in DOMAIN t : t[i] = B!NUL}
             first == CHOOSE i \in nuls : \A j \in nuls : i <= j
  <1>1. B!NUL \notin Chars
    BY StringsAssumption DEF StringsAssumption
  <1>2. /\ Len(s) \in Nat /\ Len(t) \in Nat /\ DOMAIN t = 1..Len(t)
        /\ DOMAIN s = 1..Len(s) /\ \A i \in 1..Len(s) : s[i] \in Chars
    OBVIOUS
  <1>3. \A i \in 1..Len(s) : t[i] # B!NUL
    BY <1>1, <1>2
  <1>4. Len(s) + 1 \in nuls /\ nuls \subseteq Nat
    BY <1>2
  <1>5. \A i \in nuls : Len(s) + 1 <= i
    BY <1>2, <1>3
  <1>6. first \in nuls /\ first <= Len(s) + 1
    BY <1>4, FirstOf
  <1>7. first = Len(s) + 1
    BY <1>4, <1>5, <1>6
  <1>8. B!CString(t) = SubSeq(t, 1, first - 1)
    BY <1>4 DEF B!CString
  <1>9. SubSeq(t, 1, Len(s)) = s
    <2>1. /\ SubSeq(t, 1, Len(s)) \in Seq(Byte)
          /\ Len(SubSeq(t, 1, Len(s))) = Len(s)
          /\ \A i \in 1..Len(s) : SubSeq(t, 1, Len(s))[i] = t[i]
      BY <1>2
    <2>2. s \in Seq(Byte)
      BY DEF Byte
    <2>3. QED
      BY <2>1, <2>2, <1>2
  <1> HIDE DEF first
  <1>10. first - 1 = Len(s)
    BY <1>2, <1>7
  <1>11. QED
    BY <1>8, <1>9, <1>10, Zenon

(* A string without a NUL is one as it is.                                 *)
LEMMA CStringWhole ==
    ASSUME NEW s \in Seq(Chars)
    PROVE  B!CString(s) = s
  <1>1. {i \in DOMAIN s : s[i] = B!NUL} = {}
    BY StringsAssumption DEF StringsAssumption
  <1>2. QED
    BY <1>1 DEF B!CString

(* Two sequences one after the other.                                      *)
LEMMA Followed ==
    ASSUME NEW S, NEW s \in Seq(S), NEW t \in Seq(S)
    PROVE  /\ s \o t \in Seq(S) /\ Len(s \o t) = Len(s) + Len(t)
           /\ \A i \in 1..Len(s) : (s \o t)[i] = s[i]
           /\ \A i \in 1..Len(t) : (s \o t)[Len(s) + i] = t[i]
  OBVIOUS

(* A sequence and one element more.                                        *)
LEMMA OneMore ==
    ASSUME NEW S, NEW s \in Seq(S), NEW e \in S
    PROVE  /\ s \o <<e>> \in Seq(S) /\ Len(s \o <<e>>) = Len(s) + 1
           /\ \A i \in 1..Len(s) : (s \o <<e>>)[i] = s[i]
           /\ (s \o <<e>>)[Len(s) + 1] = e
  <1> DEFINE t == <<e>>
  <1>1. t \in Seq(S) /\ Len(t) = 1 /\ t[1] = e
    OBVIOUS
  <1> HIDE DEF t
  <1>2. /\ s \o t \in Seq(S) /\ Len(s \o t) = Len(s) + Len(t)
        /\ \A i \in 1..Len(s) : (s \o t)[i] = s[i]
        /\ \A i \in 1..Len(t) : (s \o t)[Len(s) + i] = t[i]
    BY <1>1, Followed
  <1>3. /\ s \o t \in Seq(S) /\ Len(s \o t) = Len(s) + 1
        /\ \A i \in 1..Len(s) : (s \o t)[i] = s[i]
        /\ (s \o t)[Len(s) + 1] = e
    BY <1>1, <1>2
  <1>4. QED
    BY <1>3 DEF t

(* The bytes of the buffer: the name, the password and the NUL.            *)
LEMMA Packed ==
    ASSUME NEW user \in Seq(Chars), NEW password \in Seq(Chars)
    PROVE  LET m == B!PackCredentials(user, password)
           IN  /\ m.length = Len(user) /\ m.bytes \in Seq(Byte)
               /\ Len(m.bytes) = Len(user) + Len(password) + 1
               /\ \A i \in 1..Len(user) : m.bytes[i] = user[i]
               /\ \A i \in 1..Len(password) :
                      m.bytes[Len(user) + i] = password[i]
               /\ m.bytes[Len(user) + Len(password) + 1] = B!NUL
  <1> DEFINE m == B!PackCredentials(user, password)
             up == user \o password
             bytes == up \o <<B!NUL>>
  <1>1. m.length = Len(user) /\ m.bytes = bytes
    BY DEF B!PackCredentials
  <1>2. /\ user \in Seq(Byte) /\ password \in Seq(Byte) /\ B!NUL \in Byte
        /\ Len(user) \in Nat /\ Len(password) \in Nat
    BY DEF Byte
  <1>3. /\ up \in Seq(Byte) /\ Len(up) = Len(user) + Len(password)
        /\ \A i \in 1..Len(user) : up[i] = user[i]
        /\ \A i \in 1..Len(password) : up[Len(user) + i] = password[i]
    BY <1>2, Followed
  <1> HIDE DEF m, up
  <1>4. /\ bytes \in Seq(Byte) /\ Len(bytes) = Len(up) + 1
        /\ \A i \in 1..Len(up) : bytes[i] = up[i]
        /\ bytes[Len(up) + 1] = B!NUL
    BY <1>2, <1>3, OneMore
  <1> HIDE DEF bytes
  <1>5. /\ \A i \in 1..Len(user) : bytes[i] = user[i]
        /\ \A i \in 1..Len(password) : bytes[Len(user) + i] = password[i]
    <2>1. /\ \A i \in 1..Len(user) : i \in 1..Len(up)
          /\ \A i \in 1..Len(password) : Len(user) + i \in 1..Len(up)
      BY <1>2, <1>3
    <2>2. QED
      BY <1>3, <1>4, <2>1
  <1>6. /\ Len(bytes) = Len(user) + Len(password) + 1
        /\ bytes[Len(user) + Len(password) + 1] = B!NUL
    BY <1>3, <1>4
  <1>7. QED
    BY <1>1, <1>4, <1>5, <1>6 DEF m

(* A part of a sequence.                                                   *)
LEMMA PartOf ==
    ASSUME NEW S, NEW s \in Seq(S), NEW a \in Nat, NEW b \in Nat,
           a <= b, b <= Len(s)
    PROVE  /\ SubSeq(s, a + 1, b) \in Seq(S)
           /\ Len(SubSeq(s, a + 1, b)) = b - a
           /\ \A i \in 1..(b - a) : SubSeq(s, a + 1, b)[i] = s[a + i]
  OBVIOUS

(* Each reader finds the name.                                             *)
LEMMA NameFound ==
    ASSUME NEW user \in Seq(Chars), NEW password \in Seq(Chars)
    PROVE  B!UserOf(B!PackCredentials(user, password)) = user
  <1> DEFINE m == B!PackCredentials(user, password)
             bytes == m.bytes
             name == SubSeq(bytes, 1, m.length)
  <1>1. /\ m.length = Len(user) /\ bytes \in Seq(Byte)
        /\ Len(bytes) = Len(user) + Len(password) + 1
        /\ \A i \in 1..Len(user) : bytes[i] = user[i]
    BY Packed
  <1> HIDE DEF bytes
  <1>2. /\ Len(user) \in Nat /\ Len(password) \in Nat
        /\ Len(user) <= Len(bytes) /\ user \in Seq(Byte)
    BY <1>1 DEF Byte
  <1>3. /\ SubSeq(bytes, 1, Len(user)) \in Seq(Byte)
        /\ Len(SubSeq(bytes, 1, Len(user))) = Len(user)
        /\ \A i \in 1..Len(user) : SubSeq(bytes, 1, Len(user))[i] = user[i]
    BY <1>1, <1>2
  <1>4. SubSeq(bytes, 1, Len(user)) = user
    BY <1>2, <1>3
  <1>5. B!UserOf(m) = B!CString(SubSeq(bytes, 1, Len(user)))
    BY <1>1 DEF B!UserOf, bytes
  <1>6. QED
    BY <1>4, <1>5, CStringWhole

(* The password ends at the NUL, wherever the part that is read ends.      *)
LEMMA PasswordFound ==
    ASSUME NEW user \in Seq(Chars), NEW password \in Seq(Chars),
           NEW s \in Seq(Byte), NEW n \in Nat,
           Len(user) + Len(password) + 1 <= n, n <= Len(s),
           \A i \in 1..(Len(user) + Len(password) + 1) :
               s[i] = B!PackCredentials(user, password).bytes[i]
    PROVE  B!CString(SubSeq(s, Len(user) + 1, n)) = password
  <1> DEFINE bytes == B!PackCredentials(user, password).bytes
             t == SubSeq(s, Len(user) + 1, n)
  <1>1. /\ \A i \in 1..Len(password) : bytes[Len(user) + i] = password[i]
        /\ bytes[Len(user) + Len(password) + 1] = B!NUL
    BY Packed
  <1> HIDE DEF bytes
  <1>2. /\ Len(user) \in Nat /\ Len(password) \in Nat /\ Len(s) \in Nat
        /\ \A i \in 1..(Len(user) + Len(password) + 1) : s[i] = bytes[i]
    BY DEF bytes
  <1>3. /\ t \in Seq(Byte) /\ Len(t) = n - Len(user)
        /\ \A i \in 1..(n - Len(user)) : t[i] = s[Len(user) + i]
    BY <1>2, PartOf
  <1> HIDE DEF t
  <1>4. Len(t) > Len(password)
    BY <1>2, <1>3
  <1>5. ASSUME NEW i \in 1..Len(password)
        PROVE  t[i] = password[i]
    <2>1. /\ i \in 1..(n - Len(user))
          /\ Len(user) + i \in 1..(Len(user) + Len(password) + 1)
      BY <1>2
    <2>2. QED
      BY <1>1, <1>2, <1>3, <2>1, Zenon
  <1>6. t[Len(password) + 1] = B!NUL
    <2>1. /\ Len(password) + 1 \in 1..(n - Len(user))
          /\ Len(user) + Len(password) + 1
                 \in 1..(Len(user) + Len(password) + 1)
          /\ Len(user) + (Len(password) + 1) = Len(user) + Len(password) + 1
      BY <1>2
    <2>2. t[Len(password) + 1] = s[Len(user) + (Len(password) + 1)]
      BY <1>3, <2>1, Zenon
    <2>3. s[Len(user) + Len(password) + 1] = B!NUL
      BY <1>1, <1>2, <2>1, Zenon
    <2>4. QED
      BY <2>1, <2>2, <2>3
  <1>7. B!CString(t) = password
    BY <1>3, <1>4, <1>5, <1>6, CStringEnds
  <1>8. QED
    BY <1>7 DEF t

(* A sequence is made of its two parts.                                    *)
LEMMA MadeOfParts ==
    ASSUME NEW S, NEW s \in Seq(S), NEW x \in Seq(S), NEW y \in Seq(S),
           Len(s) = Len(x) + Len(y),
           \A i \in 1..Len(x) : x[i] = s[i],
           \A i \in 1..Len(y) : y[i] = s[Len(x) + i]
    PROVE  x \o y = s
  <1>1. Len(x) \in Nat /\ Len(y) \in Nat /\ Len(s) \in Nat
    OBVIOUS
  <1>2. x \o y \in Seq(S) /\ Len(x \o y) = Len(s)
    BY Followed
  <1>3. ASSUME NEW i \in 1..Len(s)
        PROVE  (x \o y)[i] = s[i]
    <2>1. CASE i <= Len(x)
      <3>1. i \in 1..Len(x)
        BY <1>1, <2>1
      <3>2. (x \o y)[i] = x[i]
        BY <3>1, Followed
      <3>3. QED
        BY <3>1, <3>2
    <2>2. CASE ~(i <= Len(x))
      <3>1. i - Len(x) \in 1..Len(y) /\ Len(x) + (i - Len(x)) = i
        BY <1>1, <2>2
      <3>2. (x \o y)[Len(x) + (i - Len(x))] = y[i - Len(x)]
        BY <3>1, Followed
      <3>3. QED
        BY <3>1, <3>2
    <2>3. QED
      BY <2>1, <2>2
  <1>4. QED
    BY <1>2, <1>3

(* A name up to its first "@", and what is behind it.                      *)
LEMMA NameParts ==
    ASSUME NEW user \in Seq(Chars)
    PROVE  /\ B!LocalPart(user) \in Seq(Chars)
           /\ "@" \notin {B!LocalPart(user)[i] : i \in DOMAIN B!LocalPart(user)}
           /\ B!Ats(user) = {} => /\ B!LocalPart(user) = user
                                  /\ B!DomainPart(user) = NULL
           /\ B!Ats(user) # {} =>
                /\ B!DomainPart(user) \in Seq(Chars)
                /\ B!LocalPart(user) \o <<"@">> \o B!DomainPart(user) = user
                /\ \E n \in 1..Len(user) :
                     /\ B!LocalPart(user) \o SubSeq(user, n, Len(user)) = user
                     /\ user[n] = "@"
  <1>1. CASE B!Ats(user) = {}
    BY <1>1 DEF B!LocalPart, B!DomainPart, B!Ats
  <1>2. CASE B!Ats(user) # {}
    <2> DEFINE n == B!FirstAt(user)
    <2>1. /\ B!Ats(user) \subseteq 1..Len(user)
          /\ \A i \in 1..Len(user) : i \in B!Ats(user) <=> user[i] = "@"
          /\ Len(user) \in Nat
      BY DEF B!Ats
    <2>2. n \in B!Ats(user) /\ \A i \in B!Ats(user) : n <= i
      <3>1. B!Ats(user) \subseteq Nat
        BY <2>1
      <3>2. QED
        BY <1>2, <3>1, FirstOf DEF B!FirstAt
    <2>3. /\ B!LocalPart(user) = SubSeq(user, 1, n - 1)
          /\ B!DomainPart(user) = SubSeq(user, n + 1, Len(user))
      BY <1>2 DEF B!LocalPart, B!DomainPart
    <2> HIDE DEF n
    <2>4. n \in 1..Len(user) /\ user[n] = "@"
          /\ \A i \in 1..(n - 1) : user[i] # "@"
      BY <2>1, <2>2
    <2> DEFINE local == SubSeq(user, 1, n - 1)
               domain == SubSeq(user, n + 1, Len(user))
               rest == SubSeq(user, n, Len(user))
    <2>5. /\ local \in Seq(Chars) /\ Len(local) = n - 1
          /\ \A i \in 1..(n - 1) : local[i] = user[i]
      BY <2>1, <2>4
    <2>6. /\ domain \in Seq(Chars) /\ Len(domain) = Len(user) - n
          /\ \A i \in 1..(Len(user) - n) : domain[i] = user[n + i]
      BY <2>1, <2>4, PartOf
    <2>7. /\ rest \in Seq(Chars) /\ Len(rest) = (Len(user) - n) + 1
          /\ \A i \in 1..((Len(user) - n) + 1) : rest[i] = user[(n - 1) + i]
      BY <2>1, <2>4
    <2> HIDE DEF local, domain, rest
    <2>8. local \o rest = user
      <3>1. /\ Len(user) = Len(local) + Len(rest) /\ Len(local) = n - 1
            /\ \A i \in 1..Len(rest) : rest[i] = user[Len(local) + i]
            /\ \A i \in 1..Len(local) : local[i] = user[i]
        BY <2>1, <2>4, <2>5, <2>7
      <3>2. QED
        BY <2>5, <2>7, <3>1, MadeOfParts
    <2>9. local \o <<"@">> \o domain = user
      <3> DEFINE front == local \o <<"@">>
      <3>1. "@" \in Chars
        BY <2>4
      <3>2. /\ front \in Seq(Chars) /\ Len(front) = Len(local) + 1
            /\ \A i \in 1..Len(local) : front[i] = local[i]
            /\ front[Len(local) + 1] = "@"
        BY <2>5, <3>1, OneMore
      <3> HIDE DEF front
      <3>3. \A i \in 1..Len(front) : front[i] = user[i]
        BY <2>1, <2>4, <2>5, <3>2
      <3>4. /\ Len(user) = Len(front) + Len(domain) /\ Len(front) = n
            /\ \A i \in 1..Len(domain) : domain[i] = user[Len(front) + i]
        BY <2>1, <2>4, <2>5, <2>6, <3>2
      <3>5. front \o domain = user
        BY <2>6, <3>2, <3>3, <3>4, MadeOfParts
      <3>6. QED
        BY <3>5 DEF front
    <2>10. "@" \notin {local[i] : i \in DOMAIN local}
      BY <2>4, <2>5
    <2>11. QED
      BY <1>2, <2>3, <2>4, <2>5, <2>6, <2>8, <2>9, <2>10
         DEF local, domain, rest
  <1>3. QED
    BY <1>1, <1>2

(* What a reader makes of the buffer, when nothing is cut off.             *)
AsGiven(who, user, password, r) ==
    \/ ~r.ok /\ who # "pam"
       /\ \/ B!Size(B!PackCredentials(user, password)) > PipeBuffer
          \/ user = <<>> \/ password = <<>>
          \/ /\ who = "gina"
             /\ B!WrittenBehind(B!PackCredentials(user, password))
    \/ /\ r.ok /\ r.password = password
       /\ CASE who = "gina" -> r.user = user
            [] who = "credprov" ->
                 /\ Whole(r.user, r.domain) = user
                 /\ "@" \notin {r.user[i] : i \in DOMAIN r.user}
            [] who = "pam" ->
                 \/ r.user = user
                 \/ /\ r.user \in Accounts
                    /\ \E n \in 1..Len(user) :
                         /\ r.user \o SubSeq(user, n, Len(user)) = user
                         /\ user[n] = "@"

(* The strings the credential provider takes over.                         *)
TakenOver(r) == /\ r.user \in Seq(Chars) /\ r.password \in Seq(Chars)
               /\ r.domain \in Seq(Chars) \cup {NULL}

(* The PAM module: a buffer that fits is read as it was packed.            *)
LEMMA PamReads ==
    ASSUME NEW user \in Seq(Chars), NEW password \in Seq(Chars),
           B!Size(B!PackCredentials(user, password)) <= PamBuffer,
           NEW r \in B!parse_credentials_buffer(
                        B!PackCredentials(user, password))
    PROVE  AsGiven("pam", user, password, r)
  <1> DEFINE m == B!PackCredentials(user, password)
  <1>1. /\ Len(m.bytes) \in Nat /\ Len(m.bytes) = Len(user) + Len(password) + 1
        /\ m.bytes \in Seq(Byte) /\ m.length = Len(user)
        /\ Len(user) \in Nat /\ Len(password) \in Nat
    BY Packed
  <1>2. B!Received(m) = m
    BY DEF B!Received
  <1>3. B!UserOf(m) = user
    BY NameFound
  <1>4. B!PasswordOf(m) = password
    <2>1. B!PasswordOf(m)
              = B!CString(SubSeq(m.bytes, Len(user) + 1, Len(m.bytes)))
      BY <1>1 DEF B!PasswordOf
    <2>2. QED
      BY <1>1, <2>1, PasswordFound
  <1> HIDE DEF m
  <1>5. r = [ok |-> TRUE, user |-> B!NoDomain(user), domain |-> NULL,
             password |-> password]
    <2>1. ~(m.length > Len(m.bytes))
      BY <1>1
    <2>2. QED
      BY <1>2, <1>3, <1>4, <2>1 DEF B!parse_credentials_buffer, m
  <1>6. \/ B!NoDomain(user) = user
        \/ /\ B!NoDomain(user) = B!LocalPart(user)
           /\ B!LocalPart(user) \in Accounts /\ B!Ats(user) # {}
    BY DEF B!NoDomain
  <1>7. QED
    BY <1>5, <1>6, NameParts DEF AsGiven

(* The four bytes beyond the message leave it as it is.                    *)
LEMMA FourMore ==
    ASSUME NEW S, NEW s \in Seq(S), NEW e \in S
    PROVE  /\ s \o <<e, e, e, e>> \in Seq(S)
           /\ Len(s \o <<e, e, e, e>>) = Len(s) + 4
           /\ \A i \in 1..Len(s) : (s \o <<e, e, e, e>>)[i] = s[i]
  <1> DEFINE t == <<e, e, e, e>>
  <1>1. t \in Seq(S) /\ Len(t) = 4
    OBVIOUS
  <1> HIDE DEF t
  <1>2. /\ s \o t \in Seq(S) /\ Len(s \o t) = Len(s) + Len(t)
        /\ \A i \in 1..Len(s) : (s \o t)[i] = s[i]
    BY <1>1, Followed
  <1>3. s \o t \in Seq(S) /\ Len(s \o t) = Len(s) + 4
    BY <1>1, <1>2
  <1>4. QED
    BY <1>2, <1>3 DEF t

(* The GINA: the length that is too large does no harm.                    *)
LEMMA GinaReads ==
    ASSUME NEW user \in Seq(Chars), NEW password \in Seq(Chars),
           NEW r \in B!ThreadFunc(B!PackCredentials(user, password))
    PROVE  AsGiven("gina", user, password, r)
  <1> DEFINE m == B!PackCredentials(user, password)
             beyond == m.bytes \o <<B!NUL, B!NUL, B!NUL, B!NUL>>
             n == B!GinaPasswordLength(m)
  <1>1. /\ Len(m.bytes) \in Nat /\ Len(m.bytes) = Len(user) + Len(password) + 1
        /\ m.bytes \in Seq(Byte) /\ m.length = Len(user)
        /\ Len(user) \in Nat /\ Len(password) \in Nat
    BY Packed
  <1>2. B!UserOf(m) = user
    BY NameFound
  <1>3. B!NUL \in Byte
    BY DEF Byte
  <1>4. n = Len(m.bytes) + 3 - Len(user)
    BY <1>1 DEF B!GinaPasswordLength, B!Size, B!Header
  <1>5. B!CString(SubSeq(beyond, m.length + 1, m.length + n)) = password
    <2> HIDE DEF m, n
    <2>1. /\ beyond \in Seq(Byte) /\ Len(beyond) = Len(m.bytes) + 4
          /\ \A i \in 1..Len(m.bytes) : beyond[i] = m.bytes[i]
      BY <1>1, <1>3, FourMore
    <2> HIDE DEF beyond
    <2>2. /\ m.length + n = Len(m.bytes) + 3
          /\ Len(user) + Len(password) + 1 <= Len(m.bytes) + 3
          /\ Len(m.bytes) + 3 <= Len(beyond) /\ Len(m.bytes) + 3 \in Nat
      BY <1>1, <1>4, <2>1
    <2>3. \A i \in 1..(Len(user) + Len(password) + 1) :
              beyond[i] = B!PackCredentials(user, password).bytes[i]
      BY <1>1, <2>1 DEF m
    <2>4. B!CString(SubSeq(beyond, Len(user) + 1, Len(m.bytes) + 3)) = password
      BY <2>1, <2>2, <2>3, PasswordFound
    <2>5. QED
      BY <1>1, <2>2, <2>4
  <1>6. CASE ~B!Fits(m)
    <2>1. r = B!Nothing
      BY <1>6 DEF B!ThreadFunc, B!GinaResults
    <2>2. B!Size(m) > PipeBuffer
      BY <1>1, <1>6, SizesAssumption
         DEF SizesAssumption, B!Fits, B!Size, B!Header
    <2>3. QED
      BY <2>1, <2>2 DEF AsGiven, B!Nothing
  <1>7. CASE B!Fits(m)
    <2> DEFINE copied == B!CString(SubSeq(beyond, m.length + 1, m.length + n))
               asRead == [ok |-> TRUE, user |-> B!UserOf(m), domain |-> NULL,
                          password |-> copied]
    <2>1. r \in B!GinaResults(m, copied)
      BY DEF B!ThreadFunc
    <2>2. r = asRead \/ (r = B!Nothing /\ B!WrittenBehind(m))
      <3> HIDE DEF m, copied
      <3>1. QED
        BY <1>7, <2>1 DEF B!GinaResults
    <2>3. CASE r = asRead
      <3> HIDE DEF m, beyond, n
      <3>1. r.ok /\ r.user = user /\ r.password = password
        BY <1>2, <1>5, <2>3
      <3>2. QED
        BY <3>1 DEF AsGiven
    <2>4. CASE r = B!Nothing /\ B!WrittenBehind(m)
      BY <2>4 DEF AsGiven, B!Nothing
    <2>5. QED
      BY <2>2, <2>3, <2>4
  <1>8. QED
    BY <1>6, <1>7

(* The provider: a name in two parts, or nothing.                          *)
LEMMA ProviderReads ==
    ASSUME NEW user \in Seq(Chars), NEW password \in Seq(Chars),
           NEW r \in B!ParseCredentialsBuffer(B!PackCredentials(user, password))
    PROVE  AsGiven("credprov", user, password, r) /\ (r.ok => TakenOver(r))
  <1> DEFINE m == B!PackCredentials(user, password)
  <1>1. /\ Len(m.bytes) \in Nat /\ Len(m.bytes) = Len(user) + Len(password) + 1
        /\ m.bytes \in Seq(Byte) /\ m.length = Len(user)
        /\ Len(user) \in Nat /\ Len(password) \in Nat
    BY Packed
  <1>2. B!UserOf(m) = user
    BY NameFound
  <1>3. B!PasswordOf(m) = password
    <2>1. B!PasswordOf(m)
              = B!CString(SubSeq(m.bytes, Len(user) + 1, Len(m.bytes)))
      BY <1>1 DEF B!PasswordOf
    <2>2. QED
      BY <1>1, <2>1, PasswordFound
  <1>4. CASE ~B!Fits(m) \/ user = <<>> \/ password = <<>>
    <2>1. r = B!Nothing
      BY <1>2, <1>3, <1>4 DEF B!ParseCredentialsBuffer
    <2>2. B!Size(m) > PipeBuffer \/ user = <<>> \/ password = <<>>
      BY <1>1, <1>4, SizesAssumption
         DEF SizesAssumption, B!Fits, B!Size, B!Header
    <2>3. QED
      BY <2>1, <2>2 DEF AsGiven, B!Nothing
  <1>5. CASE ~(~B!Fits(m) \/ user = <<>> \/ password = <<>>)
    <2>1. r = [ok |-> TRUE, user |-> B!LocalPart(user),
               domain |-> B!DomainPart(user), password |-> password]
      BY <1>2, <1>3, <1>5 DEF B!ParseCredentialsBuffer
    <2>2. Whole(r.user, r.domain) = user
      <3>1. CASE B!Ats(user) = {}
        BY <2>1, <3>1, NameParts DEF Whole
      <3>2. CASE B!Ats(user) # {}
        <4>1. r.domain # NULL
          BY <2>1, <3>2, NameParts, StringsAssumption DEF StringsAssumption
        <4>2. QED
          BY <2>1, <3>2, <4>1, NameParts DEF Whole
      <3>3. QED
        BY <3>1, <3>2
    <2>3. TakenOver(r)
      BY <2>1, NameParts DEF TakenOver
    <2>4. QED
      BY <2>1, <2>2, <2>3, NameParts DEF AsGiven
  <1>6. QED
    BY <1>4, <1>5

(* A string of the structure, where its characters lie in the buffer.      *)
Counted(s, offset) ==
    [Length |-> Len(s) * WChar, MaximumLength |-> Len(s) * WChar,
     Buffer |-> offset]

(* The structure as the credential provider packs it.                      *)
PackedForm(type, d, u, p) ==
    [MessageType |-> type,
     Domain |-> Counted(d, LogonSize),
     User |-> Counted(u, LogonSize + Len(d) * WChar),
     Password |-> Counted(p, LogonSize + Len(d) * WChar + Len(u) * WChar),
     characters |-> d \o u \o p,
     cb |-> LogonSize + Len(d) * WChar + Len(u) * WChar + Len(p) * WChar]

(* A length that has a 16-bit number is taken as it is.                    *)
LEMMA LengthKept ==
    ASSUME NEW s \in Seq(Chars), UnicodeStringInitWithString(s).hr = "S_OK"
    PROVE  UnicodeStringInitWithString(s).out =
               [Length |-> Len(s) * WChar, MaximumLength |-> Len(s) * WChar,
                Buffer |-> s]
  <1>1. s # NULL
    BY StringsAssumption DEF StringsAssumption
  <1>2. ~(Len(s) > MaxUShort \/ Len(s) * WChar > MaxUShort)
    BY <1>1 DEF UnicodeStringInitWithString, Result
  <1>3. QED
    BY <1>1, <1>2 DEF UnicodeStringInitWithString, Result

(* What is packed when every call succeeds.                                *)
LEMMA PacksTheForm ==
    ASSUME NEW d \in Seq(Chars), NEW u \in Seq(Chars), NEW p \in Seq(Chars),
           NEW cpus, NEW fails, NEW init, NEW pack,
           init = KerbInteractiveUnlockLogonInit(d, u, p, cpus),
           pack = KerbInteractiveUnlockLogonPack(init.out, fails),
           init.hr = "S_OK", pack.hr = "S_OK"
    PROVE  pack.out = PackedForm(MessageType(cpus), d, u, p)
  <1> DEFINE dd == UnicodeStringInitWithString(d)
             uu == UnicodeStringInitWithString(u)
             pp == UnicodeStringInitWithString(p)
             logon == [MessageType |-> MessageType(cpus), Domain |-> dd.out,
                       User |-> uu.out, Password |-> pp.out]
  <1>1. /\ dd.hr = "S_OK" /\ uu.hr = "S_OK" /\ pp.hr = "S_OK"
        /\ init.out = logon
    BY DEF KerbInteractiveUnlockLogonInit, Result
  <1>2. /\ dd.out = [Length |-> Len(d) * WChar,
                     MaximumLength |-> Len(d) * WChar, Buffer |-> d]
        /\ uu.out = [Length |-> Len(u) * WChar,
                     MaximumLength |-> Len(u) * WChar, Buffer |-> u]
        /\ pp.out = [Length |-> Len(p) * WChar,
                     MaximumLength |-> Len(p) * WChar, Buffer |-> p]
    BY <1>1, LengthKept
  <1> HIDE DEF dd, uu, pp
  <1>3. "blob" \notin fails
    BY DEF KerbInteractiveUnlockLogonPack, Result
  <1>4. /\ logon.MessageType = MessageType(cpus)
        /\ logon.Domain.Length = Len(d) * WChar /\ logon.Domain.Buffer = d
        /\ logon.User.Length = Len(u) * WChar /\ logon.User.Buffer = u
        /\ logon.Password.Length = Len(p) * WChar /\ logon.Password.Buffer = p
    BY <1>2
  <1> HIDE DEF logon
  <1>5. KerbInteractiveUnlockLogonPack(logon, fails).out =
            PackedForm(MessageType(cpus), d, u, p)
    BY <1>3, <1>4
       DEF KerbInteractiveUnlockLogonPack, Result, PackedCopy, PackedForm,
           Counted, Bytes
  <1>6. QED
    BY <1>1, <1>5

(* The offset of a string becomes the place of its first character.        *)
LEMMA PointsBehind ==
    ASSUME NEW s, NEW n \in Nat
    PROVE  Pointer(Counted(s, LogonSize + n * WChar)) =
               [Counted(s, LogonSize + n * WChar) EXCEPT !.Buffer = n + 1]
  <1>1. /\ LogonSize + n * WChar # 0
        /\ ((LogonSize + n * WChar) - LogonSize) \div WChar = n
    BY SizesAssumption DEF SizesAssumption, WChar
  <1>2. QED
    BY <1>1 DEF Pointer, Counted

(* What the LSA unpacks is what was packed.                                *)
LEMMA UnpacksTheForm ==
    ASSUME NEW type, NEW d \in Seq(Chars), NEW u \in Seq(Chars),
           NEW p \in Seq(Chars)
    PROVE  LET form == PackedForm(type, d, u, p)
               unpacked ==
                   KerbInteractiveUnlockLogonUnpackInPlace(form, form.cb)
           IN  /\ Characters(unpacked, unpacked.Domain) = d
               /\ Characters(unpacked, unpacked.User) = u
               /\ Characters(unpacked, unpacked.Password) = p
  <1> DEFINE form == PackedForm(type, d, u, p)
             unpacked == KerbInteractiveUnlockLogonUnpackInPlace(form, form.cb)
             all == d \o u \o p
  <1>1. Len(d) \in Nat /\ Len(u) \in Nat /\ Len(p) \in Nat
    OBVIOUS
  <1>2. /\ form.Domain = Counted(d, LogonSize + 0 * WChar)
        /\ form.User = Counted(u, LogonSize + Len(d) * WChar)
        /\ form.Password = Counted(p, LogonSize + (Len(d) + Len(u)) * WChar)
        /\ form.characters = all
    BY <1>1, SizesAssumption DEF SizesAssumption, PackedForm, WChar
  <1>3. /\ LogonSize <= form.cb /\ Inside(form.Domain, form.cb)
        /\ Inside(form.User, form.cb) /\ Inside(form.Password, form.cb)
    BY <1>1, SizesAssumption
       DEF SizesAssumption, PackedForm, Inside, Counted, WChar
  <1>4. /\ unpacked.Domain = Pointer(form.Domain)
        /\ unpacked.User = Pointer(form.User)
        /\ unpacked.Password = Pointer(form.Password)
        /\ unpacked.characters = all
    BY <1>3 DEF KerbInteractiveUnlockLogonUnpackInPlace, PackedForm
  <1>5. /\ unpacked.Domain = [Counted(d, LogonSize + 0 * WChar)
                                  EXCEPT !.Buffer = 0 + 1]
        /\ unpacked.User = [Counted(u, LogonSize + Len(d) * WChar)
                                EXCEPT !.Buffer = Len(d) + 1]
        /\ unpacked.Password =
               [Counted(p, LogonSize + (Len(d) + Len(u)) * WChar)
                    EXCEPT !.Buffer = (Len(d) + Len(u)) + 1]
    <2> HIDE DEF form, unpacked
    <2>1. 0 \in Nat /\ Len(d) + Len(u) \in Nat
      BY <1>1
    <2>2. QED
      BY <1>1, <1>2, <1>4, <2>1, PointsBehind
  <1> HIDE DEF form, unpacked
  <1>6. /\ Characters(unpacked, unpacked.Domain) = SubSeq(all, 1, Len(d))
        /\ Characters(unpacked, unpacked.User)
               = SubSeq(all, Len(d) + 1, Len(d) + Len(u))
        /\ Characters(unpacked, unpacked.Password)
               = SubSeq(all, (Len(d) + Len(u)) + 1, Len(d) + Len(u) + Len(p))
    <2>1. \A n \in Nat : (n * WChar) \div WChar = n
      BY DEF WChar
    <2>2. /\ unpacked.Domain.Buffer = 1
          /\ unpacked.Domain.Length \div WChar = Len(d)
          /\ unpacked.User.Buffer = Len(d) + 1
          /\ unpacked.User.Length \div WChar = Len(u)
          /\ unpacked.Password.Buffer = (Len(d) + Len(u)) + 1
          /\ unpacked.Password.Length \div WChar = Len(p)
      BY <1>1, <1>5, <2>1 DEF Counted
    <2>3. /\ 1 + Len(d) - 1 = Len(d)
          /\ (Len(d) + 1) + Len(u) - 1 = Len(d) + Len(u)
          /\ ((Len(d) + Len(u)) + 1) + Len(p) - 1 = Len(d) + Len(u) + Len(p)
      BY <1>1
    <2>4. QED
      BY <1>4, <2>2, <2>3 DEF Characters
  <1>7. /\ SubSeq(all, 1, Len(d)) = d
        /\ SubSeq(all, Len(d) + 1, Len(d) + Len(u)) = u
        /\ SubSeq(all, (Len(d) + Len(u)) + 1, Len(d) + Len(u) + Len(p)) = p
    OBVIOUS
  <1>8. QED
    BY <1>6, <1>7 DEF form, unpacked

(* A failure leaves nothing allocated.                                     *)
Clears(r) == r.hr # "S_OK" => r.live = {}

(* Each helper function, whatever calls fail in it.                        *)
LEMMA HelpersClear ==
    ASSUME NEW fails
    PROVE  /\ \A label : /\ Clears(FieldDescriptorCoAllocCopy(label, fails))
                         /\ Clears(FieldDescriptorCopy(label, fails))
           /\ \A password : Clears(ProtectAndCopyString(password, fails))
           /\ \A password, encrypted, cpus :
                  Clears(ProtectIfNecessaryAndCopyPassword(
                             password, encrypted, cpus, fails))
           /\ \A domain, user :
                  Clears(DomainUsernameStringAlloc(domain, user, fails))
           /\ Clears(KerbInteractiveUnlockLogonRepackNative(fails))
  <1> USE DEF Clears, Result, If, Left
  <1>1. ASSUME NEW label
        PROVE  /\ Clears(FieldDescriptorCoAllocCopy(label, fails))
               /\ Clears(FieldDescriptorCopy(label, fails))
    BY DEF FieldDescriptorCoAllocCopy, FieldDescriptorCopy
  <1>2. ASSUME NEW password
        PROVE  Clears(ProtectAndCopyString(password, fails))
    BY DEF ProtectAndCopyString
  <1>3. ASSUME NEW password, NEW encrypted, NEW cpus
        PROVE  Clears(ProtectIfNecessaryAndCopyPassword(
                          password, encrypted, cpus, fails))
    <2> DEFINE r == IF cpus # "CPUS_CREDUI" /\ ~encrypted
                    THEN ProtectAndCopyString(password, fails)
                    ELSE IF "plain" \in fails
                    THEN Result("E_OUTOFMEMORY", NULL, {})
                    ELSE Result("S_OK", IF encrypted THEN Encrypted(password)
                                        ELSE password, {"plain"})
    <2>1. r.hr # "S_OK" => r.live = {}
      BY <1>2
    <2> HIDE DEF r
    <2>2. \/ ProtectIfNecessaryAndCopyPassword(password, encrypted, cpus, fails)
                 = Result(r.hr, r.out, Left({"const"} \cup r.live, {"const"}))
          \/ ProtectIfNecessaryAndCopyPassword(password, encrypted, cpus, fails)
                 \in {Result("E_OUTOFMEMORY", NULL, {}),
                      Result("S_OK", <<>>, {"empty"})}
      BY DEF ProtectIfNecessaryAndCopyPassword, r
    <2>3. QED
      BY <2>1, <2>2
  <1>4. ASSUME NEW domain, NEW user
        PROVE  Clears(DomainUsernameStringAlloc(domain, user, fails))
    BY DEF DomainUsernameStringAlloc
  <1>5. Clears(KerbInteractiveUnlockLogonRepackNative(fails))
    BY DEF KerbInteractiveUnlockLogonRepackNative
  <1>6. QED
    BY <1>1, <1>2, <1>3, <1>4, <1>5

(* What is known of the credentials at each place of their way.            *)
WayInv ==
    /\ given \in [user : Users, password : Passwords]
    /\ at \in {"read", "authenticated"} =>
           /\ reader \in {"pam", "credprov", "gina"}
           /\ result \in Readings(reader, Message)
    /\ at \in {"set", "packed", "unpacked"} =>
           /\ result.user \in Seq(Chars) /\ result.password \in Seq(Chars)
           /\ result.domain \in Seq(Chars)
    /\ at = "packed" =>
           \E cpus : packed = PackedForm(MessageType(cpus), result.domain,
                                         result.user, result.password)
    /\ LsaReads
    /\ NothingLeaks

(* The agent is given strings.                                             *)
LEMMA WayInitInv == WayInit => WayInv
  BY DEF WayInit, WayInv, LsaReads, NothingLeaks, NoCall, Result

(* Each step leaves to the next what it needs to know.                     *)
LEMMA WayNextInv ==
    ASSUME WayInv, [WayNext]_wayVars
    PROVE  WayInv'
  <1>1. given \in [user : Users, password : Passwords]
    BY DEF WayInv
  <1>2. given.user \in Seq(Chars) /\ given.password \in Seq(Chars)
    BY <1>1, StringsAssumption DEF StringsAssumption
  <1>3. CASE Read
    BY <1>3 DEF WayInv, Read, Message, LsaReads, NothingLeaks
  <1>4. CASE Authenticate
    <2>1. /\ at' \in {"authenticated", "refused"} /\ at = "read"
          /\ UNCHANGED <<given, reader, result, packed, call>>
      BY <1>4 DEF Authenticate
    <2>2. QED
      BY <2>1 DEF WayInv, Message, LsaReads, NothingLeaks
  <1>5. CASE SetCredentials
    <2>1. result \in B!ParseCredentialsBuffer(
                         B!PackCredentials(given.user, given.password))
      BY <1>5 DEF SetCredentials, WayInv, Readings, Message
    <2>2. TakenOver(result)
      BY <1>2, <1>5, <2>1, ProviderReads DEF SetCredentials
    <2>3. ComputerName \in Seq(Chars)
      BY StringsAssumption DEF StringsAssumption
    <2>4. result' = [result EXCEPT !.domain =
                        IF @ = NULL THEN ComputerName ELSE @]
      BY <1>5 DEF SetCredentials
    <2>5. PICK d : result = [ok |-> TRUE, user |-> result.user, domain |-> d,
                             password |-> result.password]
      BY <1>5, <2>1 DEF SetCredentials, B!ParseCredentialsBuffer, B!Nothing
    <2>6. /\ result'.user = result.user
          /\ result'.password = result.password
          /\ result'.domain \in Seq(Chars)
      BY <2>2, <2>3, <2>4, <2>5 DEF TakenOver
    <2>7. QED
      BY <1>1, <1>5, <2>2, <2>6
         DEF SetCredentials, WayInv, TakenOver, LsaReads, NothingLeaks
  <1>6. CASE GetSerialization
    <2>1. /\ at = "set" /\ UNCHANGED <<given, reader, result, call>>
          /\ result.user \in Seq(Chars) /\ result.password \in Seq(Chars)
          /\ result.domain \in Seq(Chars)
      BY <1>6 DEF GetSerialization, WayInv
    <2>2. \/ at' = "failed"
          \/ at' = "packed" /\
             \E cpus : packed' = PackedForm(MessageType(cpus), result.domain,
                                            result.user, result.password)
      <3>1. PICK d \in Seq(Chars), u \in Seq(Chars), p \in Seq(Chars) :
              d = result.domain /\ u = result.user /\ p = result.password
        BY <2>1
      <3>2. PICK cpus, fails :
              LET logon == KerbInteractiveUnlockLogonInit(d, u, p, cpus)
                  blob == KerbInteractiveUnlockLogonPack(logon.out, fails)
                  done == /\ logon.hr = "S_OK" /\ blob.hr = "S_OK"
                          /\ RetrieveNegotiateAuthPackage(fails).hr = "S_OK"
              IN  /\ packed' = IF done THEN blob.out ELSE NULL
                  /\ at' = IF done THEN "packed" ELSE "failed"
        BY <1>6, <3>1 DEF GetSerialization
      <3> DEFINE logon == KerbInteractiveUnlockLogonInit(d, u, p, cpus)
                 blob == KerbInteractiveUnlockLogonPack(logon.out, fails)
      <3>3. ASSUME logon.hr = "S_OK", blob.hr = "S_OK"
            PROVE  blob.out = PackedForm(MessageType(cpus), d, u, p)
        BY <3>3, PacksTheForm
      <3>4. \/ at' = "failed"
            \/ /\ at' = "packed" /\ logon.hr = "S_OK" /\ blob.hr = "S_OK"
               /\ packed' = blob.out
        BY <3>2
      <3> HIDE DEF logon, blob
      <3>5. QED
        BY <3>1, <3>3, <3>4
    <2>3. QED
      BY <1>1, <2>1, <2>2 DEF WayInv, LsaReads, NothingLeaks
  <1>7. CASE Unpack
    <2>1. PICK cpus : packed = PackedForm(MessageType(cpus), result.domain,
                                          result.user, result.password)
      BY <1>7 DEF Unpack, WayInv
    <2>2. packed' = KerbInteractiveUnlockLogonUnpackInPlace(packed, packed.cb)
      BY <1>7 DEF Unpack
    <2>3. /\ result.user \in Seq(Chars) /\ result.password \in Seq(Chars)
          /\ result.domain \in Seq(Chars)
      BY <1>7 DEF Unpack, WayInv
    <2>4. /\ Characters(packed', packed'.Domain) = result.domain
          /\ Characters(packed', packed'.User) = result.user
          /\ Characters(packed', packed'.Password) = result.password
      BY <2>1, <2>2, <2>3, UnpacksTheForm
    <2>5. QED
      BY <1>1, <1>7, <2>3, <2>4 DEF Unpack, WayInv, LsaReads, NothingLeaks
  <1>8. CASE CallHelper
    <2>1. PICK r : Called(r) /\ Clears(r)
      BY <1>8, HelpersClear DEF CallHelper
    <2>2. QED
      BY <1>1, <2>1 DEF Called, Clears, WayInv, LsaReads, NothingLeaks
  <1>9. CASE UNCHANGED wayVars
    BY <1>9 DEF wayVars, WayInv, Message, LsaReads, NothingLeaks
  <1>10. QED
    BY <1>3, <1>4, <1>5, <1>6, <1>7, <1>8, <1>9 DEF WayNext

(* At each place, the credentials are what was given or what was packed.   *)
LEMMA WayCorrect == WaySpec => []WayInv
  <1>1. WayInv /\ [WayNext]_wayVars => WayInv'
    BY WayNextInv
  <1>2. QED
    BY <1>1, WayInitInv, PTL DEF WaySpec

(* Each reader makes of the buffer what the agent was given, or nothing.   *)
THEOREM ReadingCorrect == WaySpec => []ReadAsGiven
  <1>1. WayInv => ReadAsGiven
    <2> SUFFICES ASSUME WayInv, at \in {"read", "authenticated"},
                        reader = "pam" => B!Size(Message) <= PamBuffer
                 PROVE  AsGiven(reader, given.user, given.password, result)
      BY DEF ReadAsGiven, AsGiven, Message
    <2>1. given.user \in Seq(Chars) /\ given.password \in Seq(Chars)
      BY StringsAssumption DEF StringsAssumption, WayInv
    <2>2. /\ reader \in {"pam", "credprov", "gina"}
          /\ result \in Readings(reader, Message)
      BY DEF WayInv
    <2>3. CASE reader = "pam"
      BY <2>1, <2>2, <2>3, PamReads DEF Readings, Message
    <2>4. CASE reader = "credprov"
      BY <2>1, <2>2, <2>4, ProviderReads DEF Readings, Message
    <2>5. CASE reader = "gina"
      BY <2>1, <2>2, <2>5, GinaReads DEF Readings, Message
    <2>6. QED
      BY <2>2, <2>3, <2>4, <2>5
  <1>2. QED
    BY <1>1, WayCorrect, PTL

(* The LSA reads the strings the credential provider packed.               *)
THEOREM PackingCorrect == WaySpec => []LsaReads
  <1>1. WayInv => LsaReads
    BY DEF WayInv
  <1>2. QED
    BY <1>1, WayCorrect, PTL

(* A helper function that fails leaves nothing allocated.                  *)
THEOREM HelpersCorrect == WaySpec => []NothingLeaks
  <1>1. WayInv => NothingLeaks
    BY DEF WayInv
  <1>2. QED
    BY <1>1, WayCorrect, PTL

=============================================================================
