---------------------------- MODULE GreeterProofs ----------------------------
(***************************************************************************)
(* Theorems about Greeter, for any number of logins, messages and failures *)
(* of the bus, and for each of the three plugins.                          *)
(***************************************************************************)
EXTENDS Greeter, TLAPS

LEMMA BoundsAreNat == MaxToken \in Nat /\ MaxMessages \in Nat /\ MaxBusFailures \in Nat
  BY GreeterAssumption DEF GreeterAssumption

(***************************************************************************)
(* Types.  The plugins' structure is typed for tokens without a bound.     *)
(***************************************************************************)

\* What the type of the structure needs besides: a timeout is attached exactly
\* when the id says so, only GDM 3 queues messages, and KDM shows none.
Timed(x) ==
  /\ x.timer => x.sources = 1
  /\ ~x.timer => x.sources = 0 /\ x.queue = <<>>

Quiet(k, x) ==
  /\ k # "gdm" => x.queue = <<>>
  /\ k = "kdm" => ~x.timer

ExtOK(k, x) == x \in ExtType /\ Timed(x) /\ Quiet(k, x)

\* Handlers that touch neither the queue nor the timer.
Untimed(x, y) == y.timer = x.timer /\ y.sources = x.sources /\ y.queue = x.queue

LEMMA UntimedKeeps ==
  ASSUME NEW k, NEW x, NEW y \in ExtType, ExtOK(k, x), Untimed(x, y)
  PROVE  ExtOK(k, y)
  BY DEF ExtOK, Untimed, Timed, Quiet

\* A token arrives.
LEMMA Arrivals ==
  ASSUME NEW k, NEW x, ExtOK(k, x), NEW t \in Tokens, NEW chosen \in BOOLEAN,
         NEW y, y \in {Gdm!OnUserAuthenticated(x, t, chosen), Gdm2!OnUserAuthenticated(x, t, chosen),
                       Kdm!UserAuthenticated(x, t)}
  PROVE  ExtOK(k, y) /\ y.token = t
  <1>1. y \in ExtType /\ y.token = t /\ Untimed(x, y)
    BY DEF ExtOK, ExtType, Untimed, Gdm!OnUserAuthenticated, Gdm2!OnUserAuthenticated, Kdm!UserAuthenticated
  <1> QED
    BY <1>1, UntimedKeeps

\* A question is answered: with the token there is, which GDM 2 and KDM forget.
Asked(k, x) ==
  CASE k = "gdm" -> Gdm!AskSecret(x) [] k = "gdm2" -> Gdm2!AskSecret(x) [] k = "kdm" -> Kdm!TextPrompt(x)

LEMMA Answers ==
  ASSUME NEW k \in Kinds, NEW x, ExtOK(k, x), NEW r, r = Asked(k, x) \/ (k = "gdm2" /\ r = Gdm2!RequestAnswer(x))
  PROVE  /\ ExtOK(k, r.ext) /\ r.answered \in BOOLEAN
         /\ r.answered => r.answer = x.token
         /\ r.ext.token = IF r.answered /\ k # "gdm" THEN None ELSE x.token
  <1>1. /\ r.ext \in ExtType /\ Untimed(x, r.ext) /\ r.answered \in BOOLEAN
        /\ r.answered => r.answer = x.token
        /\ r.ext.token = IF r.answered /\ k # "gdm" THEN None ELSE x.token
    <2>0. x \in ExtType
      BY DEF ExtOK
    <2>1. CASE k = "gdm"
      <3>1. r = [answered |-> TRUE, answer |-> x.token, ext |-> x]
        BY <2>1 DEF Asked, Gdm!AskSecret
      <3> QED
        BY <3>1, <2>0, <2>1 DEF Untimed
    <2>2. CASE k = "gdm2" /\ r = Gdm2!RequestAnswer(x)
      <3>1. r = [answered |-> TRUE, answer |-> x.token, ext |-> [x EXCEPT !.token = None]]
        BY <2>2 DEF Gdm2!RequestAnswer, Gdm2!None, None
      <3> QED
        BY <3>1, <2>0, <2>2 DEF Untimed, ExtType
    <2>3. CASE k = "gdm2" /\ x.token = None /\ r # Gdm2!RequestAnswer(x)
      <3>1. r = [answered |-> FALSE, answer |-> None, ext |-> x]
        BY <2>3 DEF Asked, Gdm2!AskSecret, Gdm2!None, None
      <3> QED
        BY <3>1, <2>0, <2>3 DEF Untimed
    <2>4. CASE k = "kdm"
      <3>1. r = [answered |-> TRUE, answer |-> x.token, ext |-> [x EXCEPT !.token = None]]
        BY <2>4 DEF Asked, Kdm!TextPrompt, Kdm!None, None
      <3> QED
        BY <3>1, <2>0, <2>4 DEF Untimed, ExtType
    <2>5. k = "gdm2" /\ x.token # None => r = Gdm2!RequestAnswer(x)
      BY DEF Asked, Gdm2!AskSecret, Gdm2!None, None
    <2> QED
      BY <2>1, <2>2, <2>3, <2>4, <2>5 DEF Kinds
  <1> QED
    BY <1>1, UntimedKeeps

\* What the queue and the timer must be once they have been touched.
LEMMA TimedKeeps ==
  ASSUME NEW k, NEW y \in ExtType,
         \/ y.timer = TRUE /\ y.sources = 1 /\ k # "kdm"
         \/ y.timer = FALSE /\ y.sources = 0 /\ y.queue = <<>>,
         k # "gdm" => y.queue = <<>>
  PROVE  ExtOK(k, y)
  BY DEF ExtOK, Timed, Quiet

LEMMA NoMessages == <<>> \in Seq({"info", "problem"})
  OBVIOUS

LEMMA TimerOn ==
  ASSUME NEW x \in ExtType, NEW q \in Seq({"info", "problem"}), NEW n \in Nat
  PROVE  [x EXCEPT !.queue = q, !.timer = TRUE, !.sources = n] \in ExtType
  BY DEF ExtType

LEMMA TimerSet ==
  ASSUME NEW x \in ExtType, NEW n \in Nat
  PROVE  [x EXCEPT !.sources = n, !.timer = TRUE] \in ExtType
  BY DEF ExtType

LEMMA TimerOff ==
  ASSUME NEW x \in ExtType, NEW n \in Nat
  PROVE  [x EXCEPT !.sources = n, !.timer = FALSE] \in ExtType
  BY DEF ExtType

LEMMA TimerPurged ==
  ASSUME NEW x \in ExtType, NEW q \in Seq({"info", "problem"}), NEW n \in Nat
  PROVE  [x EXCEPT !.sources = n, !.timer = FALSE, !.queue = q] \in ExtType
  BY DEF ExtType

\* A text of PAM is queued by GDM 3 and replaces the one on show in GDM 2.
Shown(k, x, m) ==
  CASE k = "gdm" -> Gdm!QueueMessage(x, m) [] k = "gdm2" -> Gdm2!SetMessage(x) [] k = "kdm" -> Kdm!TextMessage(x)

LEMMA Texts ==
  ASSUME NEW k \in Kinds, NEW x, ExtOK(k, x), NEW m \in {"info", "problem"}, NEW y, y = Shown(k, x, m)
  PROVE  ExtOK(k, y) /\ y.token = x.token
  <1>0. x \in ExtType /\ Timed(x) /\ Quiet(k, x) /\ x.queue \in Seq({"info", "problem"})
    BY DEF ExtOK, ExtType
  <1>1. CASE k = "gdm" /\ x.timer
    <2>1. y = [x EXCEPT !.queue = Append(@, m)]
      BY <1>1 DEF Shown, Gdm!QueueMessage
    <2>2. Append(x.queue, m) \in Seq({"info", "problem"})
      BY <1>0
    <2>3. y \in ExtType /\ y.token = x.token /\ y.sources = x.sources
      BY <1>0, <2>1, <2>2 DEF ExtType
    <2>4. y.timer = x.timer
      BY <1>0, <2>1 DEF ExtType
    <2>5. x.sources = 1
      BY <1>0, <1>1 DEF Timed
    <2> QED
      BY <1>1, <2>3, <2>4, <2>5 DEF ExtOK, Timed, Quiet
  <1>2. CASE k = "gdm" /\ ~x.timer
    <2>1. x.queue = <<>> /\ x.sources = 0
      BY <1>0, <1>2 DEF Timed
    <2>2. Append(x.queue, m) # <<>> /\ Tail(Append(x.queue, m)) = <<>>
      BY <2>1
    <2> DEFINE z == [x EXCEPT !.queue = Append(@, m)]
    <2>3. z.queue = Append(x.queue, m) /\ z.sources = 0
      BY <1>0, <2>1 DEF ExtType
    <2>4. y = [z EXCEPT !.queue = Tail(@), !.timer = TRUE, !.sources = @ + 1]
      BY <1>2, <2>2, <2>3 DEF Shown, Gdm!QueueMessage, Gdm!DequeueMessage
    <2>6. z \in ExtType /\ z.token = x.token
      BY <1>0 DEF ExtType
    <2>5. Tail(z.queue) = <<>> /\ z.sources + 1 = 1
      BY <2>2, <2>3
    <2> HIDE DEF z
    <2>7. y \in ExtType
      <3>1. Tail(z.queue) \in Seq({"info", "problem"})
        BY <2>5, NoMessages, Zenon
      <3>2. z.sources + 1 \in Nat
        BY <2>5
      <3>3. [z EXCEPT !.queue = Tail(@), !.timer = TRUE, !.sources = @ + 1] \in ExtType
        BY <2>6, <3>1, <3>2, TimerOn
      <3> QED
        BY <2>4, <3>3, Zenon
    <2>8. y.token = z.token /\ y.queue = <<>> /\ y.sources = 1
      BY <2>4, <2>5, <2>6 DEF ExtType
    <2>9. y.timer = TRUE
      BY <2>4, <2>6 DEF ExtType
    <2>10. ExtOK(k, y)
      BY <1>2, <2>7, <2>8, <2>9, TimedKeeps
    <2> QED
      BY <2>6, <2>8, <2>10
  <1>3. CASE k = "gdm2"
    <2>1. (IF x.timer THEN x.sources - 1 ELSE x.sources) + 1 = 1 /\ x.queue = <<>>
      BY <1>0, <1>3 DEF Timed, Quiet
    <2>2. y = [x EXCEPT !.sources = 1, !.timer = TRUE]
      BY <1>3, <2>1 DEF Shown, Gdm2!SetMessage
    <2>3. y \in ExtType
      BY <1>0, <2>2, TimerSet, ZenonT(40)
    <2>4. y.token = x.token /\ y.queue = <<>> /\ y.sources = 1
      BY <1>0, <2>1, <2>2 DEF ExtType
    <2>5. y.timer = TRUE
      BY <1>0, <2>2 DEF ExtType
    <2>6. ExtOK(k, y)
      BY <1>3, <2>3, <2>4, <2>5, TimedKeeps
    <2> QED
      BY <2>4, <2>6
  <1>4. CASE k = "kdm"
    BY <1>4 DEF Shown, Kdm!TextMessage, Kdm!NothingDone
  <1> QED
    BY <1>1, <1>2, <1>3, <1>4 DEF Kinds

\* A text has been on show: the next one is shown, or the timer is forgotten.
LEMMA Timeouts ==
  ASSUME NEW k \in {"gdm", "gdm2"}, NEW x, ExtOK(k, x), x.sources > 0,
         NEW y, y = IF k = "gdm" THEN Gdm!MessageTimeout(x) ELSE Gdm2!OnMessageExpired(x)
  PROVE  ExtOK(k, y) /\ y.token = x.token
  <1>0. /\ x \in ExtType /\ Timed(x) /\ Quiet(k, x) /\ x.sources = 1
        /\ x.queue \in Seq({"info", "problem"})
    BY DEF ExtOK, Timed, ExtType
  <1> DEFINE z == [x EXCEPT !.sources = @ - 1]
  <1>4. z \in ExtType /\ z.token = x.token /\ z.queue = x.queue /\ z.sources = 0
    BY <1>0 DEF ExtType
  <1>1. CASE k = "gdm" /\ x.queue # <<>>
    <2>1. y = [z EXCEPT !.queue = Tail(@), !.timer = TRUE, !.sources = @ + 1]
      BY <1>1, <1>4 DEF Gdm!MessageTimeout, Gdm!DequeueMessage
    <2>2. Tail(z.queue) \in Seq({"info", "problem"}) /\ z.sources + 1 = 1
      BY <1>0, <1>1, <1>4
    <2> HIDE DEF z
    <2>3. y \in ExtType
      <3>1. [z EXCEPT !.queue = Tail(@), !.timer = TRUE, !.sources = @ + 1] \in ExtType
        BY <1>4, <2>2, TimerOn
      <3> QED
        BY <2>1, <3>1, Zenon
    <2>4. y.token = z.token /\ y.sources = 1
      BY <1>4, <2>1, <2>2 DEF ExtType
    <2>5. y.timer = TRUE
      BY <1>4, <2>1 DEF ExtType
    <2>6. ExtOK(k, y)
      BY <1>1, <2>3, <2>4, <2>5, TimedKeeps
    <2> QED
      BY <1>4, <2>4, <2>6
  <1>2. CASE k = "gdm" /\ x.queue = <<>>
    <2>1. y = [z EXCEPT !.timer = FALSE]
      BY <1>2, <1>4 DEF Gdm!MessageTimeout, Gdm!DequeueMessage
    <2> HIDE DEF z
    <2>2. y \in ExtType /\ y.token = z.token /\ y.queue = <<>> /\ y.sources = 0
      BY <1>2, <1>4, <2>1 DEF ExtType
    <2>3. y.timer = FALSE
      BY <1>4, <2>1 DEF ExtType
    <2> QED
      BY <1>2, <1>4, <2>2, <2>3, TimedKeeps
  <1>3. CASE k = "gdm2"
    <2>1. y = [x EXCEPT !.sources = @ - 1, !.timer = FALSE] /\ x.sources - 1 = 0
      BY <1>0, <1>3 DEF Gdm2!OnMessageExpired
    <2> HIDE DEF z
    <2>2. y \in ExtType
      <3>1. [x EXCEPT !.sources = @ - 1, !.timer = FALSE] \in ExtType
        BY <1>0, <2>1, TimerOff
      <3> QED
        BY <2>1, <3>1, Zenon
    <2>3. y.token = x.token /\ y.queue = <<>> /\ y.sources = 0
      BY <1>0, <1>3, <2>1 DEF ExtType, Quiet
    <2>4. y.timer = FALSE
      BY <1>0, <2>1 DEF ExtType
    <2>5. ExtOK(k, y)
      BY <2>2, <2>3, <2>4, TimedKeeps
    <2> QED
      BY <2>3, <2>5
  <1> QED
    BY <1>1, <1>2, <1>3

\* Purging GDM 3's messages leaves neither one of them nor a timeout.
LEMMA Purges ==
  ASSUME NEW x \in ExtType, Timed(x), NEW y, y = Gdm!PurgeMessageQueue(x)
  PROVE  y \in ExtType /\ y.token = x.token /\ y.queue = <<>> /\ y.sources = 0 /\ y.timer = FALSE
  <1>1. (IF x.timer THEN x.sources - 1 ELSE x.sources) = 0
    BY DEF Timed
  <1>2. y = [x EXCEPT !.sources = 0, !.timer = FALSE, !.queue = <<>>]
    BY <1>1 DEF Gdm!PurgeMessageQueue
  <1>3. y \in ExtType
    <2>1. [x EXCEPT !.sources = 0, !.timer = FALSE, !.queue = <<>>] \in ExtType
      BY NoMessages, TimerPurged
    <2> QED
      BY <1>2, <2>1, Zenon
  <1>4. y.token = x.token /\ y.queue = <<>> /\ y.sources = 0
    BY <1>2 DEF ExtType
  <1>5. y.timer = FALSE
    BY <1>2 DEF ExtType
  <1> QED
    BY <1>3, <1>4, <1>5

\* After a conversation: GDM forgets the token, and GDM 3 its messages.
Over(k, x) ==
  CASE k = "gdm" -> Gdm!Reset(x) [] k = "gdm2" -> Gdm2!Reset(x) [] k = "kdm" -> Kdm!NothingDone(x)

LEMMA Resets ==
  ASSUME NEW k \in Kinds, NEW x, ExtOK(k, x), NEW y, y = Over(k, x)
  PROVE  ExtOK(k, y) /\ y.token = IF k = "kdm" THEN x.token ELSE None
  <1>0. x \in ExtType /\ Timed(x) /\ Quiet(k, x)
    BY DEF ExtOK
  <1>1. CASE k = "gdm"
    <2> DEFINE z == [x EXCEPT !.token = None]  w == Gdm!PurgeMessageQueue(z)
    <2>1. y = [w EXCEPT !.enabled = FALSE]
      BY <1>1 DEF Over, Gdm!Reset, Gdm!None, None
    <2>2. z \in ExtType /\ z.token = None /\ Untimed(x, z)
      BY <1>0 DEF ExtType, Untimed
    <2>3. Timed(z)
      BY <1>0, <2>2 DEF Timed, Untimed
    <2>4. w \in ExtType /\ w.token = None /\ w.queue = <<>> /\ w.sources = 0 /\ w.timer = FALSE
      BY <2>2, <2>3, Purges
    <2> HIDE DEF z, w
    <2>5. y \in ExtType /\ y.token = None /\ y.queue = <<>> /\ y.sources = 0
      BY <2>1, <2>4 DEF ExtType
    <2>6. y.timer = FALSE
      BY <2>1, <2>4 DEF ExtType
    <2> QED
      BY <1>1, <2>5, <2>6, TimedKeeps
  <1>2. CASE k = "gdm2"
    <2>1. y = [x EXCEPT !.token = None, !.enabled = FALSE]
      BY <1>2 DEF Over, Gdm2!Reset, Gdm2!None, None
    <2>2. y \in ExtType /\ y.token = None /\ Untimed(x, y)
      BY <1>0, <2>1 DEF ExtType, Untimed
    <2> QED
      BY <1>2, <2>2, UntimedKeeps
  <1>3. CASE k = "kdm"
    BY <1>3 DEF Over, Kdm!NothingDone
  <1> QED
    BY <1>1, <1>2, <1>3 DEF Kinds

\* Before one: the plugin listens, and may ask to be chosen.
LEMMA Readies ==
  ASSUME NEW k \in Kinds, NEW x, ExtOK(k, x), NEW busUp \in BOOLEAN, NEW chosen \in BOOLEAN,
         NEW y, y \in {Gdm!SetReady(x, busUp, chosen), Gdm2!SetReady(x, busUp, chosen)}
  PROVE  ExtOK(k, y) /\ y.token = x.token
  <1>0. x \in ExtType
    BY DEF ExtOK
  <1>1. y \in ExtType /\ y.token = x.token /\ Untimed(x, y)
    BY <1>0 DEF ExtType, Untimed, Gdm!SetReady, Gdm2!SetReady, Gdm!ServerStart, Gdm2!ServerStart
  <1> QED
    BY <1>1, UntimedKeeps

(***************************************************************************)
(* The inductive invariant.  TypeOK alone is not: that a timeout is never  *)
(* counted below zero needs the link between the id and the sources; and   *)
(* that a token is given once needs to know where a token already given    *)
(* may still lie, which is in GDM 3 until the conversation has been reset. *)
(***************************************************************************)
Structure ==
  /\ host # "gone" => Timed(ext)
  /\ host = "gone" => ext.sources = 0 /\ ext.queue = <<>> /\ ~ext.proxy /\ bus = <<>>
  /\ Quiet(kind, ext)

\* Where GDM 3 may hold a token it has given.
Spent == {"asked", "answered", "stopping", "draining"}

Numbered ==
  /\ served <= heard /\ heard <= announced
  /\ \A i \in 1 .. Len(bus) : heard < bus[i] /\ bus[i] <= announced
  /\ \A i, j \in 1 .. Len(bus) : i < j => bus[i] < bus[j]

Kept ==
  ext.token # None =>
    /\ ext.token = heard
    /\ kind # "gdm" \/ host \notin Spent => served < heard

IInv == TypeOK /\ Structure /\ Numbered /\ Kept

LEMMA InvInit == Init => IInv
  <1> SUFFICES ASSUME Init PROVE IInv
    OBVIOUS
  <1>1. /\ ext.token = None /\ ext.queue = <<>> /\ ext.sources = 0
        /\ ext.timer = FALSE
    BY DEF Init, Kinds, NewPlugin, None, Kdm!New, Kdm!Blank, Kdm!None, Gdm!New, Gdm!Reset, Gdm!Blank, Gdm!None,
           Gdm!PurgeMessageQueue, Gdm2!New, Gdm2!Reset, Gdm2!Blank, Gdm2!None
  <1>2. ext \in ExtType
    BY NoMessages DEF Init, Kinds, NewPlugin, ExtType, None, Kdm!New, Kdm!Blank, Kdm!None, Gdm!New, Gdm!Reset,
           Gdm!Blank, Gdm!None, Gdm!PurgeMessageQueue, Gdm2!New, Gdm2!Reset, Gdm2!Blank, Gdm2!None
  <1>3. TypeOK
    <2>1. kind \in Kinds /\ host \in Hosts /\ bus \in Seq(Tokens)
      BY DEF Init, Hosts, InConversation
    <2>2. pidFile \in {"missing", "garbage", "agent"} /\ processes \in SUBSET {"agent"}
      BY DEF Init
    <2>3. disturbed \in BOOLEAN
      BY DEF Init
    <2>4. /\ announced \in 0 .. MaxToken /\ heard \in 0 .. MaxToken /\ served \in 0 .. MaxToken
          /\ given \in Nat /\ shown \in 0 .. MaxMessages /\ failures \in 0 .. MaxBusFailures
      BY BoundsAreNat DEF Init
    <2> QED
      BY <1>2, <2>1, <2>2, <2>3, <2>4 DEF TypeOK
  <1>4. Structure /\ Numbered /\ Kept
    BY <1>1 DEF Init, Structure, Timed, Quiet, Numbered, Kept, Kinds
  <1> QED
    BY <1>3, <1>4 DEF IInv

\* Steps that leave the plugin alone, while it is there.
LEMMA HostSteps ==
  ASSUME IInv, host # "gone", host' \in Hosts \ {"gone"}, host \in Spent => host' \in Spent,
         UNCHANGED <<kind, ext, bus, announced, heard, answers>>
  PROVE  Structure' /\ Numbered' /\ Kept'
  BY DEF IInv, Structure, Numbered, Kept, Quiet, Timed, answers

LEMMA InvAgentChanges == IInv /\ AgentChanges => IInv'
  BY DEF IInv, TypeOK, Structure, Numbered, Kept, Quiet, Timed, AgentChanges, AgentLives, answers, boundVars

LEMMA InvAnnounce == IInv /\ Announce => IInv'
  <1> SUFFICES ASSUME IInv, Announce PROVE IInv'
    OBVIOUS
  <1> USE BoundsAreNat
  <1>1. announced + 1 \in Tokens /\ announced' = announced + 1 /\ announced \in Nat
    BY DEF IInv, TypeOK, Announce, Tokens
  <1>2. UNCHANGED <<kind, ext, host, pidFile, processes, heard, served, given, shown, failures, disturbed>>
    BY DEF Announce, agentVars, answers, boundVars
  <1>3. bus \in Seq(Tokens)
    BY DEF IInv, TypeOK
  <1>4. CASE bus' = bus
    BY <1>1, <1>2, <1>4 DEF IInv, TypeOK, Structure, Numbered, Kept, Quiet, Timed, Tokens
  <1>5. CASE ext.proxy /\ bus' = Append(bus, announced + 1)
    <2>1. bus' \in Seq(Tokens)
      BY <1>1, <1>3, <1>5
    <2>2. TypeOK' /\ Structure' /\ Kept'
      BY <1>1, <1>2, <1>5, <2>1 DEF IInv, TypeOK, Structure, Kept, Quiet, Timed, Tokens
    <2>3. heard \in Nat /\ served \in Nat /\ heard <= announced
      BY DEF IInv, TypeOK, Numbered
    <2>4. /\ Len(bus') = Len(bus) + 1
          /\ \A i \in 1 .. Len(bus') : bus'[i] = IF i = Len(bus) + 1 THEN announced + 1 ELSE bus[i]
      BY <1>3, <1>5
    <2>5. Numbered'
      <3>1. \A i \in 1 .. Len(bus) : bus[i] \in Nat /\ heard < bus[i] /\ bus[i] <= announced
        BY <1>3 DEF IInv, Numbered, Tokens
      <3>2. \A i, j \in 1 .. Len(bus) : i < j => bus[i] < bus[j]
        BY DEF IInv, Numbered
      <3>3. Len(bus) \in Nat
        BY <1>3
      <3>4. \A i \in 1 .. Len(bus') : heard' < bus'[i] /\ bus'[i] <= announced'
        BY <1>1, <1>2, <2>3, <2>4, <3>1, <3>3
      <3>5. ASSUME NEW i \in 1 .. Len(bus'), NEW j \in 1 .. Len(bus'), i < j
            PROVE  bus'[i] < bus'[j]
        <4>1. i \in 1 .. Len(bus) /\ bus'[i] = bus[i]
          BY <2>4, <3>3, <3>5
        <4>2. CASE j \in 1 .. Len(bus)
          BY <2>4, <3>2, <3>3, <3>5, <4>1, <4>2
        <4>3. CASE j = Len(bus) + 1
          BY <1>1, <2>4, <3>1, <3>3, <4>1, <4>3
        <4> QED
          BY <2>4, <3>3, <4>2, <4>3
      <3> QED
        BY <1>1, <1>2, <2>3, <3>4, <3>5 DEF IInv, Numbered
    <2> QED
      BY <2>2, <2>5 DEF IInv
  <1> QED
    BY <1>4, <1>5 DEF Announce

\* A token leaves the bus for the plugin.
LEMMA InvAuthenticated == IInv /\ Authenticated => IInv' /\ Broker!Hear(heard')
  <1> SUFFICES ASSUME IInv, Authenticated PROVE IInv' /\ Broker!Hear(heard')
    OBVIOUS
  <1> USE BoundsAreNat
  <1> DEFINE t == Head(bus)
  <1>1. /\ bus # <<>> /\ bus' = Tail(bus) /\ heard' = t
        /\ host' = IF Free THEN "chosen"
                   ELSE IF kind # "kdm" /\ host \in InConversation \cup {"other"} THEN "stopping" ELSE host
        /\ UNCHANGED <<kind, pidFile, processes, announced, served, given, shown, failures, disturbed>>
    BY DEF Authenticated, agentVars, answers, boundVars
  <1>2. /\ bus \in Seq(Tokens) /\ announced \in 0 .. MaxToken /\ heard \in 0 .. MaxToken /\ served \in 0 .. MaxToken
        /\ kind \in Kinds /\ host \in Hosts /\ ext \in ExtType
    BY DEF IInv, TypeOK
  <1>3. Len(bus) \in Nat /\ Len(bus) >= 1 /\ t = bus[1]
    BY <1>1, <1>2
  <1>4. t \in Tokens /\ heard < t /\ t <= announced
    BY <1>2, <1>3 DEF IInv, Numbered
  <1>5. host # "gone" /\ ExtOK(kind, ext)
    BY <1>1, <1>2 DEF IInv, Structure, ExtOK
  <1>6. ExtOK(kind, ext') /\ ext'.token = t
    <2>1. Free \in BOOLEAN
      BY DEF Free
    <2>2. ext' \in {Gdm!OnUserAuthenticated(ext, t, Free), Gdm2!OnUserAuthenticated(ext, t, Free),
                    Kdm!UserAuthenticated(ext, t)}
      BY <1>2 DEF Authenticated, Kinds
    <2> HIDE DEF t
    <2> QED
      BY <1>4, <1>5, <2>1, <2>2, Arrivals
  <1>7. host' \in Hosts /\ host' # "gone"
    BY <1>1, <1>2, <1>5 DEF Hosts, InConversation
  <1>8. /\ Tail(bus) \in Seq(Tokens) /\ Len(Tail(bus)) = Len(bus) - 1
        /\ \A i \in 1 .. Len(Tail(bus)) : Tail(bus)[i] = bus[i + 1]
    BY <1>1, <1>2
  <1>9. Numbered'
    <2>1. /\ \A i \in 1 .. Len(bus) : bus[i] \in Nat /\ bus[i] <= announced
          /\ \A i, j \in 1 .. Len(bus) : i < j => bus[i] < bus[j]
          /\ served <= heard
      BY <1>2 DEF IInv, Numbered, Tokens
    <2>2. \A i \in 1 .. Len(bus') : t < bus'[i] /\ bus'[i] <= announced
      BY <1>1, <1>3, <1>8, <2>1
    <2>3. ASSUME NEW i \in 1 .. Len(bus'), NEW j \in 1 .. Len(bus'), i < j
          PROVE  bus'[i] < bus'[j]
      BY <1>1, <1>3, <1>8, <2>1, <2>3
    <2>4. served <= t /\ t <= announced
      BY <1>2, <1>4, <2>1 DEF Tokens
    <2> QED
      BY <1>1, <2>2, <2>3, <2>4 DEF Numbered
  <1>10. Kept'
    BY <1>1, <1>2, <1>4, <1>6 DEF IInv, Numbered, Kept, Tokens
  <1>11. Structure'
    BY <1>1, <1>6, <1>7 DEF Structure, ExtOK
  <1>12. TypeOK'
    BY <1>1, <1>2, <1>4, <1>6, <1>7, <1>8 DEF IInv, TypeOK, ExtOK, Tokens
  <1> QED
    BY <1>1, <1>4, <1>9, <1>10, <1>11, <1>12 DEF IInv, Broker!Hear

LEMMA InvPeople == IInv /\ (Pick \/ UseOther \/ Cancel \/ AskOther) => IInv'
  <1> SUFFICES ASSUME IInv, Pick \/ UseOther \/ Cancel \/ AskOther PROVE IInv'
    OBVIOUS
  <1>1. /\ host # "gone" /\ host' \in Hosts \ {"gone"} /\ (host \in Spent => host' \in Spent)
        /\ UNCHANGED <<kind, ext, bus, pidFile, processes, announced, heard, answers, shown, failures>>
        /\ disturbed' = disturbed \/ disturbed' = TRUE
    BY DEF Pick, UseOther, Cancel, AskOther, Spent, Hosts, InConversation, agentVars, boundVars
  <1>2. TypeOK'
    BY <1>1 DEF IInv, TypeOK, answers
  <1> QED
    BY <1>1, <1>2, HostSteps DEF IInv

\* A question is answered with the token that is kept, or with none.
LEMMA Questions ==
  ASSUME IInv, NEW r, r = Asked(kind, ext) \/ (kind = "gdm2" /\ r = Gdm2!RequestAnswer(ext)),
         Given(r), host \in {"chosen", "asked"}, kind = "gdm" => host = "chosen",
         UNCHANGED <<kind, bus, pidFile, processes, announced, heard, shown, failures, disturbed>>
  PROVE  IInv' /\ (Broker!Serve \/ UNCHANGED Broker!vars)
  <1> USE BoundsAreNat
  <1>1. /\ bus \in Seq(Tokens) /\ heard \in 0 .. MaxToken /\ served \in 0 .. MaxToken /\ given \in Nat
        /\ kind \in Kinds /\ ext \in ExtType /\ served <= heard
    BY DEF IInv, TypeOK, Numbered
  <1>2. ExtOK(kind, ext)
    BY <1>1 DEF IInv, Structure, ExtOK
  <1>3. /\ ExtOK(kind, r.ext) /\ r.answered \in BOOLEAN
        /\ r.answered => r.answer = ext.token
        /\ r.ext.token = IF r.answered /\ kind # "gdm" THEN None ELSE ext.token
    BY <1>1, <1>2, Answers
  <1>4. /\ ext' = r.ext /\ host' = IF r.answered THEN "answered" ELSE "asked"
        /\ IF r.answered /\ r.answer # None THEN served' = r.answer /\ given' = given + 1
           ELSE served' = served /\ given' = given
    BY DEF Given, answers
  <1>5. ext.token # None => ext.token = heard /\ served < heard
    BY DEF IInv, Kept, Spent
  <1>6. host' \in Hosts /\ host' # "gone" /\ host' \in Spent
    BY <1>3, <1>4 DEF Hosts, InConversation, Spent
  <1>7. \/ served' = heard /\ given' = given + 1 /\ served < heard
           /\ (kind # "gdm" => ext'.token = None)
        \/ served' = served /\ given' = given
    BY <1>3, <1>4, <1>5
  <1>8. Structure'
    BY <1>3, <1>4, <1>6 DEF Structure, ExtOK
  <1>9. TypeOK'
    BY <1>1, <1>3, <1>4, <1>6, <1>7 DEF IInv, TypeOK, ExtOK
  <1>10. Numbered'
    BY <1>1, <1>7 DEF IInv, Numbered
  <1>11. Kept'
    BY <1>3, <1>4, <1>5, <1>6, <1>7 DEF Kept
  <1>12. Broker!Serve \/ UNCHANGED Broker!vars
    BY <1>7 DEF Broker!Serve, Broker!vars
  <1> QED
    BY <1>8, <1>9, <1>10, <1>11, <1>12 DEF IInv

LEMMA InvAsk == IInv /\ (AskToken \/ RequestAnswer) => IInv' /\ (Broker!Serve \/ UNCHANGED Broker!vars)
  <1>1. ASSUME IInv, AskToken PROVE IInv' /\ (Broker!Serve \/ UNCHANGED Broker!vars)
    <2>1. Given(Asked(kind, ext)) /\ host = "chosen"
      BY <1>1 DEF AskToken, Asked
    <2>2. UNCHANGED <<kind, bus, pidFile, processes, announced, heard, shown, failures, disturbed>>
      BY <1>1 DEF AskToken, agentVars, boundVars
    <2> QED
      BY <1>1, <2>1, <2>2, Questions
  <1>2. ASSUME IInv, RequestAnswer PROVE IInv' /\ (Broker!Serve \/ UNCHANGED Broker!vars)
    <2>1. Given(Gdm2!RequestAnswer(ext)) /\ host = "asked" /\ kind = "gdm2"
      BY <1>2 DEF RequestAnswer
    <2>2. UNCHANGED <<kind, bus, pidFile, processes, announced, heard, shown, failures, disturbed>>
      BY <1>2 DEF RequestAnswer, agentVars, boundVars
    <2> QED
      BY <1>2, <2>1, <2>2, Questions
  <1> QED
    BY <1>1, <1>2

\* The plugin changes, but neither its token nor anything about the tokens, and
\* the conversation goes on or comes to its end.
LEMMA SameToken ==
  ASSUME IInv, host' \in Hosts \ {"gone"}, host \in Spent => host' \in Spent,
         UNCHANGED <<kind, bus, pidFile, processes, announced, heard, answers, disturbed>>,
         ExtOK(kind, ext'), ext'.token = ext.token,
         shown' \in 0 .. MaxMessages, failures' \in 0 .. MaxBusFailures
  PROVE  IInv'
  <1>1. TypeOK'
    BY DEF IInv, TypeOK, ExtOK, answers
  <1>2. Structure' /\ Numbered' /\ Kept'
    BY DEF IInv, Structure, Numbered, Kept, ExtOK, answers
  <1> QED
    BY <1>1, <1>2 DEF IInv

LEMMA InvTexts == IInv /\ (Inform \/ Refuse) => IInv'
  <1> SUFFICES ASSUME IInv, Inform \/ Refuse PROVE IInv'
    OBVIOUS
  <1>1. /\ host # "gone" /\ host' \in Hosts \ {"gone"} /\ (host \in Spent => host' \in Spent)
        /\ UNCHANGED <<kind, bus, pidFile, processes, announced, heard, answers, failures, disturbed>>
    BY DEF Inform, Refuse, Spent, Hosts, InConversation, agentVars
  <1>2. shown \in 0 .. MaxMessages /\ failures \in 0 .. MaxBusFailures /\ kind \in Kinds
    BY DEF IInv, TypeOK
  <1>3. ExtOK(kind, ext)
    BY <1>1 DEF IInv, TypeOK, Structure, ExtOK
  <1>4. CASE UNCHANGED <<ext, shown>>
    BY <1>1, <1>2, <1>3, <1>4, SameToken
  <1>5. ASSUME NEW m \in {"info", "problem"}, Show(m) PROVE IInv'
    <2>1. ext' = Shown(kind, ext, m) /\ shown < MaxMessages /\ shown' = shown + 1
      BY <1>5 DEF Show, Shown
    <2>2. ExtOK(kind, ext') /\ ext'.token = ext.token
      BY <1>2, <1>3, <2>1, Texts
    <2>3. shown' \in 0 .. MaxMessages
      BY <1>2, <2>1, BoundsAreNat
    <2> QED
      BY <1>1, <1>2, <2>2, <2>3, SameToken
  <1> QED
    BY <1>4, <1>5 DEF Inform, Refuse

LEMMA InvMessageTimeout == IInv /\ MessageTimeout => IInv'
  <1> SUFFICES ASSUME IInv, MessageTimeout PROVE IInv'
    OBVIOUS
  <1>1. kind \in {"gdm", "gdm2"} /\ ext.sources > 0
    BY DEF MessageTimeout, IInv, TypeOK, Kinds
  <1>2. host # "gone"
    BY <1>1 DEF IInv, Structure
  <1>3. ExtOK(kind, ext)
    BY <1>2 DEF IInv, TypeOK, Structure, ExtOK
  <1>4. ExtOK(kind, ext') /\ ext'.token = ext.token
    BY <1>1, <1>3, Timeouts DEF MessageTimeout
  <1>5. host' \in Hosts \ {"gone"} /\ (host \in Spent => host' \in Spent)
    BY <1>2 DEF IInv, TypeOK, MessageTimeout, Hosts, InConversation, Spent
  <1>6. /\ UNCHANGED <<kind, bus, pidFile, processes, announced, heard, answers, disturbed>>
        /\ shown' \in 0 .. MaxMessages /\ failures' \in 0 .. MaxBusFailures
    BY DEF MessageTimeout, IInv, TypeOK, agentVars, boundVars
  <1> QED
    BY <1>4, <1>5, <1>6, SameToken

\* The greeter frees the plugin: GDM's give up the token and the timeout.
Freed(k, x) ==
  CASE k = "gdm" -> Gdm!Finalize(x) [] k = "gdm2" -> Gdm2!Finalize(x) [] k = "kdm" -> Kdm!Destroy(x)

LEMMA Frees ==
  ASSUME NEW k \in Kinds, NEW x, ExtOK(k, x), NEW y, y = Freed(k, x)
  PROVE  /\ y \in ExtType /\ y.sources = 0 /\ y.queue = <<>> /\ ~y.proxy /\ Quiet(k, y)
         /\ y.token = IF k = "kdm" THEN x.token ELSE None
  <1>0. x \in ExtType /\ Timed(x) /\ Quiet(k, x)
    BY DEF ExtOK
  <1>1. CASE k = "gdm"
    <2> DEFINE p == Gdm!PurgeMessageQueue(x)
    <2>1. p \in ExtType /\ p.queue = <<>> /\ p.sources = 0 /\ p.timer = FALSE
      BY <1>0, Purges
    <2>2. y = [[p EXCEPT !.token = None] EXCEPT !.proxy = FALSE]
      BY <1>1 DEF Freed, Gdm!Finalize, Gdm!ServerStop, Gdm!None, None
    <2> HIDE DEF p
    <2>3. y \in ExtType /\ y.queue = <<>> /\ y.sources = 0 /\ y.token = None
      BY <2>1, <2>2 DEF ExtType
    <2>4. ~y.proxy
      BY <2>1, <2>2 DEF ExtType
    <2> QED
      BY <1>1, <2>3, <2>4 DEF Quiet
  <1>2. CASE k = "gdm2"
    <2>1. (IF x.timer THEN x.sources - 1 ELSE x.sources) = 0
      BY <1>0 DEF Timed
    <2> DEFINE z == [[x EXCEPT !.token = None] EXCEPT !.proxy = FALSE]
    <2>2. z \in ExtType /\ z.queue = <<>> /\ z.token = None
      BY <1>0, <1>2 DEF ExtType, Quiet
    <2>3. ~z.proxy
      BY <1>0 DEF ExtType
    <2>4. y = [z EXCEPT !.sources = 0]
      <3>1. z.sources = x.sources
        BY <1>0 DEF ExtType
      <3> QED
        BY <1>2, <2>1, <3>1 DEF Freed, Gdm2!Finalize, Gdm2!ServerStop, Gdm2!None, None
    <2> HIDE DEF z
    <2>5. y \in ExtType /\ y.queue = <<>> /\ y.sources = 0 /\ y.token = None
      BY <2>2, <2>4 DEF ExtType
    <2>6. ~y.proxy
      BY <2>2, <2>3, <2>4 DEF ExtType
    <2> QED
      BY <1>2, <2>5, <2>6 DEF Quiet
  <1>3. CASE k = "kdm"
    <2>1. y = [x EXCEPT !.proxy = FALSE]
      BY <1>3 DEF Freed, Kdm!Destroy
    <2>2. y \in ExtType /\ y.queue = x.queue /\ y.sources = x.sources /\ y.token = x.token
      BY <1>0, <2>1 DEF ExtType
    <2>3. y.timer = x.timer
      BY <1>0, <2>1 DEF ExtType
    <2>4. ~y.proxy
      BY <1>0, <2>1 DEF ExtType
    <2>5. ~x.timer /\ x.sources = 0 /\ x.queue = <<>>
      BY <1>0, <1>3 DEF Timed, Quiet
    <2> QED
      BY <1>3, <2>2, <2>3, <2>4, <2>5 DEF Quiet
  <1> QED
    BY <1>1, <1>2, <1>3 DEF Kinds

LEMMA InvStop == IInv /\ Stop => IInv'
  <1> SUFFICES ASSUME IInv, Stop PROVE IInv'
    OBVIOUS
  <1>1. /\ host = "stopping" /\ kind \in Kinds
        /\ UNCHANGED <<kind, bus, pidFile, processes, announced, heard, served, given, shown, failures, disturbed>>
    BY DEF Stop, IInv, TypeOK, agentVars, answers, boundVars
  <1>2. ExtOK(kind, ext)
    BY <1>1 DEF IInv, TypeOK, Structure, ExtOK
  <1>3. CASE kind = "gdm" /\ host' = "draining" /\ ext' = ext
    <2>1. host' \in Hosts \ {"gone"} /\ host' \in Spent
      BY <1>3 DEF Hosts, Spent
    <2>2. shown' \in 0 .. MaxMessages /\ failures' \in 0 .. MaxBusFailures
      BY <1>1 DEF IInv, TypeOK
    <2> QED
      BY <1>1, <1>2, <1>3, <2>1, <2>2, SameToken DEF answers
  <1>4. CASE host' = (IF kind = "kdm" THEN "ready" ELSE "resetting") /\ ext' = Over(kind, ext)
    <2>1. ExtOK(kind, ext') /\ ext'.token = IF kind = "kdm" THEN ext.token ELSE None
      BY <1>1, <1>2, <1>4, Resets
    <2>2. host' \in Hosts /\ host' # "gone"
      BY <1>4 DEF Hosts, InConversation
    <2>3. TypeOK'
      BY <1>1, <2>1, <2>2 DEF IInv, TypeOK, ExtOK
    <2>4. Structure' /\ Numbered' /\ Kept'
      BY <1>1, <2>1, <2>2 DEF IInv, Structure, Numbered, Kept, ExtOK
    <2> QED
      BY <2>3, <2>4 DEF IInv
  <1> QED
    BY <1>3, <1>4 DEF Stop, Over

LEMMA InvSetReady == IInv /\ SetReady => IInv'
  <1> SUFFICES ASSUME IInv, SetReady PROVE IInv'
    OBVIOUS
  <1>1. PICK busUp \in BOOLEAN, chosen \in BOOLEAN :
           /\ busUp \/ failures < MaxBusFailures
           /\ failures' = IF busUp THEN failures ELSE failures + 1
           /\ ext' = IF kind = "gdm" THEN Gdm!SetReady(ext, busUp, chosen) ELSE Gdm2!SetReady(ext, busUp, chosen)
           /\ host' = IF chosen THEN "chosen" ELSE "ready"
    BY DEF SetReady
  <1>2. /\ host = "resetting"
        /\ UNCHANGED <<kind, bus, pidFile, processes, announced, heard, answers, disturbed>> /\ shown' = shown
    BY DEF SetReady, agentVars
  <1>3. kind \in Kinds /\ shown \in 0 .. MaxMessages /\ failures \in 0 .. MaxBusFailures
    BY DEF IInv, TypeOK
  <1>4. ExtOK(kind, ext)
    BY <1>2 DEF IInv, TypeOK, Structure, ExtOK
  <1>5. ExtOK(kind, ext') /\ ext'.token = ext.token
    BY <1>1, <1>3, <1>4, Readies
  <1>6. host' \in Hosts \ {"gone"} /\ host \notin Spent
    BY <1>1, <1>2 DEF Hosts, InConversation, Spent
  <1>7. failures' \in 0 .. MaxBusFailures
    BY <1>1, <1>3, BoundsAreNat
  <1> QED
    BY <1>2, <1>3, <1>5, <1>6, <1>7, SameToken

LEMMA InvLeave == IInv /\ Leave => IInv'
  <1> SUFFICES ASSUME IInv, Leave PROVE IInv'
    OBVIOUS
  <1>1. /\ host # "gone" /\ host' = "gone" /\ bus' = <<>> /\ ext' = Freed(kind, ext)
        /\ UNCHANGED <<kind, pidFile, processes, announced, heard, served, given, shown, failures, disturbed>>
    BY DEF Leave, Freed, agentVars, answers, boundVars
  <1>2. kind \in Kinds /\ ExtOK(kind, ext)
    BY <1>1 DEF IInv, TypeOK, Structure, ExtOK
  <1>3. /\ ext' \in ExtType /\ ext'.sources = 0 /\ ext'.queue = <<>> /\ ~ext'.proxy /\ Quiet(kind, ext')
        /\ ext'.token = IF kind = "kdm" THEN ext.token ELSE None
    BY <1>1, <1>2, Frees
  <1>4. host' \in Hosts /\ bus' \in Seq(Tokens) /\ host' \notin Spent
    BY <1>1 DEF Hosts, Spent
  <1>5. TypeOK'
    BY <1>1, <1>3, <1>4 DEF IInv, TypeOK
  <1>6. Structure' /\ Numbered'
    BY <1>1, <1>3 DEF IInv, Structure, Numbered
  <1>7. Kept'
    BY <1>1, <1>2, <1>3 DEF IInv, Kept
  <1> QED
    BY <1>5, <1>6, <1>7 DEF IInv

LEMMA InvNext == IInv /\ [Next]_vars => IInv'
  <1>1. IInv /\ UNCHANGED vars => IInv'
    BY DEF vars, agentVars, answers, boundVars, IInv, TypeOK, Structure, Timed, Quiet, Numbered, Kept
  <1> QED
    BY <1>1, InvAgentChanges, InvAnnounce, InvAuthenticated, InvPeople, InvAsk, InvTexts, InvMessageTimeout,
       InvStop, InvSetReady, InvLeave DEF Next

LEMMA AlwaysIInv == Spec => []IInv
  BY InvInit, InvNext, PTL DEF Spec

\* Every variable keeps its type, for any number of logins, texts and failures.
THEOREM TypeCorrect == Spec => []TypeOK
  <1>1. IInv => TypeOK
    BY DEF IInv
  <1> QED
    BY <1>1, AlwaysIInv, PTL

\* message_timeout_id and the main loop agree in all three plugins: no timeout
\* is removed twice, none is lost and none runs on a freed extension.
THEOREM TimeoutsCorrect == Spec => []TimeoutsAccounted
  <1>1. IInv => TimeoutsAccounted
    <2> SUFFICES ASSUME IInv PROVE TimeoutsAccounted
      OBVIOUS
    <2>1. CASE host = "gone"
      BY <2>1 DEF IInv, Structure, TimeoutsAccounted
    <2>2. CASE host # "gone"
      BY <2>2 DEF IInv, Structure, Timed, TimeoutsAccounted
    <2> QED
      BY <2>1, <2>2
  <1> QED
    BY <1>1, AlwaysIInv, PTL

\* Each plugin gives a token to at most one question of PAM, and only while it
\* is the newest one it heard of.
THEOREM BrokerCorrect == Spec => ImplementsTokenBroker
  <1>1. Init => Broker!Init
    BY DEF Init, Broker!Init
  <1>2. IInv /\ [Next]_vars => [Broker!Next]_Broker!vars
    <2> SUFFICES ASSUME IInv, [Next]_vars PROVE Broker!Next \/ UNCHANGED Broker!vars
      OBVIOUS
    <2>1. CASE Authenticated
      <3>1. heard' \in Tokens
        BY <2>1 DEF Authenticated, IInv, TypeOK
      <3> QED
        BY <2>1, <3>1, InvAuthenticated DEF Broker!Next
    <2>2. CASE AskToken \/ RequestAnswer
      BY <2>2, InvAsk DEF Broker!Next
    <2>3. CASE ~Authenticated /\ ~AskToken /\ ~RequestAnswer
      BY <2>3 DEF Next, vars, Broker!vars, answers, AgentChanges, Announce, Pick, UseOther, Cancel, AskOther, Inform,
                  Refuse, MessageTimeout, Stop, SetReady, Leave
    <2> QED
      BY <2>1, <2>2, <2>3
  <1> QED
    BY <1>1, <1>2, AlwaysIInv, PTL DEF Spec, ImplementsTokenBroker, Broker!Spec
=============================================================================
