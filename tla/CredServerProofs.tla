-------------------------- MODULE CredServerProofs --------------------------
(***************************************************************************)
(* Theorems about CredServer, for any set of clients and any number of     *)
(* logins and failures.                                                    *)
(***************************************************************************)
EXTENDS CredServer, TLAPS

(* The constants, one fact each.                                           *)
LEMMA BoundsAreNat ==
    /\ Root \subseteq Client /\ NoClient \notin Client
    /\ Backlog \in Nat /\ MaxRequests \in Nat /\ MaxFailures \in Nat
  BY CredAssumption DEF CredAssumption

-----------------------------------------------------------------------------
(* Type correctness.                                                       *)

(* No login is opened without a request, and none is announced before the  *)
(* first: what keeps the login numbers in range.                           *)
Counted == login <= requests /\ (listener # "idle" => login > 0)

(* An accepted connection has a client.                                    *)
Connected ==
    channel \in {"accepted", "peeking", "receiving"} => conn \in Client

TypeInv == FieldsOK /\ Counted /\ Connected

(* Every initial state is well typed.                                      *)
LEMMA TypeInit == Init => TypeInv
  <1> SUFFICES ASSUME Init PROVE TypeInv
    OBVIOUS
  <1> USE BoundsAreNat DEF Init
  <1>1. /\ client \in [Client -> {"away", "prompted", "connected", "waiting",
                              "served", "refused", "timedout", "dead"}]
        /\ presented \in [Client -> 0..MaxRequests]
        /\ reply \in [Client -> 0..MaxRequests]
        /\ backlog \in Seq(Client)
    OBVIOUS
  <1>2. Counted /\ Connected
    BY DEF Counted, Connected
  <1> QED
    BY <1>1, <1>2 DEF TypeInv, FieldsOK

(* The steps of the agent's threads keep the types.                        *)
LEMMA TypeAgent ==
    ASSUME TypeInv,
           \/ ServerOnBus \/ ServerFails \/ OpenChannel \/ IgnoreLogin
           \/ ListenerStep \/ ChannelStep
    PROVE  TypeInv'
  <1> USE DEF TypeInv, FieldsOK, Counted, Connected, channelVars, clientVars,
              boundVars
  <1>1. CASE ServerOnBus
    BY <1>1 DEF ServerOnBus
  <1>2. CASE ServerFails
    <2>1. failures' \in 0..MaxFailures
      BY <1>2, BoundsAreNat DEF ServerFails
    <2> QED
      BY <1>2, <2>1 DEF ServerFails
  <1>3. CASE OpenChannel
    <2>1. /\ requests' \in 0..MaxRequests /\ login' \in 0..MaxRequests
          /\ login' <= requests' /\ login' > 0
      BY <1>3, BoundsAreNat DEF OpenChannel
    <2>2. listener' = "started" /\ channel' = "unbound"
      BY <1>3 DEF OpenChannel
    <2>3. /\ UNCHANGED <<server, backlog, conn, announced, clientVars, reply>>
          /\ UNCHANGED failures
      BY <1>3 DEF OpenChannel
    <2> QED
      BY <2>1, <2>2, <2>3
  <1>4. CASE IgnoreLogin
    <2>1. requests' \in 0..MaxRequests /\ login' <= requests'
      BY <1>4, BoundsAreNat DEF IgnoreLogin
    <2>2. /\ UNCHANGED <<server, listener, login, channel, backlog, conn>>
          /\ UNCHANGED <<announced, clientVars, reply, failures>>
      BY <1>4 DEF IgnoreLogin
    <2> QED
      BY <2>1, <2>2
  <1>5. CASE Announce
    <2>1. announced' \subseteq Login
      <3>1. login \in Login
        BY <1>5, BoundsAreNat DEF Announce, Login
      <3> QED
        BY <1>5, <3>1 DEF Announce
    <2>2. /\ UNCHANGED <<server, login, channel, backlog, conn>>
          /\ UNCHANGED <<clientVars, reply, boundVars>>
          /\ listener = "started" /\ listener' = "joining"
      BY <1>5 DEF Announce
    <2> QED
      BY <2>1, <2>2
  <1>6. CASE AnnounceRaises
    <2>1. failures' \in 0..MaxFailures
      BY <1>6, BoundsAreNat DEF AnnounceRaises
    <2>2. /\ UNCHANGED <<server, login, channel, backlog, conn>>
          /\ UNCHANGED <<announced, clientVars, reply, requests>>
          /\ listener' = "idle"
      BY <1>6 DEF AnnounceRaises
    <2> QED
      BY <2>1, <2>2
  <1>7. CASE Joined
    <2>1. <<>> \in Seq(Client)
      OBVIOUS
    <2>2. /\ UNCHANGED <<server, login, conn, announced, clientVars, reply>>
          /\ UNCHANGED boundVars
          /\ listener' = "idle" /\ channel' = "none" /\ backlog' = <<>>
      BY <1>7 DEF Joined
    <2> QED
      BY <2>1, <2>2
  <1>8. CASE Bind
    <2>1. /\ UNCHANGED <<server, listener, login, backlog, conn, announced>>
          /\ UNCHANGED <<clientVars, reply, boundVars>>
          /\ channel' = "listening"
      BY <1>8 DEF Bind
    <2> QED
      BY <2>1
  <1>9. CASE Accept
    <2>1. Head(backlog) \in Client /\ Tail(backlog) \in Seq(Client)
      BY <1>9 DEF Accept
    <2> QED
      BY <1>9, <2>1 DEF Accept
  <1>10. CASE AcceptTimesOut
    <2>1. /\ UNCHANGED <<server, listener, login, backlog, conn, announced>>
          /\ UNCHANGED <<clientVars, reply, boundVars>>
          /\ channel' = "over"
      BY <1>10 DEF AcceptTimesOut
    <2> QED
      BY <2>1
  <1>11. CASE Peek
    <2>1. /\ UNCHANGED <<server, listener, login, backlog, announced>>
          /\ UNCHANGED <<clientVars, reply, boundVars>>
          /\ \/ channel' = "receiving" /\ conn' = conn /\ conn \in Client
             \/ channel' = "over" /\ conn' = NoClient
      BY <1>11 DEF Peek
    <2> QED
      BY <2>1
  <1>12. CASE Answer
    <2>1. [reply EXCEPT ![conn] = login] \in [Client -> 0..MaxRequests]
      OBVIOUS
    <2>2. reply' \in [Client -> 0..MaxRequests]
      BY <1>12, <2>1 DEF Answer
    <2>3. /\ UNCHANGED <<server, listener, login, backlog, announced>>
          /\ UNCHANGED <<clientVars, boundVars>>
          /\ channel' = "over" /\ conn' = NoClient
      BY <1>12 DEF Answer
    <2> QED
      BY <2>2, <2>3
  <1>13. CASE PassCred
    <2>1. /\ UNCHANGED <<server, listener, login, backlog, conn, announced>>
          /\ UNCHANGED <<clientVars, reply, boundVars>>
          /\ channel' = "peeking" /\ conn \in Client
      BY <1>13 DEF PassCred
    <2> QED
      BY <2>1
  <1> QED
    BY <1>1, <1>2, <1>3, <1>4, <1>5, <1>6, <1>7, <1>8, <1>9, <1>10, <1>11,
       <1>12, <1>13 DEF ListenerStep, ChannelStep

(* The steps of the clients keep the types.                                *)
LEMMA TypeClient ==
    ASSUME TypeInv, NEW c \in Client, Prompt(c) \/ ClientStep(c) \/ Die(c)
    PROVE  TypeInv'
  <1> USE DEF TypeInv, FieldsOK, Counted, Connected
  <1>1. /\ UNCHANGED <<server, listener, login, channel, announced, reply>>
        /\ UNCHANGED <<requests, conn>>
    BY DEF Prompt, ClientStep, Connect, SendToken, ReadReply, GiveUp, Die,
           ServerUnchanged
  <1>2. failures' \in 0..MaxFailures
    <2>1. CASE Die(c)
      BY <2>1, BoundsAreNat DEF Die
    <2>2. CASE UNCHANGED failures
      BY <2>2
    <2> QED
      BY <2>1, <2>2 DEF Prompt, ClientStep, Connect, SendToken, ReadReply,
                        GiveUp
  <1>3. backlog' \in Seq(Client)
    <2>1. Append(backlog, c) \in Seq(Client)
      OBVIOUS
    <2>2. backlog' = backlog \/ backlog' = Append(backlog, c)
      BY DEF Prompt, ClientStep, Connect, SendToken, ReadReply, GiveUp, Die
    <2> QED
      BY <2>1, <2>2
  <1>4. client' \in [Client -> {"away", "prompted", "connected", "waiting",
                              "served", "refused", "timedout", "dead"}]
    BY DEF Prompt, ClientStep, Connect, SendToken, ReadReply, GiveUp, Die,
           Become
  <1>5. presented' \in [Client -> 0..MaxRequests]
    <2>1. CASE Prompt(c)
      <3>1. PICK token \in announced :
                presented' = [presented EXCEPT ![c] = token]
        BY <2>1 DEF Prompt
      <3>2. token \in 0..MaxRequests
        BY <3>1 DEF Login
      <3> QED
        BY <3>1, <3>2
    <2>2. CASE UNCHANGED presented
      BY <2>2
    <2> QED
      BY <2>1, <2>2 DEF ClientStep, Connect, SendToken, ReadReply, GiveUp, Die
  <1>6. sentToken' \subseteq Client /\ unnamed' \subseteq Client
    BY DEF Prompt, ClientStep, Connect, SendToken, ReadReply, GiveUp, Die
  <1> QED
    BY <1>1, <1>2, <1>3, <1>4, <1>5, <1>6

(* Every step keeps the types.                                             *)
LEMMA TypeNext == TypeInv /\ [Next]_vars => TypeInv'
  <1> SUFFICES ASSUME TypeInv, [Next]_vars PROVE TypeInv'
    OBVIOUS
  <1>1. CASE UNCHANGED vars
    BY <1>1 DEF TypeInv, FieldsOK, Counted, Connected, vars, channelVars,
                clientVars, boundVars
  <1>2. CASE Next
    BY <1>2, TypeAgent, TypeClient DEF Next
  <1> QED
    BY <1>1, <1>2

(* The Boolean fields, apart: they are set to truth values only.           *)
LEMMA FlagsInit == Init => FlagsOK
  BY DEF Init, FlagsOK

(* Every step keeps the Boolean fields Boolean.                            *)
LEMMA FlagsNext == FlagsOK /\ [Next]_vars => FlagsOK'
  <1> SUFFICES ASSUME FlagsOK, [Next]_vars PROVE FlagsOK'
    OBVIOUS
  <1> USE DEF FlagsOK, channelVars, boundVars
  <1>1. CASE UNCHANGED vars
    BY <1>1 DEF vars
  <1>2. CASE ServerOnBus \/ ServerFails \/ OpenChannel \/ IgnoreLogin
    BY <1>2 DEF ServerOnBus, ServerFails, OpenChannel, IgnoreLogin
  <1>3. CASE ListenerStep
    BY <1>3 DEF ListenerStep, Announce, AnnounceRaises, Joined
  <1>4. CASE ChannelStep
    BY <1>4 DEF ChannelStep, Bind, Accept, AcceptTimesOut, PassCred, Peek,
                Answer
  <1>5. CASE \E c \in Client : Prompt(c) \/ ClientStep(c) \/ Die(c)
    BY <1>5 DEF Prompt, ClientStep, Connect, SendToken, ReadReply, GiveUp,
                Die, ServerUnchanged
  <1> QED
    BY <1>1, <1>2, <1>3, <1>4, <1>5 DEF Next

(* The type invariant holds in every reachable state.                      *)
THEOREM TypeCorrect == Spec => []TypeOK
  <1>1. TypeInv /\ FlagsOK => TypeOK
    BY DEF TypeInv, TypeOK
  <1> QED
    BY TypeInit, TypeNext, FlagsInit, FlagsNext, <1>1, PTL DEF Spec

-----------------------------------------------------------------------------
(* Delivery: the right credentials, once.                                  *)

(* Nothing is delivered, connected or prompted at first.                   *)
LEMMA DeliveryInit == Init => DeliveryInv
  BY CredAssumption
     DEF Init, DeliveryInv, AwayIsOutside, PromptedIsAnnounced,
         ReceivingIsRoot, AnsweredIsOver, RightCredentials, DeliveredOnce,
         Linked, CredAssumption

(* The agent's steps keep AwayIsOutside: a connection changes hands only   *)
(* from the queue to the channel, and only a connection gets a reply.      *)
LEMMA AwayAgent ==
    ASSUME TypeInv, AwayIsOutside,
           \/ ServerOnBus \/ ServerFails \/ OpenChannel \/ IgnoreLogin
           \/ ListenerStep \/ ChannelStep
    PROVE  AwayIsOutside'
  <1> SUFFICES ASSUME NEW c \in Client, client'[c] = "away"
               PROVE  ~Linked(c)' /\ reply'[c] = 0
    BY DEF AwayIsOutside
  <1>1. client' = client
    BY DEF ServerOnBus, ServerFails, OpenChannel, IgnoreLogin, ListenerStep,
           ChannelStep, Announce, AnnounceRaises, Joined, Bind, Accept,
           AcceptTimesOut, PassCred, Peek, Answer, clientVars
  <1>2. /\ c # conn /\ reply[c] = 0
        /\ \A i \in 1..Len(backlog) : backlog[i] # c
    BY <1>1 DEF AwayIsOutside, Linked
  <1>3. c # NoClient
    BY BoundsAreNat
  <1>4. CASE Accept
    <2>1. backlog \in Seq(Client) /\ backlog # <<>>
      BY <1>4 DEF Accept, TypeInv, FieldsOK
    <2>2. /\ Head(backlog) = backlog[1]
          /\ 1 \in 1..Len(backlog)
          /\ \A i \in 1..Len(Tail(backlog)) :
                 /\ Tail(backlog)[i] = backlog[i + 1]
                 /\ i + 1 \in 1..Len(backlog)
      BY <2>1
    <2>3. /\ conn' = Head(backlog) /\ backlog' = Tail(backlog)
          /\ reply' = reply
      BY <1>4 DEF Accept
    <2> QED
      BY <1>2, <2>2, <2>3 DEF Linked
  <1>5. CASE Joined
    BY <1>2, <1>5 DEF Joined, Linked
  <1>6. CASE Peek
    BY <1>2, <1>3, <1>6 DEF Peek, Linked
  <1>7. CASE Answer
    <2>1. reply'[c] = reply[c]
      BY <1>2, <1>7 DEF Answer, TypeInv, FieldsOK
    <2> QED
      BY <1>2, <1>3, <1>7, <2>1 DEF Answer, Linked
  <1>8. CASE UNCHANGED <<backlog, conn, reply>>
    BY <1>2, <1>8 DEF Linked
  <1> QED
    BY <1>4, <1>5, <1>6, <1>7, <1>8
       DEF ServerOnBus, ServerFails, OpenChannel, IgnoreLogin, ListenerStep,
           ChannelStep, Announce, AnnounceRaises, Bind, AcceptTimesOut, PassCred,
           channelVars

(* A client connects only after it was prompted.                           *)
LEMMA AwayClient ==
    ASSUME TypeInv, AwayIsOutside, NEW d \in Client,
           Prompt(d) \/ ClientStep(d) \/ Die(d)
    PROVE  AwayIsOutside'
  <1> SUFFICES ASSUME NEW c \in Client, client'[c] = "away"
               PROVE  ~Linked(c)' /\ reply'[c] = 0
    BY DEF AwayIsOutside
  <1>1. client[c] = "away" /\ c # d
    BY DEF Prompt, ClientStep, Connect, SendToken, ReadReply, GiveUp, Die,
           Become, TypeInv, FieldsOK
  <1>2. /\ c # conn /\ reply[c] = 0
        /\ \A i \in 1..Len(backlog) : backlog[i] # c
    BY <1>1 DEF AwayIsOutside, Linked
  <1>3. conn' = conn /\ reply' = reply
    BY DEF Prompt, ClientStep, Connect, SendToken, ReadReply, GiveUp, Die,
           ServerUnchanged
  <1>4. CASE backlog' = Append(backlog, d)
    <2>1. backlog \in Seq(Client)
      BY DEF TypeInv, FieldsOK
    <2>2. /\ Len(backlog') = Len(backlog) + 1
          /\ \A i \in 1..Len(backlog') :
                 backlog'[i] = IF i <= Len(backlog) THEN backlog[i] ELSE d
      BY <1>4, <2>1
    <2>3. \A i \in 1..Len(backlog') : backlog'[i] # c
      BY <1>1, <1>2, <2>1, <2>2
    <2> QED
      BY <1>2, <1>3, <2>3 DEF Linked
  <1>5. CASE backlog' = backlog
    BY <1>2, <1>3, <1>5 DEF Linked
  <1> QED
    BY <1>4, <1>5
       DEF Prompt, ClientStep, Connect, SendToken, ReadReply, GiveUp, Die

(* Every step keeps AwayIsOutside.                                         *)
LEMMA AwayNext == TypeInv /\ AwayIsOutside /\ [Next]_vars => AwayIsOutside'
  <1> SUFFICES ASSUME TypeInv, AwayIsOutside, [Next]_vars
               PROVE  AwayIsOutside'
    OBVIOUS
  <1>1. CASE UNCHANGED vars
    BY <1>1 DEF AwayIsOutside, Linked, vars, channelVars, clientVars
  <1> QED
    BY <1>1, AwayAgent, AwayClient DEF Next

(* A reply is new only in Answer, and a token only in Prompt.              *)
LEMMA Frame ==
    ASSUME TypeInv, [Next]_vars
    PROVE  /\ Answer \/ reply' = reply
           /\ (\E c \in Client : Prompt(c)) \/ presented' = presented
           /\ announced \subseteq announced'
           /\ \/ OpenChannel
              \/ login' = login
  BY DEF Next, vars, ServerOnBus, ServerFails, OpenChannel, IgnoreLogin,
         ListenerStep, ChannelStep, Announce, AnnounceRaises, Joined, Bind,
         Accept, AcceptTimesOut, PassCred, Peek, Answer, Prompt, ClientStep,
         Connect,
         SendToken, ReadReply, GiveUp, Die, ServerUnchanged, channelVars,
         clientVars, boundVars

(* What a prompted client was given stays announced.                       *)
LEMMA PromptedNext ==
    TypeInv /\ PromptedIsAnnounced /\ [Next]_vars => PromptedIsAnnounced'
  <1> SUFFICES ASSUME TypeInv, PromptedIsAnnounced, [Next]_vars,
                      NEW c \in Client
               PROVE  client'[c] = "away" \/ presented'[c] \in announced'
    BY DEF PromptedIsAnnounced
  <1>1. ASSUME NEW d \in Client, Prompt(d)
        PROVE  client'[c] = "away" \/ presented'[c] \in announced'
    <2>1. PICK token \in announced :
              presented' = [presented EXCEPT ![d] = token]
      BY <1>1 DEF Prompt
    <2>2. announced' = announced /\ client' = [client EXCEPT ![d] = "prompted"]
      BY <1>1 DEF Prompt, ServerUnchanged, Become
    <2> QED
      BY <2>1, <2>2 DEF PromptedIsAnnounced, TypeInv, FieldsOK
  <1>2. CASE client' = client /\ presented' = presented
    BY <1>2, Frame DEF PromptedIsAnnounced
  <1>3. ASSUME NEW d \in Client, ClientStep(d) \/ Die(d)
        PROVE  client'[c] = "away" \/ presented'[c] \in announced'
    <2>1. presented' = presented /\ announced' = announced
      BY <1>3 DEF ClientStep, Connect, SendToken, ReadReply, GiveUp, Die,
                  ServerUnchanged
    <2>2. client[d] # "away" /\ (c = d \/ client'[c] = client[c])
      BY <1>3 DEF ClientStep, Connect, SendToken, ReadReply, GiveUp, Die,
                  Become, TypeInv, FieldsOK
    <2> QED
      BY <2>1, <2>2 DEF PromptedIsAnnounced
  <1>4. CASE \/ ServerOnBus \/ ServerFails \/ OpenChannel \/ IgnoreLogin
            \/ ListenerStep \/ ChannelStep
    <2>1. client' = client /\ presented' = presented
      BY <1>4
         DEF ServerOnBus, ServerFails, OpenChannel, IgnoreLogin, ListenerStep,
             ChannelStep, Announce, AnnounceRaises, Joined, Bind, Accept,
             AcceptTimesOut, PassCred, Peek, Answer, clientVars
    <2> QED
      BY <2>1, <1>2
  <1>5. CASE UNCHANGED vars
    BY <1>5, <1>2 DEF vars, clientVars
  <1> QED
    BY <1>1, <1>3, <1>4, <1>5 DEF Next

(* Only Peek lets a connection get as far as its token.                    *)
LEMMA ReceivingNext ==
    TypeInv /\ ReceivingIsRoot /\ [Next]_vars => ReceivingIsRoot'
  BY DEF ReceivingIsRoot, Next, vars, ServerOnBus, ServerFails, OpenChannel,
         IgnoreLogin, ListenerStep, ChannelStep, Announce, AnnounceRaises,
         Joined, Bind, Accept, AcceptTimesOut, PassCred, Peek, Answer, Prompt,
         ClientStep, Connect, SendToken, ReadReply, GiveUp, Die,
         ServerUnchanged, channelVars, clientVars, boundVars

(* After its answer a channel is over, until a later login opens another.  *)
LEMMA AnsweredNext ==
    TypeInv /\ AnsweredIsOver /\ [Next]_vars => AnsweredIsOver'
  <1> SUFFICES ASSUME TypeInv, AnsweredIsOver, [Next]_vars,
                      NEW c \in Client
               PROVE  /\ reply'[c] <= login'
                      /\ reply'[c] # 0 /\ reply'[c] = login'
                             => channel' \in {"none", "over"}
    BY DEF AnsweredIsOver
  <1>1. /\ reply[c] \in Nat /\ login \in Nat /\ reply[c] <= login
        /\ reply[c] # 0 /\ reply[c] = login => channel \in {"none", "over"}
    BY BoundsAreNat DEF AnsweredIsOver, TypeInv, FieldsOK
  <1>2. CASE OpenChannel
    <2>1. login' = login + 1 /\ reply' = reply
      BY <1>2 DEF OpenChannel
    <2> QED
      BY <1>1, <2>1
  <1>3. CASE Answer
    <2>1. login' = login /\ channel' = "over"
      BY <1>3 DEF Answer
    <2>2. reply'[c] = reply[c] \/ reply'[c] = login
      BY <1>3 DEF Answer, TypeInv, FieldsOK
    <2> QED
      BY <1>1, <2>1, <2>2
  <1>4. CASE ~OpenChannel /\ ~Answer
    <2>1. login' = login /\ reply' = reply
      BY <1>4, Frame
    <2>2. channel \in {"none", "over"} => channel' \in {"none", "over"}
      BY <1>4
         DEF Next, vars, ServerOnBus, ServerFails, IgnoreLogin, ListenerStep,
             ChannelStep, Announce, AnnounceRaises, Joined, Bind, Accept,
             AcceptTimesOut, PassCred, Peek, Prompt, ClientStep, Connect,
             SendToken,
             ReadReply, GiveUp, Die, ServerUnchanged, channelVars
    <2> QED
      BY <1>1, <2>1, <2>2
  <1> QED
    BY <1>2, <1>3, <1>4

(* Answer is the one step that delivers: to root, the token's login, and   *)
(* first of all.                                                           *)
LEMMA RightNext ==
    TypeInv /\ DeliveryInv /\ [Next]_vars => RightCredentials'
  <1> SUFFICES ASSUME TypeInv, DeliveryInv, [Next]_vars, NEW c \in Client,
                      reply'[c] # 0
               PROVE  /\ c \in Root /\ presented'[c] = reply'[c]
                      /\ reply'[c] \in announced'
    BY DEF RightCredentials
  <1>1. CASE Answer /\ reply'[c] # reply[c]
    <2>1. /\ c = conn /\ reply'[c] = login /\ presented[c] = login
          /\ channel = "receiving" /\ presented' = presented
          /\ announced' = announced
      BY <1>1 DEF Answer, clientVars, TypeInv, FieldsOK
    <2>2. client[c] # "away"
      BY <2>1 DEF DeliveryInv, AwayIsOutside, Linked
    <2> QED
      BY <2>1, <2>2 DEF DeliveryInv, ReceivingIsRoot, PromptedIsAnnounced
  <1>2. CASE reply'[c] = reply[c]
    <2>1. /\ c \in Root /\ presented[c] = reply[c] /\ reply[c] \in announced
          /\ client[c] # "away"
      BY <1>2 DEF DeliveryInv, RightCredentials, AwayIsOutside
    <2>2. presented'[c] = presented[c]
      <3>1. ASSUME NEW d \in Client, Prompt(d)
            PROVE  presented'[c] = presented[c]
        BY <2>1, <3>1 DEF Prompt, TypeInv, FieldsOK
      <3> QED
        BY <3>1, Frame
    <2> QED
      BY <1>2, <2>1, <2>2, Frame
  <1> QED
    BY <1>1, <1>2, Frame

(* No second client gets what a first one got.                             *)
LEMMA OnceNext == TypeInv /\ DeliveryInv /\ [Next]_vars => DeliveredOnce'
  <1> SUFFICES ASSUME TypeInv, DeliveryInv, [Next]_vars,
                      NEW c \in Client, NEW d \in Client,
                      reply'[c] # 0, reply'[c] = reply'[d]
               PROVE  c = d
    BY DEF DeliveredOnce
  <1>1. CASE reply' = reply
    BY <1>1 DEF DeliveryInv, DeliveredOnce
  <1>2. CASE Answer
    <2>1. /\ channel = "receiving"
          /\ \A e \in Client : reply[e] # 0 => reply[e] # login
      BY <1>2 DEF Answer, DeliveryInv, AnsweredIsOver
    <2>2. reply' = reply \/ reply' = [reply EXCEPT ![conn] = login]
      BY <1>2 DEF Answer
    <2> QED
      BY <1>1, <2>1, <2>2
         DEF DeliveryInv, DeliveredOnce, TypeInv, FieldsOK
  <1> QED
    BY <1>1, <1>2, Frame

(* Every step keeps the whole invariant.                                   *)
LEMMA DeliveryNext ==
    TypeInv /\ DeliveryInv /\ [Next]_vars => DeliveryInv'
  BY AwayNext, PromptedNext, ReceivingNext, AnsweredNext, RightNext, OnceNext
     DEF DeliveryInv

(* The invariant behind the two results below, in every reachable state.   *)
THEOREM DeliveryCorrect == Spec => []DeliveryInv
  BY TypeInit, TypeNext, DeliveryInit, DeliveryNext, PTL DEF Spec

(* Single sign-on hands out the credentials of the login that was          *)
(* announced to the client, and to root alone.                             *)
THEOREM CredentialsAreRight == Spec => []RightCredentials
  <1>1. DeliveryInv => RightCredentials
    BY DEF DeliveryInv
  <1> QED
    BY DeliveryCorrect, <1>1, PTL

(* The credentials of a login leave the agent at most once.                *)
THEOREM CredentialsLeaveOnce == Spec => []DeliveredOnce
  <1>1. DeliveryInv => DeliveredOnce
    BY DEF DeliveryInv
  <1> QED
    BY DeliveryCorrect, <1>1, PTL

-----------------------------------------------------------------------------
(* The channel is forgotten whenever user_authenticated is left, unless it *)
(* is left by an exception.                                                *)
THEOREM BusyCorrect == Spec => []BusyOnlyInside
  <1>1. Init => BusyOnlyInside
    BY DEF Init, BusyOnlyInside
  <1>2. BusyOnlyInside /\ [Next]_vars => BusyOnlyInside'
    <2> SUFFICES ASSUME BusyOnlyInside, [Next]_vars PROVE BusyOnlyInside'
      OBVIOUS
    <2>1. CASE OpenChannel
      BY <2>1 DEF OpenChannel, BusyOnlyInside
    <2>2. CASE Announce
      <3>1. UNCHANGED <<busy, raised>> /\ listener # "idle" /\ listener' # "idle"
        BY <2>2 DEF Announce
      <3> QED
        BY <3>1, Zenon DEF BusyOnlyInside
    <2>3. CASE AnnounceRaises
      BY <2>3 DEF AnnounceRaises, BusyOnlyInside
    <2>4. CASE Joined
      BY <2>4 DEF Joined, BusyOnlyInside
    <2>5. CASE UNCHANGED <<busy, raised, listener>>
      BY <2>5, Zenon DEF BusyOnlyInside
    <2>6. \/ OpenChannel \/ Announce \/ AnnounceRaises \/ Joined
          \/ UNCHANGED <<busy, raised, listener>>
      <3>1. CASE ServerOnBus \/ ServerFails \/ IgnoreLogin \/ ChannelStep
        BY <3>1, Zenon
           DEF ServerOnBus, ServerFails, IgnoreLogin, ChannelStep, Bind, Accept,
               AcceptTimesOut, PassCred, Peek, Answer
      <3>2. ASSUME NEW c \in Client, Prompt(c) \/ ClientStep(c) \/ Die(c)
            PROVE  UNCHANGED <<busy, raised, listener>>
        BY <3>2, Zenon
           DEF Prompt, ClientStep, Connect, SendToken, ReadReply, GiveUp, Die,
               ServerUnchanged
      <3>3. CASE UNCHANGED vars
        BY <3>3, Zenon DEF vars
      <3> QED
        BY <3>1, <3>2, <3>3 DEF Next, ListenerStep
    <2> QED
      BY <2>1, <2>2, <2>3, <2>4, <2>5, <2>6
  <1> QED
    BY <1>1, <1>2, PTL DEF Spec
=============================================================================
