------------------------- MODULE VirtIoChannelProofs -------------------------
(***************************************************************************)
(* Theorems about VirtIoChannel, for any threads, lengths of lines, splits *)
(* of the port and chunks of the reads, and about WinPort, for any threads *)
(* and lengths of messages.                                                *)
(***************************************************************************)
EXTENDS VirtIoChannel, WinPort, SequenceTheorems, FiniteSetTheorems,
        WellFoundedInduction, TLAPS

(* The pieces of a line.                                                   *)
LEMMA PieceFields ==
    ASSUME NEW id \in Id, NEW p \in Nat, NEW l \in BOOLEAN
    PROVE  [id |-> id, part |-> p, last |-> l] \in Piece
  BY DEF Piece

LEMMA EncodeIsLine ==
    ASSUME NEW id \in Id, NEW size \in Nat
    PROVE  /\ Encode(id, size) \in Seq(Piece)
           /\ Len(Encode(id, size)) = size
           /\ \A p \in 1..size :
                Encode(id, size)[p] = [id |-> id, part |-> p, last |-> p = size]
  <1>1. \A p \in 1..size : [id |-> id, part |-> p, last |-> p = size] \in Piece
    <2> SUFFICES ASSUME NEW p \in 1..size
                 PROVE  [id |-> id, part |-> p, last |-> p = size] \in Piece
      OBVIOUS
    <2>1. p \in Nat /\ (p = size) \in BOOLEAN
      OBVIOUS
    <2> QED
      BY <2>1, PieceFields
  <1>2. Encode(id, size) = [p \in 1..size |-> [id |-> id, part |-> p, last |-> p = size]]
    BY DEF Encode
  <1> QED
    BY <1>1, <1>2

LEMMA DropIsRest ==
    ASSUME NEW S, NEW s \in Seq(S), NEW n \in 0..Len(s)
    PROVE  /\ Drop(n, s) \in Seq(S)
           /\ Len(Drop(n, s)) = Len(s) - n
           /\ \A i \in 1..(Len(s) - n) : Drop(n, s)[i] = s[i + n]
  BY DEF Drop

LEMMA FirstPart ==
    ASSUME NEW S, NEW s \in Seq(S), NEW n \in 0..Len(s)
    PROVE  /\ SubSeq(s, 1, n) \in Seq(S)
           /\ Len(SubSeq(s, 1, n)) = n
           /\ \A i \in 1..n : SubSeq(s, 1, n)[i] = s[i]
  OBVIOUS

(* A buffer with a newline has a first one.                                *)
LEMMA LeastOf ==
    ASSUME NEW T, T \subseteq Nat, T # {}
    PROVE  \E x \in T : \A y \in T : ~(y < x)
  <1>1. PICK x \in T : \A y \in T : ~(<<y, x>> \in OpToRel(<, Nat))
    BY WFMin, NatLessThanWellFounded
  <1>2. \A y \in T : <<y, x>> \in OpToRel(<, Nat) <=> y < x
    BY DEF OpToRel
  <1> QED
    BY <1>1, <1>2

LEMMA NewlineFound ==
    ASSUME NEW s, Len(s) \in Nat, HasNewline(s)
    PROVE  /\ FirstNewline(s) \in 1..Len(s) /\ s[FirstNewline(s)].last
           /\ \A j \in 1..(FirstNewline(s) - 1) : ~s[j].last
  <1> DEFINE T == {i \in 1..Len(s) : s[i].last}
  <1>1. T \subseteq Nat /\ T # {}
    BY DEF HasNewline
  <1>2. PICK i \in T : \A j \in T : ~(j < i)
    <2> HIDE DEF T
    <2> QED
      BY <1>1, LeastOf
  <1>3. \A j \in 1..(i - 1) : ~s[j].last
    BY <1>2
  <1>4. \E k \in 1..Len(s) : s[k].last /\ \A j \in 1..(k - 1) : ~s[j].last
    BY <1>2, <1>3
  <1> QED
    BY <1>4 DEF FirstNewline

-----------------------------------------------------------------------------
(* Type correctness.                                                       *)
LEMMA SettingFields ==
    ASSUME setting \in Settings
    PROVE  /\ setting.writers \subseteq Writers /\ setting.atLeast \in Nat
           /\ setting.messages \in 0..MaxMessages
           /\ setting.lines \in 0..HostLines /\ setting.errors \in 0..MaxErrors
           /\ MaxMessages \in Nat /\ HostLines \in Nat /\ MaxErrors \in Nat
  BY ChannelAssumption DEF Setting

Types ==
    /\ setting \in Settings
    /\ written \in [Writers -> 0..MaxMessages]
    /\ rest \in [Writers -> Seq(Piece)]
    /\ toHost \in Seq(Piece) /\ hostBuffer \in Seq(Piece)
    /\ toAgent \in Seq(Piece) /\ buffer \in Seq(Piece)
    /\ hostGot \in Seq(Seq(Piece))
    /\ parsed \in Seq(Id) /\ hostWrote \in Seq(Id)
    /\ errors \in 0..MaxErrors

LEMMA TypeInit == Init => Types
  <1> SUFFICES ASSUME Init PROVE Types
    OBVIOUS
  <1>1. /\ setting \in Settings /\ MaxMessages \in Nat /\ MaxErrors \in Nat
    BY ChannelAssumption DEF Init
  <1>2. written \in [Writers -> 0..MaxMessages] /\ rest \in [Writers -> Seq(Piece)]
    BY <1>1 DEF Init
  <1> QED
    BY <1>1, <1>2 DEF Init, Types

LEMMA TypeNext == Types /\ [Next]_vars => Types'
  <1> SUFFICES ASSUME Types, [Next]_vars PROVE Types'
    OBVIOUS
  <1> USE DEF Types, sendVars, hostVars, readVars
  <1>1. ASSUME NEW t \in Writers, NEW size \in Sizes, StartWrite(t, size) PROVE Types'
    <2>1. written[t] + 1 \in 1..MaxMessages /\ size \in Nat
      BY <1>1, SettingFields, ChannelAssumption, SMTT(30) DEF StartWrite
    <2>2. <<t, written[t] + 1, TRUE>> \in Id
      BY <2>1 DEF Id
    <2>3. Encode(<<t, written[t] + 1, TRUE>>, size) \in Seq(Piece)
      BY <2>1, <2>2, EncodeIsLine
    <2>4. written' \in [Writers -> 0..MaxMessages] /\ rest' \in [Writers -> Seq(Piece)]
      BY <1>1, <2>1, <2>3 DEF StartWrite
    <2> QED
      BY <1>1, <2>4 DEF StartWrite
  <1>2. ASSUME NEW t \in Writers, NEW n \in 1..Len(rest[t]), WriteSome(t, n) PROVE Types'
    <2>1. rest[t] \in Seq(Piece) /\ n \in 0..Len(rest[t])
      OBVIOUS
    <2>2. SubSeq(rest[t], 1, n) \in Seq(Piece) /\ Drop(n, rest[t]) \in Seq(Piece)
      BY <2>1, FirstPart, DropIsRest
    <2>3. toHost' \in Seq(Piece)
      BY <1>2, <2>2, ConcatProperties DEF WriteSome
    <2>4. rest' \in [Writers -> Seq(Piece)]
      BY <1>2, <2>2 DEF WriteSome
    <2> QED
      BY <1>2, <2>3, <2>4 DEF WriteSome
  <1>3. ASSUME NEW t \in Writers, WriteFails(t) PROVE Types'
    <2>1. errors' \in 0..MaxErrors /\ rest' \in [Writers -> Seq(Piece)]
      BY <1>3, SettingFields, SMTT(30) DEF WriteFails
    <2> QED
      BY <1>3, <2>1 DEF WriteFails
  <1>4. CASE HostReads
    <2>1. Head(toHost) \in Piece /\ toHost' \in Seq(Piece)
      BY <1>4 DEF HostReads
    <2>2. Append(hostBuffer, Head(toHost)) \in Seq(Piece)
      BY <2>1, AppendProperties
    <2>3. CASE Head(toHost).last
      <3>1. hostGot' = Append(hostGot, Append(hostBuffer, Head(toHost))) /\ hostBuffer' = <<>>
        BY <1>4, <2>3 DEF HostReads
      <3>2. hostGot' \in Seq(Seq(Piece))
        BY <2>2, <3>1, AppendProperties
      <3> QED
        BY <1>4, <2>1, <3>1, <3>2 DEF HostReads
    <2>4. CASE ~Head(toHost).last
      BY <1>4, <2>1, <2>2, <2>4 DEF HostReads
    <2> QED
      BY <2>3, <2>4
  <1>5. ASSUME NEW ok \in BOOLEAN, NEW size \in Sizes, HostWrites(ok, size) PROVE Types'
    <2> DEFINE id == <<"host", Len(hostWrote) + 1, ok>>
    <2>1. Len(hostWrote) + 1 \in 1..HostLines /\ size \in Nat
      BY <1>5, SettingFields, ChannelAssumption DEF HostWrites
    <2>2. id \in Id
      BY <2>1 DEF Id
    <2>3. /\ toAgent' = toAgent \o Encode(id, size) /\ hostWrote' = Append(hostWrote, id)
          /\ UNCHANGED <<setting, sendVars, hostVars, buffer, parsed>>
      BY <1>5 DEF HostWrites
    <2> HIDE DEF id
    <2>4. Encode(id, size) \in Seq(Piece)
      BY <2>1, <2>2, EncodeIsLine
    <2>5. toAgent' \in Seq(Piece) /\ hostWrote' \in Seq(Id)
      BY <2>2, <2>3, <2>4, ConcatProperties, AppendProperties
    <2> QED
      BY <2>3, <2>5
  <1>6. ASSUME NEW n \in 1..ReadSize, ReadBuffer(n) PROVE Types'
    <2>1. n \in 0..Len(toAgent)
      BY <1>6, ChannelAssumption DEF ReadBuffer
    <2>2. SubSeq(toAgent, 1, n) \in Seq(Piece) /\ Drop(n, toAgent) \in Seq(Piece)
      BY <2>1, FirstPart, DropIsRest
    <2>3. buffer' \in Seq(Piece) /\ toAgent' \in Seq(Piece)
      BY <1>6, <2>2, ConcatProperties DEF ReadBuffer
    <2> QED
      BY <1>6, <2>3 DEF ReadBuffer
  <1>7. CASE ReadLine
    <2> DEFINE cut == FirstNewline(buffer)
               line == SubSeq(buffer, 1, cut)
    <2>1. cut \in 1..Len(buffer)
      BY <1>7, NewlineFound DEF ReadLine
    <2>2. buffer' = Drop(cut, buffer) /\ UNCHANGED <<setting, sendVars, hostVars, toAgent, hostWrote>>
      BY <1>7 DEF ReadLine
    <2>3. parsed' = parsed \/ parsed' = Append(parsed, line[1].id)
      BY <1>7 DEF ReadLine
    <2> HIDE DEF cut
    <2>4. cut \in 0..Len(buffer)
      BY <2>1
    <2>5. /\ buffer' \in Seq(Piece) /\ line \in Seq(Piece) /\ Len(line) = cut
      BY <2>2, <2>4, FirstPart, DropIsRest
    <2> HIDE DEF line
    <2>6. line[1] \in Piece
      BY <2>1, <2>5
    <2>7. line[1].id \in Id
      BY <2>6 DEF Piece
    <2>8. Append(parsed, line[1].id) \in Seq(Id)
      BY <2>7, AppendProperties
    <2> QED
      BY <2>2, <2>3, <2>5, <2>8
  <1>8. CASE UNCHANGED vars
    BY <1>8 DEF vars
  <1> QED
    BY <1>1, <1>2, <1>3, <1>4, <1>5, <1>6, <1>7, <1>8 DEF Next, Send, Listen

(* Every variable has its type, for any lengths and splits of the lines.   *)
THEOREM TypeCorrect == Spec => []TypeOK
  <1>1. Types => TypeOK
    BY DEF Types, TypeOK
  <1> QED
    BY <1>1, TypeInit, TypeNext, PTL DEF Spec

-----------------------------------------------------------------------------
(* Framing.  Lines stay whole if the port takes every line in one call, or *)
(* if one thread writes and no write fails.                                *)
Alone == \A s, t \in setting.writers : s = t
TakesLines == \A n \in Sizes : n <= setting.atLeast
Safe == TakesLines \/ (Alone /\ setting.errors = 0)

(* Every line that the host has split off is one message.                  *)
LinesIntact == \A i \in 1..Len(hostGot) : Intact(hostGot[i])

(* Piece q may come behind piece p.                                        *)
Follows(p, q) ==
    IF p.last THEN q.part = 1 ELSE q.id = p.id /\ q.part = p.part + 1

Chain(s) == \A i \in 1..(Len(s) - 1) : Follows(s[i], s[i + 1])

(* What the host has of a line is its start, ...                           *)
Started ==
    \A i \in 1..Len(hostBuffer) :
        /\ hostBuffer[i].id = hostBuffer[1].id
        /\ hostBuffer[i].part = i
        /\ ~hostBuffer[i].last

NextInBuffer(q) ==
    IF hostBuffer = <<>> THEN q.part = 1
    ELSE q.id = hostBuffer[1].id /\ q.part = Len(hostBuffer) + 1

(* ... the port goes on from there, ...                                    *)
Flow == Chain(toHost) /\ (toHost # <<>> => NextInBuffer(toHost[1]))

Expected(q) ==
    IF toHost = <<>> THEN NextInBuffer(q) ELSE Follows(toHost[Len(toHost)], q)

(* ... and so does everyone who writes.                                    *)
Goes(t) ==
    rest[t] # <<>> =>
        /\ t \in setting.writers
        /\ Chain(rest[t]) /\ rest[t][Len(rest[t])].last
        /\ Expected(rest[t][1])
        /\ TakesLines => Len(rest[t]) <= setting.atLeast /\ rest[t][1].part = 1

(* Between two writes, the last line is complete.                          *)
Closed == IF toHost = <<>> THEN hostBuffer = <<>> ELSE toHost[Len(toHost)].last
Between == TakesLines \/ (\A t \in Writers : rest[t] = <<>>) => Closed

FramingInv ==
    Safe => Started /\ Flow /\ (\A t \in Writers : Goes(t)) /\ Between /\ LinesIntact

LEMMA PieceIs ==
    ASSUME NEW p \in Piece, NEW b \in BOOLEAN, p.last <=> b
    PROVE  p = [id |-> p.id, part |-> p.part, last |-> b]
  BY DEF Piece

LEMMA FieldsOf ==
    ASSUME NEW x, NEW i, NEW p, NEW n, x = [id |-> i, part |-> p, last |-> p = n]
    PROVE  x.id = i /\ x.part = p /\ (x.last <=> p = n)
  BY Zenon

LEMMA IntactLine ==
    ASSUME NEW s \in Seq(Piece), s # <<>>,
           \A i \in 1..Len(s) : /\ s[i].id = s[1].id /\ s[i].part = i
                                /\ s[i].last <=> i = Len(s)
    PROVE  Intact(s)
  <1> DEFINE n == Len(s)
             e == [p \in 1..n |-> [id |-> s[1].id, part |-> p, last |-> p = n]]
  <1>1. Encode(s[1].id, n) = e
    BY DEF Encode
  <1>2. ASSUME NEW i \in 1..n PROVE s[i] = [id |-> s[1].id, part |-> i, last |-> i = n]
    <2>1. s[i] \in Piece /\ (i = n) \in BOOLEAN /\ (s[i].last <=> i = n)
      OBVIOUS
    <2>2. s[i] = [id |-> s[i].id, part |-> s[i].part, last |-> i = n]
      BY <2>1, PieceIs
    <2> QED
      BY <2>2
  <1>3. s = [i \in 1..n |-> s[i]]
    OBVIOUS
  <1>4. s = e
    BY <1>2, <1>3
  <1> QED
    BY <1>1, <1>4 DEF Intact

LEMMA FramingInit == Init => FramingInv
  <1> SUFFICES ASSUME Init PROVE FramingInv
    OBVIOUS
  <1>1. /\ hostBuffer = <<>> /\ toHost = <<>> /\ hostGot = <<>>
        /\ \A t \in Writers : rest[t] = <<>>
    BY DEF Init
  <1> QED
    BY <1>1 DEF FramingInv, Started, Flow, Chain, Goes, Between, Closed, LinesIntact

(* Pieces behind pieces that they follow.                                  *)
LEMMA ChainConcat ==
    ASSUME NEW s \in Seq(Piece), NEW u \in Seq(Piece), Chain(s), Chain(u),
           s # <<>> /\ u # <<>> => Follows(s[Len(s)], u[1])
    PROVE  Chain(s \o u)
  <1>1. /\ Len(s \o u) = Len(s) + Len(u)
        /\ \A i \in 1..(Len(s) + Len(u)) : (s \o u)[i] = IF i <= Len(s) THEN s[i] ELSE u[i - Len(s)]
    BY ConcatProperties
  <1>2. Len(s) \in Nat /\ Len(u) \in Nat
    OBVIOUS
  <1>3. ASSUME NEW i \in 1..(Len(s) + Len(u) - 1)
        PROVE  Follows((s \o u)[i], (s \o u)[i + 1])
    <2>1. CASE i < Len(s)
      <3>1. i \in 1..(Len(s) - 1) /\ (s \o u)[i] = s[i] /\ (s \o u)[i + 1] = s[i + 1]
        BY <1>1, <1>2, <2>1
      <3> QED
        BY <3>1 DEF Chain
    <2>2. CASE i = Len(s)
      <3>1. (s \o u)[i] = s[Len(s)] /\ (s \o u)[i + 1] = u[1] /\ s # <<>> /\ u # <<>>
        BY <1>1, <1>2, <2>2
      <3> QED
        BY <3>1
    <2>3. CASE i > Len(s)
      <3>1. /\ i - Len(s) \in 1..(Len(u) - 1)
            /\ (s \o u)[i] = u[i - Len(s)] /\ (s \o u)[i + 1] = u[(i - Len(s)) + 1]
        BY <1>1, <1>2, <2>3
      <3> QED
        BY <3>1 DEF Chain
    <2> QED
      BY <1>2, <2>1, <2>2, <2>3
  <1> QED
    BY <1>1, <1>3 DEF Chain

LEMMA ClosedExpectsStart ==
    ASSUME Closed, NEW q, q.part = 1
    PROVE  Expected(q)
  BY DEF Closed, Expected, NextInBuffer, Follows

LEMMA FramingStart ==
    ASSUME Types, FramingInv, Safe,
           NEW t \in Writers, NEW size \in Sizes, StartWrite(t, size)
    PROVE  FramingInv'
  <1> DEFINE id == <<t, written[t] + 1, TRUE>>
             e == Encode(id, size)
  <1>1. /\ t \in setting.writers /\ rest[t] = <<>> /\ rest' = [rest EXCEPT ![t] = e]
        /\ UNCHANGED <<setting, toHost, errors, hostVars>>
    BY DEF StartWrite
  <1>2. id \in Id /\ size \in Nat /\ size > 0
    <2>1. written[t] + 1 \in 1..MaxMessages
      BY SettingFields DEF StartWrite, Types
    <2>2. id \in Id
      BY <2>1 DEF Id
    <2>3. size \in Nat /\ size > 0
      BY ChannelAssumption
    <2> QED
      BY <2>2, <2>3
  <1> HIDE DEF id
  <1>3. /\ e \in Seq(Piece) /\ Len(e) = size
        /\ \A p \in 1..size : e[p] = [id |-> id, part |-> p, last |-> p = size]
    BY <1>2, EncodeIsLine
  <1> HIDE DEF e
  <1>4. \A p \in 1..size : e[p].id = id /\ e[p].part = p /\ (e[p].last <=> p = size)
    <2> SUFFICES ASSUME NEW p \in 1..size
                 PROVE  e[p].id = id /\ e[p].part = p /\ (e[p].last <=> p = size)
      OBVIOUS
    <2>1. e[p] = [id |-> id, part |-> p, last |-> p = size]
      BY <1>3
    <2> QED
      BY <2>1, FieldsOf
  <1>5. Chain(e) /\ e[Len(e)].last /\ e[1].part = 1 /\ e # <<>>
    BY <1>2, <1>3, <1>4 DEF Chain, Follows
  <1>6. Closed
    <2>1. CASE TakesLines
      BY <2>1 DEF FramingInv, Between
    <2>2. CASE Alone
      <3>1. \A s \in Writers : rest[s] = <<>>
        BY <1>1, <2>2 DEF FramingInv, Goes, Alone
      <3> QED
        BY <3>1 DEF FramingInv, Between
    <2> QED
      BY <2>1, <2>2 DEF Safe
  <1>7. UNCHANGED <<Safe, TakesLines, Started, Flow, Closed, LinesIntact>>
    BY <1>1 DEF Safe, Alone, TakesLines, Started, Flow, Chain, NextInBuffer, Closed, LinesIntact, hostVars, Intact
  <1>8. ASSUME NEW s \in Writers PROVE Goes(s)'
    <2>1. Goes(s)
      BY DEF FramingInv
    <2>2. CASE s = t
      <3>1. rest'[s] = e /\ Expected(e[1])
        BY <1>1, <1>5, <1>6, <2>2, ClosedExpectsStart DEF Types
      <3>2. TakesLines => Len(e) <= setting.atLeast
        BY <1>3 DEF TakesLines
      <3> QED
        BY <1>1, <1>5, <2>2, <3>1, <3>2
           DEF Goes, Expected, NextInBuffer, Chain, Follows, TakesLines, hostVars
    <2>3. CASE s # t
      <3>1. rest'[s] = rest[s]
        BY <1>1, <2>3 DEF Types
      <3> QED
        BY <1>1, <2>1, <3>1 DEF Goes, Expected, NextInBuffer, Chain, TakesLines, hostVars
    <2> QED
      BY <2>2, <2>3
  <1> QED
    BY <1>6, <1>7, <1>8 DEF FramingInv, Between

LEMMA FramingWrite ==
    ASSUME Types, FramingInv, Safe,
           NEW t \in Writers, NEW n \in 1..Len(rest[t]), WriteSome(t, n)
    PROVE  FramingInv'
  <1> DEFINE r == rest[t]
             part == SubSeq(r, 1, n)
             left == Drop(n, r)
  <1>1. /\ n >= setting.atLeast \/ n = Len(r)
        /\ toHost' = toHost \o part /\ rest' = [rest EXCEPT ![t] = left]
        /\ UNCHANGED <<setting, errors, hostVars>> /\ r # <<>>
    BY DEF WriteSome
  <1>2. r \in Seq(Piece) /\ n \in 0..Len(r) /\ n \in 1..Len(r)
    BY DEF Types
  <1>3. Goes(t)
    BY DEF FramingInv
  <1>4. /\ t \in setting.writers /\ Chain(r) /\ r[Len(r)].last /\ Expected(r[1])
        /\ TakesLines => Len(r) <= setting.atLeast /\ r[1].part = 1
    BY <1>1, <1>3 DEF Goes
  <1> HIDE DEF r
  <1>5. /\ part \in Seq(Piece) /\ Len(part) = n
        /\ \A i \in 1..n : part[i] = r[i]
    BY <1>2, FirstPart
  <1>6. /\ left \in Seq(Piece) /\ Len(left) = Len(r) - n
        /\ \A i \in 1..(Len(r) - n) : left[i] = r[i + n]
    BY <1>2, DropIsRest
  <1> HIDE DEF part, left
  <1>7. Chain(part) /\ part # <<>> /\ part[1] = r[1] /\ part[Len(part)] = r[n]
    <2>1. Len(r) \in Nat /\ n \in Nat /\ n >= 1 /\ n <= Len(r)
      BY <1>2
    <2>2. part # <<>> /\ part[1] = r[1] /\ part[Len(part)] = r[n]
      BY <1>5, <2>1
    <2>3. ASSUME NEW i \in 1..(Len(part) - 1)
          PROVE  Follows(part[i], part[i + 1])
      <3>1. i \in 1..n /\ i + 1 \in 1..n /\ i \in 1..(Len(r) - 1)
        BY <1>5, <2>1
      <3>2. part[i] = r[i] /\ part[i + 1] = r[i + 1]
        BY <1>5, <3>1, Zenon
      <3> QED
        BY <1>4, <3>1, <3>2 DEF Chain
    <2> QED
      BY <2>2, <2>3 DEF Chain
  <1>8. Chain(left)
    <2> SUFFICES ASSUME NEW i \in 1..(Len(left) - 1) PROVE Follows(left[i], left[i + 1])
      BY DEF Chain
    <2>1. Len(r) \in Nat /\ n \in Nat /\ i \in 1..((Len(r) - n) - 1)
      BY <1>2, <1>6
    <2>2. /\ i + n \in 1..(Len(r) - 1) /\ (i + 1) + n = (i + n) + 1
          /\ i \in 1..(Len(r) - n) /\ i + 1 \in 1..(Len(r) - n)
      BY <2>1
    <2>3. left[i] = r[i + n] /\ left[i + 1] = r[(i + 1) + n]
      BY <1>6, <2>2, Zenon
    <2> QED
      BY <1>4, <2>2, <2>3 DEF Chain
  <1>9. Chain(toHost) /\ (toHost # <<>> => NextInBuffer(toHost[1])) /\ toHost \in Seq(Piece)
    BY DEF FramingInv, Flow, Types
  <1>10. /\ Len(toHost') = Len(toHost) + n
         /\ \A i \in 1..(Len(toHost) + n) :
               toHost'[i] = IF i <= Len(toHost) THEN toHost[i] ELSE part[i - Len(toHost)]
         /\ toHost' \in Seq(Piece)
    <2>1. /\ Len(toHost \o part) = Len(toHost) + Len(part)
          /\ \A i \in 1..(Len(toHost) + Len(part)) :
                (toHost \o part)[i] = IF i <= Len(toHost) THEN toHost[i] ELSE part[i - Len(toHost)]
          /\ toHost \o part \in Seq(Piece)
      BY <1>5, <1>9, ConcatProperties
    <2>2. toHost' = toHost \o part /\ Len(part) = n
      BY <1>1, <1>5
    <2> QED
      BY <2>1, <2>2
  <1>11. toHost' # <<>> /\ toHost'[Len(toHost')] = r[n]
    BY <1>2, <1>5, <1>7, <1>9, <1>10
  <1>12. UNCHANGED <<Safe, TakesLines, Started, LinesIntact>>
    BY <1>1 DEF Safe, Alone, TakesLines, Started, LinesIntact, hostVars, Intact
  <1>13. Flow'
    <2>1. toHost # <<>> => Follows(toHost[Len(toHost)], part[1])
      BY <1>4, <1>7 DEF Expected
    <2>2. Chain(toHost')
      BY <1>1, <1>5, <1>7, <1>9, <2>1, ChainConcat
    <2>3. NextInBuffer(toHost'[1])
      <3>1. CASE toHost = <<>>
        <4>1. toHost'[1] = r[1]
          BY <1>2, <1>5, <1>10, <3>1
        <4> QED
          BY <1>4, <3>1, <4>1 DEF Expected
      <3>2. CASE toHost # <<>>
        <4>1. toHost'[1] = toHost[1]
          BY <1>2, <1>9, <1>10, <3>2
        <4> QED
          BY <1>9, <3>2, <4>1
      <3> QED
        BY <3>1, <3>2
    <2> QED
      BY <1>1, <2>2, <2>3 DEF Flow, NextInBuffer, hostVars, Chain
  <1>14. ASSUME NEW q, Follows(r[n], q) PROVE Expected(q)'
    BY <1>11, <1>14 DEF Expected
  <1>15. CASE n = Len(r)
    <2>1. left = <<>> /\ r[n].last
      BY <1>2, <1>4, <1>6, <1>15
    <2>2. Closed'
      BY <1>11, <2>1 DEF Closed
    <2>3. ASSUME NEW s \in Writers PROVE Goes(s)'
      <3>1. CASE s = t
        <4>1. rest'[s] = <<>>
          BY <1>1, <2>1, <3>1 DEF Types
        <4> QED
          BY <4>1 DEF Goes
      <3>2. CASE s # t
        <4>1. rest'[s] = rest[s]
          BY <1>1, <3>2 DEF Types
        <4>2. Goes(s)
          BY DEF FramingInv
        <4>3. CASE rest[s] = <<>>
          BY <4>1, <4>3 DEF Goes
        <4>4. CASE rest[s] # <<>>
          <5>1. TakesLines
            BY <1>4, <3>2, <4>2, <4>4 DEF Goes, Safe, Alone
          <5>2. Follows(r[n], rest[s][1])
            BY <2>1, <4>2, <4>4, <5>1 DEF Goes, Follows
          <5>3. Expected(rest[s][1])'
            BY <1>14, <4>1, <5>2 DEF Expected, NextInBuffer, Follows
          <5> QED
            BY <1>1, <4>1, <4>2, <4>4, <5>3 DEF Goes, TakesLines, Chain
        <4> QED
          BY <4>3, <4>4
      <3> QED
        BY <3>1, <3>2
    <2> QED
      BY <1>12, <1>13, <2>2, <2>3 DEF FramingInv, Between
  <1>16. CASE n # Len(r)
    <2>0. Len(r) \in Nat /\ setting.atLeast \in Nat
      BY <1>2, SettingFields DEF Types
    <2>6. n < Len(r) /\ n >= setting.atLeast /\ n \in Nat
      BY <1>1, <1>2, <1>16, <2>0
    <2>1. ~TakesLines /\ n \in 1..(Len(r) - 1)
      BY <1>2, <1>4, <2>0, <2>6
    <2>2. /\ left # <<>> /\ left[1] = r[n + 1] /\ left[Len(left)] = r[Len(r)]
      <3>1. Len(left) \in Nat \ {0} /\ Len(left) = Len(r) - n /\ Len(r) \in Nat /\ n \in Nat
        BY <1>6, <2>0, <2>1
      <3>2. left # <<>>
        BY <1>6, <3>1
      <3>3. left[1] = r[1 + n] /\ left[Len(r) - n] = r[(Len(r) - n) + n]
        BY <1>6, <3>1
      <3> QED
        BY <3>1, <3>2, <3>3
    <2>3. Follows(r[n], left[1])
      BY <1>4, <2>1, <2>2 DEF Chain
    <2>4. rest'[t] = left
      BY <1>1 DEF Types
    <2>5. ASSUME NEW s \in Writers PROVE Goes(s)'
      <3>1. CASE s = t
        <4>1. Expected(rest[t][1])'
          BY <1>11, <2>3, <2>4 DEF Expected
        <4> QED
          BY <1>1, <1>4, <1>8, <1>12, <2>1, <2>2, <2>4, <3>1, <4>1
             DEF Goes, Expected, NextInBuffer, Chain, TakesLines
      <3>2. CASE s # t
        <4>1. rest'[s] = rest[s]
          BY <1>1, <3>2 DEF Types
        <4>2. rest[s] = <<>>
          <5>1. Goes(s)
            BY DEF FramingInv
          <5> QED
            BY <1>4, <2>1, <3>2, <5>1 DEF Goes, Safe, Alone
        <4> QED
          BY <4>1, <4>2 DEF Goes
      <3> QED
        BY <3>1, <3>2
    <2> QED
      BY <1>12, <1>13, <2>1, <2>2, <2>4, <2>5 DEF FramingInv, Between
  <1> QED
    BY <1>15, <1>16

LEMMA FramingRead ==
    ASSUME Types, FramingInv, Safe, HostReads
    PROVE  FramingInv'
  <1> DEFINE p == Head(toHost)
             line == Append(hostBuffer, p)
             NextAfter(q) == IF hostBuffer' = <<>> THEN q.part = 1
                             ELSE q.id = hostBuffer'[1].id /\ q.part = Len(hostBuffer') + 1
             ExpectedAfter(q) == IF toHost' = <<>> THEN NextAfter(q) ELSE Follows(toHost'[Len(toHost')], q)
  <1>1. /\ toHost # <<>> /\ toHost' = Tail(toHost)
        /\ IF p.last THEN hostGot' = Append(hostGot, line) /\ hostBuffer' = <<>>
           ELSE hostBuffer' = line /\ UNCHANGED hostGot
        /\ UNCHANGED <<setting, rest, errors>>
    BY DEF HostReads
  <1>2. /\ toHost \in Seq(Piece) /\ hostBuffer \in Seq(Piece) /\ hostGot \in Seq(Seq(Piece))
    BY DEF Types
  <1>3. /\ Len(toHost) \in Nat \ {0} /\ p = toHost[1] /\ p \in Piece
        /\ toHost' \in Seq(Piece) /\ Len(toHost') = Len(toHost) - 1
        /\ \A i \in 1..(Len(toHost) - 1) : toHost'[i] = toHost[i + 1]
    BY <1>1, <1>2
  <1> HIDE DEF p
  <1>4. Chain(toHost) /\ NextInBuffer(p)
    BY <1>1, <1>3 DEF FramingInv, Flow
  <1>5. /\ line \in Seq(Piece) /\ Len(line) = Len(hostBuffer) + 1
        /\ \A i \in 1..Len(hostBuffer) : line[i] = hostBuffer[i]
        /\ line[Len(hostBuffer) + 1] = p /\ line # <<>>
    BY <1>2, <1>3, AppendProperties
  <1> HIDE DEF line
  <1>6. Len(hostBuffer) \in Nat
    BY <1>2
  <1>7. \A i \in 1..Len(line) : /\ line[i].id = line[1].id /\ line[i].part = i
                                /\ line[i].last => p.last /\ i = Len(line)
    <2>1. CASE hostBuffer = <<>>
      <3>1. p.part = 1
        BY <1>4, <2>1 DEF NextInBuffer
      <3>2. Len(line) = 1 /\ line[1] = p
        BY <1>5, <2>1
      <3> QED
        BY <3>1, <3>2
    <2>2. CASE hostBuffer # <<>>
      <3>1. p.id = hostBuffer[1].id /\ p.part = Len(hostBuffer) + 1
        BY <1>4, <2>2 DEF NextInBuffer
      <3>2. line[1] = hostBuffer[1]
        BY <1>2, <1>5, <2>2
      <3>3. ASSUME NEW i \in 1..Len(hostBuffer)
            PROVE  line[i].id = line[1].id /\ line[i].part = i /\ ~line[i].last
        BY <1>5, <3>2, <3>3 DEF FramingInv, Started
      <3> QED
        BY <1>5, <1>6, <3>1, <3>2, <3>3
    <2> QED
      BY <2>1, <2>2
  <1>8. UNCHANGED <<Safe, TakesLines>>
    BY <1>1 DEF Safe, Alone, TakesLines
  <1>9. Started'
    <2>1. CASE p.last
      BY <1>1, <2>1 DEF Started
    <2>2. CASE ~p.last
      BY <1>1, <1>7, <2>2 DEF Started
    <2> QED
      BY <2>1, <2>2
  <1>10. ASSUME NEW q, Follows(p, q) PROVE NextAfter(q)
    <2>1. CASE p.last
      BY <1>1, <1>10, <2>1 DEF Follows
    <2>2. CASE ~p.last
      <3>1. q.id = p.id /\ q.part = p.part + 1
        BY <1>10, <2>2 DEF Follows
      <3>2. p.id = line[1].id /\ p.part = Len(line)
        BY <1>5, <1>6, <1>7
      <3>3. hostBuffer' = line
        BY <1>1, <2>2
      <3> QED
        BY <1>5, <3>1, <3>2, <3>3
    <2> QED
      BY <2>1, <2>2
  <1>11. Flow'
    <2>1. Chain(toHost')
      <3> SUFFICES ASSUME NEW i \in 1..(Len(toHost') - 1) PROVE Follows(toHost'[i], toHost'[i + 1])
        BY DEF Chain
      <3>1. /\ i + 1 \in 1..(Len(toHost) - 1)
            /\ toHost'[i] = toHost[i + 1] /\ toHost'[i + 1] = toHost[(i + 1) + 1]
        BY <1>3
      <3> QED
        BY <1>4, <3>1 DEF Chain
    <2>2. ASSUME toHost' # <<>> PROVE NextAfter(toHost'[1])
      <3>1. 1 \in 1..(Len(toHost) - 1) /\ toHost'[1] = toHost[2]
        BY <1>3, <2>2
      <3>2. Follows(p, toHost'[1])
        BY <1>3, <1>4, <3>1 DEF Chain
      <3> QED
        BY <1>10, <3>2
    <2>3. toHost' # <<>> => NextInBuffer(toHost[1])'
      BY <2>2 DEF NextInBuffer
    <2> QED
      BY <2>1, <2>3 DEF Flow, Chain, Follows
  <1>12. ASSUME NEW q, Expected(q) PROVE ExpectedAfter(q)
    <2>1. Follows(toHost[Len(toHost)], q)
      BY <1>1, <1>12 DEF Expected
    <2>2. CASE toHost' = <<>>
      <3>1. p = toHost[Len(toHost)]
        <4>1. Len(toHost') = 0
          BY <2>2
        <4>2. Len(toHost) = 1
          BY <1>3, <4>1
        <4> QED
          BY <1>3, <4>2
      <3> QED
        BY <1>10, <2>1, <2>2, <3>1
    <2>3. CASE toHost' # <<>>
      <3>1. toHost'[Len(toHost')] = toHost[Len(toHost)]
        BY <1>3, <2>3
      <3> QED
        BY <2>1, <2>3, <3>1
    <2> QED
      BY <2>2, <2>3
  <1>13. ASSUME NEW t \in Writers PROVE Goes(t)'
    <2>1. Goes(t)
      BY DEF FramingInv
    <2>2. rest'[t] # <<>> => ExpectedAfter(rest'[t][1])
      BY <1>1, <1>12, <2>1 DEF Goes
    <2>3. rest'[t] # <<>> => Expected(rest[t][1])'
      BY <2>2 DEF Expected, NextInBuffer, Follows
    <2> QED
      BY <1>1, <1>8, <2>1, <2>3 DEF Goes, TakesLines, Chain, Follows
  <1>14. Between'
    <2>1. ASSUME Closed PROVE Closed'
      <3>1. toHost[Len(toHost)].last
        BY <1>1, <2>1 DEF Closed
      <3>2. CASE toHost' = <<>>
        <4>1. p = toHost[Len(toHost)]
          <5>1. Len(toHost') = 0
            BY <3>2
          <5>2. Len(toHost) = 1
            BY <1>3, <5>1
          <5> QED
            BY <1>3, <5>2
        <4> QED
          BY <1>1, <3>1, <3>2, <4>1 DEF Closed
      <3>3. CASE toHost' # <<>>
        <4>1. toHost'[Len(toHost')] = toHost[Len(toHost)]
          BY <1>3, <3>3
        <4> QED
          BY <3>1, <3>3, <4>1 DEF Closed
      <3> QED
        BY <3>2, <3>3
    <2> QED
      BY <1>1, <1>8, <2>1 DEF FramingInv, Between
  <1>15. LinesIntact'
    <2>1. LinesIntact
      BY DEF FramingInv
    <2>2. CASE p.last
      <3>1. Intact(line)
        <4>1. \A i \in 1..Len(line) : /\ line[i].id = line[1].id /\ line[i].part = i
                                      /\ line[i].last <=> i = Len(line)
          BY <1>5, <1>6, <1>7, <2>2
        <4> QED
          BY <1>5, <4>1, IntactLine
      <3>2. hostGot' = Append(hostGot, line)
        BY <1>1, <2>2
      <3>3. /\ Len(hostGot') = Len(hostGot) + 1 /\ hostGot'[Len(hostGot) + 1] = line
            /\ \A i \in 1..Len(hostGot) : hostGot'[i] = hostGot[i]
        BY <1>2, <1>5, <3>2, AppendProperties
      <3>4. Len(hostGot) \in Nat
        BY <1>2
      <3>5. \A i \in 1..Len(hostGot') : i \in 1..Len(hostGot) \/ i = Len(hostGot) + 1
        BY <3>3, <3>4
      <3> QED
        BY <2>1, <3>1, <3>3, <3>5 DEF LinesIntact, Intact
    <2>3. CASE ~p.last
      BY <1>1, <2>1, <2>3 DEF LinesIntact, Intact
    <2> QED
      BY <2>2, <2>3
  <1> QED
    BY <1>9, <1>11, <1>13, <1>14, <1>15 DEF FramingInv

(* A write that fails where the port takes whole lines leaves nothing.     *)
LEMMA FramingFail ==
    ASSUME Types, FramingInv, Safe, NEW t \in Writers, WriteFails(t)
    PROVE  FramingInv'
  <1>1. /\ rest' = [rest EXCEPT ![t] = <<>>] /\ errors < setting.errors
        /\ UNCHANGED <<setting, toHost, hostBuffer, hostGot>>
    BY DEF WriteFails, hostVars
  <1>2. TakesLines
    BY <1>1, SettingFields DEF Safe, Types
  <1>3. UNCHANGED <<Safe, TakesLines, Started, Flow, Closed, LinesIntact>>
    BY <1>1 DEF Safe, Alone, TakesLines, Started, Flow, Chain, Follows, NextInBuffer, Closed, LinesIntact, Intact
  <1>4. ASSUME NEW s \in Writers PROVE Goes(s)'
    <2>1. rest'[s] = <<>> \/ rest'[s] = rest[s]
      BY <1>1 DEF Types
    <2>2. Goes(s)
      BY <1>3 DEF FramingInv
    <2> QED
      BY <1>1, <2>1, <2>2 DEF Goes, Expected, NextInBuffer, Chain, Follows, TakesLines
  <1>5. Closed
    BY <1>2 DEF FramingInv, Between
  <1> QED
    BY <1>3, <1>4, <1>5 DEF FramingInv, Between

LEMMA FramingNext == Types /\ FramingInv /\ [Next]_vars => FramingInv'
  <1> SUFFICES ASSUME Types, FramingInv, [Next]_vars PROVE FramingInv'
    OBVIOUS
  <1>1. CASE ~Safe
    <2>1. UNCHANGED setting
      BY DEF Next, vars, StartWrite, Send, WriteSome, WriteFails, HostReads, HostWrites, Listen,
             ReadLine, ReadBuffer
    <2> QED
      BY <1>1, <2>1 DEF FramingInv, Safe, Alone, TakesLines
  <1>2. CASE Safe
    <2>1. ASSUME NEW t \in Writers, NEW size \in Sizes, StartWrite(t, size) PROVE FramingInv'
      BY <1>2, <2>1, FramingStart
    <2>2. ASSUME NEW t \in Writers, NEW n \in 1..Len(rest[t]), WriteSome(t, n) PROVE FramingInv'
      BY <1>2, <2>2, FramingWrite
    <2>3. ASSUME NEW t \in Writers, WriteFails(t) PROVE FramingInv'
      BY <1>2, <2>3, FramingFail
    <2>4. CASE HostReads
      BY <1>2, <2>4, FramingRead
    <2>5. CASE UNCHANGED <<setting, sendVars, hostVars>>
      BY <2>5 DEF sendVars, hostVars, FramingInv, Safe, Alone, TakesLines, Started, Flow, Chain, Follows,
                  NextInBuffer, Goes, Expected, Between, Closed, LinesIntact, Intact
    <2>6. ASSUME NEW ok \in BOOLEAN, NEW size \in Sizes, HostWrites(ok, size)
          PROVE  UNCHANGED <<setting, sendVars, hostVars>>
      BY <2>6 DEF HostWrites
    <2>7. CASE Listen \/ UNCHANGED vars
      BY <2>5, <2>7 DEF Listen, ReadLine, ReadBuffer, vars
    <2> QED
      BY <2>1, <2>2, <2>3, <2>4, <2>5, <2>6, <2>7 DEF Next, Send
  <1> QED
    BY <1>1, <1>2

(* A line leaves the agent whole: with several threads, and whatever       *)
(* fails, if the port takes whole lines (write, and os.write on the port); *)
(* and with one thread in whatever pieces the port takes it, if no call    *)
(* fails.                                                                  *)
THEOREM FramingCorrect == Spec => [](Safe => LinesIntact)
  <1>1. Types /\ FramingInv => (Safe => LinesIntact)
    BY DEF FramingInv
  <1> QED
    BY <1>1, TypeInit, TypeNext, FramingInit, FramingNext, PTL DEF Spec

-----------------------------------------------------------------------------
(* The abstract channel.  First the places of the newlines: the numbering  *)
(* by Nth misses none, so that the messages of two streams, one behind the *)
(* other, are those of the first and then those of the second.             *)
UpTo(N, i) == {j \in N : j <= i}

LEMMA FiniteUpTo ==
    ASSUME NEW n \in Nat, NEW T, T \subseteq 1..n
    PROVE  IsFiniteSet(T) /\ Cardinality(T) \in Nat
  <1>1. IsFiniteSet(1..n)
    BY FS_Interval
  <1>2. T \in SUBSET (1..n)
    OBVIOUS
  <1>3. IsFiniteSet(T)
    BY <1>1, <1>2, FS_Subset
  <1> QED
    BY <1>3, FS_CardinalityType

LEMMA Disjoint ==
    ASSUME NEW S, NEW T, IsFiniteSet(S), IsFiniteSet(T), S \cap T = {}
    PROVE  Cardinality(S \cup T) = Cardinality(S) + Cardinality(T)
  <1>1. Cardinality(S \cup T) = Cardinality(S) + Cardinality(T) - Cardinality(S \cap T)
    BY FS_Union
  <1>2. Cardinality(S \cap T) = 0
    BY FS_EmptySet
  <1>3. Cardinality(S) \in Nat /\ Cardinality(T) \in Nat
    BY FS_CardinalityType
  <1> QED
    BY <1>1, <1>2, <1>3

LEMMA Shifted ==
    ASSUME NEW n \in Nat, NEW T, T \subseteq 1..n, NEW m \in Nat
    PROVE  /\ IsFiniteSet(T) /\ Cardinality(T) \in Nat
           /\ IsFiniteSet({m + i : i \in T})
           /\ Cardinality({m + i : i \in T}) = Cardinality(T)
  <1> DEFINE S == {m + i : i \in T}
             f == [i \in T |-> m + i]
  <1>1. IsFiniteSet(T) /\ Cardinality(T) \in Nat
    BY FiniteUpTo
  <1>2. f \in [T -> S]
    OBVIOUS
  <1>3. \A i, j \in T : f[i] = f[j] => i = j
    OBVIOUS
  <1>4. \A s \in S : \E i \in T : f[i] = s
    OBVIOUS
  <1>5. f \in Bijection(T, S)
    BY <1>2, <1>3, <1>4 DEF Bijection, Injection, IsInjective, Surjection
  <1> QED
    BY <1>1, <1>5, FS_Bijection DEF ExistsBijection

LEMMA Ranked ==
    ASSUME NEW n \in Nat, NEW N, N \subseteq 1..n
    PROVE  /\ IsFiniteSet(N) /\ Cardinality(N) \in Nat
           /\ \A i \in N : Cardinality(UpTo(N, i)) \in 1..Cardinality(N)
           /\ \A i, j \in N : Cardinality(UpTo(N, i)) = Cardinality(UpTo(N, j)) => i = j
  <1>1. IsFiniteSet(N) /\ Cardinality(N) \in Nat
    BY FiniteUpTo
  <1>2. ASSUME NEW i \in N
        PROVE  /\ IsFiniteSet(UpTo(N, i)) /\ Cardinality(UpTo(N, i)) \in Nat
               /\ Cardinality(UpTo(N, i)) <= Cardinality(N)
    <2>1. UpTo(N, i) \in SUBSET N
      BY DEF UpTo
    <2> QED
      BY <1>1, <2>1, FS_Subset, FS_CardinalityType
  <1>3. ASSUME NEW i \in N PROVE Cardinality(UpTo(N, i)) # 0
    <2>1. i \in UpTo(N, i)
      BY DEF UpTo
    <2> QED
      BY <1>2, <2>1, FS_EmptySet
  <1>4. ASSUME NEW i \in N, NEW j \in N, i < j
        PROVE  Cardinality(UpTo(N, i)) # Cardinality(UpTo(N, j))
    <2>1. \A l \in N : l <= i => l <= j
      BY <1>4
    <2>2. j <= j /\ ~(j <= i)
      BY <1>4
    <2>3. UpTo(N, i) \in SUBSET UpTo(N, j) /\ j \in UpTo(N, j) /\ j \notin UpTo(N, i)
      BY <2>1, <2>2 DEF UpTo
    <2> QED
      BY <1>2, <2>3, FS_Subset
  <1>5. ASSUME NEW i \in N, NEW j \in N, Cardinality(UpTo(N, i)) = Cardinality(UpTo(N, j))
        PROVE  i = j
    <2>1. i \in Int /\ j \in Int
      OBVIOUS
    <2>2. ~(i < j) /\ ~(j < i)
      BY <1>4, <1>5
    <2> QED
      BY <2>1, <2>2
  <1> QED
    BY <1>1, <1>2, <1>3, <1>5

LEMMA NthIs ==
    ASSUME NEW n \in Nat, NEW N, N \subseteq 1..n
    PROVE  /\ \A k \in 1..Cardinality(N) : Nth(N, k) \in N /\ Cardinality(UpTo(N, Nth(N, k))) = k
           /\ \A i \in N : Nth(N, Cardinality(UpTo(N, i))) = i
  <1> DEFINE c == Cardinality(N)
             R(i) == Cardinality(UpTo(N, i))
  <1>0. /\ IsFiniteSet(N) /\ c \in Nat
        /\ \A i \in N : R(i) \in 1..c
        /\ \A i, j \in N : R(i) = R(j) => i = j
    BY Ranked
  <1>1. \A k : Nth(N, k) = CHOOSE i \in N : R(i) = k
    BY DEF Nth, UpTo
  <1> HIDE DEF R, c
  <1>2. ASSUME NEW k \in 1..c PROVE \E i \in N : R(i) = k
    <2> SUFFICES ASSUME \A i \in N : R(i) # k PROVE FALSE
      OBVIOUS
    <2> DEFINE T == (1..c) \ {k}
               f == [i \in N |-> R(i)]
    <2>0. IsFiniteSet(1..c) /\ Cardinality(1..c) = c
      BY <1>0, FS_Interval
    <2>1. IsFiniteSet(T) /\ Cardinality(T) = c - 1
      BY <2>0, FS_RemoveElement
    <2>2. f \in [N -> T]
      BY <1>0
    <2>3. Cardinality(T) < Cardinality(N)
      BY <1>0, <2>1 DEF c
    <2>4. \A i \in N : f[i] = R(i)
      OBVIOUS
    <2> HIDE DEF T, f
    <2>5. PICK i, j \in N : i # j /\ f[i] = f[j]
      BY <1>0, <2>1, <2>2, <2>3, FS_PigeonHole
    <2> QED
      BY <1>0, <2>4, <2>5
  <1>3. \A k \in 1..c : Nth(N, k) \in N /\ R(Nth(N, k)) = k
    BY <1>1, <1>2
  <1>4. \A i \in N : Nth(N, R(i)) = i
    BY <1>0, <1>3
  <1> QED
    BY <1>3, <1>4 DEF R, c

LEMMA NewlinesOfConcat ==
    ASSUME NEW s \in Seq(Piece), NEW u \in Seq(Piece)
    PROVE  /\ Newlines(s \o u) = Newlines(s) \cup {Len(s) + i : i \in Newlines(u)}
           /\ Newlines(s \o u) \subseteq 1..(Len(s) + Len(u))
           /\ Newlines(s) \subseteq 1..Len(s) /\ Newlines(u) \subseteq 1..Len(u)
           /\ Len(s) \in Nat /\ Len(u) \in Nat
           /\ \A i \in Newlines(s) : (s \o u)[i] = s[i]
           /\ \A i \in Newlines(u) : (s \o u)[Len(s) + i] = u[i]
  <1>1. /\ s \o u \in Seq(Piece) /\ Len(s \o u) = Len(s) + Len(u)
        /\ \A i \in 1..(Len(s) + Len(u)) : (s \o u)[i] = IF i <= Len(s) THEN s[i] ELSE u[i - Len(s)]
    BY ConcatProperties
  <1>2. Len(s) \in Nat /\ Len(u) \in Nat
    OBVIOUS
  <1> DEFINE w == s \o u
  <1> HIDE DEF w
  <1>3. \A i \in 1..Len(s) : i \in 1..(Len(s) + Len(u)) /\ w[i] = s[i]
    BY <1>1, <1>2 DEF w
  <1>4. ASSUME NEW i \in 1..Len(u) PROVE Len(s) + i \in 1..(Len(s) + Len(u)) /\ w[Len(s) + i] = u[i]
    <2>1. Len(s) + i \in 1..(Len(s) + Len(u)) /\ ~(Len(s) + i <= Len(s)) /\ (Len(s) + i) - Len(s) = i
      BY <1>2
    <2> QED
      BY <1>1, <2>1 DEF w
  <1>5. ASSUME NEW i \in 1..(Len(s) + Len(u))
        PROVE  i \in 1..Len(s) \/ \E j \in 1..Len(u) : i = Len(s) + j
    <2>1. i \in 1..Len(s) \/ (i - Len(s) \in 1..Len(u) /\ i = Len(s) + (i - Len(s)))
      BY <1>2
    <2> QED
      BY <2>1
  <1>6. Len(w) = Len(s) + Len(u)
    BY <1>1 DEF w
  <1>7. Newlines(w) = Newlines(s) \cup {Len(s) + i : i \in Newlines(u)}
    <2>1. ASSUME NEW i \in Newlines(w) PROVE i \in Newlines(s) \cup {Len(s) + j : j \in Newlines(u)}
      <3>1. i \in 1..(Len(s) + Len(u)) /\ w[i].last
        BY <1>6 DEF Newlines
      <3>2. CASE i \in 1..Len(s)
        BY <1>3, <3>1, <3>2 DEF Newlines
      <3>3. ASSUME NEW j \in 1..Len(u), i = Len(s) + j PROVE j \in Newlines(u)
        BY <1>4, <3>1, <3>3 DEF Newlines
      <3> QED
        BY <1>5, <3>1, <3>2, <3>3
    <2>2. ASSUME NEW i \in Newlines(s) PROVE i \in Newlines(w)
      BY <1>3, <1>6 DEF Newlines
    <2>3. ASSUME NEW i \in Newlines(u) PROVE Len(s) + i \in Newlines(w)
      BY <1>4, <1>6 DEF Newlines
    <2> QED
      BY <2>1, <2>2, <2>3
  <1> QED
    BY <1>2, <1>3, <1>4, <1>6, <1>7 DEF Newlines, w

LEMMA CompleteConcat ==
    ASSUME NEW s \in Seq(Piece), NEW u \in Seq(Piece)
    PROVE  Complete(s \o u) = Complete(s) \o Complete(u)
  <1> DEFINE w == s \o u
             S == Newlines(s)
             U == Newlines(u)
             W == Newlines(w)
             m == Len(s)
             a == Cardinality(S)
             b == Cardinality(U)
  <1>1. /\ W = S \cup {m + i : i \in U} /\ W \subseteq 1..(m + Len(u))
        /\ S \subseteq 1..m /\ U \subseteq 1..Len(u) /\ m \in Nat /\ Len(u) \in Nat
        /\ \A i \in S : w[i] = s[i]
        /\ \A i \in U : w[m + i] = u[i]
    BY NewlinesOfConcat
  <1>2. /\ Complete(w) = [k \in 1..Cardinality(W) |-> w[Nth(W, k)].id]
        /\ Complete(s) = [k \in 1..a |-> s[Nth(S, k)].id]
        /\ Complete(u) = [k \in 1..b |-> u[Nth(U, k)].id]
    BY DEF Complete
  <1> HIDE DEF w, S, U, W, m
  <1>3. /\ IsFiniteSet(S) /\ a \in Nat /\ IsFiniteSet(U) /\ b \in Nat
        /\ IsFiniteSet({m + i : i \in U}) /\ Cardinality({m + i : i \in U}) = b
    BY <1>1, Shifted
  <1>4. Cardinality(W) = a + b
    <2>1. S \cap {m + i : i \in U} = {}
      BY <1>1
    <2> QED
      BY <1>1, <1>3, <2>1, Disjoint
  <1>5. ASSUME NEW i \in S PROVE UpTo(W, i) = UpTo(S, i)
    BY <1>1 DEF UpTo
  <1>6. ASSUME NEW i \in U PROVE Cardinality(UpTo(W, m + i)) = a + Cardinality(UpTo(U, i))
    <2> DEFINE V == UpTo(U, i)
    <2>1. V \subseteq 1..Len(u)
      BY <1>1 DEF UpTo
    <2>2. UpTo(W, m + i) = S \cup {m + j : j \in V}
      <3>1. ASSUME NEW j \in UpTo(W, m + i) PROVE j \in S \cup {m + l : l \in V}
        <4>1. CASE j \in S
          BY <4>1
        <4>2. ASSUME NEW l \in U, j = m + l PROVE l \in V
          BY <1>1, <3>1, <4>2 DEF UpTo
        <4> QED
          BY <1>1, <3>1, <4>1, <4>2 DEF UpTo
      <3>2. ASSUME NEW j \in S PROVE j \in UpTo(W, m + i)
        BY <1>1 DEF UpTo
      <3>3. ASSUME NEW j \in V PROVE m + j \in UpTo(W, m + i)
        BY <1>1 DEF UpTo
      <3> HIDE DEF V
      <3> QED
        BY <3>1, <3>2, <3>3
    <2> HIDE DEF V
    <2>3. S \cap {m + j : j \in V} = {}
      BY <1>1, <2>1
    <2>4. IsFiniteSet({m + j : j \in V}) /\ Cardinality({m + j : j \in V}) = Cardinality(V) /\ Cardinality(V) \in Nat
      BY <1>1, <2>1, Shifted
    <2>5. Cardinality(UpTo(W, m + i)) = a + Cardinality(V)
      BY <1>3, <2>2, <2>3, <2>4, Disjoint
    <2> QED
      BY <2>5 DEF V
  <1>7. \A i \in W : Nth(W, Cardinality(UpTo(W, i))) = i
    <2>1. m + Len(u) \in Nat
      BY <1>1
    <2> QED
      BY <1>1, <2>1, NthIs
  <1>8. ASSUME NEW k \in 1..a PROVE w[Nth(W, k)].id = s[Nth(S, k)].id
    <2>1. Nth(S, k) \in S /\ Cardinality(UpTo(S, Nth(S, k))) = k
      BY <1>1, NthIs
    <2>2. Nth(W, k) = Nth(S, k)
      BY <1>1, <1>5, <1>7, <2>1
    <2> QED
      BY <1>1, <2>1, <2>2
  <1>9. ASSUME NEW k \in 1..b PROVE w[Nth(W, a + k)].id = u[Nth(U, k)].id
    <2>1. Nth(U, k) \in U /\ Cardinality(UpTo(U, Nth(U, k))) = k
      BY <1>1, NthIs
    <2>2. Nth(W, a + k) = m + Nth(U, k)
      BY <1>1, <1>6, <1>7, <2>1
    <2> QED
      BY <1>1, <2>1, <2>2
  <1> HIDE DEF a, b
  <1>10. /\ Len(Complete(s)) = a /\ Len(Complete(u)) = b
         /\ Complete(s) \o Complete(u)
              = [k \in 1..(a + b) |-> IF k <= a THEN Complete(s)[k] ELSE Complete(u)[k - a]]
    BY <1>2, <1>3
  <1>11. ASSUME NEW k \in 1..(a + b)
         PROVE  w[Nth(W, k)].id = IF k <= a THEN Complete(s)[k] ELSE Complete(u)[k - a]
    <2>1. CASE k <= a
      <3>1. k \in 1..a
        BY <1>3, <2>1
      <3> QED
        BY <1>2, <1>8, <2>1, <3>1
    <2>2. CASE ~(k <= a)
      <3>1. k - a \in 1..b /\ a + (k - a) = k
        BY <1>3, <2>2
      <3> QED
        BY <1>2, <1>9, <2>2, <3>1
    <2> QED
      BY <2>1, <2>2
  <1> QED
    BY <1>2, <1>4, <1>10, <1>11 DEF w

LEMMA NoneComplete ==
    ASSUME NEW s \in Seq(Piece), \A i \in 1..Len(s) : ~s[i].last
    PROVE  Complete(s) = <<>>
  <1>1. Newlines(s) = {}
    BY DEF Newlines
  <1> QED
    BY <1>1, FS_EmptySet DEF Complete

LEMMA OneComplete ==
    ASSUME NEW s \in Seq(Piece), s # <<>>, \A i \in 1..Len(s) : s[i].last <=> i = Len(s)
    PROVE  Complete(s) = <<s[Len(s)].id>>
  <1>1. Newlines(s) = {Len(s)} /\ Len(s) \in 1..Len(s)
    BY DEF Newlines
  <1>2. Cardinality(Newlines(s)) = 1
    BY <1>1, FS_Singleton
  <1>3. Nth(Newlines(s), 1) = Len(s)
    <2>1. Newlines(s) \subseteq 1..Len(s) /\ Len(s) \in Nat
      BY <1>1
    <2>2. Nth(Newlines(s), 1) \in Newlines(s)
      BY <1>2, <2>1, NthIs
    <2> QED
      BY <1>1, <2>2
  <1>4. Complete(s) = [k \in 1..1 |-> s[Nth(Newlines(s), k)].id]
    BY <1>2 DEF Complete
  <1>5. \A k \in 1..1 : Nth(Newlines(s), k) = Len(s)
    BY <1>3
  <1> QED
    BY <1>4, <1>5

LEMMA CompleteType ==
    ASSUME NEW s \in Seq(Piece)
    PROVE  Complete(s) \in Seq(Id)
  <1> DEFINE N == Newlines(s)
             c == Cardinality(N)
  <1>1. N \subseteq 1..Len(s) /\ Len(s) \in Nat
    BY DEF Newlines
  <1>2. c \in Nat /\ \A k \in 1..c : Nth(N, k) \in N
    BY <1>1, FiniteUpTo, NthIs
  <1>3. ASSUME NEW k \in 1..c PROVE s[Nth(N, k)].id \in Id
    <2>1. Nth(N, k) \in 1..Len(s)
      BY <1>1, <1>2
    <2>2. s[Nth(N, k)] \in Piece
      BY <2>1
    <2> QED
      BY <2>2 DEF Piece
  <1>4. Complete(s) = [k \in 1..c |-> s[Nth(N, k)].id]
    BY DEF Complete
  <1> HIDE DEF c, N
  <1> QED
    BY <1>2, <1>3, <1>4

LEMMA OneBefore ==
    ASSUME NEW x \in Id, NEW s \in Seq(Id)
    PROVE  /\ <<x>> \o s # <<>>
           /\ Head(<<x>> \o s) = x
           /\ Tail(<<x>> \o s) = s
  OBVIOUS

(* What a thread has left to write is the end of one line.                 *)
Sent == Writers \X (1..MaxMessages) \X {TRUE}

EndsOneLine(s) ==
    \A i \in 1..Len(s) : s[i].id \in Sent /\ (s[i].last <=> i = Len(s))

RestInv == \A t \in Writers : EndsOneLine(rest[t])

LEMMA RestNext == Types /\ RestInv /\ [Next]_vars => RestInv'
  <1> SUFFICES ASSUME Types, RestInv, [Next]_vars PROVE RestInv'
    OBVIOUS
  <1>0. rest \in [Writers -> Seq(Piece)] /\ written \in [Writers -> 0..MaxMessages]
    BY DEF Types
  <1>1. ASSUME NEW t \in Writers, NEW size \in Sizes, StartWrite(t, size) PROVE RestInv'
    <2> DEFINE id == <<t, written[t] + 1, TRUE>>
    <2>1. rest' = [rest EXCEPT ![t] = Encode(id, size)] /\ written[t] < setting.messages
      BY <1>1 DEF StartWrite
    <2>2. id \in Sent
      <3>1. written[t] + 1 \in 1..MaxMessages
        <4>1. setting.messages \in 0..MaxMessages /\ MaxMessages \in Nat
          BY SettingFields DEF Types
        <4>2. written[t] \in 0..MaxMessages
          BY <1>0
        <4> QED
          BY <2>1, <4>1, <4>2
      <3> QED
        BY <3>1 DEF Sent
    <2>3. size \in Nat /\ id \in Id
      BY <2>2, ChannelAssumption DEF Sent, Id
    <2> HIDE DEF id
    <2>4. EndsOneLine(Encode(id, size))
      <3>1. /\ Len(Encode(id, size)) = size
            /\ \A i \in 1..size : Encode(id, size)[i] = [id |-> id, part |-> i, last |-> i = size]
        BY <2>3, EncodeIsLine
      <3>2. ASSUME NEW i \in 1..size
            PROVE  Encode(id, size)[i].id = id /\ (Encode(id, size)[i].last <=> i = size)
        <4> DEFINE x == Encode(id, size)[i]
        <4>1. x = [id |-> id, part |-> i, last |-> i = size]
          BY <3>1
        <4> HIDE DEF x
        <4>2. x.id = id /\ (x.last <=> i = size)
          BY <4>1, FieldsOf
        <4> QED
          BY <4>2 DEF x
      <3> QED
        BY <2>2, <3>1, <3>2 DEF EndsOneLine
    <2>5. \A s \in Writers : rest'[s] = IF s = t THEN Encode(id, size) ELSE rest[s]
      BY <1>0, <2>1
    <2> QED
      BY <2>4, <2>5 DEF RestInv, EndsOneLine
  <1>2. ASSUME NEW t \in Writers, NEW n \in 1..Len(rest[t]), WriteSome(t, n) PROVE RestInv'
    <2> DEFINE s == rest[t]
               d == Drop(n, s)
    <2>1. s \in Seq(Piece) /\ n \in 0..Len(s) /\ Len(s) \in Nat
      BY <1>0
    <2>2. d \in Seq(Piece) /\ Len(d) = Len(s) - n /\ \A i \in 1..(Len(s) - n) : d[i] = s[i + n]
      BY <2>1, DropIsRest
    <2>3. rest' = [rest EXCEPT ![t] = d]
      BY <1>2 DEF WriteSome
    <2>4. \A i \in 1..Len(s) : s[i].id \in Sent /\ (s[i].last <=> i = Len(s))
      BY DEF RestInv, EndsOneLine
    <2>5. \A r \in Writers : rest'[r] = IF r = t THEN d ELSE rest[r]
      BY <1>0, <2>3
    <2> HIDE DEF d, s
    <2>6. ASSUME NEW i \in 1..Len(d) PROVE d[i].id \in Sent /\ (d[i].last <=> i = Len(d))
      <3>1. i + n \in 1..Len(s) /\ (i + n = Len(s) <=> i = Len(d)) /\ i \in 1..(Len(s) - n)
        BY <2>1, <2>2
      <3> QED
        BY <2>2, <2>4, <3>1
    <2> QED
      BY <2>5, <2>6 DEF RestInv, EndsOneLine
  <1>3. ASSUME NEW t \in Writers, WriteFails(t) PROVE RestInv'
    <2>1. \A s \in Writers : rest'[s] = IF s = t THEN <<>> ELSE rest[s]
      BY <1>0, <1>3 DEF WriteFails
    <2> QED
      BY <2>1 DEF RestInv, EndsOneLine
  <1>4. CASE rest' = rest
    BY <1>4 DEF RestInv
  <1>5. CASE HostReads \/ (\E ok \in BOOLEAN, size \in Sizes : HostWrites(ok, size)) \/ Listen \/ UNCHANGED vars
    BY <1>4, <1>5 DEF HostReads, HostWrites, Listen, ReadLine, ReadBuffer, vars, sendVars
  <1> QED
    BY <1>1, <1>2, <1>3, <1>5 DEF Next, Send

(* What an instance without errors sends is framed.                        *)
Framed == Whole => Safe

RefInv == Types /\ FramingInv /\ RestInv /\ Framed

LEMMA SettingStays == [Next]_vars => UNCHANGED setting
  BY DEF Next, vars, StartWrite, Send, WriteSome, WriteFails, HostReads, HostWrites, Listen, ReadLine, ReadBuffer

LEMMA RefInit == Init /\ Framed => RefInv
  <1>1. Init => RestInv
    BY DEF Init, RestInv, EndsOneLine
  <1> QED
    BY <1>1, TypeInit, FramingInit DEF RefInv

LEMMA RefNext == RefInv /\ [Next]_vars => RefInv'
  <1> SUFFICES ASSUME RefInv, [Next]_vars PROVE RefInv'
    OBVIOUS
  <1>1. UNCHANGED setting
    BY SettingStays
  <1>2. Framed'
    BY <1>1 DEF RefInv, Framed, Whole, Safe, Alone, TakesLines
  <1> QED
    BY <1>2, TypeNext, FramingNext, RestNext DEF RefInv

(* The abstract state.                                                     *)
Queue == Complete(hostBuffer \o toHost)

Got == [i \in 1..Len(hostGot) |-> IF Intact(hostGot[i]) THEN hostGot[i][1].id ELSE Garbled]

(* The steps of the abstract channel, while no write fails.                *)
LEMMA WriteRefines ==
    ASSUME RefInv, Whole, NEW t \in Writers, NEW n \in 1..Len(rest[t]), WriteSome(t, n)
    PROVE  Got' = Got /\ (Queue' = Queue \/ \E m \in Sent : Queue' = Append(Queue, m))
  <1> DEFINE s == rest[t]
             u == SubSeq(s, 1, n)
             h == hostBuffer \o toHost
  <1>1. s \in Seq(Piece) /\ Len(s) \in Nat /\ hostBuffer \in Seq(Piece) /\ toHost \in Seq(Piece)
    BY DEF RefInv, Types
  <1>2. u \in Seq(Piece) /\ Len(u) = n /\ \A i \in 1..n : u[i] = s[i]
    BY <1>1, FirstPart
  <1>3. toHost' = toHost \o u /\ hostBuffer' = hostBuffer /\ hostGot' = hostGot
    BY DEF WriteSome, hostVars
  <1>4. \A i \in 1..Len(s) : s[i].id \in Sent /\ (s[i].last <=> i = Len(s))
    BY DEF RefInv, RestInv, EndsOneLine
  <1>5. n \in 1..Len(s)
    OBVIOUS
  <1> HIDE DEF u, s
  <1>6. hostBuffer' \o toHost' = h \o u
    BY <1>1, <1>2, <1>3
  <1>7. Queue' = Queue \o Complete(u)
    <2>1. h \in Seq(Piece)
      BY <1>1
    <2>2. Complete(h \o u) = Complete(h) \o Complete(u)
      BY <1>2, <2>1, CompleteConcat
    <2>3. Queue' = Complete(hostBuffer' \o toHost')
      BY DEF Queue, Complete, Newlines, Nth
    <2> QED
      BY <1>6, <2>2, <2>3 DEF Queue
  <1>8. Queue = Complete(h) /\ Queue \in Seq(Id)
    <2>1. h \in Seq(Piece)
      BY <1>1
    <2> QED
      BY <2>1, CompleteType DEF Queue
  <1>9. Got' = Got
    BY <1>3 DEF Got, Intact
  <1>10. CASE n < Len(s)
    <2>1. \A i \in 1..Len(u) : ~u[i].last
      BY <1>1, <1>2, <1>4, <1>5, <1>10
    <2>2. Complete(u) = <<>>
      BY <1>2, <2>1, NoneComplete
    <2>3. Queue' = Queue
      BY <1>7, <1>8, <2>2
    <2> QED
      BY <1>9, <2>3
  <1>11. CASE n = Len(s)
    <2>1. \A i \in 1..Len(u) : u[i].last <=> i = Len(u)
      BY <1>1, <1>2, <1>4, <1>5, <1>11
    <2>2. u # <<>>
      BY <1>2, <1>5
    <2>3. Complete(u) = <<u[Len(u)].id>>
      BY <1>2, <2>1, <2>2, OneComplete
    <2>4. u[Len(u)].id \in Sent
      BY <1>2, <1>4, <1>5, <1>11
    <2>5. Queue' = Append(Queue, u[Len(u)].id)
      BY <1>7, <1>8, <2>3
    <2> QED
      BY <1>9, <2>4, <2>5
  <1> QED
    BY <1>1, <1>5, <1>10, <1>11

LEMMA ReadRefines ==
    ASSUME RefInv, Whole, HostReads
    PROVE  \/ Queue' = Queue /\ Got' = Got
           \/ Queue # <<>> /\ Queue' = Tail(Queue) /\ Got' = Append(Got, Head(Queue))
  <1> DEFINE p == Head(toHost)
             r == Tail(toHost)
             line == Append(hostBuffer, p)
             h == hostBuffer \o toHost
  <1>1. /\ hostBuffer \in Seq(Piece) /\ toHost \in Seq(Piece) /\ hostGot \in Seq(Seq(Piece))
        /\ toHost # <<>> /\ p \in Piece /\ r \in Seq(Piece)
    BY DEF RefInv, Types, HostReads
  <1>2. /\ toHost' = r
        /\ IF p.last THEN hostGot' = Append(hostGot, line) /\ hostBuffer' = <<>>
           ELSE hostBuffer' = line /\ UNCHANGED hostGot
    BY DEF HostReads
  <1>3. h = line \o r /\ line \in Seq(Piece)
    BY <1>1
  <1>4. Queue' = Complete(hostBuffer' \o toHost') /\ Queue = Complete(h)
    BY DEF Queue, Complete, Newlines, Nth
  <1>5. CASE ~p.last
    <2>1. hostBuffer' \o toHost' = h /\ hostGot' = hostGot
      BY <1>2, <1>3, <1>5
    <2>2. Got' = Got
      BY <2>1 DEF Got, Intact
    <2> QED
      BY <1>4, <2>1, <2>2
  <1>6. CASE p.last
    <2>0. /\ Len(line) = Len(hostBuffer) + 1 /\ line # <<>> /\ Len(line) \in Nat
          /\ \A i \in 1..Len(hostBuffer) : line[i] = hostBuffer[i]
          /\ line[Len(line)] = p
      BY <1>1
    <2>1. hostGot' = Append(hostGot, line) /\ hostBuffer' \o toHost' = r
      BY <1>1, <1>2, <1>6
    <2>2. (\A i \in 1..Len(hostBuffer) : ~hostBuffer[i].last) /\ LinesIntact'
      <3>1. Safe /\ [Next]_vars /\ UNCHANGED setting
        BY SettingStays DEF RefInv, Framed, Next
      <3>2. Safe'
        BY <3>1 DEF Safe, Alone, TakesLines
      <3>3. FramingInv'
        BY <3>1, FramingNext DEF RefInv
      <3> QED
        BY <3>1, <3>2, <3>3 DEF RefInv, FramingInv, Started
    <2>3. \A i \in 1..Len(line) : line[i].last <=> i = Len(line)
      BY <1>1, <1>6, <2>0, <2>2
    <2>4. Complete(line) = <<p.id>>
      BY <1>3, <2>0, <2>3, OneComplete
    <2>5. Queue = <<p.id>> \o Complete(r) /\ Complete(r) \in Seq(Id) /\ p.id \in Id
      <3> HIDE DEF p, r, line, h
      <3>1. Complete(h) = Complete(line) \o Complete(r)
        BY <1>1, <1>3, CompleteConcat
      <3> QED
        BY <1>1, <1>4, <2>4, <3>1, CompleteType DEF Piece
    <2>6. Queue # <<>> /\ Head(Queue) = p.id /\ Tail(Queue) = Complete(r)
      BY <2>5, OneBefore
    <2>7. Got' = Append(Got, p.id)
      <3> DEFINE n == Len(hostGot)
                 G(x) == IF Intact(x) THEN x[1].id ELSE Garbled
      <3> HIDE DEF line, p
      <3>1. /\ Len(hostGot') = n + 1 /\ n \in Nat /\ hostGot'[n + 1] = line
            /\ \A i \in 1..n : hostGot'[i] = hostGot[i]
        BY <1>1, <1>3, <2>1
      <3>2. Intact(line)
        <4>1. n + 1 \in 1..Len(hostGot')
          BY <3>1
        <4>2. Intact(hostGot'[n + 1])
          BY <2>2, <4>1 DEF LinesIntact, Intact
        <4> QED
          BY <3>1, <4>2
      <3>3. line[1].id = p.id
        <4>1. line = Encode(line[1].id, Len(line)) /\ Len(line) \in 1..Len(line)
          BY <1>1, <2>0, <3>2 DEF Intact, line
        <4>2. line[Len(line)].id = line[1].id
          BY <4>1 DEF Encode
        <4> QED
          BY <2>0, <4>2
      <3>4. G(line) = p.id
        BY <3>2, <3>3
      <3>5. Got = [i \in 1..n |-> G(hostGot[i])] /\ Got' = [i \in 1..Len(hostGot') |-> G(hostGot'[i])]
        BY DEF Got, Intact
      <3> HIDE DEF G, n
      <3> QED
        BY <3>1, <3>4, <3>5
    <2> QED
      BY <1>4, <2>1, <2>6, <2>7
  <1> QED
    BY <1>5, <1>6

LEMMA OthersRefine ==
    ASSUME UNCHANGED <<hostBuffer, toHost, hostGot>>
    PROVE  Queue' = Queue /\ Got' = Got
  BY DEF Queue, Got, Complete, Newlines, Nth, Intact

LEMMA StepRefines ==
    ASSUME RefInv, Whole, [Next]_vars
    PROVE  \/ Queue' = Queue /\ Got' = Got
           \/ Queue # <<>> /\ Queue' = Tail(Queue) /\ Got' = Append(Got, Head(Queue))
           \/ \E m \in Sent : Queue' = Append(Queue, m) /\ Got' = Got
  <1>1. CASE UNCHANGED <<hostBuffer, toHost, hostGot>>
    BY <1>1, OthersRefine
  <1>2. ASSUME NEW t \in Writers, NEW n \in 1..Len(rest[t]), WriteSome(t, n)
        PROVE  Got' = Got /\ (Queue' = Queue \/ \E m \in Sent : Queue' = Append(Queue, m))
    BY <1>2, WriteRefines
  <1>3. CASE HostReads
    BY <1>3, ReadRefines
  <1>4. ASSUME NEW t \in Writers, WriteFails(t) \/ \E size \in Sizes : StartWrite(t, size)
        PROVE  UNCHANGED <<hostBuffer, toHost, hostGot>>
    BY <1>4 DEF WriteFails, StartWrite, hostVars
  <1>5. CASE (\E ok \in BOOLEAN, size \in Sizes : HostWrites(ok, size)) \/ Listen \/ UNCHANGED vars
    BY <1>5, <1>1 DEF HostWrites, Listen, ReadLine, ReadBuffer, vars, sendVars, hostVars
  <1> QED
    BY <1>1, <1>2, <1>3, <1>4, <1>5 DEF Next, Send

(* However the port splits lines and the threads take turns, the host gets *)
(* the messages whole, each once, in the order in which their newlines     *)
(* went in: every step of the channel is one of LineChannel or none.       *)
THEOREM ChannelRefines == Spec /\ Framed => Abstract!Spec
  <1> DEFINE q == IF Whole THEN Queue ELSE <<>>
             g == IF Whole THEN Got ELSE <<>>
  <1>1. Init /\ Framed => Abstract!Init
    <2> SUFFICES ASSUME Init PROVE Abstract!Init
      OBVIOUS
    <2>1. hostBuffer \o toHost = <<>> /\ Len(hostGot) = 0
      BY DEF Init
    <2>2. Complete(<<>>) = <<>>
      <3>1. <<>> \in Seq(Piece) /\ \A i \in 1..Len(<<>>) : FALSE
        OBVIOUS
      <3> QED
        BY <3>1, NoneComplete
    <2> QED
      BY <2>1, <2>2 DEF Abstract!Init
  <1>2. RefInv /\ [Next]_vars => [Abstract!Next]_(Abstract!vars)
    <2> SUFFICES ASSUME RefInv, [Next]_vars PROVE [Abstract!Next]_(Abstract!vars)
      OBVIOUS
    <2>1. Whole' <=> Whole
      BY SettingStays DEF Whole
    <2>2. CASE ~Whole
      BY <2>1, <2>2 DEF Abstract!vars
    <2>3. CASE Whole
      BY <2>1, <2>3, StepRefines DEF Abstract!vars, Abstract!Next, Abstract!Send, Abstract!Deliver, Queue, Got, Sent
    <2> QED
      BY <2>2, <2>3
  <1> QED
    BY <1>1, <1>2, RefInit, RefNext, PTL DEF Spec, Abstract!Spec

-----------------------------------------------------------------------------
(* Writes that fail.  What is on its way from the one thread that writes   *)
(* to the host is a stream in which a line may have been left off, and     *)
(* each failure leaves off one line at most.                               *)
Continues(p, q) == q.id = p.id /\ q.part = p.part + 1

(* Where lines were left off: neither a newline nor followed by the rest.  *)
Cuts(s) ==
    {i \in 1..Len(s) : ~s[i].last /\ (i < Len(s) => ~Continues(s[i], s[i + 1]))}

(* The stream starts with a line, and a line starts behind every newline.  *)
Starts(s) ==
    /\ s # <<>> => s[1].part = 1
    /\ \A i \in 1..(Len(s) - 1) : s[i].last => s[i + 1].part = 1

NoNewline(s) == \A i \in 1..Len(s) : ~s[i].last

Damaged == {i \in 1..Len(hostGot) : ~Intact(hostGot[i])}

(* What is left of the one write there can be.                             *)
Remaining ==
    IF setting.writers = {} THEN <<>>
    ELSE rest[CHOOSE t \in setting.writers : TRUE]

Stream == (hostBuffer \o toHost) \o Remaining

OnlyWriters == \A t \in Writers : rest[t] # <<>> => t \in setting.writers

(* Every line that the host got damaged, and every line that was left off  *)
(* and has not yet reached it, is of a failure of its own.                 *)
DamageInv ==
    Alone =>
        /\ OnlyWriters
        /\ NoNewline(hostBuffer)
        /\ Starts(Stream)
        /\ Cardinality(Damaged) + Cardinality(Cuts(Stream)) <= errors

LEMMA SplitAt ==
    ASSUME NEW s \in Seq(Piece), NEW n \in 0..Len(s)
    PROVE  SubSeq(s, 1, n) \o Drop(n, s) = s
  <1> DEFINE a == SubSeq(s, 1, n)
             b == Drop(n, s)
  <1>1. /\ a \in Seq(Piece) /\ Len(a) = n /\ \A i \in 1..n : a[i] = s[i]
        /\ b \in Seq(Piece) /\ Len(b) = Len(s) - n
        /\ \A i \in 1..(Len(s) - n) : b[i] = s[i + n]
    BY FirstPart, DropIsRest
  <1>2. Len(s) \in Nat /\ n \in Nat /\ n <= Len(s)
    OBVIOUS
  <1> HIDE DEF a, b
  <1>3. /\ a \o b \in Seq(Piece) /\ Len(a \o b) = Len(s)
        /\ \A i \in 1..Len(s) : (a \o b)[i] = IF i <= n THEN a[i] ELSE b[i - n]
    BY <1>1, <1>2, ConcatProperties
  <1>4. ASSUME NEW i \in 1..Len(s) PROVE (a \o b)[i] = s[i]
    <2>1. CASE i <= n
      BY <1>1, <1>2, <1>3, <2>1
    <2>2. CASE i > n
      <3>1. i - n \in 1..(Len(s) - n) /\ (i - n) + n = i
        BY <1>2, <2>2
      <3> QED
        BY <1>1, <1>2, <1>3, <2>2, <3>1
    <2>3. i <= n \/ i > n
      BY <1>2
    <2> QED
      BY <2>1, <2>2, <2>3, Zenon
  <1>5. a \o b = s
    BY <1>3, <1>4, SeqEqual
  <1> QED
    BY <1>5 DEF a, b

LEMMA Associates ==
    \A s, t, u \in Seq(Piece) : (s \o t) \o u = s \o (t \o u)
  <1> TAKE s, t, u \in Seq(Piece)
  <1> QED
    BY ConcatAssociative

LEMMA FirstMoves ==
    ASSUME NEW s \in Seq(Piece), NEW u \in Seq(Piece), u # <<>>
    PROVE  Append(s, Head(u)) \o Tail(u) = s \o u
  <1>1. u = <<Head(u)>> \o Tail(u) /\ Head(u) \in Piece /\ Tail(u) \in Seq(Piece)
    OBVIOUS
  <1>2. Append(s, Head(u)) = s \o <<Head(u)>> /\ <<Head(u)>> \in Seq(Piece)
    BY <1>1
  <1>3. (s \o <<Head(u)>>) \o Tail(u) = s \o (<<Head(u)>> \o Tail(u))
    BY <1>1, <1>2, ConcatAssociative
  <1> QED
    BY <1>1, <1>2, <1>3, Zenon

(* The places of one stream behind another.                                *)
LEMMA Places ==
    ASSUME NEW s \in Seq(Piece), NEW u \in Seq(Piece)
    PROVE  /\ s \o u \in Seq(Piece) /\ Len(s \o u) = Len(s) + Len(u)
           /\ Len(s) \in Nat /\ Len(u) \in Nat
           /\ \A i \in 1..Len(s) : (s \o u)[i] = s[i]
           /\ \A i \in 1..Len(u) : (s \o u)[Len(s) + i] = u[i]
  <1>1. Len(s) \in Nat /\ Len(u) \in Nat
    OBVIOUS
  <1>2. /\ s \o u \in Seq(Piece) /\ Len(s \o u) = Len(s) + Len(u)
        /\ \A i \in 1..(Len(s) + Len(u)) : (s \o u)[i] = IF i <= Len(s) THEN s[i] ELSE u[i - Len(s)]
    BY ConcatProperties
  <1>3. ASSUME NEW i \in 1..Len(u) PROVE (s \o u)[Len(s) + i] = u[i]
    <2>1. /\ Len(s) + i \in 1..(Len(s) + Len(u)) /\ ~(Len(s) + i <= Len(s))
          /\ (Len(s) + i) - Len(s) = i
      BY <1>1
    <2> QED
      BY <1>2, <2>1
  <1> QED
    BY <1>1, <1>2, <1>3

(* Cutting a stream short leaves off one line more at most.                *)
LEMMA CutsOfStart ==
    ASSUME NEW s \in Seq(Piece), NEW u \in Seq(Piece)
    PROVE  Cuts(s) \subseteq Cuts(s \o u) \cup {Len(s)}
  <1> SUFFICES ASSUME NEW i \in Cuts(s), i # Len(s) PROVE i \in Cuts(s \o u)
    OBVIOUS
  <1>1. /\ Len(s \o u) = Len(s) + Len(u) /\ Len(s) \in Nat /\ Len(u) \in Nat
        /\ \A j \in 1..Len(s) : (s \o u)[j] = s[j]
    BY Places
  <1>2. i \in 1..Len(s) /\ ~s[i].last /\ ~Continues(s[i], s[i + 1]) /\ i + 1 \in 1..Len(s)
    BY <1>1 DEF Cuts
  <1>3. i \in 1..Len(s \o u) /\ (s \o u)[i] = s[i] /\ (s \o u)[i + 1] = s[i + 1]
    BY <1>1, <1>2
  <1> QED
    BY <1>2, <1>3 DEF Cuts

(* A stream behind whole lines: its lines left off are those of both.      *)
LEMMA CutsBehind ==
    ASSUME NEW s \in Seq(Piece), NEW u \in Seq(Piece), s # <<>>, s[Len(s)].last
    PROVE  /\ Cuts(s \o u) = Cuts(s) \cup {Len(s) + i : i \in Cuts(u)}
           /\ Cuts(s) \cap {Len(s) + i : i \in Cuts(u)} = {}
  <1> DEFINE c == s \o u
  <1>1. /\ Len(c) = Len(s) + Len(u) /\ Len(s) \in Nat /\ Len(u) \in Nat /\ Len(s) > 0
        /\ \A j \in 1..Len(s) : c[j] = s[j]
        /\ \A j \in 1..Len(u) : c[Len(s) + j] = u[j]
    BY Places
  <1> HIDE DEF c
  <1>2. ASSUME NEW i \in 1..Len(s) PROVE i \in Cuts(c) <=> i \in Cuts(s)
    <2>1. CASE i = Len(s)
      BY <1>1, <2>1 DEF Cuts
    <2>2. CASE i < Len(s)
      <3>1. c[i] = s[i] /\ c[i + 1] = s[i + 1] /\ i < Len(c) /\ i \in 1..Len(c)
        BY <1>1, <2>2
      <3> QED
        BY <2>2, <3>1 DEF Cuts
    <2> QED
      BY <1>1, <2>1, <2>2
  <1>3. ASSUME NEW i \in 1..Len(u) PROVE Len(s) + i \in Cuts(c) <=> i \in Cuts(u)
    <2>1. c[Len(s) + i] = u[i] /\ Len(s) + i \in 1..Len(c) /\ (Len(s) + i < Len(c) <=> i < Len(u))
      BY <1>1
    <2>2. CASE i < Len(u)
      <3>1. i + 1 \in 1..Len(u) /\ (Len(s) + i) + 1 = Len(s) + (i + 1)
        BY <1>1, <2>2
      <3>2. c[(Len(s) + i) + 1] = u[i + 1]
        BY <1>1, <3>1
      <3> QED
        BY <2>1, <3>2 DEF Cuts
    <2>3. CASE ~(i < Len(u))
      BY <2>1, <2>3 DEF Cuts
    <2> QED
      BY <2>2, <2>3
  <1>4. \A i \in Cuts(c) : i \in 1..Len(s) \/ \E j \in 1..Len(u) : i = Len(s) + j
    <2> SUFFICES ASSUME NEW i \in Cuts(c), i \notin 1..Len(s)
                 PROVE  \E j \in 1..Len(u) : i = Len(s) + j
      OBVIOUS
    <2>1. i \in 1..Len(c)
      BY DEF Cuts
    <2>2. i - Len(s) \in 1..Len(u) /\ i = Len(s) + (i - Len(s))
      BY <1>1, <2>1
    <2> QED
      BY <2>2
  <1>5. Cuts(s) \subseteq 1..Len(s) /\ Cuts(u) \subseteq 1..Len(u)
    BY DEF Cuts
  <1>6. Cuts(c) = Cuts(s) \cup {Len(s) + i : i \in Cuts(u)}
    <2>1. \A i \in Cuts(c) : i \in Cuts(s) \cup {Len(s) + j : j \in Cuts(u)}
      BY <1>2, <1>3, <1>4
    <2>2. \A i \in Cuts(s) : i \in Cuts(c)
      BY <1>2, <1>5
    <2>3. \A i \in Cuts(u) : Len(s) + i \in Cuts(c)
      BY <1>3, <1>5
    <2> QED
      BY <2>1, <2>2, <2>3
  <1>7. Cuts(s) \cap {Len(s) + i : i \in Cuts(u)} = {}
    <2>1. \A j \in 1..Len(u) : Len(s) + j \notin 1..Len(s)
      BY <1>1
    <2> QED
      BY <1>5, <2>1
  <1> QED
    BY <1>6, <1>7 DEF c

(* A new line behind a stream leaves off nothing.                          *)
LEMMA CutsOfNewLine ==
    ASSUME NEW s \in Seq(Piece), NEW u \in Seq(Piece), Cuts(u) = {}
    PROVE  Cuts(s \o u) \subseteq Cuts(s)
  <1> DEFINE c == s \o u
  <1>1. /\ Len(c) = Len(s) + Len(u) /\ Len(s) \in Nat /\ Len(u) \in Nat
        /\ \A j \in 1..Len(s) : c[j] = s[j]
        /\ \A j \in 1..Len(u) : c[Len(s) + j] = u[j]
    BY Places
  <1> HIDE DEF c
  <1>2. SUFFICES ASSUME NEW i \in Cuts(c) PROVE i \in Cuts(s)
    BY DEF c
  <1>3. i \in 1..Len(c) /\ ~c[i].last /\ (i < Len(c) => ~Continues(c[i], c[i + 1]))
    BY DEF Cuts
  <1>4. CASE i <= Len(s)
    <2>1. c[i] = s[i] /\ i \in 1..Len(s)
      BY <1>1, <1>3, <1>4
    <2>2. ASSUME i < Len(s) PROVE c[i + 1] = s[i + 1] /\ i < Len(c)
      BY <1>1, <1>3, <2>2
    <2> QED
      BY <1>3, <2>1, <2>2 DEF Cuts
  <1>5. CASE i > Len(s)
    <2> DEFINE k == i - Len(s)
    <2>1. k \in 1..Len(u) /\ i = Len(s) + k /\ (k < Len(u) => i < Len(c))
      BY <1>1, <1>3, <1>5
    <2>2. c[i] = u[k]
      BY <1>1, <2>1
    <2>3. ASSUME k < Len(u) PROVE c[i + 1] = u[k + 1]
      <3>1. k + 1 \in 1..Len(u) /\ i + 1 = Len(s) + (k + 1)
        BY <1>1, <2>1, <2>3
      <3> QED
        BY <1>1, <3>1
    <2>4. k \in Cuts(u)
      BY <1>3, <2>1, <2>2, <2>3 DEF Cuts
    <2> QED
      BY <2>4
  <1> QED
    BY <1>1, <1>3, <1>4, <1>5

LEMMA StartsOfStart ==
    ASSUME NEW s \in Seq(Piece), NEW u \in Seq(Piece), Starts(s \o u)
    PROVE  Starts(s)
  <1>1. /\ Len(s \o u) = Len(s) + Len(u) /\ Len(s) \in Nat /\ Len(u) \in Nat
        /\ \A j \in 1..Len(s) : (s \o u)[j] = s[j]
    BY Places
  <1>2. ASSUME s # <<>> PROVE s[1].part = 1
    <2>1. Len(s) > 0
      BY <1>1, <1>2
    <2>2. (s \o u)[1] = s[1] /\ s \o u # <<>>
      BY <1>1, <2>1
    <2> QED
      BY <2>2 DEF Starts
  <1>3. ASSUME NEW i \in 1..(Len(s) - 1), s[i].last PROVE s[i + 1].part = 1
    <2>1. /\ (s \o u)[i] = s[i] /\ (s \o u)[i + 1] = s[i + 1]
          /\ i \in 1..(Len(s \o u) - 1)
      BY <1>1
    <2> QED
      BY <1>3, <2>1 DEF Starts
  <1> QED
    BY <1>2, <1>3 DEF Starts

LEMMA StartsBehind ==
    ASSUME NEW s \in Seq(Piece), NEW u \in Seq(Piece), Starts(s \o u),
           s # <<>>, s[Len(s)].last
    PROVE  Starts(u)
  <1> DEFINE c == s \o u
  <1>1. /\ Len(c) = Len(s) + Len(u) /\ Len(s) \in Nat /\ Len(u) \in Nat /\ Len(s) > 0
        /\ \A j \in 1..Len(s) : c[j] = s[j]
        /\ \A j \in 1..Len(u) : c[Len(s) + j] = u[j]
    BY Places
  <1>2. \A i \in 1..(Len(c) - 1) : c[i].last => c[i + 1].part = 1
    BY DEF Starts
  <1> HIDE DEF c
  <1>3. ASSUME u # <<>> PROVE u[1].part = 1
    <2>1. Len(u) > 0
      BY <1>1, <1>3
    <2>2. c[Len(s)] = s[Len(s)] /\ c[Len(s) + 1] = u[1] /\ Len(s) \in 1..(Len(c) - 1)
      BY <1>1, <2>1
    <2> QED
      BY <1>2, <2>2
  <1>4. ASSUME NEW i \in 1..(Len(u) - 1), u[i].last PROVE u[i + 1].part = 1
    <2>1. /\ Len(s) + i \in 1..(Len(c) - 1) /\ (Len(s) + i) + 1 = Len(s) + (i + 1)
          /\ i \in 1..Len(u) /\ i + 1 \in 1..Len(u)
      BY <1>1
    <2>2. c[Len(s) + i] = u[i] /\ c[(Len(s) + i) + 1] = u[i + 1]
      BY <1>1, <2>1
    <2> QED
      BY <1>2, <1>4, <2>1, <2>2
  <1> QED
    BY <1>3, <1>4 DEF Starts

LEMMA StartsConcat ==
    ASSUME NEW s \in Seq(Piece), NEW u \in Seq(Piece), Starts(s), Starts(u)
    PROVE  Starts(s \o u)
  <1> DEFINE c == s \o u
  <1>1. /\ Len(c) = Len(s) + Len(u) /\ Len(s) \in Nat /\ Len(u) \in Nat
        /\ \A j \in 1..Len(s) : c[j] = s[j]
        /\ \A j \in 1..Len(u) : c[Len(s) + j] = u[j]
        /\ c \in Seq(Piece)
    BY Places
  <1> HIDE DEF c
  <1>2. u # <<>> => Len(u) > 0 /\ u[1].part = 1
    BY <1>1 DEF Starts
  <1>3. ASSUME c # <<>> PROVE c[1].part = 1
    <2>1. Len(c) > 0
      BY <1>1, <1>3
    <2>2. CASE Len(s) > 0
      <3>1. c[1] = s[1] /\ s # <<>>
        BY <1>1, <2>2
      <3> QED
        BY <3>1 DEF Starts
    <2>3. CASE Len(s) = 0
      <3>1. Len(u) > 0 /\ c[0 + 1] = u[1] /\ u # <<>>
        BY <1>1, <2>1, <2>3
      <3> QED
        BY <1>2, <3>1
    <2> QED
      BY <1>1, <2>2, <2>3
  <1>4. ASSUME NEW i \in 1..(Len(c) - 1), c[i].last PROVE c[i + 1].part = 1
    <2>1. CASE i < Len(s)
      <3>1. c[i] = s[i] /\ c[i + 1] = s[i + 1] /\ i \in 1..(Len(s) - 1)
        BY <1>1, <2>1
      <3> QED
        BY <1>4, <3>1 DEF Starts
    <2>2. CASE i = Len(s)
      <3>1. c[Len(s) + 1] = u[1] /\ u # <<>>
        BY <1>1, <2>2
      <3> QED
        BY <1>2, <2>2, <3>1
    <2>3. CASE i > Len(s)
      <3> DEFINE k == i - Len(s)
      <3>1. /\ k \in 1..(Len(u) - 1) /\ i = Len(s) + k /\ i + 1 = Len(s) + (k + 1)
            /\ k \in 1..Len(u) /\ k + 1 \in 1..Len(u)
        BY <1>1, <2>3
      <3>2. c[i] = u[k] /\ c[i + 1] = u[k + 1]
        BY <1>1, <3>1
      <3> QED
        BY <1>4, <3>1, <3>2 DEF Starts
    <2> QED
      BY <1>1, <2>1, <2>2, <2>3
  <1> QED
    BY <1>3, <1>4 DEF Starts, c

(* A line that nothing left off, from its first piece to its newline, is   *)
(* one message.                                                            *)
LEMMA UncutIsIntact ==
    ASSUME NEW s \in Seq(Piece), s # <<>>, s[1].part = 1, Cuts(s) = {},
           \A i \in 1..Len(s) : s[i].last <=> i = Len(s)
    PROVE  Intact(s)
  <1> DEFINE T == {i \in 1..Len(s) : ~(s[i].id = s[1].id /\ s[i].part = i)}
  <1>1. Len(s) \in Nat /\ Len(s) > 0
    OBVIOUS
  <1>2. T = {}
    <2> SUFFICES ASSUME T # {} PROVE FALSE
      OBVIOUS
    <2>1. PICK m \in T : \A j \in T : ~(j < m)
      <3>1. T \subseteq Nat
        BY <1>1
      <3> HIDE DEF T
      <3> QED
        BY <3>1, LeastOf
    <2>2. m \in 1..Len(s) /\ m # 1
      BY <1>1
    <2>3. m - 1 \in 1..Len(s) /\ m - 1 < m /\ m - 1 < Len(s) /\ (m - 1) + 1 = m
      BY <1>1, <2>2
    <2>4. s[m - 1].id = s[1].id /\ s[m - 1].part = m - 1
      BY <2>1, <2>3
    <2>5. ~s[m - 1].last
      BY <1>1, <2>3
    <2>6. Continues(s[m - 1], s[m])
      BY <2>3, <2>5 DEF Cuts
    <2>7. s[m].id = s[1].id /\ s[m].part = m
      BY <2>3, <2>4, <2>6 DEF Continues
    <2> QED
      BY <2>1, <2>7
  <1>3. \A i \in 1..Len(s) : s[i].id = s[1].id /\ s[i].part = i
    BY <1>2
  <1> QED
    BY <1>3, IntactLine

LEMMA CutsType ==
    ASSUME NEW s \in Seq(Piece)
    PROVE  /\ Cuts(s) \subseteq 1..Len(s) /\ Len(s) \in Nat
           /\ IsFiniteSet(Cuts(s)) /\ Cardinality(Cuts(s)) \in Nat
  <1>1. Cuts(s) \subseteq 1..Len(s) /\ Len(s) \in Nat
    BY DEF Cuts
  <1> QED
    BY <1>1, FiniteUpTo

LEMMA DamagedType ==
    ASSUME Types
    PROVE  /\ Damaged \subseteq 1..Len(hostGot) /\ Len(hostGot) \in Nat
           /\ IsFiniteSet(Damaged) /\ Cardinality(Damaged) \in Nat
  <1>1. Damaged \subseteq 1..Len(hostGot) /\ Len(hostGot) \in Nat
    BY DEF Damaged, Types
  <1> QED
    BY <1>1, FiniteUpTo

LEMMA OneWriter ==
    ASSUME Alone, NEW t \in setting.writers
    PROVE  (CHOOSE u \in setting.writers : TRUE) = t /\ Remaining = rest[t]
  <1>1. (CHOOSE u \in setting.writers : TRUE) \in setting.writers
    OBVIOUS
  <1>2. (CHOOSE u \in setting.writers : TRUE) = t
    BY <1>1 DEF Alone
  <1> QED
    BY <1>2 DEF Remaining

LEMMA StreamType ==
    ASSUME Types
    PROVE  /\ Remaining \in Seq(Piece) /\ hostBuffer \o toHost \in Seq(Piece)
           /\ Stream \in Seq(Piece)
  <1>1. Remaining \in Seq(Piece)
    <2>1. CASE setting.writers = {}
      BY <2>1 DEF Remaining
    <2>2. CASE setting.writers # {}
      <3>1. (CHOOSE u \in setting.writers : TRUE) \in Writers
        BY <2>2, SettingFields DEF Types
      <3> QED
        BY <2>2, <3>1 DEF Remaining, Types
    <2> QED
      BY <2>1, <2>2
  <1>2. hostBuffer \o toHost \in Seq(Piece)
    BY ConcatProperties DEF Types
  <1> QED
    BY <1>1, <1>2, ConcatProperties DEF Stream

LEMMA DamageInit == Init => DamageInv
  <1> SUFFICES ASSUME Init, Alone PROVE DamageInv
    BY DEF DamageInv
  <1>1. Types /\ errors = 0 /\ hostBuffer = <<>> /\ toHost = <<>> /\ hostGot = <<>>
        /\ \A t \in Writers : rest[t] = <<>>
    BY TypeInit DEF Init
  <1>2. Remaining = <<>>
    <2>1. CASE setting.writers # {}
      <3>1. PICK t \in setting.writers : TRUE
        BY <2>1
      <3> QED
        BY <1>1, <3>1, OneWriter, SettingFields DEF Types
    <2> QED
      BY <2>1 DEF Remaining
  <1>3. Stream = <<>>
    BY <1>1, <1>2 DEF Stream
  <1>4. Starts(Stream) /\ Cuts(Stream) = {} /\ Damaged = {}
    BY <1>1, <1>3 DEF Starts, Cuts, Damaged
  <1>5. Cardinality(Cuts(Stream)) = 0 /\ Cardinality(Damaged) = 0
    BY <1>4, FS_EmptySet
  <1> QED
    BY <1>1, <1>4, <1>5 DEF DamageInv, OnlyWriters, NoNewline

LEMMA EncodeFields ==
    ASSUME NEW id \in Id, NEW size \in Nat, NEW p \in 1..size
    PROVE  /\ Encode(id, size)[p].id = id
           /\ Encode(id, size)[p].part = p
           /\ Encode(id, size)[p].last <=> p = size
  <1> DEFINE x == Encode(id, size)[p]
  <1>1. x = [id |-> id, part |-> p, last |-> p = size]
    BY EncodeIsLine
  <1> HIDE DEF x
  <1>2. x.id = id /\ x.part = p /\ (x.last <=> p = size)
    BY <1>1, FieldsOf
  <1> QED
    BY <1>2 DEF x

LEMMA OneMore ==
    ASSUME NEW S, NEW x, IsFiniteSet(S)
    PROVE  /\ IsFiniteSet(S \cup {x}) /\ Cardinality(S \cup {x}) \in Nat
           /\ Cardinality(S \cup {x}) <= Cardinality(S) + 1
  <1>1. Cardinality(S) \in Nat
    BY FS_CardinalityType
  <1>2. IsFiniteSet(S \cup {x})
    BY FS_AddElement
  <1>3. Cardinality(S \cup {x}) = IF x \in S THEN Cardinality(S) ELSE Cardinality(S) + 1
    BY FS_AddElement
  <1> QED
    BY <1>1, <1>2, <1>3

LEMMA FewerCuts ==
    ASSUME NEW s \in Seq(Piece), NEW u \in Seq(Piece), Cuts(u) \subseteq Cuts(s)
    PROVE  Cardinality(Cuts(u)) <= Cardinality(Cuts(s))
  BY CutsType, FS_Subset

(* A write begins: a new line goes behind what is on its way.              *)
LEMMA DamageStart ==
    ASSUME Types, DamageInv, Alone,
           NEW t \in Writers, NEW size \in Sizes, StartWrite(t, size)
    PROVE  DamageInv'
  <1> DEFINE id == <<t, written[t] + 1, TRUE>>
             e == Encode(id, size)
             b == hostBuffer \o toHost
  <1>1. /\ t \in setting.writers /\ rest[t] = <<>> /\ rest' = [rest EXCEPT ![t] = e]
        /\ UNCHANGED <<setting, toHost, errors, hostBuffer, hostGot>>
    BY DEF StartWrite, hostVars
  <1>2. id \in Id /\ size \in Nat
    <2>1. written[t] + 1 \in 1..MaxMessages
      BY SettingFields DEF StartWrite, Types
    <2> QED
      BY <2>1, ChannelAssumption DEF Id
  <1> HIDE DEF id
  <1>3. /\ e \in Seq(Piece) /\ Len(e) = size
        /\ \A p \in 1..size : e[p].id = id /\ e[p].part = p /\ (e[p].last <=> p = size)
    BY <1>2, EncodeIsLine, EncodeFields
  <1> HIDE DEF e
  <1>5. Starts(e) /\ Cuts(e) = {}
    BY <1>2, <1>3 DEF Starts, Cuts, Continues
  <1>6. Remaining = <<>> /\ Remaining' = e
    <2>1. Remaining = rest[t] /\ (CHOOSE u \in setting.writers : TRUE) = t
      BY <1>1, OneWriter
    <2>2. rest'[t] = e
      BY <1>1 DEF Types
    <2> QED
      BY <1>1, <2>1, <2>2 DEF Remaining
  <1>7. b \in Seq(Piece) /\ Stream = b /\ Stream' = b \o e
    <2>1. b \in Seq(Piece)
      BY StreamType
    <2> QED
      BY <1>1, <1>6, <2>1, ConcatEmptySeq DEF Stream
  <1> HIDE DEF b
  <1>8. Starts(Stream') /\ b \o e \in Seq(Piece) /\ Cuts(Stream') \subseteq Cuts(Stream)
    BY <1>3, <1>5, <1>7, StartsConcat, CutsOfNewLine, ConcatProperties DEF DamageInv
  <1>9. Cardinality(Cuts(Stream')) <= Cardinality(Cuts(Stream))
    BY <1>7, <1>8, FewerCuts
  <1>10. Cardinality(Damaged) + Cardinality(Cuts(Stream')) <= errors
    <2>1. Cardinality(Cuts(Stream)) \in Nat /\ Cardinality(Cuts(Stream')) \in Nat /\ Cardinality(Damaged) \in Nat
      BY <1>7, <1>8, CutsType, DamagedType
    <2> QED
      BY <1>9, <2>1, SettingFields DEF DamageInv, Types
  <1>11. OnlyWriters'
    <2>1. \A u \in Writers : u # t => rest'[u] = rest[u]
      BY <1>1 DEF Types
    <2> QED
      BY <1>1, <2>1 DEF OnlyWriters, DamageInv
  <1>12. Damaged' = Damaged /\ NoNewline(hostBuffer')
    BY <1>1 DEF Damaged, Intact, DamageInv
  <1> QED
    BY <1>1, <1>8, <1>10, <1>11, <1>12 DEF DamageInv, NoNewline, Starts, Cuts, Continues

(* The port takes pieces: nothing of what is on its way changes.           *)
LEMMA DamageWrite ==
    ASSUME Types, DamageInv, Alone,
           NEW t \in Writers, NEW n \in 1..Len(rest[t]), WriteSome(t, n)
    PROVE  DamageInv'
  <1> DEFINE r == rest[t]
             part == SubSeq(r, 1, n)
             left == Drop(n, r)
  <1>1. /\ toHost' = toHost \o part /\ rest' = [rest EXCEPT ![t] = left]
        /\ UNCHANGED <<setting, errors, hostBuffer, hostGot>> /\ r # <<>>
    BY DEF WriteSome, hostVars
  <1>2. r \in Seq(Piece) /\ n \in 0..Len(r) /\ t \in setting.writers
        /\ hostBuffer \in Seq(Piece) /\ toHost \in Seq(Piece)
    BY <1>1 DEF Types, DamageInv, OnlyWriters
  <1>3. Remaining = r /\ Remaining' = left
    <2>1. Remaining = rest[t] /\ (CHOOSE u \in setting.writers : TRUE) = t
      BY <1>2, OneWriter
    <2>2. rest'[t] = left
      BY <1>1 DEF Types
    <2> QED
      BY <1>1, <1>2, <2>1, <2>2 DEF Remaining
  <1> HIDE DEF r
  <1>4. part \in Seq(Piece) /\ left \in Seq(Piece) /\ part \o left = r
    BY <1>2, FirstPart, DropIsRest, SplitAt
  <1> HIDE DEF part, left
  <1>5. Stream' = Stream
    <2>1. Stream' = (hostBuffer \o (toHost \o part)) \o left
      BY <1>1, <1>3 DEF Stream
    <2>2. hostBuffer \o (toHost \o part) = (hostBuffer \o toHost) \o part
      BY <1>2, <1>4, Associates
    <2>3. ((hostBuffer \o toHost) \o part) \o left = (hostBuffer \o toHost) \o (part \o left)
      <3>1. hostBuffer \o toHost \in Seq(Piece)
        BY StreamType
      <3> QED
        BY <1>4, <3>1, Associates
    <2> QED
      BY <1>3, <1>4, <2>1, <2>2, <2>3 DEF Stream
  <1>6. OnlyWriters'
    <2>1. \A u \in Writers : u # t => rest'[u] = rest[u]
      BY <1>1 DEF Types
    <2> QED
      BY <1>1, <1>2, <2>1 DEF OnlyWriters, DamageInv
  <1>7. Damaged' = Damaged
    BY <1>1 DEF Damaged, Intact
  <1> QED
    BY <1>1, <1>5, <1>6, <1>7 DEF DamageInv, NoNewline, Starts, Cuts, Continues

(* A write fails: it leaves off its line, if a part of it has gone out.    *)
LEMMA DamageFail ==
    ASSUME Types, DamageInv, Alone, NEW t \in Writers, WriteFails(t)
    PROVE  DamageInv'
  <1> DEFINE b == hostBuffer \o toHost
  <1>1. /\ rest[t] # <<>> /\ rest' = [rest EXCEPT ![t] = <<>>] /\ errors' = errors + 1
        /\ UNCHANGED <<setting, toHost, hostBuffer, hostGot>> /\ t \in setting.writers
    BY DEF WriteFails, hostVars, DamageInv, OnlyWriters
  <1>2. Remaining' = <<>>
    <2>1. (CHOOSE u \in setting.writers : TRUE) = t
      BY <1>1, OneWriter
    <2>2. rest'[t] = <<>>
      BY <1>1 DEF Types
    <2> QED
      BY <1>1, <2>1, <2>2 DEF Remaining
  <1>3. Remaining \in Seq(Piece) /\ b \in Seq(Piece) /\ Stream = b \o Remaining /\ Stream \in Seq(Piece)
    BY StreamType DEF Stream
  <1>4. Stream' = b
    BY <1>1, <1>2, <1>3, ConcatEmptySeq DEF Stream
  <1> HIDE DEF b
  <1>5. Starts(b) /\ Cuts(b) \subseteq Cuts(Stream) \cup {Len(b)}
    BY <1>3, StartsOfStart, CutsOfStart DEF DamageInv
  <1>6. Cardinality(Cuts(b)) <= Cardinality(Cuts(Stream)) + 1
    <2>1. IsFiniteSet(Cuts(Stream)) /\ Cardinality(Cuts(Stream)) \in Nat /\ Cardinality(Cuts(b)) \in Nat
      BY <1>3, CutsType
    <2>2. /\ IsFiniteSet(Cuts(Stream) \cup {Len(b)})
          /\ Cardinality(Cuts(Stream) \cup {Len(b)}) <= Cardinality(Cuts(Stream)) + 1
          /\ Cardinality(Cuts(Stream) \cup {Len(b)}) \in Nat
      BY <2>1, OneMore
    <2>3. Cardinality(Cuts(b)) <= Cardinality(Cuts(Stream) \cup {Len(b)})
      BY <1>5, <2>2, FS_Subset
    <2> QED
      BY <2>1, <2>2, <2>3
  <1>7. Cardinality(Damaged) + Cardinality(Cuts(b)) <= errors + 1
    <2>1. Cardinality(Cuts(Stream)) \in Nat /\ Cardinality(Cuts(b)) \in Nat /\ Cardinality(Damaged) \in Nat
      BY <1>3, CutsType, DamagedType
    <2>2. Cardinality(Damaged) + Cardinality(Cuts(Stream)) <= errors /\ errors \in Int
      BY SettingFields DEF DamageInv, Types
    <2> QED
      BY <1>6, <2>1, <2>2
  <1>8. OnlyWriters'
    <2>1. \A u \in Writers : u # t => rest'[u] = rest[u]
      BY <1>1 DEF Types
    <2> QED
      BY <1>1, <2>1 DEF OnlyWriters, DamageInv
  <1>9. Damaged' = Damaged
    BY <1>1 DEF Damaged, Intact
  <1> QED
    BY <1>1, <1>4, <1>5, <1>7, <1>8, <1>9 DEF DamageInv, NoNewline, Starts, Cuts, Continues

(* The host takes a piece.  A line that it splits off damaged has been     *)
(* left off somewhere, and what it leaves behind is fewer by that.         *)
LEMMA DamageRead ==
    ASSUME Types, DamageInv, Alone, HostReads
    PROVE  DamageInv'
  <1> DEFINE p == Head(toHost)
             line == Append(hostBuffer, p)
             more == Tail(toHost)
             after == more \o Remaining
  <1>1. /\ toHost # <<>> /\ toHost' = more
        /\ IF p.last THEN hostGot' = Append(hostGot, line) /\ hostBuffer' = <<>>
           ELSE hostBuffer' = line /\ UNCHANGED hostGot
        /\ UNCHANGED <<setting, rest, errors>>
    BY DEF HostReads
  <1>2. /\ toHost \in Seq(Piece) /\ hostBuffer \in Seq(Piece) /\ hostGot \in Seq(Seq(Piece))
        /\ Remaining \in Seq(Piece) /\ Remaining' = Remaining
    BY <1>1, StreamType DEF Types, Remaining
  <1>3. p \in Piece /\ more \in Seq(Piece) /\ line \o more = hostBuffer \o toHost
    <2>1. p \in Piece /\ more \in Seq(Piece)
      BY <1>1, <1>2
    <2>2. line \o more = hostBuffer \o toHost
      BY <1>1, <1>2, FirstMoves
    <2> QED
      BY <2>1, <2>2
  <1> HIDE DEF p, more
  <1>4. /\ line \in Seq(Piece) /\ Len(line) = Len(hostBuffer) + 1 /\ line # <<>>
        /\ \A i \in 1..Len(hostBuffer) : line[i] = hostBuffer[i]
        /\ line[Len(hostBuffer) + 1] = p /\ Len(hostBuffer) \in Nat
    BY <1>2, <1>3, AppendProperties
  <1> HIDE DEF line
  <1>5. \A i \in 1..Len(line) : line[i].last => i = Len(line) /\ p.last
    BY <1>4 DEF DamageInv, NoNewline
  <1>6. OnlyWriters'
    BY <1>1 DEF OnlyWriters, DamageInv
  <1>7. CASE ~p.last
    <2>1. hostBuffer' = line /\ hostGot' = hostGot
      BY <1>1, <1>7
    <2>2. Stream' = Stream
      BY <1>1, <1>2, <1>3, <2>1 DEF Stream
    <2>3. NoNewline(line)
      BY <1>5, <1>7 DEF NoNewline
    <2>4. Damaged' = Damaged
      BY <2>1 DEF Damaged, Intact
    <2> QED
      BY <1>1, <1>6, <2>1, <2>2, <2>3, <2>4 DEF DamageInv, NoNewline, Starts, Cuts, Continues
  <1>8. CASE p.last
    <2>1. hostBuffer' = <<>> /\ hostGot' = Append(hostGot, line)
      BY <1>1, <1>8
    <2>2. after \in Seq(Piece) /\ Stream = line \o after
      <3>1. after \in Seq(Piece)
        BY <1>2, <1>3, ConcatProperties
      <3>2. (line \o more) \o Remaining = line \o (more \o Remaining)
        BY <1>2, <1>3, <1>4, Associates
      <3> QED
        BY <1>3, <3>1, <3>2 DEF Stream
    <2>3. Stream' = after
      BY <1>1, <1>2, <1>3, <2>1, ConcatEmptySeq DEF Stream
    <2> HIDE DEF after
    <2>4. line[Len(line)].last /\ Starts(line \o after)
      BY <1>4, <1>8, <2>2 DEF DamageInv
    <2>5. Starts(after) /\ Starts(line)
      BY <1>4, <2>2, <2>4, StartsBehind, StartsOfStart
    <2>6. /\ Cuts(line) \subseteq 1..Len(line) /\ Cuts(after) \subseteq 1..Len(after)
          /\ Len(line) \in Nat /\ Len(after) \in Nat
          /\ IsFiniteSet(Cuts(line)) /\ Cardinality(Cuts(line)) \in Nat
          /\ Cardinality(Cuts(after)) \in Nat
      BY <1>4, <2>2, CutsType
    <2>7. Cardinality(Cuts(Stream)) = Cardinality(Cuts(line)) + Cardinality(Cuts(after))
      <3> DEFINE moved == {Len(line) + i : i \in Cuts(after)}
      <3>1. IsFiniteSet(moved) /\ Cardinality(moved) = Cardinality(Cuts(after))
        BY <2>6, Shifted
      <3>2. Cuts(line \o after) = Cuts(line) \cup moved /\ Cuts(line) \cap moved = {}
        BY <1>4, <2>2, <2>4, CutsBehind
      <3> HIDE DEF moved
      <3>3. Cardinality(Cuts(line) \cup moved) = Cardinality(Cuts(line)) + Cardinality(moved)
        BY <2>6, <3>1, <3>2, Disjoint
      <3> QED
        BY <2>2, <3>1, <3>2, <3>3
    <2>8. /\ Len(hostGot') = Len(hostGot) + 1 /\ hostGot'[Len(hostGot) + 1] = line
          /\ \A i \in 1..Len(hostGot) : hostGot'[i] = hostGot[i]
          /\ Len(hostGot) \in Nat
      BY <1>2, <1>4, <2>1, AppendProperties
    <2>9. Damaged' = Damaged \cup (IF Intact(line) THEN {} ELSE {Len(hostGot) + 1})
      <3>1. \A i \in 1..Len(hostGot') : i \in 1..Len(hostGot) \/ i = Len(hostGot) + 1
        BY <2>8
      <3>2. \A i \in 1..Len(hostGot) : i \in 1..Len(hostGot') /\ i # Len(hostGot) + 1
        BY <2>8
      <3>3. Len(hostGot) + 1 \in 1..Len(hostGot')
        BY <2>8
      <3>4. Damaged' = {i \in 1..Len(hostGot') : ~Intact(hostGot'[i])}
        BY DEF Damaged, Intact
      <3> QED
        BY <2>8, <3>1, <3>2, <3>3, <3>4 DEF Damaged
    <2>10. IsFiniteSet(Damaged) /\ Cardinality(Damaged) \in Nat /\ errors \in Int
      BY DamagedType, SettingFields DEF Types
    <2>11. Cardinality(Damaged) + (Cardinality(Cuts(line)) + Cardinality(Cuts(after))) <= errors
      BY <2>7 DEF DamageInv
    <2>12. Cardinality(Damaged') + Cardinality(Cuts(after)) <= errors
      <3>1. CASE Intact(line)
        <4>1. Damaged' = Damaged
          BY <2>9, <3>1
        <4> QED
          BY <2>6, <2>10, <2>11, <4>1
      <3>2. CASE ~Intact(line)
        <4>1. Cuts(line) # {}
          <5>1. line[1].part = 1
            BY <1>4, <2>5 DEF Starts
          <5>2. \A i \in 1..Len(line) : line[i].last <=> i = Len(line)
            BY <1>5, <2>4
          <5> QED
            BY <1>4, <3>2, <5>1, <5>2, UncutIsIntact
        <4>2. Cardinality(Cuts(line)) >= 1
          BY <2>6, <4>1, FS_EmptySet
        <4>3. Cardinality(Damaged') <= Cardinality(Damaged) + 1 /\ Cardinality(Damaged') \in Nat
          BY <2>9, <2>10, <3>2, OneMore
        <4> QED
          BY <2>6, <2>10, <2>11, <4>2, <4>3
      <3> QED
        BY <3>1, <3>2
    <2>13. NoNewline(hostBuffer')
      BY <2>1 DEF NoNewline
    <2> QED
      BY <1>1, <1>6, <2>3, <2>5, <2>12, <2>13 DEF DamageInv, NoNewline, Starts, Cuts, Continues
  <1> QED
    BY <1>7, <1>8

LEMMA DamageNext == Types /\ DamageInv /\ [Next]_vars => DamageInv'
  <1> SUFFICES ASSUME Types, DamageInv, [Next]_vars PROVE DamageInv'
    OBVIOUS
  <1>1. CASE ~Alone
    <2>1. ~Alone'
      BY <1>1, SettingStays DEF Alone
    <2> QED
      BY <2>1 DEF DamageInv
  <1>2. CASE Alone
    <2>1. ASSUME NEW t \in Writers, NEW size \in Sizes, StartWrite(t, size) PROVE DamageInv'
      BY <1>2, <2>1, DamageStart
    <2>2. ASSUME NEW t \in Writers, NEW n \in 1..Len(rest[t]), WriteSome(t, n) PROVE DamageInv'
      BY <1>2, <2>2, DamageWrite
    <2>3. ASSUME NEW t \in Writers, WriteFails(t) PROVE DamageInv'
      BY <1>2, <2>3, DamageFail
    <2>4. CASE HostReads
      BY <1>2, <2>4, DamageRead
    <2>5. CASE UNCHANGED <<setting, sendVars, hostVars>>
      <3>1. UNCHANGED <<setting, rest, toHost, hostBuffer, hostGot, errors>>
        BY <2>5 DEF sendVars, hostVars
      <3>2. Stream' = Stream
        BY <3>1 DEF Stream, Remaining
      <3>3. Damaged' = Damaged
        BY <3>1 DEF Damaged, Intact
      <3> QED
        BY <1>2, <3>1, <3>2, <3>3 DEF DamageInv, OnlyWriters, NoNewline, Starts, Cuts, Continues
    <2>6. ASSUME NEW ok \in BOOLEAN, NEW size \in Sizes, HostWrites(ok, size)
          PROVE  UNCHANGED <<setting, sendVars, hostVars>>
      BY <2>6 DEF HostWrites
    <2>7. CASE Listen \/ UNCHANGED vars
      BY <2>5, <2>7 DEF Listen, ReadLine, ReadBuffer, vars
    <2> QED
      BY <2>1, <2>2, <2>3, <2>4, <2>5, <2>6, <2>7 DEF Next, Send
  <1> QED
    BY <1>1, <1>2

(* Whatever the port takes at a time, and whenever a write fails: with one *)
(* thread writing, or a port that takes whole lines, the lines the host    *)
(* got that are not one message are no more than the writes that failed.   *)
THEOREM DamageCorrect == Spec => [](Alone \/ TakesLines => DamageIsBounded)
  <1>1. Types /\ DamageInv /\ Alone => DamageIsBounded
    <2> SUFFICES ASSUME Types, DamageInv, Alone PROVE DamageIsBounded
      OBVIOUS
    <2>1. Cardinality(Damaged) \in Nat /\ Cardinality(Cuts(Stream)) \in Nat /\ errors \in Int
      <3>1. errors \in Int
        BY SettingFields DEF Types
      <3> QED
        BY <3>1, DamagedType, StreamType, CutsType
    <2>2. Cardinality(Damaged) <= errors
      BY <2>1 DEF DamageInv
    <2> QED
      BY <2>2 DEF DamageIsBounded, Damaged
  <1>2. Types /\ FramingInv /\ TakesLines => DamageIsBounded
    <2> SUFFICES ASSUME Types, FramingInv, TakesLines PROVE DamageIsBounded
      OBVIOUS
    <2>1. Damaged = {}
      BY DEF FramingInv, Safe, LinesIntact, Damaged
    <2>2. Cardinality(Damaged) = 0 /\ 0 <= errors
      BY <2>1, FS_EmptySet, SettingFields DEF Types
    <2> QED
      BY <2>2 DEF DamageIsBounded, Damaged
  <1> QED
    BY <1>1, <1>2, TypeInit, TypeNext, FramingInit, FramingNext, DamageInit, DamageNext, PTL DEF Spec

-----------------------------------------------------------------------------
(* From the host.  What the listener has not yet split off is the lines    *)
(* that the host wrote last, whole.                                        *)
Unread == buffer \o toAgent

Numbered == \A i \in 1..Len(hostWrote) : hostWrote[i][2] = i

(* got is the commands among the lines taken, in the order of their        *)
(* numbers.                                                                *)
CommandsOf(taken, got) ==
    /\ \A c : (\E i \in 1..Len(got) : got[i] = c) <=>
                  (\E i \in 1..Len(taken) : taken[i] = c) /\ Decodable(c)
    /\ \A i, j \in 1..Len(got) : i < j => got[i][2] < got[j][2]

(* The lines of the host are those taken, and from these every command has *)
(* been parsed once and in its place, and those not yet split off.         *)
TakenInOrder ==
    \E taken \in Seq(Id) :
        /\ hostWrote = taken \o Complete(Unread)
        /\ CommandsOf(taken, parsed)

ReadInv ==
    /\ Starts(Unread) /\ Cuts(Unread) = {}
    /\ Numbered
    /\ TakenInOrder

LEMMA UnreadType == Types => Unread \in Seq(Piece)
  BY ConcatProperties DEF Types, Unread

LEMMA ReadInit == Init => ReadInv
  <1> SUFFICES ASSUME Init PROVE ReadInv
    OBVIOUS
  <1>1. buffer = <<>> /\ toAgent = <<>> /\ parsed = <<>> /\ hostWrote = <<>>
    BY DEF Init
  <1>2. Unread = <<>> /\ Unread \in Seq(Piece)
    BY <1>1 DEF Unread
  <1>3. Complete(Unread) = <<>>
    <2>1. \A i \in 1..Len(Unread) : ~Unread[i].last
      BY <1>2
    <2> QED
      BY <1>2, <2>1, NoneComplete
  <1>4. hostWrote = <<>> \o Complete(Unread) /\ <<>> \in Seq(Id)
    BY <1>1, <1>3
  <1>5. CommandsOf(<<>>, parsed)
    BY <1>1 DEF CommandsOf
  <1>6. TakenInOrder
    BY <1>4, <1>5 DEF TakenInOrder
  <1> QED
    BY <1>1, <1>2, <1>6 DEF ReadInv, Numbered, Starts, Cuts

(* A step that leaves the unread, the written and the parsed alone.        *)
LEMMA ReadStays ==
    ASSUME ReadInv, Unread' = Unread, parsed' = parsed, hostWrote' = hostWrote
    PROVE  ReadInv'
  <1>1. Complete(Unread)' = Complete(Unread)
    BY DEF Complete, Newlines, Nth
  <1>2. Starts(Unread)' /\ Cuts(Unread)' = {}
    BY DEF ReadInv, Starts, Cuts, Continues
  <1>3. TakenInOrder'
    <2>1. PICK taken \in Seq(Id) : hostWrote = taken \o Complete(Unread) /\ CommandsOf(taken, parsed)
      BY DEF ReadInv, TakenInOrder
    <2>2. CommandsOf(taken, parsed)'
      BY <2>1 DEF CommandsOf, Decodable
    <2> QED
      BY <1>1, <2>1, <2>2 DEF TakenInOrder
  <1> QED
    BY <1>2, <1>3 DEF ReadInv, Numbered

LEMMA AssociatesIds ==
    \A s, t, u \in Seq(Id) : (s \o t) \o u = s \o (t \o u)
  <1> TAKE s, t, u \in Seq(Id)
  <1> QED
    BY ConcatAssociative

(* The host writes a line: it goes behind what is unread.                  *)
LEMMA ReadOfHost ==
    ASSUME Types, ReadInv, NEW ok \in BOOLEAN, NEW size \in Sizes, HostWrites(ok, size)
    PROVE  ReadInv'
  <1> DEFINE id == <<"host", Len(hostWrote) + 1, ok>>
             e == Encode(id, size)
  <1>1. /\ toAgent' = toAgent \o e /\ hostWrote' = Append(hostWrote, id)
        /\ UNCHANGED <<buffer, parsed>>
    BY DEF HostWrites
  <1>2. id \in Id /\ size \in Nat /\ size > 0
    <2>1. Len(hostWrote) + 1 \in 1..HostLines
      BY SettingFields DEF HostWrites, Types
    <2>2. size \in Nat /\ size > 0
      BY ChannelAssumption
    <2> QED
      BY <2>1, <2>2 DEF Id
  <1>3. id[2] = Len(hostWrote) + 1
    OBVIOUS
  <1> HIDE DEF id
  <1>4. /\ e \in Seq(Piece) /\ Len(e) = size
        /\ \A p \in 1..size : e[p].id = id /\ e[p].part = p /\ (e[p].last <=> p = size)
    BY <1>2, EncodeIsLine, EncodeFields
  <1> HIDE DEF e
  <1>5. Starts(e) /\ Cuts(e) = {}
    BY <1>2, <1>4 DEF Starts, Cuts, Continues
  <1>6. Complete(e) = <<id>>
    <2>1. e # <<>> /\ e[Len(e)].id = id /\ \A i \in 1..Len(e) : e[i].last <=> i = Len(e)
      BY <1>2, <1>4
    <2> QED
      BY <1>4, <2>1, OneComplete
  <1>7. Unread \in Seq(Piece) /\ Unread' = Unread \o e
    <2>1. buffer \in Seq(Piece) /\ toAgent \in Seq(Piece)
      BY DEF Types
    <2> QED
      BY <1>1, <1>4, <2>1, UnreadType, Associates DEF Unread
  <1>8. Starts(Unread') /\ Cuts(Unread') = {}
    BY <1>4, <1>5, <1>7, StartsConcat, CutsOfNewLine DEF ReadInv
  <1>9. hostWrote \in Seq(Id) /\ Len(hostWrote) \in Nat
    BY DEF Types
  <1>10. Numbered'
    BY <1>1, <1>2, <1>3, <1>9 DEF ReadInv, Numbered
  <1>11. TakenInOrder'
    <2>1. PICK taken \in Seq(Id) : hostWrote = taken \o Complete(Unread) /\ CommandsOf(taken, parsed)
      BY DEF ReadInv, TakenInOrder
    <2>2. Complete(Unread) \in Seq(Id) /\ <<id>> \in Seq(Id)
      BY <1>2, <1>7, CompleteType
    <2>3. Complete(Unread \o e) = Complete(Unread) \o <<id>>
      <3>1. Complete(Unread \o e) = Complete(Unread) \o Complete(e)
        BY <1>4, <1>7, CompleteConcat
      <3> QED
        BY <1>6, <3>1, Zenon
    <2>4. hostWrote' = hostWrote \o <<id>>
      BY <1>1, <1>2, <1>9
    <2>5. hostWrote' = taken \o Complete(Unread \o e)
      BY <2>1, <2>2, <2>3, <2>4, AssociatesIds
    <2>6. Complete(Unread)' = Complete(Unread \o e)
      BY <1>7 DEF Complete, Newlines, Nth
    <2> QED
      BY <1>1, <2>1, <2>5, <2>6 DEF TakenInOrder, CommandsOf, Decodable
  <1> QED
    BY <1>8, <1>10, <1>11 DEF ReadInv, Starts, Cuts, Continues

(* A chunk is read: nothing of what is unread changes.                     *)
LEMMA ReadOfChunk ==
    ASSUME Types, ReadInv, NEW n \in 1..ReadSize, ReadBuffer(n)
    PROVE  ReadInv'
  <1> DEFINE part == SubSeq(toAgent, 1, n)
             left == Drop(n, toAgent)
  <1>1. /\ buffer' = buffer \o part /\ toAgent' = left
        /\ UNCHANGED <<parsed, hostWrote>>
    BY DEF ReadBuffer
  <1>2. buffer \in Seq(Piece) /\ toAgent \in Seq(Piece) /\ n \in 0..Len(toAgent)
    BY ChannelAssumption DEF Types, ReadBuffer
  <1>3. part \in Seq(Piece) /\ left \in Seq(Piece) /\ part \o left = toAgent
    BY <1>2, FirstPart, DropIsRest, SplitAt
  <1> HIDE DEF part, left
  <1>4. Unread' = Unread
    BY <1>1, <1>2, <1>3, Associates DEF Unread
  <1> QED
    BY <1>1, <1>4, ReadStays

(* One more line is taken, and parsed if it decodes.                       *)
LEMMA TakesOneMore ==
    ASSUME NEW taken \in Seq(Id), NEW got \in Seq(Id), NEW x \in Id, NEW more \in Seq(Id),
           CommandsOf(taken, got), x[2] = Len(taken) + 1,
           \A i \in 1..Len(taken) : taken[i][2] = i,
           more = IF Decodable(x) THEN Append(got, x) ELSE got
    PROVE  CommandsOf(Append(taken, x), more)
  <1> DEFINE all == Append(taken, x)
  <1>1. /\ Len(all) = Len(taken) + 1 /\ all[Len(taken) + 1] = x /\ Len(taken) \in Nat
        /\ \A i \in 1..Len(taken) : all[i] = taken[i]
    BY AppendProperties
  <1> HIDE DEF all
  <1>2. ASSUME NEW c
        PROVE  (\E i \in 1..Len(all) : all[i] = c) <=> (\E i \in 1..Len(taken) : taken[i] = c) \/ c = x
    <2>1. \A i \in 1..Len(all) : i \in 1..Len(taken) \/ i = Len(taken) + 1
      BY <1>1
    <2>2. /\ \A i \in 1..Len(taken) : i \in 1..Len(all)
          /\ Len(taken) + 1 \in 1..Len(all)
      BY <1>1
    <2> QED
      BY <1>1, <2>1, <2>2
  <1>3. CASE ~Decodable(x)
    <2>1. more = got
      BY <1>3
    <2> QED
      BY <1>2, <1>3, <2>1 DEF CommandsOf, all
  <1>4. CASE Decodable(x)
    <2>1. /\ Len(more) = Len(got) + 1 /\ more[Len(got) + 1] = x /\ Len(got) \in Nat
          /\ \A i \in 1..Len(got) : more[i] = got[i]
      BY <1>4, AppendProperties
    <2>2. ASSUME NEW c
          PROVE  (\E i \in 1..Len(more) : more[i] = c) <=> (\E i \in 1..Len(got) : got[i] = c) \/ c = x
      <3>1. \A i \in 1..Len(more) : i \in 1..Len(got) \/ i = Len(got) + 1
        BY <2>1
      <3>2. /\ \A i \in 1..Len(got) : i \in 1..Len(more)
            /\ Len(got) + 1 \in 1..Len(more)
        BY <2>1
      <3> QED
        BY <2>1, <3>1, <3>2
    <2>3. ASSUME NEW i \in 1..Len(more), NEW j \in 1..Len(more), i < j
          PROVE  more[i][2] < more[j][2]
      <3>1. i \in 1..Len(got) /\ more[i] = got[i]
        BY <2>1, <2>3
      <3>2. CASE j \in 1..Len(got)
        BY <2>1, <2>3, <3>1, <3>2 DEF CommandsOf
      <3>3. CASE j \notin 1..Len(got)
        <4>1. j = Len(got) + 1
          BY <2>1, <3>3
        <4>2. more[j][2] = Len(taken) + 1
          BY <2>1, <4>1
        <4>3. PICK k \in 1..Len(taken) : taken[k] = got[i]
          BY <3>1 DEF CommandsOf
        <4>4. got[i][2] = k
          BY <4>3
        <4> QED
          BY <1>1, <3>1, <4>2, <4>4
      <3> QED
        BY <3>2, <3>3
    <2>4. \A c : (\E i \in 1..Len(more) : more[i] = c) <=>
                     (\E i \in 1..Len(all) : all[i] = c) /\ Decodable(c)
      BY <1>2, <1>4, <2>2 DEF CommandsOf
    <2> QED
      BY <2>3, <2>4 DEF CommandsOf, all
  <1> QED
    BY <1>3, <1>4

(* A line is split off: it is the first of the unread ones, and whole.     *)
LEMMA ReadOfLine ==
    ASSUME Types, ReadInv, ReadLine
    PROVE  ReadInv'
  <1> DEFINE cut == FirstNewline(buffer)
             line == SubSeq(buffer, 1, cut)
             left == Drop(cut, buffer)
             after == left \o toAgent
             x == line[1].id
             more == IF line = Encode(x, cut) /\ x[3] THEN Append(parsed, x) ELSE parsed
  <1>1. buffer' = left /\ parsed' = more /\ UNCHANGED <<toAgent, hostWrote>>
    BY DEF ReadLine
  <1>2. /\ buffer \in Seq(Piece) /\ toAgent \in Seq(Piece) /\ parsed \in Seq(Id)
        /\ hostWrote \in Seq(Id) /\ Len(buffer) \in Nat
    BY DEF Types
  <1>3. /\ cut \in 1..Len(buffer) /\ buffer[cut].last
        /\ \A j \in 1..(cut - 1) : ~buffer[j].last
    BY <1>2, NewlineFound DEF ReadLine
  <1> HIDE DEF cut
  <1>4. cut \in 0..Len(buffer) /\ cut \in Nat /\ cut > 0
    BY <1>2, <1>3
  <1>5. /\ line \in Seq(Piece) /\ Len(line) = cut /\ \A i \in 1..cut : line[i] = buffer[i]
        /\ left \in Seq(Piece) /\ line \o left = buffer
    BY <1>2, <1>4, FirstPart, DropIsRest, SplitAt
  <1> HIDE DEF line, left
  <1>6. line # <<>> /\ \A i \in 1..Len(line) : line[i].last <=> i = Len(line)
    BY <1>3, <1>4, <1>5
  <1>7. after \in Seq(Piece) /\ Unread = line \o after /\ Unread' = after
    <2>1. after \in Seq(Piece)
      BY <1>2, <1>5, ConcatProperties
    <2>2. (line \o left) \o toAgent = line \o (left \o toAgent)
      BY <1>2, <1>5, Associates
    <2> QED
      BY <1>1, <1>5, <2>1, <2>2 DEF Unread
  <1> HIDE DEF after
  <1>8. Starts(line \o after) /\ Cuts(line \o after) = {} /\ line[Len(line)].last
    BY <1>4, <1>5, <1>6, <1>7 DEF ReadInv
  <1>9. Starts(after) /\ Starts(line)
    BY <1>5, <1>6, <1>7, <1>8, StartsBehind, StartsOfStart
  <1>10. Cuts(after) = {} /\ Cuts(line) = {}
    <2>1. Cuts(line \o after) = Cuts(line) \cup {Len(line) + i : i \in Cuts(after)}
      BY <1>5, <1>6, <1>7, <1>8, CutsBehind
    <2>2. ASSUME NEW i \in Cuts(after) PROVE Len(line) + i \in Cuts(line \o after)
      BY <2>1
    <2> QED
      BY <1>8, <2>1, <2>2
  <1>11. line = Encode(x, cut)
    <2>1. Intact(line)
      BY <1>5, <1>6, <1>9, <1>10, UncutIsIntact DEF Starts
    <2> QED
      BY <1>5, <2>1 DEF Intact
  <1>12. x \in Id
    <2>1. line[1] \in Piece
      BY <1>4, <1>5
    <2> QED
      BY <2>1 DEF Piece
  <1>13. Complete(line) = <<x>>
    <2>1. line[Len(line)].id = x
      <3> HIDE DEF x
      <3>1. Encode(x, cut)[cut].id = x
        BY <1>4, <1>12, EncodeFields
      <3> QED
        BY <1>5, <1>11, <3>1
    <2> QED
      BY <1>5, <1>6, <2>1, OneComplete
  <1> HIDE DEF x
  <1>14. more = IF Decodable(x) THEN Append(parsed, x) ELSE parsed
    BY <1>11 DEF Decodable
  <1> HIDE DEF more
  <1>15. more \in Seq(Id)
    BY <1>2, <1>12, <1>14, AppendProperties
  <1>16. PICK taken \in Seq(Id) : hostWrote = taken \o Complete(Unread) /\ CommandsOf(taken, parsed)
    BY DEF ReadInv, TakenInOrder
  <1>17. hostWrote = taken \o (<<x>> \o Complete(after)) /\ Complete(after) \in Seq(Id)
    <2>1. Complete(line \o after) = Complete(line) \o Complete(after)
      BY <1>5, <1>7, CompleteConcat
    <2>2. Complete(after) \in Seq(Id)
      BY <1>7, CompleteType
    <2> QED
      BY <1>7, <1>13, <1>16, <2>1, <2>2, Zenon
  <1>18. /\ \A i \in 1..Len(taken) : hostWrote[i] = taken[i]
         /\ hostWrote[Len(taken) + 1] = x /\ Len(hostWrote) >= Len(taken) + 1 /\ Len(taken) \in Nat
    <2> DEFINE u == Complete(after)
               v == <<x>> \o u
    <2> HIDE DEF u
    <2>1. v \in Seq(Id) /\ v[1] = x /\ Len(v) >= 1
      BY <1>12, <1>17 DEF u
    <2>2. hostWrote = taken \o v
      BY <1>17 DEF u
    <2> HIDE DEF v
    <2> QED
      BY <2>1, <2>2, ConcatProperties
  <1>19. x[2] = Len(taken) + 1 /\ \A i \in 1..Len(taken) : taken[i][2] = i
    BY <1>18 DEF ReadInv, Numbered
  <1>20. CommandsOf(Append(taken, x), more)
    BY <1>2, <1>12, <1>14, <1>15, <1>16, <1>19, TakesOneMore
  <1>21. hostWrote = Append(taken, x) \o Complete(after) /\ Append(taken, x) \in Seq(Id)
    <2>1. Append(taken, x) = taken \o <<x>> /\ <<x>> \in Seq(Id) /\ Append(taken, x) \in Seq(Id)
      BY <1>12
    <2> QED
      BY <1>17, <2>1, AssociatesIds
  <1>22. Complete(Unread)' = Complete(after)
    BY <1>7 DEF Complete, Newlines, Nth
  <1>23. TakenInOrder'
    BY <1>1, <1>20, <1>21, <1>22 DEF TakenInOrder, CommandsOf, Decodable
  <1> QED
    BY <1>1, <1>7, <1>9, <1>10, <1>23 DEF ReadInv, Numbered, Starts, Cuts, Continues

LEMMA ReadNext == Types /\ ReadInv /\ [Next]_vars => ReadInv'
  <1> SUFFICES ASSUME Types, ReadInv, [Next]_vars PROVE ReadInv'
    OBVIOUS
  <1>1. CASE UNCHANGED readVars
    <2>1. UNCHANGED <<toAgent, buffer, parsed, hostWrote>>
      BY <1>1 DEF readVars
    <2>2. UNCHANGED Unread
      BY <2>1 DEF Unread
    <2> QED
      BY <2>1, <2>2, ReadStays
  <1>2. ASSUME NEW t \in Writers, NEW size \in Sizes, StartWrite(t, size) PROVE UNCHANGED readVars
    BY <1>2 DEF StartWrite
  <1>3. ASSUME NEW t \in Writers, Send(t) \/ WriteFails(t) PROVE UNCHANGED readVars
    BY <1>3 DEF Send, WriteSome, WriteFails
  <1>4. CASE HostReads
    BY <1>1, <1>4 DEF HostReads
  <1>5. ASSUME NEW ok \in BOOLEAN, NEW size \in Sizes, HostWrites(ok, size) PROVE ReadInv'
    BY <1>5, ReadOfHost
  <1>6. CASE Listen
    BY <1>6, ReadOfLine, ReadOfChunk DEF Listen
  <1>7. CASE UNCHANGED vars
    BY <1>1, <1>7 DEF vars
  <1> QED
    BY <1>1, <1>2, <1>3, <1>4, <1>5, <1>6, <1>7 DEF Next

(* Whatever chunks the reads return, what parseCommand has been given is   *)
(* the commands among the lines that the listener has split off, in the    *)
(* host's order, none lost and none twice, and lines that do not decode    *)
(* cost only themselves: the safety half of EveryCommandParsed.            *)
THEOREM CommandsCorrect == Spec => [](Numbered /\ TakenInOrder)
  <1>1. ReadInv => Numbered /\ TakenInOrder
    BY DEF ReadInv
  <1> QED
    BY <1>1, TypeInit, TypeNext, ReadInit, ReadNext, PTL DEF Spec

-----------------------------------------------------------------------------
(* The port of the Windows agent (WinPort): any threads, any lengths.      *)

LineType == [of : Threads \X Nat, from : Nat, length : Nat]

(* What is left of a message is never more than the message, and nothing   *)
(* only when nothing is to be written.                                     *)
PortTypeOK ==
    /\ opened \in BOOLEAN /\ down \in BOOLEAN
    /\ at \in [Threads -> {"idle", "call", "wait"}]
    /\ started \in [Threads -> Nat]
    /\ whole \in [Threads -> Nat] /\ unsent \in [Threads -> Nat]
    /\ issued \in Seq(LineType) /\ host \in Seq(LineType)
    /\ ovrlpd \in Nat \cup {Pending}
    /\ shared \in BOOLEAN /\ failed \in BOOLEAN /\ outages \in Nat
    /\ \A t \in Threads : unsent[t] <= whole[t]
    /\ \A t \in Threads : at[t] # "idle" => unsent[t] > 0 /\ started[t] > 0

Arrived(t, n) == \E l \in Lines : l.of = <<t, n>> /\ l.from = 0

(* While no call has failed, a message of which a part went out has its    *)
(* line at the host or with the driver.                                    *)
NoneLost ==
    ~failed => \A t \in Threads : \A n \in 1..started[t] :
        n < started[t] \/ at[t] # "call" \/ unsent[t] # whole[t]
            => Arrived(t, n)

Reached(t, n) == \E i \in 1..Len(host) : host[i].of = <<t, n>>

(* While the structure was never shared, the driver holds at most the      *)
(* buffer of the one thread that waits, and the count that thread will     *)
(* read is its own: its whole buffer, which has arrived, or a failure.     *)
WaitsForItsOwn(t) ==
    \/ issued = <<Line(t, 0)>> /\ ovrlpd = Pending
    \/ issued = <<>> /\ ovrlpd = Failure
    \/ issued = <<>> /\ ovrlpd = whole[t] /\ Reached(t, started[t])

Delivered(t) ==
    at[t] = "idle" \/ (Waiting(t) /\ issued = <<>> /\ ovrlpd = whole[t])

Exact ==
    ~shared =>
        /\ \A t, u \in Threads : Waiting(t) /\ Waiting(u) => t = u
        /\ \A t \in Threads : at[t] # "idle" => unsent[t] = whole[t]
        /\ (\A t \in Threads : ~Waiting(t)) => issued = <<>>
        /\ \A t \in Threads : Waiting(t) => WaitsForItsOwn(t)
        /\ \A i \in 1..Len(host) : host[i].from = 0
        /\ \A t \in Threads : \A n \in Nat : Reached(t, n) =>
               n <= started[t] /\ (n = started[t] => Delivered(t))
        /\ \A i, j \in 1..Len(host) : i # j => host[i].of # host[j].of
        /\ \A t \in Threads : \A n \in 1..started[t] :
               Returned(t, n) => Reached(t, n)

PortInv == PortTypeOK /\ NoneLost /\ Exact

(* A line that a thread issues is one, and so is what is left of it.       *)
LEMMA LineIsLine ==
    ASSUME PortTypeOK, NEW t \in Threads
    PROVE  /\ Line(t, whole[t] - unsent[t]) \in LineType
           /\ Line(t, whole[t] - unsent[t]).of = <<t, started[t]>>
           /\ Line(t, whole[t] - unsent[t]).from = whole[t] - unsent[t]
           /\ Line(t, whole[t] - unsent[t]).length = unsent[t]
  BY DEF PortTypeOK, Line, LineType

(* A buffer the driver gets is a line more; one that arrives is not.       *)
LEMMA LinesAppend ==
    ASSUME PortTypeOK, NEW l \in LineType,
           issued' = Append(issued, l), host' = host
    PROVE  \A x : x \in Lines' <=> x \in Lines \/ x = l
  <1>1. /\ Len(issued') = Len(issued) + 1 /\ issued'[Len(issued) + 1] = l
        /\ \A i \in 1..Len(issued) : issued'[i] = issued[i]
        /\ Len(issued) \in Nat
    BY DEF PortTypeOK
  <1>2. QED
    BY <1>1 DEF Lines

(* The line that arrives was the driver's oldest.                          *)
LEMMA LinesMove ==
    ASSUME PortTypeOK, issued # <<>>,
           issued' = Tail(issued), host' = Append(host, Head(issued))
    PROVE  \A x : x \in Lines' <=> x \in Lines
  <1>1. /\ Head(issued) = issued[1] /\ Head(issued) \in LineType
        /\ Len(issued) \in Nat /\ Len(issued) > 0
        /\ Len(issued') = Len(issued) - 1
        /\ \A i \in 1..(Len(issued) - 1) : issued'[i] = issued[i + 1]
    BY DEF PortTypeOK
  <1>2. /\ Len(host) \in Nat /\ Len(host') = Len(host) + 1
        /\ host'[Len(host) + 1] = issued[1]
        /\ \A i \in 1..Len(host) : host'[i] = host[i]
    BY <1>1 DEF PortTypeOK
  <1>3. ASSUME NEW x, x \in Lines'
        PROVE  x \in Lines
    BY <1>1, <1>2, <1>3 DEF Lines
  <1>4. ASSUME NEW x, x \in Lines
        PROVE  x \in Lines'
    <2>1. CASE \E i \in 1..Len(host) : x = host[i]
      BY <1>2, <2>1 DEF Lines
    <2>2. CASE x = issued[1]
      BY <1>2, <2>2 DEF Lines
    <2>3. CASE \E i \in 2..Len(issued) : x = issued[i]
      <3>1. PICK i \in 2..Len(issued) : x = issued[i]
        BY <2>3
      <3>2. i - 1 \in 1..(Len(issued) - 1) /\ issued'[i - 1] = x
        BY <1>1, <3>1
      <3>3. QED
        BY <1>1, <3>2 DEF Lines
    <2>4. QED
      BY <1>1, <1>4, <2>1, <2>2, <2>3 DEF Lines
  <1>5. QED
    BY <1>3, <1>4

(* The invariant holds when nothing has been written yet.                  *)
LEMMA PortInitInv == PortAssumption /\ PortInit => PortInv
  <1> SUFFICES ASSUME PortInit
               PROVE  PortInv
    OBVIOUS
  <1>1. PortTypeOK
    <2>1. down \in BOOLEAN /\ shared \in BOOLEAN /\ failed \in BOOLEAN
      BY DEF PortInit
    <2>2. issued \in Seq(LineType) /\ host \in Seq(LineType)
      BY DEF PortInit
    <2>3. QED
      BY <2>1, <2>2 DEF PortInit, PortTypeOK, Failure
  <1>2. NoneLost
    BY DEF PortInit, NoneLost
  <1>3. Exact
    BY DEF PortInit, Exact, Waiting, Reached, Delivered
  <1>4. QED
    BY <1>1, <1>2, <1>3 DEF PortInv

(* No count is taken off a message that is shorter than it.                *)
LEMMA PortTypeNext ==
    ASSUME PortTypeOK, [PortNext]_portVars
    PROVE  PortTypeOK'
  <1> USE PortAssumption DEF PortAssumption
  <1>1. ASSUME NEW t \in Threads, NEW s \in Lengths, BeginWrite(t, s)
        PROVE  PortTypeOK'
    BY <1>1 DEF PortTypeOK, BeginWrite
  <1>2. ASSUME NEW t \in Threads, WriteFile(t)
        PROVE  PortTypeOK'
    <2>1. issued' \in Seq(LineType)
      BY <1>2, LineIsLine DEF PortTypeOK, WriteFile
    <2>2. QED
      BY <1>2, <2>1 DEF PortTypeOK, WriteFile, Touches, Pending
  <1>3. ASSUME NEW t \in Threads, WriteFileFails(t)
        PROVE  PortTypeOK'
    <2>1. ovrlpd' \in Nat \cup {Pending}
      BY <1>3 DEF PortTypeOK, WriteFileFails
    <2>2. QED
      BY <1>3, <2>1 DEF PortTypeOK, WriteFileFails, Touches, threadVars
  <1>4. ASSUME NEW t \in Threads, GetResult(t)
        PROVE  PortTypeOK'
    <2>1. /\ Rest(t) \in Nat /\ Rest(t) <= unsent[t]
          /\ unsent[t] \in Nat /\ whole[t] \in Nat
      BY <1>4 DEF PortTypeOK, GetResult, Rest
    <2>2. /\ unsent' \in [Threads -> Nat]
          /\ at' \in [Threads -> {"idle", "call", "wait"}]
          /\ \A u \in Threads : unsent'[u] <= whole[u]
          /\ \A u \in Threads :
                 at'[u] # "idle" => unsent'[u] > 0 /\ started[u] > 0
      BY <1>4, <2>1 DEF PortTypeOK, GetResult, Waiting
    <2>3. QED
      BY <1>4, <2>2 DEF PortTypeOK, GetResult
  <1>5. CASE Completes
    <2>1. Head(issued) \in LineType /\ Tail(issued) \in Seq(LineType)
      BY <1>5 DEF PortTypeOK, Completes
    <2>2. Head(issued).length \in Nat
      BY <2>1 DEF LineType
    <2>3. /\ host' \in Seq(LineType) /\ failed' \in BOOLEAN
          /\ ovrlpd' \in Nat \cup {Pending}
      <3>1. CASE down
        BY <1>5, <3>1 DEF PortTypeOK, Completes, Failure
      <3>2. CASE ~down
        <4>1. ovrlpd' = Head(issued).length
              /\ host' = Append(host, Head(issued)) /\ failed' = failed
          BY <1>5, <3>2 DEF Completes
        <4>2. QED
          BY <2>1, <2>2, <4>1 DEF PortTypeOK
      <3>3. QED
        BY <3>1, <3>2
    <2>4. QED
      BY <1>5, <2>1, <2>3 DEF PortTypeOK, Completes, threadVars
  <1>6. CASE DeviceChanges
    BY <1>6 DEF PortTypeOK, DeviceChanges, threadVars
  <1>7. CASE UNCHANGED portVars
    BY <1>7 DEF PortTypeOK, portVars, threadVars
  <1>8. QED
    BY <1>1, <1>2, <1>3, <1>4, <1>5, <1>6, <1>7 DEF PortNext, Write

(* Lines only grow while no call fails.                                    *)
LEMMA NoneLostNext ==
    ASSUME PortTypeOK, NoneLost, [PortNext]_portVars
    PROVE  NoneLost'
  <1> USE PortAssumption DEF PortAssumption
  <1> SUFFICES ASSUME ~failed', NEW u \in Threads, NEW n \in 1..started'[u],
                      \/ n < started'[u] \/ at'[u] # "call"
                      \/ unsent'[u] # whole'[u]
               PROVE  Arrived(u, n)'
    BY DEF NoneLost
  <1>1. /\ at \in [Threads -> {"idle", "call", "wait"}]
        /\ started \in [Threads -> Nat]
        /\ whole \in [Threads -> Nat] /\ unsent \in [Threads -> Nat]
        /\ \A t \in Threads : unsent[t] <= whole[t]
        /\ \A t \in Threads : at[t] # "idle" => unsent[t] > 0 /\ started[t] > 0
        /\ failed \in BOOLEAN
    BY DEF PortTypeOK
  <1>2. ASSUME ~failed, n \in 1..started[u],
               n < started[u] \/ at[u] # "call" \/ unsent[u] # whole[u],
               \A x : x \in Lines => x \in Lines'
        PROVE  Arrived(u, n)'
    BY <1>2 DEF NoneLost, Arrived
  <1>3. ASSUME UNCHANGED <<issued, host>>
        PROVE  \A x : x \in Lines => x \in Lines'
    BY <1>3 DEF Lines
  <1>4. ASSUME NEW t \in Threads, NEW s \in Lengths, BeginWrite(t, s)
        PROVE  Arrived(u, n)'
    <2>1. n \in 1..started[u]
          /\ (n < started[u] \/ at[u] # "call" \/ unsent[u] # whole[u])
      BY <1>1, <1>4 DEF BeginWrite
    <2>2. QED
      BY <1>2, <1>3, <1>4, <2>1 DEF BeginWrite
  <1>5. ASSUME NEW t \in Threads, WriteFile(t)
        PROVE  Arrived(u, n)'
    <2>1. \A x : x \in Lines'
                 <=> x \in Lines \/ x = Line(t, whole[t] - unsent[t])
      BY <1>5, LineIsLine, LinesAppend DEF WriteFile
    <2>2. CASE u = t /\ n = started[t] /\ unsent[t] = whole[t]
      <3>1. Line(t, whole[t] - unsent[t]).of = <<u, n>>
            /\ Line(t, whole[t] - unsent[t]).from = 0
        BY <1>1, <2>2, LineIsLine
      <3>2. QED
        BY <2>1, <3>1 DEF Arrived
    <2>3. CASE ~(u = t /\ n = started[t] /\ unsent[t] = whole[t])
      <3>1. n \in 1..started[u]
            /\ (n < started[u] \/ at[u] # "call" \/ unsent[u] # whole[u])
        BY <1>1, <1>5, <2>3 DEF WriteFile
      <3>2. QED
        BY <1>2, <1>5, <2>1, <3>1 DEF WriteFile
    <2>4. QED
      BY <2>2, <2>3
  <1>6. ASSUME NEW t \in Threads, GetResult(t)
        PROVE  Arrived(u, n)'
    <2>1. n \in 1..started[u]
          /\ (n < started[u] \/ at[u] # "call" \/ unsent[u] # whole[u])
      BY <1>1, <1>6 DEF GetResult, Waiting
    <2>2. QED
      BY <1>2, <1>3, <1>6, <2>1 DEF GetResult
  <1>7. CASE Completes
    <2>1. ~down /\ ~failed
      BY <1>1, <1>7 DEF Completes
    <2>2. \A x : x \in Lines => x \in Lines'
      BY <1>7, <2>1, LinesMove DEF Completes
    <2>3. QED
      BY <1>2, <1>7, <2>1, <2>2 DEF Completes, threadVars
  <1>8. CASE DeviceChanges
    BY <1>2, <1>3, <1>8 DEF DeviceChanges, threadVars
  <1>9. CASE UNCHANGED portVars
    BY <1>2, <1>3, <1>9 DEF portVars, threadVars
  <1>10. QED
    BY <1>4, <1>5, <1>6, <1>7, <1>8, <1>9
       DEF PortNext, Write, WriteFileFails

(* The host has what it had, and a line more when a buffer is taken.       *)
LEMMA ReachedAppend ==
    ASSUME PortTypeOK, NEW l \in LineType, host' = Append(host, l)
    PROVE  /\ Len(host) \in Nat /\ Len(host') = Len(host) + 1
           /\ host'[Len(host) + 1] = l
           /\ \A i \in 1..Len(host) : host'[i] = host[i]
           /\ \A t \in Threads : \A n \in Nat :
                  Reached(t, n)' <=> Reached(t, n) \/ l.of = <<t, n>>
  <1>1. /\ Len(host) \in Nat /\ Len(host') = Len(host) + 1
        /\ host'[Len(host) + 1] = l
        /\ \A i \in 1..Len(host) : host'[i] = host[i]
    BY DEF PortTypeOK
  <1>2. QED
    BY <1>1 DEF Reached

(* A thread alone reads its own count, and writes again after a failure.   *)
LEMMA ExactNext ==
    ASSUME PortTypeOK, Exact, [PortNext]_portVars
    PROVE  Exact'
  <1> USE PortAssumption DEF PortAssumption
  <1>1. /\ at \in [Threads -> {"idle", "call", "wait"}]
        /\ started \in [Threads -> Nat]
        /\ whole \in [Threads -> Nat] /\ unsent \in [Threads -> Nat]
        /\ \A t \in Threads : unsent[t] <= whole[t]
        /\ \A t \in Threads : at[t] # "idle" => unsent[t] > 0 /\ started[t] > 0
        /\ shared \in BOOLEAN
    BY DEF PortTypeOK
  <1> SUFFICES ASSUME ~shared'
               PROVE  Exact'
    BY DEF Exact
  <1>2. ~shared
    BY <1>1 DEF PortNext, portVars, Write, BeginWrite, WriteFile,
                WriteFileFails, GetResult, Completes, DeviceChanges, Touches
  <1>3. /\ \A t, u \in Threads : Waiting(t) /\ Waiting(u) => t = u
        /\ \A t \in Threads : at[t] # "idle" => unsent[t] = whole[t]
        /\ (\A t \in Threads : ~Waiting(t)) => issued = <<>>
        /\ \A t \in Threads : Waiting(t) => WaitsForItsOwn(t)
        /\ \A i \in 1..Len(host) : host[i].from = 0
        /\ \A t \in Threads : \A n \in Nat : Reached(t, n) =>
               n <= started[t] /\ (n = started[t] => Delivered(t))
        /\ \A i, j \in 1..Len(host) : i # j => host[i].of # host[j].of
        /\ \A t \in Threads : \A n \in 1..started[t] :
               Returned(t, n) => Reached(t, n)
    BY <1>2 DEF Exact
  <1>4. ASSUME UNCHANGED host
        PROVE  /\ \A u \in Threads : \A n \in Nat :
                      Reached(u, n)' <=> Reached(u, n)
               /\ \A i \in 1..Len(host') : host'[i].from = 0
               /\ \A i, j \in 1..Len(host') :
                      i # j => host'[i].of # host'[j].of
    BY <1>3, <1>4 DEF Reached
  <1>5. ASSUME NEW t \in Threads, NEW s \in Lengths, BeginWrite(t, s)
        PROVE  Exact'
    <2>1. /\ at[t] = "idle" /\ at'[t] = "call"
          /\ started'[t] = started[t] + 1
          /\ whole'[t] = s /\ unsent'[t] = s
          /\ \A u \in Threads \ {t} :
                 /\ at'[u] = at[u] /\ started'[u] = started[u]
                 /\ whole'[u] = whole[u] /\ unsent'[u] = unsent[u]
          /\ issued' = issued /\ ovrlpd' = ovrlpd /\ host' = host
      BY <1>1, <1>5 DEF BeginWrite
    <2>2. \A u \in Threads : Waiting(u)' <=> Waiting(u)
      BY <2>1 DEF Waiting
    <2>3. \A u \in Threads : Waiting(u)' => WaitsForItsOwn(u)'
      <3>1. ASSUME NEW u \in Threads, Waiting(u)
            PROVE  WaitsForItsOwn(u)'
        <4>1. u # t
          BY <2>1, <3>1 DEF Waiting
        <4>2. Reached(u, started[u])' <=> Reached(u, started[u])
          BY <2>1, <4>1 DEF Reached
        <4>3. WaitsForItsOwn(u)
          BY <1>3, <3>1
        <4>4. QED
          BY <2>1, <4>1, <4>2, <4>3 DEF WaitsForItsOwn, Line, Reached
      <3>2. QED
        BY <2>2, <3>1
    <2>4. ASSUME NEW u \in Threads, NEW n \in Nat, Reached(u, n)'
          PROVE  n <= started'[u] /\ (n = started'[u] => Delivered(u)')
      <3>1. n <= started[u] /\ (n = started[u] => Delivered(u))
        BY <1>3, <1>4, <2>1, <2>4
      <3>2. CASE u = t
        BY <1>1, <2>1, <3>1, <3>2
      <3>3. CASE u # t
        BY <1>1, <2>1, <3>1, <3>3 DEF Delivered, Waiting
      <3>4. QED
        BY <3>2, <3>3
    <2>5. ASSUME NEW u \in Threads, NEW n \in 1..started'[u],
                 Returned(u, n)'
          PROVE  Reached(u, n)'
      <3>1. n \in 1..started[u] /\ Returned(u, n)
        BY <1>1, <2>1, <2>5 DEF Returned
      <3>2. QED
        BY <1>1, <1>3, <1>4, <2>1, <3>1
    <2>6. \A u \in Threads : at'[u] # "idle" => unsent'[u] = whole'[u]
      BY <1>3, <2>1
    <2>7. QED
      BY <1>3, <1>4, <2>1, <2>2, <2>3, <2>4, <2>5, <2>6 DEF Exact
  <1>6. ASSUME NEW t \in Threads, WriteFile(t)
        PROVE  Exact'
    <2>1. /\ at[t] = "call" /\ at'[t] = "wait" /\ unsent[t] = whole[t]
          /\ \A u \in Threads \ {t} : at'[u] = at[u]
          /\ started' = started /\ whole' = whole /\ unsent' = unsent
          /\ ovrlpd' = Pending /\ host' = host
          /\ issued' = Append(issued, Line(t, whole[t] - unsent[t]))
      BY <1>1, <1>3, <1>6 DEF WriteFile
    <2>2. \A u \in Threads : ~Waiting(u)
      BY <1>6, <2>1 DEF WriteFile, Touches, Waiting
    <2>3. issued' = <<Line(t, 0)>>
      <3>1. whole[t] - unsent[t] = 0 /\ issued = <<>>
        BY <1>1, <1>3, <2>1, <2>2
      <3>2. QED
        BY <2>1, <3>1
    <2>4. \A u \in Threads : Waiting(u)' <=> u = t
      BY <2>1, <2>2 DEF Waiting
    <2>5. WaitsForItsOwn(t)'
      BY <2>1, <2>3 DEF WaitsForItsOwn, Line
    <2>6. ASSUME NEW u \in Threads, NEW n \in Nat, Reached(u, n)'
          PROVE  n <= started'[u] /\ (n = started'[u] => Delivered(u)')
      <3>1. n <= started[u] /\ (n = started[u] => Delivered(u))
        BY <1>3, <1>4, <2>1, <2>6
      <3>2. Delivered(u) <=> at[u] = "idle"
        BY <2>2 DEF Delivered
      <3>3. QED
        BY <1>1, <2>1, <3>1, <3>2 DEF Delivered
    <2>7. ASSUME NEW u \in Threads, NEW n \in 1..started'[u],
                 Returned(u, n)'
          PROVE  Reached(u, n)'
      <3>1. n \in 1..started[u] /\ Returned(u, n)
        BY <1>1, <2>1, <2>7 DEF Returned
      <3>2. QED
        BY <1>1, <1>3, <1>4, <2>1, <3>1
    <2>8. \A u \in Threads : at'[u] # "idle" => unsent'[u] = whole'[u]
      BY <1>3, <2>1
    <2>9. QED
      BY <1>3, <1>4, <2>1, <2>4, <2>5, <2>6, <2>7, <2>8 DEF Exact
  <1>7. ASSUME NEW t \in Threads, WriteFileFails(t)
        PROVE  Exact'
    <2>1. /\ at[t] = "call" /\ at' = at
          /\ started' = started /\ whole' = whole /\ unsent' = unsent
          /\ host' = host /\ issued' = issued
      BY <1>7 DEF WriteFileFails, threadVars
    <2>2. \A u \in Threads : ~Waiting(u) /\ ~Waiting(u)'
      BY <1>7, <2>1 DEF WriteFileFails, Touches, Waiting
    <2>3. \A u \in Threads : Delivered(u)' <=> Delivered(u)
      BY <2>1, <2>2 DEF Delivered
    <2>4. \A u \in Threads : \A n \in 1..started[u] :
              Returned(u, n)' <=> Returned(u, n)
      BY <2>1 DEF Returned
    <2>5. QED
      BY <1>1, <1>3, <1>4, <2>1, <2>2, <2>3, <2>4 DEF Exact
  <1>8. ASSUME NEW t \in Threads, GetResult(t)
        PROVE  Exact'
    <2>1. /\ Waiting(t) /\ ovrlpd # Pending
          /\ unsent[t] = whole[t] /\ whole[t] > 0 /\ started[t] \in Nat
          /\ unsent'[t] = Rest(t)
          /\ at'[t] = IF Rest(t) = 0 THEN "idle" ELSE "call"
          /\ \A u \in Threads \ {t} : at'[u] = at[u] /\ unsent'[u] = unsent[u]
          /\ started' = started /\ whole' = whole
          /\ ovrlpd' = ovrlpd /\ host' = host /\ issued' = issued
      BY <1>1, <1>3, <1>8 DEF GetResult, Waiting
    <2>2. /\ issued = <<>>
          /\ \/ ovrlpd = 0 /\ Rest(t) = unsent[t]
             \/ ovrlpd = whole[t] /\ Reached(t, started[t]) /\ Rest(t) = 0
      <3>1. /\ issued = <<>>
            /\ ovrlpd = 0 \/ (ovrlpd = whole[t] /\ Reached(t, started[t]))
        BY <1>3, <2>1 DEF WaitsForItsOwn, Failure
      <3>2. QED
        BY <1>1, <2>1, <3>1 DEF Rest
    <2>3. \A u \in Threads : ~Waiting(u)'
      BY <1>3, <2>1 DEF Waiting
    <2>4. \A u \in Threads : at'[u] # "idle" => unsent'[u] = whole'[u]
      BY <1>1, <1>3, <2>1, <2>2
    <2>5. ASSUME NEW u \in Threads, NEW n \in Nat, Reached(u, n)'
          PROVE  n <= started'[u] /\ (n = started'[u] => Delivered(u)')
      <3>1. n <= started[u] /\ (n = started[u] => Delivered(u))
        BY <1>3, <1>4, <2>1, <2>5
      <3>2. CASE u = t
        BY <1>1, <2>1, <2>2, <3>1, <3>2 DEF Delivered, Waiting
      <3>3. CASE u # t
        BY <1>3, <2>1, <3>1, <3>3 DEF Delivered
      <3>4. QED
        BY <3>2, <3>3
    <2>6. ASSUME NEW u \in Threads, NEW n \in 1..started'[u],
                 Returned(u, n)'
          PROVE  Reached(u, n)'
      <3>1. CASE u = t /\ n = started[t]
        <4>1. Rest(t) = 0
          BY <1>1, <2>1, <2>6, <3>1 DEF Returned
        <4>2. Reached(t, started[t])
          BY <1>1, <2>1, <2>2, <4>1
        <4>3. QED
          BY <1>4, <2>1, <3>1, <4>2
      <3>2. CASE ~(u = t /\ n = started[t])
        <4>1. n \in 1..started[u] /\ Returned(u, n)
          BY <1>1, <2>1, <2>6, <3>2 DEF Returned
        <4>2. QED
          BY <1>1, <1>3, <1>4, <2>1, <4>1
      <3>3. QED
        BY <3>1, <3>2
    <2>7. QED
      BY <1>4, <2>1, <2>2, <2>3, <2>4, <2>5, <2>6 DEF Exact
  <1>9. CASE Completes
    <2>1. /\ issued # <<>> /\ issued' = Tail(issued)
          /\ at' = at /\ started' = started
          /\ whole' = whole /\ unsent' = unsent
      BY <1>9 DEF Completes, threadVars
    <2>2. PICK t \in Threads : Waiting(t)
      BY <1>3, <2>1
    <2>3. issued = <<Line(t, 0)>>
      BY <1>3, <2>1, <2>2 DEF WaitsForItsOwn
    <2>4. issued' = <<>> /\ Head(issued) = Line(t, 0)
      BY <2>1, <2>3
    <2>5. /\ Line(t, 0) \in LineType /\ Line(t, 0).from = 0
          /\ Line(t, 0).of = <<t, started[t]>> /\ Line(t, 0).length = whole[t]
      <3>1. whole[t] - unsent[t] = 0 /\ unsent[t] = whole[t]
        BY <1>1, <1>3, <2>2 DEF Waiting
      <3>2. QED
        BY <3>1, LineIsLine
    <2>6. ~Reached(t, started[t])
      BY <1>1, <1>3, <2>1, <2>2 DEF Delivered, Waiting
    <2>7. \A u \in Threads : Waiting(u) => u = t
      BY <1>3, <2>2
    <2>8. \A u \in Threads : Waiting(u)' <=> u = t
      BY <2>1, <2>2, <2>7 DEF Waiting
    <2>9. \A u \in Threads : at[u] = "idle" => u # t
      BY <2>2 DEF Waiting
    <2>10. CASE down
      <3>1. ovrlpd' = Failure /\ host' = host
        BY <1>9, <2>10 DEF Completes
      <3>2. WaitsForItsOwn(t)'
        BY <2>4, <3>1 DEF WaitsForItsOwn
      <3>3. ASSUME NEW u \in Threads, NEW n \in Nat, Reached(u, n)'
            PROVE  n <= started'[u] /\ (n = started'[u] => Delivered(u)')
        <4>1. n <= started[u] /\ (n = started[u] => Delivered(u))
          BY <1>3, <1>4, <3>1, <3>3
        <4>2. Delivered(u) <=> at[u] = "idle"
          BY <2>1 DEF Delivered
        <4>3. QED
          BY <2>1, <4>1, <4>2 DEF Delivered
      <3>4. ASSUME NEW u \in Threads, NEW n \in 1..started'[u],
                   Returned(u, n)'
            PROVE  Reached(u, n)'
        <4>1. n \in 1..started[u] /\ Returned(u, n)
          BY <2>1, <3>4 DEF Returned
        <4>2. QED
          BY <1>1, <1>3, <1>4, <3>1, <4>1
      <3>5. QED
        BY <1>3, <1>4, <2>1, <2>4, <2>8, <3>1, <3>2, <3>3, <3>4 DEF Exact
    <2>11. CASE ~down
      <3>1. ovrlpd' = whole[t] /\ host' = Append(host, Line(t, 0))
        BY <1>9, <2>4, <2>5, <2>11 DEF Completes
      <3>2. /\ Len(host) \in Nat /\ Len(host') = Len(host) + 1
            /\ host'[Len(host) + 1] = Line(t, 0)
            /\ \A i \in 1..Len(host) : host'[i] = host[i]
            /\ \A u \in Threads : \A n \in Nat :
                   Reached(u, n)'
                       <=> Reached(u, n) \/ <<t, started[t]>> = <<u, n>>
        BY <2>5, <3>1, ReachedAppend
      <3>3. Reached(t, started[t])'
        BY <2>1, <2>5, <3>2 DEF Reached
      <3>4. WaitsForItsOwn(t)' /\ Delivered(t)'
        BY <2>1, <2>2, <2>4, <3>1, <3>3 DEF WaitsForItsOwn, Delivered,
                                            Waiting, Reached
      <3>5. ASSUME NEW u \in Threads, NEW n \in Nat, Reached(u, n)'
            PROVE  n <= started'[u] /\ (n = started'[u] => Delivered(u)')
        <4>1. CASE u = t
          BY <1>1, <1>3, <2>1, <3>2, <3>4, <3>5, <4>1
        <4>2. CASE u # t
          <5>1. n <= started[u] /\ (n = started[u] => Delivered(u))
            BY <1>3, <3>2, <3>5, <4>2
          <5>2. Delivered(u) <=> at[u] = "idle"
            BY <2>1 DEF Delivered
          <5>3. QED
            BY <2>1, <5>1, <5>2 DEF Delivered
        <4>3. QED
          BY <4>1, <4>2
      <3>6. ASSUME NEW u \in Threads, NEW n \in 1..started'[u],
                   Returned(u, n)'
            PROVE  Reached(u, n)'
        <4>1. n \in 1..started[u] /\ Returned(u, n)
          BY <2>1, <3>6 DEF Returned
        <4>2. QED
          BY <1>1, <1>3, <3>2, <4>1
      <3>7. \A i \in 1..Len(host') : host'[i].from = 0
        BY <1>3, <2>5, <3>2
      <3>8. \A i, j \in 1..Len(host') : i # j => host'[i].of # host'[j].of
        <4>1. \A i \in 1..Len(host) : host[i].of # <<t, started[t]>>
          BY <2>6 DEF Reached
        <4>2. QED
          BY <1>3, <2>5, <3>2, <4>1
      <3>9. QED
        BY <1>3, <2>1, <2>4, <2>8, <3>4, <3>5, <3>6, <3>7, <3>8 DEF Exact
    <2>12. QED
      BY <2>10, <2>11
  <1>10. CASE DeviceChanges \/ UNCHANGED portVars
    <2>1. /\ at' = at /\ started' = started /\ whole' = whole
          /\ unsent' = unsent /\ issued' = issued /\ ovrlpd' = ovrlpd
          /\ host' = host
      BY <1>10 DEF DeviceChanges, portVars, threadVars
    <2>2. QED
      BY <1>3, <2>1 DEF Exact, Waiting, WaitsForItsOwn, Line, Reached,
                        Delivered, Returned
  <1>11. QED
    BY <1>5, <1>6, <1>7, <1>8, <1>9, <1>10 DEF PortNext, Write

(* A thread that writes alone gives every line whole and once, and no      *)
(* line is lost while either nothing is shared or nothing fails.           *)
LEMMA PortCorrect == PortSpec => []PortInv
  <1>1. PortInv /\ [PortNext]_portVars => PortInv'
    BY PortTypeNext, NoneLostNext, ExactNext DEF PortInv
  <1>2. QED
    BY <1>1, PortInitInv, PortAssumption, PTL DEF PortSpec

(* Whatever calls fail, as long as no other thread shares the structure,   *)
(* the host gets each line whole and once.                                 *)
THEOREM AloneCorrect == PortSpec => []AloneIsExact
  <1>1. PortInv => AloneIsExact
    <2> SUFFICES ASSUME PortInv, ~shared
                 PROVE  /\ \A l \in Lines : l.from = 0
                        /\ \A i, j \in 1..Len(host) :
                               i # j => host[i].of # host[j].of
      BY DEF AloneIsExact
    <2>1. \A i \in 1..Len(issued) : issued[i].from = 0
      <3>1. CASE \A t \in Threads : ~Waiting(t)
        BY <3>1 DEF PortInv, Exact
      <3>2. ASSUME NEW t \in Threads, Waiting(t)
            PROVE  \A i \in 1..Len(issued) : issued[i].from = 0
        BY <3>2 DEF PortInv, Exact, WaitsForItsOwn, Line
      <3>3. QED
        BY <3>1, <3>2
    <2>2. QED
      BY <2>1 DEF PortInv, Exact, Lines
  <1>2. QED
    BY <1>1, PortCorrect, PTL

(* As long as no failure meets a shared structure, each line of a write()  *)
(* that returned is at the host or with the driver.                        *)
THEOREM ArrivalCorrect == PortSpec => []EveryLineArrives
  <1>1. PortInv => EveryLineArrives
    <2> SUFFICES ASSUME PortInv, Clean, NEW t \in Threads,
                        NEW n \in 1..started[t], Returned(t, n)
                 PROVE  \E l \in Lines : l.of = <<t, n>> /\ l.from = 0
      BY DEF EveryLineArrives
    <2>1. CASE ~failed
      BY <2>1 DEF PortInv, NoneLost, Returned, Arrived
    <2>2. CASE ~shared
      <3>1. Reached(t, n) /\ \A i \in 1..Len(host) : host[i].from = 0
        BY <2>2 DEF PortInv, Exact
      <3>2. QED
        BY <3>1 DEF Reached, Lines
    <2>3. QED
      BY <2>1, <2>2 DEF Clean
  <1>2. QED
    BY <1>1, PortCorrect, PTL

=============================================================================
