--------------------------- MODULE VirtIoChannel ---------------------------
(***************************************************************************)
(* The framing of messages on the virtio-serial port, one JSON object per  *)
(* line: VirtIoChannel and VirtIoStream of VirtIoChannel.py, and the       *)
(* Windows port of WinFile.py.                                             *)
(*                                                                         *)
(* Both directions are streams of pieces; a line is a run of pieces that   *)
(* ends with the one holding the newline.  Towards the host several        *)
(* threads write, without a lock, and the port may take any part of a      *)
(* buffer.  From the host only the listener reads, in chunks that do not   *)
(* respect lines.                                                          *)
(***************************************************************************)
EXTENDS Integers, Sequences, FiniteSets

CONSTANTS
    Writers,       \* the threads that may write
    Settings,      \* how the port behaves, and who writes, in this instance
    Sizes,         \* possible lengths of a line, in pieces
    ReadSize,      \* most pieces one read returns (4096 bytes in the code)
    MaxMessages,   \* bound: messages each thread writes, at most
    HostLines,     \* bound: lines the host writes, at most
    MaxErrors      \* bound: write calls that fail, at most

(* writers: the threads that write in this behaviour; atLeast: the port    *)
(* takes at least so many pieces of the buffer it is given, or all of it;  *)
(* messages, lines and errors: bounds of this behaviour.                   *)
Setting ==
    [writers : SUBSET Writers, atLeast : Nat \ {0}, messages : 0..MaxMessages,
     lines : 0..HostLines, errors : 0..MaxErrors]

ASSUME ChannelAssumption ==
    /\ Settings \subseteq Setting
    /\ Sizes \subseteq Nat \ {0}
    /\ ReadSize \in Nat \ {0}
    /\ {MaxMessages, HostLines, MaxErrors} \subseteq Nat

(* A line of the host is a command or not even JSON (ok = FALSE).          *)
Id == (Writers \X (1..MaxMessages) \X BOOLEAN)
      \cup ({"host"} \X (1..HostLines) \X BOOLEAN)

Piece == [id : Id, part : Nat, last : BOOLEAN]

(* json.dumps(args) + '\n', cut into pieces. *)
Encode(id, size) ==
    [p \in 1..size |-> [id |-> id, part |-> p, last |-> p = size]]

VARIABLES
    setting,
    written,     \* how many messages each thread has started to write
    rest,        \* the local `message` of each write(): what is left of it
    toHost,      \* pieces in the port, not yet read by the host
    hostBuffer,  \* what the host read since the last newline
    hostGot,     \* the lines the host has split off, as sequences of pieces
    toAgent,     \* pieces in the port, not yet read by the agent
    buffer,      \* VirtIoChannel._buffer
    parsed,      \* the commands handed to parseCommand, oldest first
    hostWrote,   \* history: the lines the host has written, oldest first
    errors       \* counter of its bound

sendVars == <<written, rest, toHost, errors>>
hostVars == <<hostBuffer, hostGot>>
readVars == <<toAgent, buffer, parsed, hostWrote>>
vars == <<setting, sendVars, hostVars, readVars>>

Init ==
    /\ setting \in Settings
    /\ written = [t \in Writers |-> 0]
    /\ rest = [t \in Writers |-> <<>>]
    /\ toHost = <<>> /\ hostBuffer = <<>> /\ hostGot = <<>>
    /\ toAgent = <<>> /\ buffer = <<>> /\ parsed = <<>> /\ hostWrote = <<>>
    /\ errors = 0

-----------------------------------------------------------------------------
(* Towards the host.                                                       *)

Drop(n, s) == SubSeq(s, n + 1, Len(s))

(* write() serialises the message; the loop over os.write then starts.     *)
StartWrite(t, size) ==
    /\ t \in setting.writers
    /\ rest[t] = <<>>
    /\ written[t] < setting.messages
    /\ written' = [written EXCEPT ![t] = @ + 1]
    /\ rest' = [rest EXCEPT ![t] = Encode(<<t, written[t] + 1, TRUE>>, size)]
    /\ UNCHANGED <<setting, toHost, errors, hostVars, readVars>>

(* Slip: the loop keeps one piece too few.                                 *)
WriteSomeSkipping(t, n) ==
    /\ rest[t] # <<>>
    /\ n \in 1..Len(rest[t])
    /\ n >= setting.atLeast \/ n = Len(rest[t])
    /\ toHost' = toHost \o SubSeq(rest[t], 1, n)
    /\ rest' = [rest EXCEPT ![t] = Drop(n + 1, @)]
    /\ UNCHANGED <<setting, written, errors, hostVars, readVars>>

(* One turn of the loop: the port takes n pieces, the loop keeps the rest. *)
WriteSome(t, n) ==
    /\ rest[t] # <<>>
    /\ n \in 1..Len(rest[t])
    /\ n >= setting.atLeast \/ n = Len(rest[t])
    /\ toHost' = toHost \o SubSeq(rest[t], 1, n)
    /\ rest' = [rest EXCEPT ![t] = Drop(n, @)]
    /\ UNCHANGED <<setting, written, errors, hostVars, readVars>>

(* A write call fails.  os.write raises, which abandons the loop with the  *)
(* pieces already written left in the port; WinFile.write logs it and      *)
(* returns 0, so that the loop tries the same buffer again (no change).    *)
WriteFails(t) ==
    /\ rest[t] # <<>>
    /\ errors < setting.errors
    /\ errors' = errors + 1
    /\ rest' = [rest EXCEPT ![t] = <<>>]
    /\ UNCHANGED <<setting, written, toHost, hostVars, readVars>>

(* The host takes the next piece and splits off a line at its newline.     *)
HostReads ==
    /\ toHost # <<>>
    /\ toHost' = Tail(toHost)
    /\ LET line == Append(hostBuffer, Head(toHost))
       IN  IF Head(toHost).last
           THEN hostGot' = Append(hostGot, line) /\ hostBuffer' = <<>>
           ELSE hostBuffer' = line /\ UNCHANGED hostGot
    /\ UNCHANGED <<setting, written, rest, errors, readVars>>

-----------------------------------------------------------------------------
(* From the host.                                                          *)

HostWrites(ok, size) ==
    /\ Len(hostWrote) < setting.lines
    /\ LET id == <<"host", Len(hostWrote) + 1, ok>>
       IN  /\ toAgent' = toAgent \o Encode(id, size)
           /\ hostWrote' = Append(hostWrote, id)
    /\ UNCHANGED <<setting, sendVars, hostVars, buffer, parsed>>

HasNewline(s) == \E i \in 1..Len(s) : s[i].last

FirstNewline(s) ==
    CHOOSE i \in 1..Len(s) : s[i].last /\ \A j \in 1..(i - 1) : ~s[j].last

(* _readbuffer, called while _buffer holds no newline: n pieces are there. *)
(* With nothing to read it sleeps, which is no step.                       *)
ReadBuffer(n) ==
    /\ ~HasNewline(buffer)
    /\ n \in 1..ReadSize
    /\ n <= Len(toAgent)
    /\ buffer' = buffer \o SubSeq(toAgent, 1, n)
    /\ toAgent' = Drop(n, toAgent)
    /\ UNCHANGED <<setting, sendVars, hostVars, parsed, hostWrote>>

(* Slip: what follows the newline in the buffer is thrown away.            *)
ReadLineForgetful ==
    /\ HasNewline(buffer)
    /\ LET cut == FirstNewline(buffer)
           line == SubSeq(buffer, 1, cut)
       IN  /\ buffer' = <<>>
           /\ parsed' = IF line = Encode(line[1].id, cut) /\ line[1].id[3]
                        THEN Append(parsed, line[1].id) ELSE parsed
    /\ UNCHANGED <<setting, sendVars, hostVars, toAgent, hostWrote>>

(* _readline splits at the first newline and _parseLine decodes the line;  *)
(* doListen hands what decodes to parseCommand and ignores the rest.       *)
ReadLine ==
    /\ HasNewline(buffer)
    /\ LET cut == FirstNewline(buffer)
           line == SubSeq(buffer, 1, cut)
       IN  /\ buffer' = Drop(cut, buffer)
           /\ parsed' = IF line = Encode(line[1].id, cut) /\ line[1].id[3]
                        THEN Append(parsed, line[1].id) ELSE parsed
    /\ UNCHANGED <<setting, sendVars, hostVars, toAgent, hostWrote>>

-----------------------------------------------------------------------------
Send(t) == \E n \in 1..Len(rest[t]) : WriteSome(t, n)

Listen == ReadLine \/ \E n \in 1..ReadSize : ReadBuffer(n)

Next ==
    \/ \E t \in Writers, size \in Sizes : StartWrite(t, size)
    \/ \E t \in Writers : Send(t) \/ WriteFails(t)
    \/ HostReads
    \/ \E ok \in BOOLEAN, size \in Sizes : HostWrites(ok, size)
    \/ Listen

Spec == Init /\ [][Next]_vars

(* The loop of write() goes on, the host drains the port, the listener     *)
(* keeps reading.                                                          *)
FairSpec ==
    /\ Spec
    /\ \A t \in Writers : WF_vars(Send(t))
    /\ WF_vars(HostReads)
    /\ WF_vars(Listen)

-----------------------------------------------------------------------------
(* Properties.                                                             *)

(* The type invariant.                                                     *)
TypeOK ==
    /\ setting \in Settings
    /\ written \in [Writers -> 0..MaxMessages]
    /\ rest \in [Writers -> Seq(Piece)]
    /\ {toHost, hostBuffer, toAgent, buffer} \subseteq Seq(Piece)
    /\ hostGot \in Seq(Seq(Piece))
    /\ parsed \in Seq(Id) /\ hostWrote \in Seq(Id)
    /\ errors \in 0..MaxErrors

(* The messages whose newlines are in stream s, in their order.            *)
Newlines(s) == {i \in 1..Len(s) : s[i].last}
Nth(N, k) == CHOOSE i \in N : Cardinality({j \in N : j <= i}) = k
Complete(s) ==
    LET N == Newlines(s)
    IN  [k \in 1..Cardinality(N) |-> s[Nth(N, k)].id]

(* A line the host can decode: all pieces of one message, in order.        *)
Intact(line) == line = Encode(line[1].id, Len(line))

Garbled == <<>>

(* The tests decode every line the agent writes; so does the host.  With   *)
(* one thread writing, or a port that takes every line in one call, every  *)
(* line is one message, except that a write that fails leaves the start of *)
(* its line in the port, which spoils the line that follows: one failure   *)
(* never spoils two lines, and none spoils a line without an error.        *)
DamageIsBounded ==
    Cardinality({i \in 1..Len(hostGot) : ~Intact(hostGot[i])}) <= errors

(* The framing of the detailed channel implements the abstract one as long *)
(* as no write fails: the queue is the messages whose newline is on its    *)
(* way.  (A port that fails is DamageIsBounded's; it promises nothing.)    *)
Whole == setting.errors = 0

Abstract ==
    INSTANCE LineChannel WITH
        Message <- Writers \X (1..MaxMessages) \X {TRUE},
        queue <- IF Whole THEN Complete(hostBuffer \o toHost) ELSE <<>>,
        got <- IF Whole
               THEN [i \in 1..Len(hostGot) |->
                       IF Intact(hostGot[i]) THEN hostGot[i][1].id ELSE Garbled]
               ELSE <<>>

ImplementsLineChannel == Abstract!FairSpec

Decodable(id) == id[3]

(* Whatever chunks the reads return and wherever undecodable lines sit in  *)
(* between, every command the host writes is handed to parseCommand in the *)
(* end, in the host's order and none twice.                                *)
EveryCommandParsed ==
    (hostWrote # <<>>) ~> (parsed = SelectSeq(hostWrote, Decodable))
=============================================================================
