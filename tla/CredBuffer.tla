----------------------------- MODULE CredBuffer ------------------------------
(***************************************************************************)
(* The buffer in which the agent hands credentials over, and the three     *)
(* programs that read it: the PAM module from its socket, the credential   *)
(* provider and the GINA stub from their pipe.  Strings are sequences of   *)
(* bytes; the length in front of them takes Header bytes.                  *)
(***************************************************************************)
EXTENDS Naturals, Sequences

CONSTANTS
  NULL,
  PamBuffer,   \* 0x100
  PipeBuffer,  \* 1024
  Accounts,    \* the user names getpwnam knows
  Garbage      \* strings that memory which was never written may hold

Header == 4
NUL == "nul"

\* What login() of the agent packs: the length of the name, the name, the
\* password and the NUL that struct.pack pads it with.
PackCredentials(user, password) ==
  [length |-> Len(user), bytes |-> user \o password \o <<NUL>>]

Size(message) == Header + Len(message.bytes)

\* The string that begins at a byte: it ends before the first NUL.
CString(s) ==
  LET nuls == {i \in DOMAIN s : s[i] = NUL}
  IN  IF nuls = {} THEN s
      ELSE SubSeq(s, 1, (CHOOSE i \in nuls : \A j \in nuls : i <= j) - 1)

UserOf(message) == CString(SubSeq(message.bytes, 1, message.length))
PasswordOf(message) == CString(SubSeq(message.bytes, message.length + 1, Len(message.bytes)))

\* The name up to its first "@", and what is behind it.
Ats(user) == {i \in DOMAIN user : user[i] = "@"}
FirstAt(user) == CHOOSE i \in Ats(user) : \A j \in Ats(user) : i <= j
LocalPart(user) == IF Ats(user) = {} THEN user ELSE SubSeq(user, 1, FirstAt(user) - 1)
DomainPart(user) == IF Ats(user) = {} THEN NULL ELSE SubSeq(user, FirstAt(user) + 1, Len(user))
-----------------------------------------------------------------------------
(***************************************************************************)
(* The readers.  Each gives the set of results the message may have; a     *)
(* result with ok = FALSE is no credentials at all.                        *)
(***************************************************************************)
Nothing == [ok |-> FALSE, user |-> <<>>, domain |-> NULL, password |-> <<>>]

\* A stream socket: recv takes as much as there is room for.
Received(message) ==
  IF Size(message) <= PamBuffer THEN message
  ELSE [message EXCEPT !.bytes = SubSeq(message.bytes, 1, PamBuffer - Header)]

\* A name that is an account without its domain loses the domain.
NoDomain(user) ==
  IF Ats(user) # {} /\ LocalPart(user) \in Accounts THEN LocalPart(user) ELSE user

\* A name that was cut off is read on into memory that was never written.
parse_credentials_buffer(message) ==
  LET m == Received(message)
  IN  IF m.length > Len(m.bytes)
      THEN {[ok |-> TRUE, user |-> NoDomain(m.bytes \o g), domain |-> NULL, password |-> h] :
              g \in Garbage, h \in Garbage}
      ELSE {[ok |-> TRUE, user |-> NoDomain(UserOf(m)), domain |-> NULL, password |-> PasswordOf(m)]}

\* The PAM module hands the name over only if it is the one of the session it
\* shall unlock, where there is such a session, and the password after it.
pam_sm_authenticate(credentials, preset, fails) ==
  CASE ~credentials.ok -> "PAM_USER_UNKNOWN"
    [] credentials.ok /\ preset \notin {NULL, credentials.user} /\ "get" \notin fails -> "PAM_CRED_UNAVAIL"
    [] OTHER -> IF fails \cap {"user", "authtok"} # {} THEN "error" ELSE "PAM_SUCCESS"

\* A pipe of messages: one that is too long is an error.
Fits(message) == Size(message) <= PipeBuffer

ParseCredentialsBuffer(message) ==
  LET user == UserOf(message)  password == PasswordOf(message)
  IN  IF ~Fits(message) \/ user = <<>> \/ password = <<>> THEN {Nothing}
      ELSE {[ok |-> TRUE, user |-> LocalPart(user), domain |-> DomainPart(user), password |-> password]}

\* The listener of the GINA takes the length of the password too large by the
\* length field's own size and copies beyond the message: the password ends at
\* its NUL all the same.
GinaPasswordLength(message) == Size(message) - message.length - 1

\* Behind what it read the listener writes a NUL, and there is no room for it when
\* the buffer is full: the byte behind the buffer is changed, and the program that
\* the listener is part of may end of it before anyone has the credentials.
WrittenBehind(message) == Size(message) = PipeBuffer

GinaResults(message, password) ==
  IF ~Fits(message) THEN {Nothing}
  ELSE {[ok |-> TRUE, user |-> UserOf(message), domain |-> NULL, password |-> password]}
       \cup (IF WrittenBehind(message) THEN {Nothing} ELSE {})

ThreadFuncShort(message) ==
  LET n == GinaPasswordLength(message) - Header - 1
  IN  GinaResults(message, CString(SubSeq(message.bytes, message.length + 1, message.length + n)))

ThreadFunc(message) ==
  LET beyond == message.bytes \o <<NUL, NUL, NUL, NUL>>
      n == GinaPasswordLength(message)
  IN  GinaResults(message, CString(SubSeq(beyond, message.length + 1, message.length + n)))
=============================================================================
