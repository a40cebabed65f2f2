---------------------------- MODULE Serialization ----------------------------
(***************************************************************************)
(* The way of credentials from the agent's login command to those who log  *)
(* a user on: packed by the agent, read by the PAM module, the GINA stub   *)
(* or the credential provider, and packed by the last again for the local  *)
(* security authority (LSA), which unpacks it.  The other helper functions *)
(* are called on their own.                                                *)
(***************************************************************************)
EXTENDS Helpers

CONSTANTS PamBuffer, PipeBuffer, Accounts, Garbage,
          Users, Passwords,  \* strings the agent is given
          ComputerName,
          Labels,            \* of fields, NULL or a string
          Chars              \* what strings are made of

B == INSTANCE CredBuffer

\* The strings have no NUL in them.
ASSUME StringsAssumption ==
  /\ Users \cup Passwords \cup {ComputerName} \subseteq Seq(Chars)
  /\ B!NUL \notin Chars /\ NULL \notin Seq(Chars)

ASSUME SizesAssumption ==
  {PamBuffer, PipeBuffer, MaxUShort} \subseteq Nat /\ LogonSize \in Nat \ {0}

VARIABLES
  at,       \* how far the credentials are
  given,    \* what the agent was given
  reader,   \* who reads the agent's buffer
  result,   \* what the reader made of it
  packed,   \* the serialization, then unpacked by the LSA
  call      \* the result of another helper function

wayVars == <<at, given, reader, result, packed, call>>

NoCall == Result("none", NULL, {})

WayInit ==
  /\ at = "given"
  /\ given \in [user : Users, password : Passwords]
  /\ reader = "none" /\ result = B!Nothing /\ packed = NULL /\ call = NoCall

Readings(who, message) ==
  CASE who = "pam" -> B!parse_credentials_buffer(message)
    [] who = "credprov" -> B!ParseCredentialsBuffer(message)
    [] who = "gina" -> B!ThreadFunc(message)

Read ==
  /\ at = "given"
  /\ reader' \in {"pam", "credprov", "gina"}
  /\ result' \in Readings(reader', B!PackCredentials(given.user, given.password))
  /\ at' = "read"
  /\ UNCHANGED <<given, packed, call>>

\* A session to unlock has a user, and a login prompt has none.
Authenticate ==
  /\ at = "read" /\ reader = "pam"
  /\ \E preset \in Users \cup {NULL}, fails \in SUBSET {"get", "user", "authtok"} :
       at' = IF B!pam_sm_authenticate(result, preset, fails) = "PAM_SUCCESS" THEN "authenticated" ELSE "refused"
  /\ UNCHANGED <<given, reader, result, packed, call>>

\* A name without "@" gets the computer's name as domain.
SetCredentials ==
  /\ at = "read" /\ reader = "credprov" /\ result.ok
  /\ result' = [result EXCEPT !.domain = IF @ = NULL THEN ComputerName ELSE @]
  /\ at' = "set"
  /\ UNCHANGED <<given, reader, packed, call>>

\* The credential object has a copy of KerbInteractiveUnlockLogonInit for the two
\* scenarios of its own.  When the package is not found, the serialization stays
\* allocated, and LogonUI does not look at it.
GetSerialization ==
  /\ at = "set"
  /\ \E cpus \in {"CPUS_LOGON", "CPUS_UNLOCK_WORKSTATION"}, fails \in SUBSET {"blob", "connect", "lookup"} :
       LET logon == KerbInteractiveUnlockLogonInit(result.domain, result.user, result.password, cpus)
           blob == KerbInteractiveUnlockLogonPack(logon.out, fails)
           done == logon.hr = "S_OK" /\ blob.hr = "S_OK" /\ RetrieveNegotiateAuthPackage(fails).hr = "S_OK"
       IN  /\ packed' = IF done THEN blob.out ELSE NULL
           /\ at' = IF done THEN "packed" ELSE "failed"
  /\ UNCHANGED <<given, reader, result, call>>

Unpack ==
  /\ at = "packed"
  /\ packed' = KerbInteractiveUnlockLogonUnpackInPlace(packed, packed.cb)
  /\ at' = "unpacked"
  /\ UNCHANGED <<given, reader, result, call>>

\* The helpers nothing else here calls, with any set of failing calls.
Called(r) ==
  /\ at = "given" /\ at' = "called" /\ call' = r
  /\ UNCHANGED <<given, reader, result, packed>>

CallHelper ==
  \/ \E label \in Labels, fails \in SUBSET {"struct", "label"} :
       Called(FieldDescriptorCoAllocCopy(label, fails)) \/ Called(FieldDescriptorCopy(label, fails))
  \/ \E encrypted \in BOOLEAN, cpus \in {"CPUS_LOGON", "CPUS_CREDUI"},
        fails \in SUBSET {"empty", "const", "plain", "copy", "size", "room", "protect"} :
       Called(ProtectIfNecessaryAndCopyPassword(given.password, encrypted, cpus, fails))
  \/ \E fails \in SUBSET {"room", "print"} :
       Called(DomainUsernameStringAlloc(ComputerName, given.user, fails))
  \/ \E fails \in SUBSET {"size", "name", "secret", "unpack", "room", "blob", "pack"} :
       Called(KerbInteractiveUnlockLogonRepackNative(fails))

WayNext == Read \/ Authenticate \/ SetCredentials \/ GetSerialization \/ Unpack \/ CallHelper

WaySpec == WayInit /\ [][WayNext]_wayVars
-----------------------------------------------------------------------------
(***************************************************************************)
(* Properties.                                                             *)
(***************************************************************************)
Message == B!PackCredentials(given.user, given.password)

\* A name in two parts is the name in one.
Whole(user, domain) == IF domain = NULL THEN user ELSE user \o <<"@">> \o domain

\* Each reader makes of the buffer what the agent was given, or nothing: the
\* user name whole or, for an account, without its domain, and never a password
\* that was cut off.  It is nothing only if the message is too long for the pipe
\* or just fills the buffer of the GINA, or if a string is empty.  The PAM module
\* reads what was given as long as the message fits its buffer.
ReadAsGiven ==
  at \in {"read", "authenticated"} /\ (reader = "pam" => B!Size(Message) <= PamBuffer) =>
    \/ ~result.ok /\ reader # "pam"
       /\ \/ B!Size(Message) > PipeBuffer \/ given.user = <<>> \/ given.password = <<>>
          \/ reader = "gina" /\ B!WrittenBehind(Message)
    \/ /\ result.ok /\ result.password = given.password
       /\ CASE reader = "gina" -> result.user = given.user
            [] reader = "credprov" -> Whole(result.user, result.domain) = given.user
                                      /\ "@" \notin {result.user[i] : i \in DOMAIN result.user}
            [] reader = "pam" -> \/ result.user = given.user
                                 \/ result.user \in Accounts /\ \E n \in 1 .. Len(given.user) :
                                      result.user \o SubSeq(given.user, n, Len(given.user)) = given.user
                                      /\ given.user[n] = "@"

\* The LSA reads the strings the credential provider packed, whatever their
\* lengths; strings whose length in bytes has no 16-bit number never reach it.
LsaReads ==
  at = "unpacked" =>
    /\ Characters(packed, packed.Domain) = result.domain
    /\ Characters(packed, packed.User) = result.user
    /\ Characters(packed, packed.Password) = result.password

\* A helper function that fails leaves nothing allocated, at whichever call it
\* fails.
NothingLeaks == call.hr \notin {"none", "S_OK"} => call.live = {}
=============================================================================
