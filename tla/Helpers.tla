------------------------------- MODULE Helpers -------------------------------
(***************************************************************************)
(* The helper functions of the credential provider (Helpers.cpp): each as  *)
(* an operator of its arguments and of the set of calls that fail in it.   *)
(* A result is the HRESULT, what comes out, and the memory blocks that are *)
(* allocated and not freed when the function returns.                      *)
(***************************************************************************)
EXTENDS Integers, Sequences

CONSTANTS
  NULL,
  MaxUShort,   \* 65535
  LogonSize    \* sizeof(KERB_INTERACTIVE_UNLOCK_LOGON), a multiple of WChar

WChar == 2     \* sizeof(wchar_t)

Result(hr, out, live) == [hr |-> hr, out |-> out, live |-> live]

If(condition, set) == IF condition THEN set ELSE {}

\* What is left of the blocks that were allocated when some have been freed.
Left(allocated, freed) == allocated \ freed

\* The descriptor of a field and its label, both allocated for the caller.
FieldDescriptorLeaky(label, fails) ==
  LET struct == "struct" \notin fails
      dup == struct /\ label # NULL /\ "label" \notin fails
      ok == struct /\ (label = NULL \/ dup)
  IN  Result(IF ok THEN "S_OK" ELSE "E_OUTOFMEMORY", IF ok THEN label ELSE NULL,
             Left(If(struct, {"struct"}) \cup If(dup, {"label"}), {}))

FieldDescriptorCoAllocCopy(label, fails) ==
  LET struct == "struct" \notin fails
      dup == struct /\ label # NULL /\ "label" \notin fails
      ok == struct /\ (label = NULL \/ dup)
  IN  Result(IF ok THEN "S_OK" ELSE "E_OUTOFMEMORY", IF ok THEN label ELSE NULL,
             Left(If(struct, {"struct"}) \cup If(dup, {"label"}), If(~ok, {"struct"})))

\* Only the label is allocated, and the caller's structure kept on failure.
FieldDescriptorCopy(label, fails) ==
  LET ok == label = NULL \/ "label" \notin fails
  IN  Result(IF ok THEN "S_OK" ELSE "E_OUTOFMEMORY", IF ok THEN label ELSE NULL,
             If(ok /\ label # NULL, {"label"}))

(***************************************************************************)
(* A counted string: its length in bytes is a 16-bit number.               *)
(***************************************************************************)
EmptyString == [Length |-> 0, MaximumLength |-> 0, Buffer |-> <<>>]

UnicodeStringWrapping(s) ==
  IF s = NULL THEN Result("E_INVALIDARG", EmptyString, {})
  ELSE LET bytes == (Len(s) * WChar) % (MaxUShort + 1)
       IN  Result("S_OK", [Length |-> bytes, MaximumLength |-> bytes, Buffer |-> s], {})

UnicodeStringInitWithString(s) ==
  IF s = NULL THEN Result("E_INVALIDARG", EmptyString, {})
  ELSE IF Len(s) > MaxUShort \/ Len(s) * WChar > MaxUShort THEN Result("overflow", EmptyString, {})
  ELSE Result("S_OK", [Length |-> Len(s) * WChar, MaximumLength |-> Len(s) * WChar, Buffer |-> s], {})

MessageType(cpus) ==
  CASE cpus = "CPUS_LOGON" -> "KerbInteractiveLogon"
    [] cpus = "CPUS_UNLOCK_WORKSTATION" -> "KerbWorkstationUnlockLogon"
    [] OTHER -> "0"

\* The three strings by reference, and the type of message for the scenario.
KerbInteractiveUnlockLogonInit(domain, user, password, cpus) ==
  LET d == UnicodeStringInitWithString(domain)
      u == UnicodeStringInitWithString(user)
      p == UnicodeStringInitWithString(password)
      logon == [MessageType |-> MessageType(cpus), Domain |-> d.out, User |-> u.out, Password |-> p.out]
  IN  IF d.hr # "S_OK" THEN Result(d.hr, NULL, {})
      ELSE IF u.hr # "S_OK" THEN Result(u.hr, NULL, {})
      ELSE IF p.hr # "S_OK" THEN Result(p.hr, NULL, {})
      ELSE IF cpus \notin {"CPUS_LOGON", "CPUS_UNLOCK_WORKSTATION", "CPUS_CREDUI"} THEN Result("E_FAIL", NULL, {})
      ELSE Result("S_OK", logon, {})

(***************************************************************************)
(* The packed form: the structure and, behind it, the characters of the    *)
(* three strings.  A string's buffer is its offset in bytes.               *)
(***************************************************************************)
PackedCopy(string, offset) ==
  [Length |-> string.Length, MaximumLength |-> string.Length, Buffer |-> offset]

Bytes(logon) == LogonSize + logon.Domain.Length + logon.User.Length + logon.Password.Length

KerbInteractiveUnlockLogonPack(logon, fails) ==
  LET atUser == LogonSize + logon.Domain.Length
      packed == [MessageType |-> logon.MessageType,
                 Domain |-> PackedCopy(logon.Domain, LogonSize),
                 User |-> PackedCopy(logon.User, atUser),
                 Password |-> PackedCopy(logon.Password, atUser + logon.User.Length),
                 characters |-> logon.Domain.Buffer \o logon.User.Buffer \o logon.Password.Buffer,
                 cb |-> Bytes(logon)]
  IN  IF "blob" \in fails THEN Result("E_OUTOFMEMORY", NULL, {})
      ELSE Result("S_OK", packed, {"blob"})

\* Back to pointers, if the offsets are in the buffer.  A pointer is the
\* position of the first character behind the structure.
Inside(string, cb) == string.Buffer + string.MaximumLength <= cb

Pointer(string) ==
  [string EXCEPT !.Buffer = IF string.Buffer = 0 THEN NULL ELSE ((string.Buffer - LogonSize) \div WChar) + 1]

KerbInteractiveUnlockLogonUnpackInPlace(packed, cb) ==
  IF /\ LogonSize <= cb
     /\ Inside(packed.Domain, cb) /\ Inside(packed.User, cb) /\ Inside(packed.Password, cb)
  THEN [packed EXCEPT !.Domain = Pointer(@), !.User = Pointer(@), !.Password = Pointer(@)]
  ELSE packed

\* What the reader of an unpacked string finds.
Characters(unpacked, string) ==
  SubSeq(unpacked.characters, string.Buffer, string.Buffer + (string.Length \div WChar) - 1)

\* The LSA's name of the package; the maximum counts the NUL, in 16 bits.
LsaInitString(name) ==
  IF Len(name) > MaxUShort THEN Result("overflow", EmptyString, {})
  ELSE Result("S_OK", [Length |-> Len(name), MaximumLength |-> (Len(name) + 1) % (MaxUShort + 1),
                       Buffer |-> name], {})

RetrieveNegotiateAuthPackage(fails) ==
  LET connected == "connect" \notin fails
      found == connected /\ LsaInitString(<<"Negotiate">>).hr = "S_OK" /\ "lookup" \notin fails
  IN  Result(IF found THEN "S_OK" ELSE "status", IF found THEN "package" ELSE NULL, {})
-----------------------------------------------------------------------------
(***************************************************************************)
(* Passwords.  CredProtect is called for the length first, then for the    *)
(* encrypted string.                                                       *)
(***************************************************************************)
Encrypted(password) == [encrypted |-> password]

ProtectAndCopyString(password, fails) ==
  LET copy == "copy" \notin fails
      sized == copy /\ "size" \notin fails
      room == sized /\ "room" \notin fails
      ok == room /\ "protect" \notin fails
  IN  Result(CASE ok -> "S_OK"
               [] copy /\ ~sized -> "E_UNEXPECTED"
               [] room /\ ~ok -> "GetLastError"
               [] OTHER -> "E_OUTOFMEMORY",
             IF ok THEN Encrypted(password) ELSE NULL,
             Left(If(copy, {"copy"}) \cup If(room, {"protected"}), {"copy"} \cup If(~ok, {"protected"})))

\* An empty password, one that is encrypted already and one for CredUI are copied.
ProtectIfNecessaryAndCopyPassword(password, encrypted, cpus, fails) ==
  IF password \in {NULL, <<>>}
  THEN IF "empty" \in fails THEN Result("E_OUTOFMEMORY", NULL, {}) ELSE Result("S_OK", <<>>, {"empty"})
  ELSE IF "const" \in fails THEN Result("E_OUTOFMEMORY", NULL, {})
  ELSE LET r == IF cpus # "CPUS_CREDUI" /\ ~encrypted THEN ProtectAndCopyString(password, fails)
                ELSE IF "plain" \in fails THEN Result("E_OUTOFMEMORY", NULL, {})
                ELSE Result("S_OK", IF encrypted THEN Encrypted(password) ELSE password, {"plain"})
       IN  Result(r.hr, r.out, Left({"const"} \cup r.live, {"const"}))

\* "domain\user" with room for the NUL.
DomainUsernameStringAlloc(domain, user, fails) ==
  LET room == "room" \notin fails
      ok == room /\ "print" \notin fails
  IN  Result(CASE ok -> "S_OK" [] room /\ ~ok -> "print" [] OTHER -> "E_OUTOFMEMORY",
             IF ok THEN domain \o <<"backslash">> \o user ELSE NULL,
             Left(If(room, {"room"}), If(~ok, {"room"})))

\* A failed second unpacking leaves an error code that is not a failure, and
\* the repacking goes on with strings that were never written; a failed second
\* packing leaves a pointer to memory that has been freed.
KerbInteractiveUnlockLogonRepackNative(fails) ==
  LET name == fails \cap {"size", "name"} = {}
      strings == name /\ "secret" \notin fails
      blob == strings /\ fails \cap {"room", "blob"} = {}
      ok == blob /\ "pack" \notin fails
  IN  Result(IF ok THEN "S_OK" ELSE "E_OUTOFMEMORY",
             CASE ok -> (IF "unpack" \in fails THEN "never_written" ELSE "native")
               [] blob /\ ~ok -> "freed"
               [] OTHER -> NULL,
             Left(If(name, {"name"}) \cup If(strings, {"secret"}) \cup If(blob, {"blob"}),
                  {"name", "secret"} \cup If(~ok, {"blob"})))
=============================================================================
