------------------------------- MODULE U2FCore -------------------------------
(***************************************************************************)
(* One request through u2f::Core (src/core.cpp): the APDU is parsed, a     *)
(* buffer as large as the host expects is allocated, a handler writes its  *)
(* answer there, and the status word goes after it.  Stores, keys and the  *)
(* user are any outcome here; U2FToken and UserPresence are about which.   *)
(*                                                                         *)
(* A step is a stage of the call, from one exit to the next.  An access    *)
(* past the buffer is undefined: alive becomes FALSE and the model says no *)
(* more.  Sizes of hashes, keys and certificates are parameters; bytes are *)
(* bytes.  SHA-256 is the string it is given, so that two inputs have the  *)
(* same hash when they are the same.                                       *)
(*                                                                         *)
(* Where a definition stands right before another one with the same        *)
(* parameters, the first is the second with a mistake in it: the checks    *)
(* are run with it in turn to see that a property notices.                 *)
(***************************************************************************)
EXTENDS DerSignature

CONSTANTS
  RawRequests,   \* the payloads of MSG commands considered
  HashSize,      \* 32
  PublicKeySize, \* 65
  MaxHandleSize, \* 255
  PublicKeys,    \* keys and handles that enroll() may make
  Handles,
  Certificate,   \* the attestation certificate
  Numbers,       \* numbers that a signature may consist of
  Counters,      \* values of authCounter
  Leftovers,     \* what an unwritten signature may claim as its size
  WordMod        \* values of a uint32_t (2^32)

SizeMod == 256 * 256   \* values of a size in an APDU, and of a uint16_t

\* The size that a certificate's own header says.
CertificateSize(bytes) == 4 + 256 * bytes[3] + bytes[4]

LongestSignature == 2 * IntSize + 8
LongestAnswer == 2 + PublicKeySize + MaxHandleSize + Len(Certificate) + LongestSignature

ASSUME CoreAssumption ==
  /\ RawRequests \subseteq Seq(Byte)
  /\ HashSize \in Nat \ {0} /\ PublicKeySize \in Nat \ {0} /\ MaxHandleSize \in Byte
  /\ PublicKeys \subseteq Seq(Byte) /\ \A k \in PublicKeys : Len(k) = PublicKeySize
  /\ Handles \subseteq Seq(Byte) /\ \A h \in Handles : Len(h) <= MaxHandleSize
  /\ Certificate \in Seq(Byte) /\ Len(Certificate) >= 4
  /\ CertificateSize(Certificate) = Len(Certificate)
  /\ LongestAnswer + 255 < SizeMod - 2
  /\ Numbers \subseteq Number
  /\ Counters \subseteq Nat
  /\ Leftovers \subseteq Byte
  /\ WordMod \in Nat /\ WordMod > SizeMod
  /\ \A raw \in RawRequests : Len(raw) < WordMod

NO_ERROR == "no error"
CONDITIONS_NOT_SATISFIED == "conditions not satisfied"
WRONG_DATA == "wrong data"
WRONG_LENGTH == "wrong length"
CLA_NOT_SUPPORTED == "class not supported"
INS_NOT_SUPPORTED == "instruction not supported"
StatusWords == {NO_ERROR, CONDITIONS_NOT_SATISFIED, WRONG_DATA, WRONG_LENGTH,
                CLA_NOT_SUPPORTED, INS_NOT_SUPPORTED}

INS_REGISTER == 1
INS_AUTHENTICATE == 2
INS_VERSION == 3

AUTH_CHECK_ONLY == 7
AUTH_ENFORCE_USER_SIGN == 3
AUTH_DONT_ENFORCE_USER_SIGN == 8
Controls == {AUTH_CHECK_ONLY, AUTH_ENFORCE_USER_SIGN, AUTH_DONT_ENFORCE_USER_SIGN}

U2F_V2 == <<85, 50, 70, 95, 86, 50>>

VARIABLES
  pc,
  rawRequest,
  read,          \* how much of it has been looked at: nothing beyond the first read bytes
  requestSize,
  capacity,      \* the response size that the host asked for; the buffer has two bytes more
  responseSize,
  response,      \* the bytes of the buffer that have been written
  hash,          \* the string whose hash is to be signed
  numbers,       \* what its signature consists of, once there is one
  status,
  alive          \* FALSE once a byte past the buffer has been used

vars == <<pc, rawRequest, read, requestSize, capacity, responseSize, response, hash, numbers,
          status, alive>>

\* What the host is told, once pc is "answered": so many bytes, the status in the last two.
rawResponseSize == responseSize + 2

\* The size that sendResponse() sends, a uint16_t.
SentSize == rawResponseSize % SizeMod

NotSigned == <<>>
SigningFailed == <<0>>
HasSigned == numbers \notin {NotSigned, SigningFailed}

Receive ==
  /\ pc = "idle"
  /\ rawRequest' \in RawRequests
  /\ pc' = "parse"
  /\ UNCHANGED <<read, requestSize, capacity, responseSize, response, hash, numbers, status, alive>>

\* The answer has been sent, or the refusal, and the response is deleted.
Forget ==
  /\ pc \in {"refused", "answered"}
  /\ pc' = "idle"
  /\ rawRequest' = <<>> /\ read' = 0 /\ requestSize' = 0 /\ capacity' = 0 /\ responseSize' = 0
  /\ response' = <<>> /\ hash' = <<>> /\ numbers' = NotSigned
  /\ status' = NO_ERROR
  /\ UNCHANGED alive

-----------------------------------------------------------------------------
(* processRawAdpu().  Offsets are those of the code. *)

RawByte(i) == rawRequest[i + 1]
RawSize(i) == 256 * RawByte(i) + RawByte(i + 1)
rawRequestSize == Len(rawRequest)

\* A difference of two uint32_t.
Minus(a, b) == (a - b) % WordMod

ExpectedAsIs(size) == size
Expected(size) == IF size = 0 THEN SizeMod ELSE size

\* The request was found to have that many bytes of data, and the host to expect so many.
Parsed(size, expected, last) ==
  /\ pc' = "process"
  /\ requestSize' = size
  /\ capacity' = expected /\ responseSize' = expected
  /\ read' = last
  /\ UNCHANGED <<rawRequest, response, hash, numbers, status, alive>>

\* The four forms of an APDU.
Bare == rawRequestSize = 4
SizeOnly == rawRequestSize = 7 /\ RawByte(4) = 0
WithData == rawRequestSize > 7 /\ RawByte(4) = 0
DataOnly == WithData /\ RawSize(5) = Minus(rawRequestSize, 7)
DataAndSize == WithData /\ RawSize(5) = Minus(rawRequestSize, 9)

ParseBare == pc = "parse" /\ Bare /\ Parsed(0, 0, 4)
ParseSizeOnly == pc = "parse" /\ SizeOnly /\ Parsed(0, Expected(RawSize(5)), 7)
ParseDataOnly == pc = "parse" /\ DataOnly /\ Parsed(RawSize(5), 0, 7)
ParseDataAndSize ==
  /\ pc = "parse" /\ ~DataOnly /\ DataAndSize
  /\ Parsed(RawSize(5), Expected(RawSize(7 + RawSize(5))), 9 + RawSize(5))

\* The call returns false; the byte 4 and the size have been looked at if they are there.
Refuse ==
  /\ pc = "parse" /\ ~Bare /\ ~SizeOnly /\ ~DataOnly /\ ~DataAndSize
  /\ pc' = "refused"
  /\ read' = IF WithData THEN 7 ELSE IF rawRequestSize >= 7 THEN 5 ELSE 0
  /\ UNCHANGED <<rawRequest, requestSize, capacity, responseSize, response, hash, numbers, status, alive>>

-----------------------------------------------------------------------------
(* processRequest() and the handlers. *)

Data(from, size) == SubSeq(rawRequest, 8 + from, 7 + from + size)
challengeHash == Data(0, HashSize)
applicationHash == Data(HashSize, HashSize)

\* The first size bytes of the buffer may be written.
FitsWithoutStatus(size) == size <= capacity
Fits(size) == size <= capacity + 2

\* The first size bytes of the data have been looked at, the header in any case.
ReadData(size) == read' = IF 7 + size > read THEN 7 + size ELSE read

\* The call goes on at label, with body in the buffer and size as responseSize.
Step(label, body, size) ==
  /\ pc' = label
  /\ response' = body
  /\ responseSize' = size
  /\ UNCHANGED <<rawRequest, requestSize, capacity, alive>>

Return(sw, body, size) == Step("status", body, size) /\ status' = sw

ErrorKeepsSize(sw) == Return(sw, response, responseSize) /\ UNCHANGED <<hash, numbers>>
Error(sw) == Return(sw, response, 0) /\ UNCHANGED <<hash, numbers>>

\* Something is written, or read, past the buffer.
Overrun ==
  /\ pc' = "dead" /\ alive' = FALSE
  /\ UNCHANGED <<rawRequest, read, requestSize, capacity, responseSize, response, hash, numbers, status>>

WrongClass == pc = "process" /\ RawByte(0) # 0 /\ Error(CLA_NOT_SUPPORTED) /\ UNCHANGED read

Instruction(ins) == pc = "process" /\ RawByte(0) = 0 /\ RawByte(1) = ins

UnknownInstruction ==
  /\ pc = "process" /\ RawByte(0) = 0
  /\ RawByte(1) \notin {INS_REGISTER, INS_AUTHENTICATE, INS_VERSION}
  /\ Error(INS_NOT_SUPPORTED) /\ UNCHANGED read

VersionWithoutRoom ==
  /\ Instruction(INS_VERSION) /\ responseSize < Len(U2F_V2)
  /\ Error(WRONG_LENGTH) /\ UNCHANGED read

VersionKeepsSize ==
  /\ Instruction(INS_VERSION) /\ responseSize >= Len(U2F_V2)
  /\ Return(NO_ERROR, U2F_V2, responseSize) /\ UNCHANGED <<read, hash, numbers>>
Version ==
  /\ Instruction(INS_VERSION) /\ responseSize >= Len(U2F_V2)
  /\ Return(NO_ERROR, U2F_V2, Len(U2F_V2)) /\ UNCHANGED <<read, hash, numbers>>

-----------------------------------------------------------------------------
(* processRegisterRequest(). *)

RegisterWrongLength ==
  /\ Instruction(INS_REGISTER) /\ requestSize # 2 * HashSize
  /\ Error(WRONG_LENGTH) /\ UNCHANGED read

\* The reserved byte is written, and enroll() gets references to what comes after it.
Register ==
  /\ Instruction(INS_REGISTER) /\ requestSize = 2 * HashSize
  /\ Step("enroll", <<5>>, 2 + PublicKeySize)
  /\ UNCHANGED <<read, hash, numbers, status>>

\* What enroll() writes, a part at a time when it fails on the way.
Enrolled(k, h) == k \o <<Len(h)>> \o h

EnrollFails ==
  /\ pc = "enroll"
  /\ \E k \in PublicKeys, h \in Handles :
       \E part \in 0 .. Len(Enrolled(k, h)) :
         Fits(1 + part)
  /\ ReadData(2 * HashSize)
  /\ Error(CONDITIONS_NOT_SATISFIED)

ToHashSwapped(k, h) == <<0>> \o challengeHash \o applicationHash \o h \o k
ToHash(k, h) == <<0>> \o applicationHash \o challengeHash \o h \o k

\* It succeeds, and the certificate is appended.
Enroll ==
  /\ pc = "enroll"
  /\ \E k \in PublicKeys, h \in Handles :
       /\ Fits(Len(response \o Enrolled(k, h) \o Certificate))
       /\ Step("sign", response \o Enrolled(k, h) \o Certificate, responseSize + Len(h) + Len(Certificate))
       /\ hash' = ToHash(k, h)
  /\ ReadData(2 * HashSize)
  /\ UNCHANGED <<numbers, status>>

EnrollOverruns ==
  /\ pc = "enroll"
  /\ \E k \in PublicKeys, h \in Handles : ~Fits(Len(response \o Enrolled(k, h) \o Certificate))
  /\ Overrun

-----------------------------------------------------------------------------
(* processAuthenticationRequest(). *)

control == RawByte(2)
handleSize == RawByte(7 + 2 * HashSize)

WrongControl ==
  /\ Instruction(INS_AUTHENTICATE) /\ control \notin Controls
  /\ Error(WRONG_DATA) /\ UNCHANGED read

AuthenticateTooShort ==
  /\ Instruction(INS_AUTHENTICATE) /\ control \in Controls
  /\ requestSize < 2 * HashSize + 1
  /\ Error(WRONG_LENGTH) /\ UNCHANGED read

\* The handle's size may be looked at, but does not fit the data.
AuthenticateWrongLength ==
  /\ Instruction(INS_AUTHENTICATE) /\ control \in Controls
  /\ requestSize >= 2 * HashSize + 1
  /\ requestSize # handleSize + 2 * HashSize + 1
  /\ ReadData(2 * HashSize + 1)
  /\ Error(WRONG_LENGTH)

HandleFollowsUnchecked ==
  /\ Instruction(INS_AUTHENTICATE) /\ control \in Controls
  /\ requestSize >= 2 * HashSize + 1
HandleFollows ==
  /\ Instruction(INS_AUTHENTICATE) /\ control \in Controls
  /\ requestSize >= 2 * HashSize + 1
  /\ requestSize = handleSize + 2 * HashSize + 1

ReadHandle == ReadData(2 * HashSize + 1 + handleSize)

\* authenticate() does not find the handle, or fails.
InvalidHandle == HandleFollows /\ ReadHandle /\ Error(WRONG_DATA)

\* It looks for the user unless only a check is wanted; nobody was there, or it was one.
UserNotPresent ==
  /\ HandleFollows /\ ReadHandle
  /\ control \in {AUTH_CHECK_ONLY, AUTH_ENFORCE_USER_SIGN}
  /\ Error(CONDITIONS_NOT_SATISFIED)

\* The four bytes of authCounter.
CounterBytesUncut(c) == <<c \div 16777216, c \div 65536, c \div 256, c>>
CounterBytes(c) == <<(c \div 16777216) % 256, (c \div 65536) % 256, (c \div 256) % 256, c % 256>>

Authenticate ==
  /\ HandleFollows /\ ReadHandle
  /\ control # AUTH_CHECK_ONLY
  /\ \E present \in IF control = AUTH_ENFORCE_USER_SIGN THEN {1} ELSE {0, 1}, c \in Counters :
       LET body == <<present>> \o CounterBytes(c) IN
       /\ Fits(Len(body))
       /\ Step("sign", body, Len(body))
       /\ hash' = applicationHash \o body \o challengeHash
  /\ UNCHANGED <<numbers, status>>

AuthenticateOverruns ==
  /\ HandleFollows /\ control # AUTH_CHECK_ONLY
  /\ ~Fits(5)
  /\ Overrun

-----------------------------------------------------------------------------
(* Both end with a signature, after what is in the buffer. *)

Sign ==
  /\ pc = "sign"
  /\ \E r \in Numbers, s \in Numbers :
       /\ Fits(responseSize + Len(Wrapped(r, s)))
       /\ Return(NO_ERROR, response \o Wrapped(r, s), responseSize + SignatureSize(Wrapped(r, s)))
       /\ numbers' = <<r, s>>
  /\ UNCHANGED <<read, hash>>

\* The result of sign() is not looked at: when it fails, the size is computed from a byte
\* that nobody has written.
SignFails ==
  /\ pc = "sign"
  /\ Fits(responseSize + 2)
  /\ \E leftover \in Leftovers : Return(NO_ERROR, response, responseSize + ((leftover + 2) % 256))
  /\ numbers' = SigningFailed
  /\ UNCHANGED <<read, hash>>

SignOverruns ==
  /\ pc = "sign"
  /\ \/ ~Fits(responseSize + 2)
     \/ \E r \in Numbers, s \in Numbers : ~Fits(responseSize + Len(Wrapped(r, s)))
  /\ Overrun

\* processRawAdpu() appends the status word.
RoomForStatus == Fits(responseSize + 2)

AppendStatus ==
  /\ pc = "status" /\ RoomForStatus
  /\ pc' = "answered"
  /\ UNCHANGED <<rawRequest, read, requestSize, capacity, responseSize, response, hash, numbers, status, alive>>

StatusOverruns == pc = "status" /\ ~RoomForStatus /\ Overrun

-----------------------------------------------------------------------------
Init ==
  /\ pc = "idle"
  /\ rawRequest = <<>> /\ read = 0 /\ requestSize = 0 /\ capacity = 0 /\ responseSize = 0
  /\ response = <<>> /\ hash = <<>> /\ numbers = NotSigned
  /\ status = NO_ERROR
  /\ alive = TRUE

Parse == ParseBare \/ ParseSizeOnly \/ ParseDataOnly \/ ParseDataAndSize \/ Refuse
ProcessRequest == WrongClass \/ UnknownInstruction \/ VersionWithoutRoom \/ Version
ProcessRegister == RegisterWrongLength \/ Register \/ EnrollFails \/ Enroll \/ EnrollOverruns
ProcessAuthenticate ==
  \/ WrongControl \/ AuthenticateTooShort \/ AuthenticateWrongLength
  \/ InvalidHandle \/ UserNotPresent \/ Authenticate \/ AuthenticateOverruns
Finish == Sign \/ SignFails \/ SignOverruns \/ AppendStatus \/ StatusOverruns

Next == Receive \/ Forget \/ Parse \/ ProcessRequest \/ ProcessRegister \/ ProcessAuthenticate \/ Finish

Spec == Init /\ [][Next]_vars

-----------------------------------------------------------------------------
Labels == {"idle", "parse", "refused", "process", "enroll", "sign", "status", "answered", "dead"}

TypeOK ==
  /\ pc \in Labels
  /\ rawRequest \in Seq(Byte)
  /\ read \in Nat /\ requestSize \in 0 .. SizeMod - 1 /\ capacity \in 0 .. SizeMod
  /\ responseSize \in 0 .. SizeMod
  /\ response \in Seq(Byte) /\ hash \in Seq(Byte)
  /\ numbers \in {NotSigned, SigningFailed} \cup (Number \X Number)
  /\ status \in StatusWords
  /\ alive \in BOOLEAN

\* An APDU as ISO 7816-4 writes it, in its extended form; the host expects no answer when
\* size is 0.  The core also takes a request with the size of its data spelled out as 0.
TwoBytes(n) == <<(n \div 256) % 256, n % 256>>
SizeExpected(size) == IF size = 0 THEN <<>> ELSE TwoBytes(size)
WithSizes(header, data, size) == header \o <<0>> \o TwoBytes(Len(data)) \o data \o SizeExpected(size)
Encoded(header, data, size) ==
  IF data # <<>> THEN WithSizes(header, data, size)
  ELSE IF size = 0 THEN header ELSE header \o <<0>> \o SizeExpected(size)

\* What is accepted is an encoding of the data and of the size that the handlers are given;
\* what is refused encodes no data whose size fits its two bytes (processRawAdpu(),
\* core.cpp:24-70).
ParseInverts ==
  LET header == SubSeq(rawRequest, 1, 4)
      last == rawRequestSize - 2
  IN  /\ pc = "process" =>
           rawRequest \in {Encoded(header, Data(0, requestSize), capacity),
                          WithSizes(header, Data(0, requestSize), capacity)}
      /\ pc = "refused" /\ rawRequestSize >= 4 =>
           ~\E n \in {0} \cup 1 .. rawRequestSize - 7, size \in {0, Expected(RawSize(last))} :
              n < SizeMod /\ rawRequest = Encoded(header, Data(0, n), size)

\* No byte is looked at beyond the end of the request, whatever the sizes in it say: that of
\* its data (core.cpp:56-63), and that of the handle in the data (core.cpp:200-211).
ReadsInRequest == read <= Len(rawRequest)

\* No byte of the buffer that nobody has written is sent: an error is two bytes, on each of
\* the paths that end in one, and an answer ends where its signature does (core.cpp:72-78).
OnlyWrittenSent ==
  pc = "answered" =>
    /\ status # NO_ERROR => responseSize = 0
    /\ status = NO_ERROR /\ numbers # SigningFailed => responseSize = Len(response)

\* The size of an answer survives the uint16_t of sendResponse(), although the size the host
\* asks for may not (core.cpp:50, hid.cpp:249 and 295).
SentWhole == pc = "answered" => SentSize = rawResponseSize

\* A host that asks for as much as the longest answer never makes the core write past its
\* buffer, as long as signatures are made (core.cpp:72 and 130-179, 228-247).
RoomSuffices == capacity >= LongestAnswer /\ numbers # SigningFailed => alive

\* What a host makes of an answer.  It finds each part by the sizes that are in the answer.
HostKey == SubSeq(response, 2, 1 + PublicKeySize)
HostHandleSize == response[2 + PublicKeySize]
HostHandle == SubSeq(response, 3 + PublicKeySize, 2 + PublicKeySize + HostHandleSize)
HostAfterHandle == SubSeq(response, 3 + PublicKeySize + HostHandleSize, responseSize)
HostCertificate == SubSeq(HostAfterHandle, 1, CertificateSize(HostAfterHandle))
HostRegisterSignature == SubSeq(HostAfterHandle, CertificateSize(HostAfterHandle) + 1, Len(HostAfterHandle))
HostAuthenticateSignature == SubSeq(response, 6, responseSize)

Verifies(signature, data) ==
  /\ signature[1] = SEQUENCE /\ signature[2] = Len(signature) - 2
  /\ ReadsAs(FirstNumber(signature), numbers[1])
  /\ ReadsAs(SecondNumber(signature), numbers[2])
  /\ data = hash

\* The signature of an answer is found where the sizes in the answer say, reads as the two
\* numbers that were computed, and is about what the host sent and what it reads
\* (core.cpp:132-179 and 228-247, crypto.cpp:84-117).
HostVerifies ==
  pc = "answered" /\ HasSigned =>
    IF RawByte(1) = INS_REGISTER
    THEN /\ HostCertificate = Certificate
         /\ Verifies(HostRegisterSignature,
                     <<0>> \o applicationHash \o challengeHash \o HostHandle \o HostKey)
    ELSE Verifies(HostAuthenticateSignature,
                  applicationHash \o SubSeq(response, 1, 5) \o challengeHash)

\* "Wraps the key in a ... DER container" (crypto.cpp:85): an INTEGER of DER has no byte more
\* than it needs.
SignatureIsDER ==
  pc = "answered" /\ HasSigned /\ RawByte(1) = INS_AUTHENTICATE =>
    /\ Minimal(FirstNumber(HostAuthenticateSignature))
    /\ Minimal(SecondNumber(HostAuthenticateSignature))
===============================================================================
