---------------------------- MODULE U2FCoreProofs ----------------------------
(***************************************************************************)
(* Theorems about U2FCore: for every request, every outcome of the store   *)
(* and of the signature, and sizes of any value.                           *)
(***************************************************************************)
EXTENDS U2FCore, ModuloLemmas, SequenceTheorems, TLAPS

-----------------------------------------------------------------------------
(* Sizes and sequences. *)

LEMMA ByteFacts ==
  /\ \A n \in Byte : n \in Nat /\ n <= 255
  /\ \A n \in Nat : n <= 255 => n \in Byte
BY DEF Byte

LEMMA CoreSizes ==
  /\ HashSize \in Nat \ {0} /\ PublicKeySize \in Nat \ {0} /\ MaxHandleSize \in Nat
  /\ Len(Certificate) \in Nat /\ IntSize \in Nat /\ IntSize >= 1 /\ IntSize <= 60
  /\ LongestSignature = 2 * IntSize + 8
  /\ LongestAnswer = 2 + PublicKeySize + MaxHandleSize + Len(Certificate) + LongestSignature
  /\ LongestAnswer \in Nat /\ LongestAnswer >= 10 /\ LongestAnswer + 257 < SizeMod
  /\ SizeMod \in Nat
BY CoreAssumption, DerAssumption, LenProperties DEF LongestAnswer, LongestSignature, SizeMod, Byte

\* Two byte strings make one.
LEMMA Concat ==
  ASSUME NEW s \in Seq(Byte), NEW t \in Seq(Byte)
  PROVE  s \o t \in Seq(Byte) /\ Len(s \o t) = Len(s) + Len(t) /\ Len(s) \in Nat /\ Len(t) \in Nat
BY ConcatProperties, LenProperties

\* Two bytes are a string.
LEMMA Pair ==
  ASSUME NEW a \in Byte, NEW b \in Byte
  PROVE  <<a, b>> \in Seq(Byte) /\ Len(<<a, b>>) = 2 /\ <<a, b>>[1] = a /\ <<a, b>>[2] = b
OBVIOUS

\* A number of n bytes is a string of n bytes.
LEMMA NumberIsString ==
  ASSUME NEW n \in Number
  PROVE  n \in Seq(Byte) /\ Len(n) = IntSize /\ n[1] \in Byte
BY DerAssumption, IsASeq DEF Number

\* DerInteger() adds two bytes, or three.
LEMMA DerIntegerSize ==
  ASSUME NEW n \in Number
  PROVE  /\ DerInteger(n) \in Seq(Byte)
         /\ Len(DerInteger(n)) = (IF n[1] >= 128 THEN IntSize + 3 ELSE IntSize + 2)
<1>1. n \in Seq(Byte) /\ Len(n) = IntSize
  BY NumberIsString
<1>2. CASE n[1] >= 128
  <2>1. <<INTEGER, IntSize + 1, 0>> \in Seq(Byte) /\ Len(<<INTEGER, IntSize + 1, 0>>) = 3
    BY DerAssumption DEF INTEGER, Byte
  <2>2. QED
    BY <1>1, <1>2, <2>1, Concat, DerAssumption DEF DerInteger
<1>3. CASE ~(n[1] >= 128)
  <2>1. <<INTEGER, IntSize>> \in Seq(Byte) /\ Len(<<INTEGER, IntSize>>) = 2
    BY DerAssumption DEF INTEGER, Byte
  <2>2. QED
    BY <1>1, <1>3, <2>1, Concat, DerAssumption DEF DerInteger
<1>4. QED
  BY <1>2, <1>3

\* A header that says how much follows.
LEMMA HeaderSize ==
  ASSUME NEW body \in Seq(Byte), Len(body) <= 126
  PROVE  /\ <<SEQUENCE, Len(body)>> \o body \in Seq(Byte)
         /\ Len(<<SEQUENCE, Len(body)>> \o body) = 2 + Len(body)
         /\ (<<SEQUENCE, Len(body)>> \o body)[1] = SEQUENCE
         /\ (<<SEQUENCE, Len(body)>> \o body)[2] = Len(body)
<1>1. Len(body) \in Nat
  BY LenProperties
<1>2. SEQUENCE \in Byte
  BY DEF SEQUENCE, Byte
<1>3. Len(body) \in Byte
  BY <1>1, ByteFacts
<1>4. Len(body) \in Byte /\ SEQUENCE \in Byte
  BY <1>2, <1>3
<1>5. PICK header \in Seq(Byte) : /\ header = <<SEQUENCE, Len(body)>> /\ Len(header) = 2
                                 /\ header[1] = SEQUENCE /\ header[2] = Len(body)
  BY <1>4, Pair
<1>6. /\ header \o body \in Seq(Byte) /\ Len(header \o body) = 2 + Len(body)
      /\ (header \o body)[1] = header[1] /\ (header \o body)[2] = header[2]
  BY <1>5, ConcatProperties, LenProperties
<1>7. QED
  BY <1>5, <1>6

\* What sign() writes has the size that signatureSize() reads off it, and a bound.
LEMMA WrappedSize ==
  ASSUME NEW r \in Number, NEW s \in Number
  PROVE  /\ Wrapped(r, s) \in Seq(Byte)
         /\ Len(Wrapped(r, s)) \in Nat /\ Len(Wrapped(r, s)) <= LongestSignature
         /\ SignatureSize(Wrapped(r, s)) = Len(Wrapped(r, s))
<1>1. PICK body \in Seq(Byte) : /\ body = DerInteger(r) \o DerInteger(s)
                               /\ Len(body) \in Nat /\ Len(body) <= 2 * IntSize + 6 /\ Len(body) <= 126
  <2>1. /\ DerInteger(r) \in Seq(Byte) /\ Len(DerInteger(r)) \in {IntSize + 2, IntSize + 3}
        /\ DerInteger(s) \in Seq(Byte) /\ Len(DerInteger(s)) \in {IntSize + 2, IntSize + 3}
    BY DerIntegerSize
  <2>2. /\ DerInteger(r) \o DerInteger(s) \in Seq(Byte)
        /\ Len(DerInteger(r) \o DerInteger(s)) = Len(DerInteger(r)) + Len(DerInteger(s))
    BY <2>1, Concat
  <2>3. /\ Len(DerInteger(r) \o DerInteger(s)) \in Nat
        /\ Len(DerInteger(r) \o DerInteger(s)) <= 2 * IntSize + 6
        /\ Len(DerInteger(r) \o DerInteger(s)) <= 126
    BY <2>1, <2>2, DerAssumption
  <2>4. QED
    BY <2>2, <2>3
<1>2. Wrapped(r, s) = <<SEQUENCE, Len(body)>> \o body
  BY <1>1 DEF Wrapped
<1>3. /\ Wrapped(r, s) \in Seq(Byte) /\ Len(Wrapped(r, s)) = 2 + Len(body)
      /\ Wrapped(r, s)[2] = Len(body)
  BY <1>1, <1>2, HeaderSize
<1>4. SignatureSize(Wrapped(r, s)) = Len(body) + 2
  BY <1>1, <1>3 DEF SignatureSize
<1>5. QED
  BY <1>1, <1>3, <1>4, DerAssumption DEF LongestSignature

\* Whatever the two numbers, sign() writes bytes, signatureSize() reads their count off the
\* second of them without a wrap of its uint8_t (crypto.cpp:117), and with numbers of 32 bytes
\* they fit the type Signature, which has 73 (crypto.h:10).
THEOREM SignatureFits ==
  ASSUME NEW r \in Number, NEW s \in Number
  PROVE  /\ Wrapped(r, s) \in Seq(Byte)
         /\ SignatureSize(Wrapped(r, s)) = Len(Wrapped(r, s))
         /\ IntSize = 32 => Len(Wrapped(r, s)) <= 73
<1>1. /\ Wrapped(r, s) \in Seq(Byte)
      /\ Len(Wrapped(r, s)) \in Nat /\ Len(Wrapped(r, s)) <= LongestSignature
      /\ SignatureSize(Wrapped(r, s)) = Len(Wrapped(r, s))
  BY WrappedSize, Zenon
<1>2. IntSize = 32 => LongestSignature = 72
  BY DEF LongestSignature
<1>3. QED
  BY <1>1, <1>2

-----------------------------------------------------------------------------
(* The invariant. *)

\* The data that was found in the request is in it.
DataInRequest ==
  /\ pc = "parse" => Len(rawRequest) < WordMod
  /\ pc \in {"process", "enroll", "sign", "status", "answered"} => Len(rawRequest) >= 4
  /\ pc \in {"process", "enroll"} => requestSize = 0 \/ 7 + requestSize <= Len(rawRequest)
  /\ pc = "enroll" => requestSize = 2 * HashSize

\* Nothing has been read of a request that has not come.
Idle == pc \in {"idle", "parse"} => read = 0

\* How much of the buffer each stage has filled.
Filled ==
  /\ pc \notin {"status", "answered", "dead"} => numbers = NotSigned /\ status = NO_ERROR
  /\ pc = "process" => responseSize = capacity
  /\ pc = "enroll" => response = <<5>> /\ responseSize = 2 + PublicKeySize
  /\ pc = "sign" => responseSize = Len(response) /\ responseSize <= LongestAnswer - LongestSignature
  /\ pc \in {"status", "answered"} =>
       /\ status # NO_ERROR => responseSize = 0
       /\ numbers # SigningFailed => responseSize <= LongestAnswer
       /\ status = NO_ERROR /\ numbers # SigningFailed => responseSize = Len(response)
       /\ responseSize <= LongestAnswer + 255

CoreInv ==
  /\ TypeOK
  /\ Idle
  /\ ReadsInRequest
  /\ DataInRequest
  /\ Filled
  /\ pc # "dead" => alive
  /\ RoomSuffices

LEMMA InitCore == Init => CoreInv
<1> SUFFICES ASSUME Init PROVE CoreInv
  OBVIOUS
<1>1. <<>> \in Seq(Byte) /\ Len(<<>>) = 0
  OBVIOUS
<1>2. TypeOK
  BY <1>1 DEF Init, TypeOK, Labels, StatusWords, SizeMod
<1>3. QED
  BY <1>1, <1>2 DEF Init, CoreInv, Idle, ReadsInRequest, DataInRequest, Filled, RoomSuffices

LEMMA SizeModIs == SizeMod \in Nat /\ SizeMod > 65535 /\ SizeMod < 65537
BY DEF SizeMod

\* The numbers among the variables.
LEMMA TypeSizes ==
  ASSUME TypeOK
  PROVE  /\ read \in Nat /\ requestSize \in Nat
         /\ capacity \in Nat /\ capacity <= SizeMod
         /\ responseSize \in Nat /\ responseSize <= SizeMod
         /\ Len(response) \in Nat /\ Len(rawRequest) \in Nat
<1>1. /\ read \in Nat /\ requestSize \in 0 .. SizeMod - 1 /\ capacity \in 0 .. SizeMod
      /\ responseSize \in 0 .. SizeMod
  BY DEF TypeOK
<1>2. response \in Seq(Byte) /\ rawRequest \in Seq(Byte)
  BY DEF TypeOK
<1>3. Len(response) \in Nat /\ Len(rawRequest) \in Nat
  BY <1>2, LenProperties
<1>4. requestSize \in Nat
  BY <1>1, SizeModIs
<1>5. capacity \in Nat /\ capacity <= SizeMod
  BY <1>1, SizeModIs
<1>6. responseSize \in Nat /\ responseSize <= SizeMod
  BY <1>1, SizeModIs
<1>7. QED
  BY <1>1, <1>3, <1>4, <1>5, <1>6

\* What the request holds at an offset.
LEMMA RawFacts ==
  ASSUME TypeOK, NEW i \in Nat
  PROVE  /\ Len(rawRequest) \in Nat
         /\ i + 1 <= Len(rawRequest) => RawByte(i) \in Byte
         /\ i + 2 <= Len(rawRequest) => RawSize(i) \in 0 .. SizeMod - 1
<1>1. rawRequest \in Seq(Byte) /\ Len(rawRequest) \in Nat
  BY LenProperties DEF TypeOK
<1>2. \A j \in 1 .. Len(rawRequest) : rawRequest[j] \in Byte
  BY <1>1, ElementOfSeq
<1>3. i + 1 <= Len(rawRequest) => RawByte(i) \in Byte
  BY <1>1, <1>2 DEF RawByte
<1>4. ASSUME i + 2 <= Len(rawRequest)
      PROVE  RawSize(i) \in 0 .. SizeMod - 1
  <2>1. RawByte(i) \in Byte /\ RawByte(i + 1) \in Byte
    BY <1>1, <1>2, <1>4 DEF RawByte
  <2>2. /\ RawByte(i) \in Nat /\ RawByte(i) <= 255
        /\ RawByte(i + 1) \in Nat /\ RawByte(i + 1) <= 255
    BY <2>1, ByteFacts
  <2>3. RawSize(i) = 256 * RawByte(i) + RawByte(i + 1)
    BY DEF RawSize
  <2>4. QED
    BY <2>2, <2>3, SizeModIs
<1>5. QED
  BY <1>1, <1>3, <1>4

\* A part of the data is a string.
LEMMA DataFacts ==
  ASSUME TypeOK, NEW from \in Nat, NEW size \in Nat, 7 + from + size <= Len(rawRequest)
  PROVE  Data(from, size) \in Seq(Byte)
<1>1. rawRequest \in Seq(Byte) /\ Len(rawRequest) \in Nat
  BY LenProperties DEF TypeOK
<1>2. \A j \in 8 + from .. 7 + from + size : rawRequest[j] \in Byte
  BY <1>1, ElementOfSeq
<1>3. 8 + from \in Int /\ 7 + from + size \in Int
  OBVIOUS
<1>4. SubSeq(rawRequest, 8 + from, 7 + from + size) \in Seq(Byte)
  BY <1>2, <1>3, SubSeqProperties
<1>5. QED
  BY <1>4 DEF Data

\* An error leaves two bytes to send.
LEMMA ErrorStep ==
  ASSUME CoreInv, pc \in {"process", "enroll"}, NEW sw \in StatusWords \ {NO_ERROR},
         Error(sw), read' \in Nat, read' <= Len(rawRequest)
  PROVE  CoreInv'
<1> USE DEF Error, Return, Step
<1>1. TypeOK /\ 0 \in 0 .. SizeMod /\ sw \in StatusWords
  BY CoreSizes DEF CoreInv
<1>2. TypeOK'
  BY <1>1 DEF TypeOK, Labels
<1>3. ReadsInRequest' /\ DataInRequest'
  BY DEF CoreInv, ReadsInRequest, DataInRequest
<1>4. Filled'
  BY CoreSizes DEF CoreInv, Filled
<1>5. (pc # "dead" => alive)' /\ RoomSuffices' /\ Idle'
  BY DEF CoreInv, RoomSuffices, Idle
<1>6. QED
  BY <1>2, <1>3, <1>4, <1>5 DEF CoreInv

\* The buffer is too small, or the size of a signature was never written.
LEMMA OverrunStep ==
  ASSUME CoreInv, Overrun, capacity < LongestAnswer \/ numbers = SigningFailed
  PROVE  CoreInv'
<1> USE DEF Overrun
<1>1. TypeOK'
  BY DEF CoreInv, TypeOK, Labels
<1>2. ReadsInRequest' /\ DataInRequest' /\ Filled' /\ Idle'
  BY DEF CoreInv, ReadsInRequest, DataInRequest, Filled, Idle
<1>3. RoomSuffices'
  <2>1. capacity \in Nat /\ LongestAnswer \in Nat
    BY TypeSizes, CoreSizes DEF CoreInv
  <2>2. QED
    BY <2>1 DEF RoomSuffices
<1>4. QED
  BY <1>1, <1>2, <1>3 DEF CoreInv

-----------------------------------------------------------------------------
(* One lemma for each stage. *)

LEMMA ReceiveStep ==
  ASSUME CoreInv, Receive \/ Forget
  PROVE  CoreInv'
<1>1. CASE Receive
  <2>1. rawRequest' \in Seq(Byte) /\ Len(rawRequest') \in Nat /\ Len(rawRequest') < WordMod
    BY <1>1, CoreAssumption, LenProperties DEF Receive
  <2>2. read = 0
    BY <1>1 DEF Receive, CoreInv, Idle
  <2>3. TypeOK'
    BY <1>1, <2>1 DEF Receive, CoreInv, TypeOK, Labels
  <2>4. ReadsInRequest' /\ DataInRequest' /\ Filled' /\ (pc # "dead" => alive)' /\ RoomSuffices'
    BY <1>1, <2>1, <2>2 DEF Receive, CoreInv, ReadsInRequest, DataInRequest, Filled, RoomSuffices
  <2>5. Idle'
    BY <1>1, <2>2 DEF Receive, Idle
  <2>6. QED
    BY <2>3, <2>4, <2>5 DEF CoreInv
<1>2. CASE Forget
  <2>1. <<>> \in Seq(Byte) /\ Len(<<>>) = 0
    OBVIOUS
  <2>2. 0 \in 0 .. SizeMod - 1 /\ 0 \in 0 .. SizeMod
    BY SizeModIs
  <2>3. TypeOK'
    BY <1>2, <2>1, <2>2 DEF Forget, CoreInv, TypeOK, Labels, StatusWords
  <2>4. ReadsInRequest' /\ DataInRequest' /\ Filled' /\ (pc # "dead" => alive)' /\ RoomSuffices'
    BY <1>2, <2>1 DEF Forget, CoreInv, ReadsInRequest, DataInRequest, Filled, RoomSuffices
  <2>5. Idle'
    BY <1>2 DEF Forget, Idle
  <2>6. QED
    BY <2>3, <2>4, <2>5 DEF CoreInv
<1>3. QED
  BY <1>1, <1>2

LEMMA ParsedStep ==
  ASSUME CoreInv, pc = "parse",
         NEW size \in 0 .. SizeMod - 1, NEW expected \in 0 .. SizeMod, NEW last \in Nat,
         Parsed(size, expected, last), last <= Len(rawRequest),
         4 <= Len(rawRequest), size = 0 \/ 7 + size <= Len(rawRequest)
  PROVE  CoreInv'
<1>1. TypeOK'
  BY DEF Parsed, CoreInv, TypeOK, Labels
<1>2. ReadsInRequest' /\ DataInRequest'
  BY DEF Parsed, ReadsInRequest, DataInRequest
<1>3. Filled' /\ (pc # "dead" => alive)' /\ RoomSuffices' /\ Idle'
  BY DEF Parsed, CoreInv, Filled, RoomSuffices, Idle
<1>4. QED
  BY <1>1, <1>2, <1>3 DEF CoreInv

\* A difference that does not wrap, and the one that does.
LEMMA MinusFacts ==
  ASSUME NEW a \in Nat, NEW b \in Nat, a < WordMod
  PROVE  /\ b <= a => Minus(a, b) = a - b
         /\ b = a + 1 => Minus(a, b) >= SizeMod
<1>1. WordMod \in Nat /\ WordMod > SizeMod
  BY CoreAssumption
<1>2. CASE b <= a
  <2>1. a - b \in 0 .. WordMod - 1 /\ WordMod \in Nat \ {0}
    BY <1>1, <1>2, SizeModIs
  <2>2. (WordMod * 0 + (a - b)) % WordMod = a - b
    BY <2>1, DivModOf
  <2>3. QED
    BY <1>2, <2>1, <2>2 DEF Minus
<1>3. CASE b = a + 1
  <2>1. a - b + WordMod \in 0 .. WordMod - 1 /\ WordMod \in Nat \ {0} /\ a - b \in Int
    BY <1>1, <1>3, SizeModIs
  <2>2. (a - b) % WordMod = a - b + WordMod
    BY <2>1
  <2>3. QED
    BY <1>1, <1>3, <2>2, SizeModIs DEF Minus
<1>4. QED
  BY <1>2, <1>3

LEMMA ParseStep ==
  ASSUME CoreInv, Parse
  PROVE  CoreInv'
<1>1. /\ TypeOK /\ pc = "parse"
      /\ Len(rawRequest) \in Nat /\ Len(rawRequest) < WordMod
  BY TypeSizes DEF CoreInv, DataInRequest, Parse, ParseBare, ParseSizeOnly, ParseDataOnly, ParseDataAndSize, Refuse
<1>2. \A w \in 0 .. SizeMod - 1 : Expected(w) \in 0 .. SizeMod
  BY SizeModIs DEF Expected
<1>3. CASE ParseBare
  <2>1. Len(rawRequest) = 4 /\ Parsed(0, 0, 4)
    BY <1>3 DEF ParseBare, Bare, rawRequestSize
  <2>2. 0 \in 0 .. SizeMod - 1 /\ 0 \in 0 .. SizeMod
    BY SizeModIs
  <2>3. QED
    BY <1>1, <2>1, <2>2, ParsedStep
<1>4. CASE ParseSizeOnly
  <2>1. Len(rawRequest) = 7 /\ Parsed(0, Expected(RawSize(5)), 7)
    BY <1>4 DEF ParseSizeOnly, SizeOnly, rawRequestSize
  <2>2. RawSize(5) \in 0 .. SizeMod - 1
    BY <1>1, <2>1, RawFacts
  <2>3. 0 \in 0 .. SizeMod - 1 /\ Expected(RawSize(5)) \in 0 .. SizeMod
    BY <1>2, <2>2, SizeModIs
  <2>4. QED
    BY <1>1, <2>1, <2>3, ParsedStep
<1>5. CASE ParseDataOnly
  <2>1. /\ Len(rawRequest) > 7 /\ RawSize(5) = Minus(Len(rawRequest), 7)
        /\ Parsed(RawSize(5), 0, 7)
    BY <1>5 DEF ParseDataOnly, DataOnly, WithData, rawRequestSize
  <2>2. RawSize(5) \in 0 .. SizeMod - 1 /\ 0 \in 0 .. SizeMod
    BY <1>1, <2>1, RawFacts, SizeModIs
  <2>3. RawSize(5) = Len(rawRequest) - 7
    BY <1>1, <2>1, MinusFacts
  <2>4. QED
    BY <1>1, <2>1, <2>2, <2>3, ParsedStep
<1>6. CASE ParseDataAndSize
  <2>1. /\ Len(rawRequest) > 7 /\ RawSize(5) = Minus(Len(rawRequest), 9)
        /\ Parsed(RawSize(5), Expected(RawSize(7 + RawSize(5))), 9 + RawSize(5))
    BY <1>6 DEF ParseDataAndSize, DataAndSize, WithData, rawRequestSize
  <2>2. RawSize(5) \in 0 .. SizeMod - 1
    BY <1>1, <2>1, RawFacts
  <2>3. Len(rawRequest) # 8
    <3>1. Len(rawRequest) = 8 => RawSize(5) >= SizeMod
      BY <1>1, <2>1, MinusFacts
    <3>2. QED
      BY <2>2, <3>1, SizeModIs
  <2>4. RawSize(5) = Len(rawRequest) - 9
    <3>1. 9 <= Len(rawRequest)
      <4>1. \A n \in Nat : n > 7 /\ n # 8 => 9 <= n
        OBVIOUS
      <4>2. QED
        BY <1>1, <2>1, <2>3, <4>1
    <3>2. QED
      BY <1>1, <2>1, <3>1, MinusFacts
  <2>5. RawSize(5) \in Nat
    BY <2>2, SizeModIs
  <2>6. RawSize(7 + RawSize(5)) \in 0 .. SizeMod - 1
    BY <1>1, <2>4, <2>5, RawFacts
  <2>7. QED
    BY <1>1, <1>2, <2>1, <2>2, <2>4, <2>5, <2>6, ParsedStep
<1>7. CASE Refuse
  <2>1. read' \in Nat /\ read' <= Len(rawRequest)
    BY <1>1, <1>7 DEF Refuse, WithData, rawRequestSize
  <2>2. TypeOK'
    BY <1>7, <2>1 DEF Refuse, CoreInv, TypeOK, Labels
  <2>3. ReadsInRequest' /\ DataInRequest' /\ Filled' /\ (pc # "dead" => alive)' /\ RoomSuffices' /\ Idle'
    BY <1>1, <1>7, <2>1 DEF Refuse, CoreInv, ReadsInRequest, DataInRequest, Filled, RoomSuffices, Idle
  <2>4. QED
    BY <2>2, <2>3 DEF CoreInv
<1>8. QED
  BY <1>3, <1>4, <1>5, <1>6, <1>7 DEF Parse

\* Looking at data that is there.
LEMMA ReadStep ==
  ASSUME CoreInv, NEW n \in Nat, 7 + n <= Len(rawRequest), ReadData(n)
  PROVE  read' \in Nat /\ read' <= Len(rawRequest)
BY TypeSizes DEF CoreInv, ReadsInRequest, ReadData

LEMMA SameRead ==
  ASSUME CoreInv, UNCHANGED read
  PROVE  read' \in Nat /\ read' <= Len(rawRequest)
BY TypeSizes DEF CoreInv, ReadsInRequest

\* The answer is there but for its signature.
LEMMA ToSignStep ==
  ASSUME CoreInv, pc \in {"process", "enroll"}, NEW body \in Seq(Byte), NEW size \in Nat,
         Len(body) = size, size <= LongestAnswer - LongestSignature,
         Step("sign", body, size), hash' \in Seq(Byte),
         read' \in Nat, read' <= Len(rawRequest), UNCHANGED <<numbers, status>>
  PROVE  CoreInv'
<1>1. size \in 0 .. SizeMod
  BY CoreSizes, SizeModIs
<1>2. TypeOK'
  BY <1>1 DEF Step, CoreInv, TypeOK, Labels
<1>3. ReadsInRequest' /\ DataInRequest' /\ Idle' /\ (pc # "dead" => alive)' /\ RoomSuffices'
  BY DEF Step, CoreInv, ReadsInRequest, DataInRequest, RoomSuffices, Idle
<1>4. Filled'
  BY DEF Step, CoreInv, Filled
<1>5. QED
  BY <1>2, <1>3, <1>4 DEF CoreInv

LEMMA ProcessStep ==
  ASSUME CoreInv, ProcessRequest
  PROVE  CoreInv'
<1> DEFINE errors == StatusWords \ {NO_ERROR}
<1>1. /\ CLA_NOT_SUPPORTED \in errors /\ INS_NOT_SUPPORTED \in errors /\ WRONG_LENGTH \in errors
  BY DEF StatusWords, NO_ERROR, CLA_NOT_SUPPORTED, INS_NOT_SUPPORTED, WRONG_LENGTH
<1>2. CASE WrongClass
  BY <1>1, <1>2, SameRead, ErrorStep DEF WrongClass
<1>3. CASE UnknownInstruction
  BY <1>1, <1>3, SameRead, ErrorStep DEF UnknownInstruction
<1>4. CASE VersionWithoutRoom
  BY <1>1, <1>4, SameRead, ErrorStep DEF VersionWithoutRoom, Instruction
<1>5. CASE Version
  <2>1. U2F_V2 \in Seq(Byte) /\ Len(U2F_V2) = 6
    BY DEF U2F_V2, Byte
  <2>2. pc = "process" /\ Return(NO_ERROR, U2F_V2, 6) /\ UNCHANGED <<read, hash, numbers>>
    BY <1>5, <2>1 DEF Version, Instruction
  <2>3. 6 \in 0 .. SizeMod
    BY SizeModIs
  <2>4. TypeOK'
    BY <2>1, <2>2, <2>3 DEF Return, Step, CoreInv, TypeOK, Labels, StatusWords
  <2>5. ReadsInRequest' /\ DataInRequest' /\ Idle' /\ (pc # "dead" => alive)' /\ RoomSuffices'
    BY <2>2 DEF Return, Step, CoreInv, ReadsInRequest, DataInRequest, Idle, RoomSuffices
  <2>6. Filled'
    BY <2>1, <2>2, CoreSizes DEF Return, Step, Filled
  <2>7. QED
    BY <2>4, <2>5, <2>6 DEF CoreInv
<1>6. QED
  BY <1>2, <1>3, <1>4, <1>5 DEF ProcessRequest

\* What enroll() and the certificate add to the reserved byte.
LEMMA EnrolledSize ==
  ASSUME NEW k \in PublicKeys, NEW h \in Handles
  PROVE  /\ <<5>> \o Enrolled(k, h) \o Certificate \in Seq(Byte)
         /\ Len(<<5>> \o Enrolled(k, h) \o Certificate) = 2 + PublicKeySize + Len(h) + Len(Certificate)
         /\ k \in Seq(Byte) /\ h \in Seq(Byte) /\ Len(h) \in Nat /\ Len(h) <= MaxHandleSize
<1>1. /\ k \in Seq(Byte) /\ Len(k) = PublicKeySize
      /\ h \in Seq(Byte) /\ Len(h) <= MaxHandleSize
      /\ Certificate \in Seq(Byte)
  BY CoreAssumption
<1>2. Len(h) \in Nat
  BY <1>1, LenProperties
<1>3. Len(h) \in Byte
  <2>1. MaxHandleSize \in Nat /\ MaxHandleSize <= 255
    BY CoreAssumption, ByteFacts
  <2>2. Len(h) <= 255
    BY <1>1, <1>2, <2>1
  <2>3. QED
    BY <1>2, <2>2, ByteFacts
<1>4. /\ <<5>> \in Seq(Byte) /\ Len(<<5>>) = 1
      /\ <<Len(h)>> \in Seq(Byte) /\ Len(<<Len(h)>>) = 1
  <2>1. 5 \in Byte
    BY DEF Byte
  <2>2. QED
    BY <1>3, <2>1
<1>5. /\ Enrolled(k, h) \in Seq(Byte)
      /\ Len(Enrolled(k, h)) = PublicKeySize + 1 + Len(h)
  BY <1>1, <1>4, Concat DEF Enrolled
<1>6. /\ <<5>> \o Enrolled(k, h) \in Seq(Byte)
      /\ Len(<<5>> \o Enrolled(k, h)) = 1 + (PublicKeySize + 1 + Len(h))
  BY <1>4, <1>5, Concat
<1>7. /\ <<5>> \o Enrolled(k, h) \o Certificate \in Seq(Byte)
      /\ Len(<<5>> \o Enrolled(k, h) \o Certificate) = 1 + (PublicKeySize + 1 + Len(h)) + Len(Certificate)
  BY <1>1, <1>6, Concat
<1>8. 1 + (PublicKeySize + 1 + Len(h)) + Len(Certificate) = 2 + PublicKeySize + Len(h) + Len(Certificate)
  BY <1>2, CoreSizes
<1>9. QED
  BY <1>1, <1>2, <1>7, <1>8

\* The two hashes of a request whose data is long enough.
LEMMA HashesRead ==
  ASSUME TypeOK, 7 + 2 * HashSize <= Len(rawRequest)
  PROVE  challengeHash \in Seq(Byte) /\ applicationHash \in Seq(Byte)
<1>1. Len(rawRequest) \in Nat
  BY TypeSizes
<1>2. 7 + 0 + HashSize <= Len(rawRequest) /\ 7 + HashSize + HashSize <= Len(rawRequest)
  BY <1>1, CoreSizes
<1>3. QED
  BY <1>2, CoreSizes, DataFacts DEF challengeHash, applicationHash

LEMMA RegisterStep ==
  ASSUME CoreInv, ProcessRegister
  PROVE  CoreInv'
<1>1. WRONG_LENGTH \in StatusWords \ {NO_ERROR} /\ CONDITIONS_NOT_SATISFIED \in StatusWords \ {NO_ERROR}
  BY DEF StatusWords, NO_ERROR, CONDITIONS_NOT_SATISFIED, WRONG_LENGTH
<1>2. pc = "enroll" => 7 + 2 * HashSize <= Len(rawRequest) /\ 2 * HashSize \in Nat
  BY CoreSizes DEF CoreInv, DataInRequest
<1>3. CASE RegisterWrongLength
  BY <1>1, <1>3, SameRead, ErrorStep DEF RegisterWrongLength, Instruction
<1>4. CASE Register
  <2>1. <<5>> \in Seq(Byte)
    BY DEF Byte
  <2>2. 2 + PublicKeySize \in 0 .. SizeMod
    BY CoreSizes, SizeModIs
  <2>3. TypeOK'
    BY <1>4, <2>1, <2>2 DEF Register, Instruction, Step, CoreInv, TypeOK, Labels
  <2>4. ReadsInRequest' /\ Idle' /\ (pc # "dead" => alive)' /\ RoomSuffices'
    BY <1>4 DEF Register, Instruction, Step, CoreInv, ReadsInRequest, Idle, RoomSuffices
  <2>5. DataInRequest'
    BY <1>4 DEF Register, Instruction, Step, CoreInv, DataInRequest
  <2>6. Filled'
    BY <1>4 DEF Register, Instruction, Step, CoreInv, Filled
  <2>7. QED
    BY <2>3, <2>4, <2>5, <2>6 DEF CoreInv
<1>5. CASE EnrollFails
  <2>1. pc = "enroll" /\ ReadData(2 * HashSize) /\ Error(CONDITIONS_NOT_SATISFIED)
    BY <1>5 DEF EnrollFails
  <2>2. read' \in Nat /\ read' <= Len(rawRequest)
    BY <1>2, <2>1, ReadStep
  <2>3. QED
    BY <1>1, <2>1, <2>2, ErrorStep
<1>6. CASE Enroll
  <2>1. PICK k \in PublicKeys, h \in Handles :
          /\ Step("sign", response \o Enrolled(k, h) \o Certificate, responseSize + Len(h) + Len(Certificate))
          /\ hash' = ToHash(k, h)
    BY <1>6 DEF Enroll
  <2>2. pc = "enroll" /\ ReadData(2 * HashSize) /\ UNCHANGED <<numbers, status>>
    BY <1>6 DEF Enroll
  <2>3. response = <<5>> /\ responseSize = 2 + PublicKeySize
    BY <2>2 DEF CoreInv, Filled
  <2>4. read' \in Nat /\ read' <= Len(rawRequest)
    BY <1>2, <2>2, ReadStep
  <2>5. hash' \in Seq(Byte)
    <3>1. <<0>> \in Seq(Byte)
      BY DEF Byte
    <3>2. challengeHash \in Seq(Byte) /\ applicationHash \in Seq(Byte)
      BY <1>2, <2>2, HashesRead DEF CoreInv
    <3>3. <<0>> \o applicationHash \o challengeHash \in Seq(Byte)
      BY <3>1, <3>2, Concat
    <3>4. <<0>> \o applicationHash \o challengeHash \o h \o k \in Seq(Byte)
      BY <3>3, EnrolledSize, Concat
    <3>5. QED
      BY <2>1, <3>4 DEF ToHash
  <2>6. responseSize + Len(h) + Len(Certificate) <= LongestAnswer - LongestSignature
    BY <2>3, EnrolledSize, CoreSizes
  <2>7. PICK body \in Seq(Byte), size \in Nat :
          /\ body = response \o Enrolled(k, h) \o Certificate
          /\ size = responseSize + Len(h) + Len(Certificate)
          /\ Len(body) = size
    <3>1. responseSize + Len(h) + Len(Certificate) \in Nat
      BY <2>3, EnrolledSize, CoreSizes
    <3>2. /\ response \o Enrolled(k, h) \o Certificate \in Seq(Byte)
          /\ Len(response \o Enrolled(k, h) \o Certificate) = responseSize + Len(h) + Len(Certificate)
      BY <2>3, EnrolledSize
    <3>3. QED
      BY <3>1, <3>2
  <2>8. Step("sign", body, size) /\ size <= LongestAnswer - LongestSignature
    BY <2>1, <2>6, <2>7
  <2>9. QED
    BY <2>2, <2>4, <2>5, <2>7, <2>8, ToSignStep
<1>7. CASE EnrollOverruns
  <2>1. PICK k \in PublicKeys, h \in Handles : ~Fits(Len(response \o Enrolled(k, h) \o Certificate))
    BY <1>7 DEF EnrollOverruns
  <2>2. response = <<5>>
    BY <1>7 DEF EnrollOverruns, CoreInv, Filled
  <2>3. ~(2 + PublicKeySize + Len(h) + Len(Certificate) <= capacity + 2)
    BY <2>1, <2>2, EnrolledSize DEF Fits
  <2>4. capacity < LongestAnswer
    BY <2>3, EnrolledSize, CoreSizes, TypeSizes DEF CoreInv
  <2>5. QED
    BY <1>7, <2>4, OverrunStep DEF EnrollOverruns
<1>8. QED
  BY <1>3, <1>4, <1>5, <1>6, <1>7 DEF ProcessRegister

\* The presence of the user and the counter are five bytes.
LEMMA FiveBytes ==
  ASSUME NEW present \in {0, 1}, NEW c \in Counters
  PROVE  <<present>> \o CounterBytes(c) \in Seq(Byte) /\ Len(<<present>> \o CounterBytes(c)) = 5
<1>1. <<present>> \in Seq(Byte) /\ Len(<<present>>) = 1
  BY DEF Byte
<1>2. CounterBytes(c) \in Seq(Byte) /\ Len(CounterBytes(c)) = 4
  <2>1. c \in Nat
    BY CoreAssumption
  <2>2. /\ (c \div 16777216) % 256 \in Byte /\ (c \div 65536) % 256 \in Byte
        /\ (c \div 256) % 256 \in Byte /\ c % 256 \in Byte
    BY <2>1 DEF Byte
  <2>3. QED
    BY <2>2 DEF CounterBytes
<1>3. /\ <<present>> \o CounterBytes(c) \in Seq(Byte)
      /\ Len(<<present>> \o CounterBytes(c)) = Len(<<present>>) + Len(CounterBytes(c))
  BY <1>1, <1>2, Concat
<1>4. QED
  BY <1>1, <1>2, <1>3

LEMMA AuthenticateStep ==
  ASSUME CoreInv, ProcessAuthenticate
  PROVE  CoreInv'
<1>1. /\ WRONG_DATA \in StatusWords \ {NO_ERROR} /\ WRONG_LENGTH \in StatusWords \ {NO_ERROR}
      /\ CONDITIONS_NOT_SATISFIED \in StatusWords \ {NO_ERROR}
  BY DEF StatusWords, NO_ERROR, WRONG_DATA, WRONG_LENGTH, CONDITIONS_NOT_SATISFIED
<1>2. /\ pc = "process" /\ TypeOK
      /\ requestSize \in Nat /\ Len(rawRequest) \in Nat
      /\ HashSize \in Nat \ {0} /\ 2 * HashSize \in Nat /\ 2 * HashSize + 1 \in Nat
  BY TypeSizes, CoreSizes
     DEF CoreInv, ProcessAuthenticate, WrongControl, AuthenticateTooShort, AuthenticateWrongLength,
         InvalidHandle, UserNotPresent, Authenticate, AuthenticateOverruns, HandleFollows, Instruction
<1>3. requestSize = 0 \/ 7 + requestSize <= Len(rawRequest)
  BY <1>2 DEF CoreInv, DataInRequest
<1>4. requestSize >= 2 * HashSize + 1 => 7 + (2 * HashSize + 1) <= Len(rawRequest)
  BY <1>2, <1>3
<1>5. requestSize >= 2 * HashSize + 1 => handleSize \in Nat
  <2>1. 7 + 2 * HashSize \in Nat
    BY <1>2
  <2>2. 7 + 2 * HashSize + 1 <= Len(rawRequest) => RawByte(7 + 2 * HashSize) \in Byte
    BY <1>2, <2>1, RawFacts
  <2>3. QED
    BY <1>2, <1>4, <2>2, ByteFacts DEF handleSize
<1>6. ASSUME HandleFollows, ReadHandle
      PROVE  read' \in Nat /\ read' <= Len(rawRequest)
  <2>1. /\ requestSize >= 2 * HashSize + 1 /\ requestSize = handleSize + 2 * HashSize + 1
        /\ handleSize \in Nat
    BY <1>5, <1>6 DEF HandleFollows
  <2>2. /\ 2 * HashSize + 1 + handleSize \in Nat
        /\ 7 + (2 * HashSize + 1 + handleSize) <= Len(rawRequest)
    BY <1>2, <1>3, <2>1
  <2>3. QED
    BY <1>6, <2>2, ReadStep DEF ReadHandle
<1>7. CASE WrongControl
  BY <1>1, <1>2, <1>7, SameRead, ErrorStep DEF WrongControl
<1>8. CASE AuthenticateTooShort
  BY <1>1, <1>2, <1>8, SameRead, ErrorStep DEF AuthenticateTooShort
<1>9. CASE AuthenticateWrongLength
  <2>1. /\ requestSize >= 2 * HashSize + 1 /\ ReadData(2 * HashSize + 1)
        /\ Error(WRONG_LENGTH)
    BY <1>9 DEF AuthenticateWrongLength
  <2>2. read' \in Nat /\ read' <= Len(rawRequest)
    BY <1>2, <1>4, <2>1, ReadStep
  <2>3. QED
    BY <1>1, <1>2, <2>1, <2>2, ErrorStep
<1>10. CASE InvalidHandle
  BY <1>1, <1>2, <1>6, <1>10, ErrorStep DEF InvalidHandle
<1>11. CASE UserNotPresent
  BY <1>1, <1>2, <1>6, <1>11, ErrorStep DEF UserNotPresent
<1>12. CASE Authenticate
  <2>1. PICK present \in {0, 1}, c \in Counters :
          /\ Step("sign", <<present>> \o CounterBytes(c), Len(<<present>> \o CounterBytes(c)))
          /\ hash' = applicationHash \o (<<present>> \o CounterBytes(c)) \o challengeHash
    BY <1>12 DEF Authenticate
  <2>2. <<present>> \o CounterBytes(c) \in Seq(Byte) /\ Len(<<present>> \o CounterBytes(c)) = 5
    BY FiveBytes
  <2>3. PICK body \in Seq(Byte) : body = <<present>> \o CounterBytes(c) /\ Len(body) = 5
    BY <2>2
  <2>4. hash' \in Seq(Byte)
    <3>1. challengeHash \in Seq(Byte) /\ applicationHash \in Seq(Byte)
      <4>1. 7 + 2 * HashSize <= Len(rawRequest)
        BY <1>2, <1>4, <1>12 DEF Authenticate, HandleFollows
      <4>2. QED
        BY <1>2, <4>1, HashesRead
    <3>2. applicationHash \o body \in Seq(Byte)
      BY <2>3, <3>1, Concat
    <3>3. applicationHash \o body \o challengeHash \in Seq(Byte)
      BY <3>1, <3>2, Concat
    <3>4. QED
      BY <2>1, <2>3, <3>3
  <2>5. 5 \in Nat /\ 5 <= LongestAnswer - LongestSignature
    <3>1. LongestAnswer - LongestSignature = 2 + PublicKeySize + MaxHandleSize + Len(Certificate)
      BY CoreSizes
    <3>2. PublicKeySize >= 1 /\ Len(Certificate) >= 4 /\ MaxHandleSize >= 0
      BY CoreSizes, CoreAssumption
    <3>3. QED
      BY <3>1, <3>2, CoreSizes
  <2>6. Step("sign", body, 5) /\ UNCHANGED <<numbers, status>>
    BY <1>12, <2>1, <2>3 DEF Authenticate
  <2>7. read' \in Nat /\ read' <= Len(rawRequest)
    BY <1>6, <1>12 DEF Authenticate
  <2>8. QED
    BY <1>2, <2>3, <2>4, <2>5, <2>6, <2>7, ToSignStep
<1>13. CASE AuthenticateOverruns
  <2>1. ~(5 <= capacity + 2) /\ Overrun
    BY <1>13 DEF AuthenticateOverruns, Fits
  <2>2. capacity < LongestAnswer
    BY <1>2, <2>1, TypeSizes, CoreSizes
  <2>3. QED
    BY <2>1, <2>2, OverrunStep
<1>14. QED
  BY <1>7, <1>8, <1>9, <1>10, <1>11, <1>12, <1>13 DEF ProcessAuthenticate

LEMMA FinishStep ==
  ASSUME CoreInv, Finish
  PROVE  CoreInv'
<1>1. /\ TypeOK /\ capacity \in Nat /\ responseSize \in Nat /\ Len(response) \in Nat
      /\ response \in Seq(Byte)
  BY TypeSizes DEF CoreInv, TypeOK
<1>2. /\ LongestAnswer \in Nat /\ LongestSignature \in Nat /\ LongestSignature >= 10
      /\ LongestAnswer + 257 < SizeMod /\ SizeMod \in Nat
  BY CoreSizes
<1>3. pc = "sign" =>
        /\ responseSize = Len(response) /\ responseSize <= LongestAnswer - LongestSignature
        /\ Len(rawRequest) >= 4
  BY DEF CoreInv, Filled, DataInRequest
<1>4. CASE Sign
  <2>1. PICK r \in Number, s \in Number :
          /\ Return(NO_ERROR, response \o Wrapped(r, s), responseSize + SignatureSize(Wrapped(r, s)))
          /\ numbers' = <<r, s>>
    BY <1>4, CoreAssumption DEF Sign
  <2>2. PICK body \in Seq(Byte), size \in Nat :
          /\ Return(NO_ERROR, body, size) /\ Len(body) = size /\ size <= LongestAnswer
    <3>1. PICK signature \in Seq(Byte) :
            /\ signature = Wrapped(r, s) /\ Len(signature) \in Nat /\ Len(signature) <= LongestSignature
            /\ SignatureSize(signature) = Len(signature)
      BY WrappedSize
    <3>2. response \o signature \in Seq(Byte) /\ Len(response \o signature) = Len(response) + Len(signature)
      BY <1>1, <3>1, Concat
    <3>3. pc = "sign"
      BY <1>4 DEF Sign
    <3>4. /\ responseSize + Len(signature) \in Nat /\ responseSize + Len(signature) <= LongestAnswer
          /\ Len(response \o signature) = responseSize + Len(signature)
      BY <1>1, <1>2, <1>3, <3>1, <3>2, <3>3
    <3>5. Return(NO_ERROR, response \o signature, responseSize + Len(signature))
      BY <2>1, <3>1
    <3>6. QED
      BY <3>2, <3>4, <3>5
  <2>3. size \in 0 .. SizeMod
    BY <1>2, <2>2
  <2>4. numbers' \in Number \X Number /\ numbers' # SigningFailed /\ UNCHANGED <<read, hash>> /\ pc = "sign"
    BY <1>4, <2>1 DEF SigningFailed, Sign
  <2>5. TypeOK'
    BY <2>2, <2>3, <2>4 DEF Return, Step, CoreInv, TypeOK, Labels, StatusWords
  <2>6. ReadsInRequest' /\ DataInRequest' /\ Idle' /\ (pc # "dead" => alive)' /\ RoomSuffices'
    BY <1>3, <2>2, <2>4 DEF Return, Step, CoreInv, ReadsInRequest, DataInRequest, Idle, RoomSuffices
  <2>7. Filled'
    <3>1. size <= LongestAnswer + 255
      BY <1>2, <2>2
    <3>2. QED
      BY <2>2, <2>4, <3>1 DEF Return, Step, Filled
  <2>8. QED
    BY <2>5, <2>6, <2>7 DEF CoreInv
<1>5. CASE SignFails
  <2>1. PICK leftover \in Byte : Return(NO_ERROR, response, responseSize + ((leftover + 2) % 256))
    BY <1>5, CoreAssumption DEF SignFails
  <2>2. PICK size \in Nat : Return(NO_ERROR, response, size) /\ size <= LongestAnswer + 255
    <3>1. (leftover + 2) % 256 \in 0 .. 255
      BY DEF Byte
    <3>2. pc = "sign"
      BY <1>5 DEF SignFails
    <3>3. /\ responseSize + ((leftover + 2) % 256) \in Nat
          /\ responseSize + ((leftover + 2) % 256) <= LongestAnswer + 255
      <4>1. PICK n \in Nat : n = (leftover + 2) % 256 /\ n <= 255
        BY <3>1
      <4>2. responseSize + n \in Nat /\ responseSize + n <= LongestAnswer + 255
        BY <1>1, <1>2, <1>3, <3>2, <4>1
      <4>3. QED
        BY <4>1, <4>2
    <3>4. QED
      BY <2>1, <3>3
  <2>3. size \in 0 .. SizeMod
    BY <1>2, <2>2
  <2>4. pc = "sign" /\ numbers' = SigningFailed /\ UNCHANGED <<read, hash>>
    BY <1>5 DEF SignFails
  <2>5. TypeOK'
    BY <2>2, <2>3, <2>4 DEF Return, Step, CoreInv, TypeOK, Labels, StatusWords
  <2>6. ReadsInRequest' /\ DataInRequest' /\ Idle' /\ (pc # "dead" => alive)' /\ RoomSuffices'
    BY <1>3, <2>2, <2>4 DEF Return, Step, CoreInv, ReadsInRequest, DataInRequest, Idle, RoomSuffices
  <2>7. Filled'
    BY <2>2, <2>4 DEF Return, Step, Filled
  <2>8. QED
    BY <2>5, <2>6, <2>7 DEF CoreInv
<1>6. CASE SignOverruns
  <2>1. /\ Overrun /\ pc = "sign"
        /\ \/ ~(responseSize + 2 <= capacity + 2)
           \/ \E r \in Number, s \in Number : ~(responseSize + Len(Wrapped(r, s)) <= capacity + 2)
    BY <1>6, CoreAssumption DEF SignOverruns, Fits
  <2>2. \A r \in Number, s \in Number : Len(Wrapped(r, s)) \in Nat /\ Len(Wrapped(r, s)) <= LongestSignature
    BY WrappedSize
  <2>3. capacity < LongestAnswer
    BY <1>1, <1>2, <1>3, <2>1, <2>2
  <2>4. QED
    BY <2>1, <2>3, OverrunStep
<1>7. CASE AppendStatus
  <2>1. TypeOK'
    BY <1>7 DEF AppendStatus, CoreInv, TypeOK, Labels
  <2>2. ReadsInRequest' /\ DataInRequest' /\ Filled' /\ Idle' /\ (pc # "dead" => alive)' /\ RoomSuffices'
    BY <1>7 DEF AppendStatus, CoreInv, ReadsInRequest, DataInRequest, Filled, Idle, RoomSuffices
  <2>3. QED
    BY <2>1, <2>2 DEF CoreInv
<1>8. CASE StatusOverruns
  <2>1. ~(responseSize + 2 <= capacity + 2) /\ Overrun /\ pc = "status"
    BY <1>8 DEF StatusOverruns, RoomForStatus, Fits
  <2>2. numbers # SigningFailed => responseSize <= LongestAnswer
    BY <2>1 DEF CoreInv, Filled
  <2>3. capacity < LongestAnswer \/ numbers = SigningFailed
    BY <1>1, <1>2, <2>1, <2>2
  <2>4. QED
    BY <2>1, <2>3, OverrunStep
<1>9. QED
  BY <1>4, <1>5, <1>6, <1>7, <1>8 DEF Finish

-----------------------------------------------------------------------------
(* The theorems. *)

LEMMA CoreStep == CoreInv /\ [Next]_vars => CoreInv'
<1> SUFFICES ASSUME CoreInv, [Next]_vars PROVE CoreInv'
  OBVIOUS
<1>1. CASE UNCHANGED vars
  <2>1. TypeOK'
    BY <1>1 DEF CoreInv, TypeOK, vars
  <2>2. ReadsInRequest' /\ DataInRequest' /\ Filled' /\ Idle' /\ (pc # "dead" => alive)' /\ RoomSuffices'
    BY <1>1 DEF CoreInv, ReadsInRequest, DataInRequest, Filled, Idle, RoomSuffices, vars
  <2>3. QED
    BY <2>1, <2>2 DEF CoreInv
<1>2. CASE Receive \/ Forget
  BY <1>2, ReceiveStep
<1>3. CASE Parse
  BY <1>3, ParseStep
<1>4. CASE ProcessRequest
  BY <1>4, ProcessStep
<1>5. CASE ProcessRegister
  BY <1>5, RegisterStep
<1>6. CASE ProcessAuthenticate
  BY <1>6, AuthenticateStep
<1>7. CASE Finish
  BY <1>7, FinishStep
<1>8. QED
  BY <1>1, <1>2, <1>3, <1>4, <1>5, <1>6, <1>7 DEF Next

LEMMA CoreIsInvariant == Spec => []CoreInv
BY InitCore, CoreStep, PTL DEF Spec

\* Every variable has its type; in particular the size of an answer is at most 2^16, and the
\* bytes written are bytes (core.cpp:7-250).
THEOREM CoreTypes == Spec => []TypeOK
<1>1. CoreInv => TypeOK
  BY DEF CoreInv
<1>2. QED
  BY <1>1, CoreIsInvariant, PTL

\* No byte is looked at beyond the end of a request, whatever request it is
\* (core.cpp:24-70 and 200-211).
THEOREM RequestsReadWithin == Spec => []ReadsInRequest
<1>1. CoreInv => ReadsInRequest
  BY DEF CoreInv
<1>2. QED
  BY <1>1, CoreIsInvariant, PTL

\* What is sent has been written, whichever handler answers and whatever the size of keys,
\* handles, certificates and signatures (core.cpp:72-250).
THEOREM AnswersAreWritten == Spec => []OnlyWrittenSent
<1>1. CoreInv => OnlyWrittenSent
  BY DEF CoreInv, Filled, OnlyWrittenSent
<1>2. QED
  BY <1>1, CoreIsInvariant, PTL

\* The size of an answer fits the uint16_t that sends it, even one whose signature failed
\* (core.cpp:72-78, hid.cpp:249 and 295).
THEOREM AnswersAreWhole == Spec => []SentWhole
<1>1. CoreInv => SentWhole
  <2> SUFFICES ASSUME CoreInv, pc = "answered" PROVE SentSize = rawResponseSize
    BY DEF SentWhole
  <2>1. responseSize \in Nat /\ responseSize <= LongestAnswer + 255
    BY TypeSizes DEF CoreInv, Filled
  <2>2. responseSize + 2 \in 0 .. SizeMod - 1 /\ SizeMod \in Nat \ {0}
    BY <2>1, CoreSizes
  <2>3. (SizeMod * 0 + (responseSize + 2)) % SizeMod = responseSize + 2
    BY <2>2, DivModOf
  <2>4. QED
    BY <2>2, <2>3 DEF SentSize, rawResponseSize
<1>2. QED
  BY <1>1, CoreIsInvariant, PTL

\* A buffer as large as the longest answer is never overrun (core.cpp:72 and 130-247).
THEOREM RoomIsEnough == Spec => []RoomSuffices
<1>1. CoreInv => RoomSuffices
  BY DEF CoreInv
<1>2. QED
  BY <1>1, CoreIsInvariant, PTL

-----------------------------------------------------------------------------
(* What is accepted is what was encoded. *)

\* The elements of one string put before another.
LEMMA Joined ==
  ASSUME NEW s \in Seq(Byte), NEW t \in Seq(Byte)
  PROVE  /\ s \o t \in Seq(Byte) /\ Len(s \o t) = Len(s) + Len(t)
         /\ Len(s) \in Nat /\ Len(t) \in Nat
         /\ \A i \in 1 .. Len(s) : (s \o t)[i] = s[i]
         /\ \A i \in 1 .. Len(t) : (s \o t)[Len(s) + i] = t[i]
<1>1. Len(s) \in Nat /\ Len(t) \in Nat
  BY LenProperties
<1>2. \A i \in 1 .. Len(s) + Len(t) : (s \o t)[i] = IF i <= Len(s) THEN s[i] ELSE t[i - Len(s)]
  BY ConcatProperties
<1>3. ASSUME NEW i \in 1 .. Len(t)
      PROVE  (s \o t)[Len(s) + i] = t[i]
  <2>1. Len(s) + i \in 1 .. Len(s) + Len(t) /\ ~(Len(s) + i <= Len(s)) /\ Len(s) + i - Len(s) = i
    BY <1>1
  <2>2. (s \o t)[Len(s) + i] = t[Len(s) + i - Len(s)]
    BY <1>2, <2>1
  <2>3. QED
    BY <2>1, <2>2
<1>4. ASSUME NEW i \in 1 .. Len(s)
      PROVE  (s \o t)[i] = s[i]
  BY <1>1, <1>2
<1>5. QED
  BY <1>1, <1>3, <1>4, Concat

\* A size in two bytes, the most significant first, is read back; 2^16 is written as 0.
LEMMA TwoBytesRead ==
  ASSUME NEW a \in Byte, NEW b \in Byte
  PROVE  /\ TwoBytes(256 * a + b) = <<a, b>>
         /\ TwoBytes(Expected(256 * a + b)) = <<a, b>>
<1>1. a \in Nat /\ b \in 0 .. 255 /\ a \in 0 .. 255
  BY DEF Byte
<1>2. /\ (256 * a + b) % 256 = b /\ (256 * a + b) \div 256 = a
      /\ (256 * 0 + a) % 256 = a
  BY <1>1, DivModOf
<1>3. TwoBytes(256 * a + b) = <<a, b>>
  <2>1. 256 * 0 + a = a
    BY <1>1
  <2>2. QED
    BY <1>2, <2>1 DEF TwoBytes
<1>4. CASE 256 * a + b = 0
  <2>1. a = 0 /\ b = 0
    BY <1>1, <1>4
  <2>2. (256 * 256) % 256 = 0 /\ ((256 * 256) \div 256) % 256 = 0
    OBVIOUS
  <2>3. TwoBytes(SizeMod) = <<0, 0>>
    BY <2>2 DEF TwoBytes, SizeMod
  <2>4. QED
    BY <1>3, <1>4, <2>1, <2>3 DEF Expected
<1>5. CASE 256 * a + b # 0
  BY <1>3, <1>5 DEF Expected
<1>6. QED
  BY <1>3, <1>4, <1>5

\* What is written for a size, and what it is read as.
LEMMA TwoBytesOf ==
  ASSUME NEW n \in Nat
  PROVE  /\ TwoBytes(n) \in Seq(Byte) /\ Len(TwoBytes(n)) = 2
         /\ n < SizeMod => n = 256 * TwoBytes(n)[1] + TwoBytes(n)[2]
<1>1. PICK q \in Nat, x \in 0 .. 255 : n = 256 * q + x /\ n \div 256 = q /\ n % 256 = x
  BY DivMod
<1>2. q % 256 \in Byte /\ x \in Byte
  BY <1>1 DEF Byte
<1>3. TwoBytes(n) = <<q % 256, x>>
  BY <1>1 DEF TwoBytes
<1>4. ASSUME n < SizeMod
      PROVE  q % 256 = q
  <2>1. q \in 0 .. 255
    BY <1>1, <1>4 DEF SizeMod
  <2>2. (256 * 0 + q) % 256 = q /\ 256 * 0 + q = q
    BY <2>1, DivModOf
  <2>3. QED
    BY <2>2
<1>5. /\ TwoBytes(n) \in Seq(Byte) /\ Len(TwoBytes(n)) = 2
      /\ TwoBytes(n)[1] = q % 256 /\ TwoBytes(n)[2] = x
  BY <1>2, <1>3, Pair
<1>6. QED
  BY <1>1, <1>4, <1>5

\* The bytes before the data, and the size before it.
LEMMA FrontIs ==
  ASSUME NEW header \in Seq(Byte), Len(header) = 4, NEW n \in Nat
  PROVE  LET front == header \o <<0>> \o TwoBytes(n) IN
         /\ front \in Seq(Byte) /\ Len(front) = 7
         /\ \A i \in 1 .. 4 : front[i] = header[i]
         /\ front[5] = 0 /\ front[6] = TwoBytes(n)[1] /\ front[7] = TwoBytes(n)[2]
<1> DEFINE t == TwoBytes(n)
           z == <<0>>
           s == header \o z
<1>1. t \in Seq(Byte) /\ Len(t) = 2
  BY TwoBytesOf
<1>2. z \in Seq(Byte) /\ Len(z) = 1 /\ z[1] = 0
  BY DEF Byte
<1> HIDE DEF t, z
<1>3. /\ s \in Seq(Byte) /\ Len(s) = Len(header) + Len(z)
      /\ \A i \in 1 .. Len(header) : s[i] = header[i]
      /\ \A i \in 1 .. Len(z) : s[Len(header) + i] = z[i]
  BY <1>2, Joined
<1> HIDE DEF s
<1>4. Len(s) = 5 /\ s[5] = 0 /\ \A i \in 1 .. 4 : s[i] = header[i]
  BY <1>2, <1>3
<1> DEFINE front == s \o t
<1>5. /\ front \in Seq(Byte) /\ Len(front) = Len(s) + Len(t)
      /\ \A i \in 1 .. Len(s) : front[i] = s[i]
      /\ \A i \in 1 .. Len(t) : front[Len(s) + i] = t[i]
  BY <1>1, <1>3, Joined
<1>6. header \o <<0>> \o TwoBytes(n) = front
  BY DEF s, t, z
<1> HIDE DEF front
<1>7. /\ Len(front) = 7 /\ front[6] = t[1] /\ front[7] = t[2]
      /\ \A i \in 1 .. 5 : front[i] = s[i]
  BY <1>1, <1>4, <1>5
<1>8. /\ front \in Seq(Byte) /\ Len(front) = 7
      /\ \A i \in 1 .. 4 : front[i] = header[i]
      /\ front[5] = 0 /\ front[6] = t[1] /\ front[7] = t[2]
  <2>1. \A i \in 1 .. 4 : front[i] = header[i]
    BY <1>4, <1>7
  <2>2. front[5] = 0
    BY <1>4, <1>7
  <2>3. QED
    BY <1>5, <1>7, <2>1, <2>2, Zenon
<1>9. QED
  BY <1>6, <1>8, Zenon DEF t

\* The bytes of an APDU that says how much data it has.
BytesOf(apdu, header, n, data, size) ==
  /\ apdu \in Seq(Byte)
  /\ Len(apdu) = IF size = 0 THEN 7 + n ELSE 9 + n
  /\ \A i \in 1 .. 4 : apdu[i] = header[i]
  /\ apdu[5] = 0 /\ apdu[6] = TwoBytes(n)[1] /\ apdu[7] = TwoBytes(n)[2]
  /\ \A i \in 1 .. n : apdu[7 + i] = data[i]
  /\ size # 0 => apdu[8 + n] = TwoBytes(size)[1] /\ apdu[9 + n] = TwoBytes(size)[2]

LEMMA WithSizesIs ==
  ASSUME NEW header \in Seq(Byte), Len(header) = 4, NEW data \in Seq(Byte), NEW size \in Nat,
         NEW n, n = Len(data)
  PROVE  BytesOf(WithSizes(header, data, size), header, n, data, size)
<1> DEFINE front == header \o <<0>> \o TwoBytes(n)
           most  == front \o data
           end   == SizeExpected(size)
           apdu  == most \o end
<1>1. n \in Nat
  BY LenProperties
<1>2. /\ front \in Seq(Byte) /\ Len(front) = 7
      /\ \A i \in 1 .. 4 : front[i] = header[i]
      /\ front[5] = 0 /\ front[6] = TwoBytes(n)[1] /\ front[7] = TwoBytes(n)[2]
  BY <1>1, FrontIs
<1> HIDE DEF front
<1>3. /\ most \in Seq(Byte) /\ Len(most) = Len(front) + n
      /\ \A i \in 1 .. Len(front) : most[i] = front[i]
      /\ \A i \in 1 .. n : most[Len(front) + i] = data[i]
  BY <1>2, Joined
<1> HIDE DEF most
<1>4. /\ Len(most) = 7 + n
      /\ \A i \in 1 .. 7 : most[i] = front[i]
      /\ \A i \in 1 .. n : most[7 + i] = data[i]
  BY <1>2, <1>3
<1>5. /\ end \in Seq(Byte)
      /\ size = 0 => Len(end) = 0
      /\ size # 0 => Len(end) = 2 /\ end[1] = TwoBytes(size)[1] /\ end[2] = TwoBytes(size)[2]
  <2>1. <<>> \in Seq(Byte) /\ Len(<<>>) = 0
    BY EmptySeq
  <2>2. TwoBytes(size) \in Seq(Byte) /\ Len(TwoBytes(size)) = 2
    BY TwoBytesOf
  <2>3. QED
    BY <2>1, <2>2 DEF SizeExpected
<1> HIDE DEF end
<1>6. /\ apdu \in Seq(Byte) /\ Len(apdu) = Len(most) + Len(end) /\ Len(end) \in Nat
      /\ \A i \in 1 .. Len(most) : apdu[i] = most[i]
      /\ \A i \in 1 .. Len(end) : apdu[Len(most) + i] = end[i]
  BY <1>3, <1>5, Joined
<1>7. apdu = WithSizes(header, data, size)
  BY DEF WithSizes, most, front, end
<1> HIDE DEF apdu
<1>8. /\ Len(apdu) = 7 + n + Len(end)
      /\ \A i \in 1 .. 7 + n : apdu[i] = most[i]
      /\ \A i \in 1 .. Len(end) : apdu[7 + n + i] = end[i]
  BY <1>4, <1>6
<1>9. \A i \in 1 .. 7 : apdu[i] = front[i]
  BY <1>1, <1>4, <1>8
<1>10. \A i \in 1 .. n : apdu[7 + i] = data[i]
  <2> TAKE i \in 1 .. n
  <2>1. 7 + i \in 1 .. 7 + n
    BY <1>1
  <2>2. QED
    BY <1>4, <1>8, <2>1
<1>11. Len(apdu) = IF size = 0 THEN 7 + n ELSE 9 + n
  <2>1. (size = 0 => Len(end) = 0) /\ (size # 0 => Len(end) = 2)
    BY <1>5, Zenon
  <2>2. Len(apdu) = 7 + n + Len(end)
    BY <1>8
  <2>3. 7 + n + 0 = 7 + n /\ 7 + n + 2 = 9 + n
    BY <1>1
  <2>4. QED
    BY <2>1, <2>2, <2>3, Zenon
<1>12. size # 0 => apdu[8 + n] = end[1] /\ apdu[9 + n] = end[2]
  <2>1. size # 0 => apdu[7 + n + 1] = end[1] /\ apdu[7 + n + 2] = end[2]
    <3>1. size # 0 => 1 \in 1 .. Len(end) /\ 2 \in 1 .. Len(end)
      <4>1. size # 0 => Len(end) = 2
        BY <1>5, Zenon
      <4>2. 1 \in 1 .. 2 /\ 2 \in 1 .. 2
        OBVIOUS
      <4>3. QED
        BY <4>1, <4>2, Zenon
    <3>2. QED
      BY <1>8, <3>1
  <2>2. 7 + n + 1 = 8 + n /\ 7 + n + 2 = 9 + n
    BY <1>1
  <2>3. QED
    BY <2>1, <2>2
<1>13. BytesOf(apdu, header, n, data, size)
  BY <1>1, <1>2, <1>5, <1>6, <1>9, <1>10, <1>11, <1>12 DEF BytesOf
<1>14. QED
  BY <1>7, <1>13, Zenon

\* The part of a request that every encoding starts with.
Header == SubSeq(rawRequest, 1, 4)

\* The first four bytes of a request.
LEMMA HeaderIs ==
  ASSUME TypeOK, 4 <= Len(rawRequest)
  PROVE  /\ Header \in Seq(Byte) /\ Len(Header) = 4
         /\ \A i \in 1 .. 4 : Header[i] = rawRequest[i]
<1>1. rawRequest \in Seq(Byte) /\ Len(rawRequest) \in Nat
  BY LenProperties DEF TypeOK
<1>2. \A i \in 1 .. 4 : rawRequest[i] \in Byte
  BY <1>1, ElementOfSeq
<1>3. /\ Header \in Seq(Byte) /\ Len(Header) = 4
      /\ \A i \in 1 .. 4 - 1 + 1 : Header[i] = rawRequest[1 + i - 1]
  BY <1>2, SubSeqProperties DEF Header
<1> HIDE DEF Header
<1>4. ASSUME NEW i \in 1 .. 4
      PROVE  Header[i] = rawRequest[i]
  BY <1>3
<1>5. QED
  BY <1>3, <1>4

\* The data of a request that has so much of it.
LEMMA DataIs ==
  ASSUME TypeOK, NEW n \in Nat, 7 + n <= Len(rawRequest)
  PROVE  /\ Data(0, n) \in Seq(Byte) /\ Len(Data(0, n)) = n
         /\ \A i \in 1 .. n : Data(0, n)[i] = rawRequest[7 + i]
<1>1. rawRequest \in Seq(Byte) /\ Len(rawRequest) \in Nat
  BY LenProperties DEF TypeOK
<1>2. \A i \in 8 .. 7 + n : rawRequest[i] \in Byte
  BY <1>1, ElementOfSeq
<1> DEFINE d == SubSeq(rawRequest, 8, 7 + n)
<1>3. /\ d \in Seq(Byte) /\ Len(d) = IF 8 <= 7 + n THEN 7 + n - 8 + 1 ELSE 0
      /\ \A i \in 1 .. 7 + n - 8 + 1 : d[i] = rawRequest[8 + i - 1]
  BY <1>2, SubSeqProperties
<1>4. Data(0, n) = d
  BY DEF Data
<1> HIDE DEF d
<1>5. Len(d) = n
  BY <1>3
<1>6. ASSUME NEW i \in 1 .. n
      PROVE  d[i] = rawRequest[7 + i]
  <2>1. i \in 1 .. 7 + n - 8 + 1 /\ 8 + i - 1 = 7 + i
    OBVIOUS
  <2>2. QED
    BY <1>3, <2>1
<1>7. QED
  BY <1>3, <1>4, <1>5, <1>6

\* A request that has the sizes it says, at the offsets of the code, is the encoding of its parts.
LEMMA SizesMatch ==
  ASSUME TypeOK, NEW n \in Nat, RawByte(4) = 0, TwoBytes(n) = <<RawByte(5), RawByte(6)>>,
         NEW expected \in Nat,
         \/ expected = 0 /\ Len(rawRequest) = 7 + n
         \/ /\ expected # 0 /\ Len(rawRequest) = 9 + n
            /\ TwoBytes(expected) = <<RawByte(7 + n), RawByte(8 + n)>>
  PROVE  rawRequest = WithSizes(Header, Data(0, n), expected)
<1> DEFINE data == Data(0, n)
           apdu == WithSizes(Header, data, expected)
<1>1. rawRequest \in Seq(Byte) /\ Len(rawRequest) \in Nat /\ 7 + n <= Len(rawRequest)
  BY LenProperties DEF TypeOK
<1>2. /\ Header \in Seq(Byte) /\ Len(Header) = 4
      /\ \A i \in 1 .. 4 : Header[i] = rawRequest[i]
  BY <1>1, HeaderIs
<1>3. /\ data \in Seq(Byte) /\ n = Len(data)
      /\ \A i \in 1 .. n : data[i] = rawRequest[7 + i]
  BY <1>1, DataIs
<1> HIDE DEF data
<1>4. BytesOf(apdu, Header, n, data, expected)
  BY <1>2, <1>3, WithSizesIs, Zenon
<1> USE DEF BytesOf
<1> HIDE DEF apdu
<1>5. Len(apdu) = Len(rawRequest)
  BY <1>4
<1>6. \A i \in 1 .. 4 : apdu[i] = rawRequest[i]
  BY <1>2, <1>4
<1>7. apdu[5] = rawRequest[5] /\ apdu[6] = rawRequest[6] /\ apdu[7] = rawRequest[7]
  BY <1>4 DEF RawByte
<1>8. \A i \in 1 .. n : apdu[7 + i] = rawRequest[7 + i]
  BY <1>3, <1>4
<1>9. expected # 0 => apdu[8 + n] = rawRequest[8 + n] /\ apdu[9 + n] = rawRequest[9 + n]
  <2>1. 7 + n + 1 = 8 + n /\ 8 + n + 1 = 9 + n
    OBVIOUS
  <2>2. expected # 0 => TwoBytes(expected)[1] = rawRequest[8 + n] /\ TwoBytes(expected)[2] = rawRequest[9 + n]
    BY <2>1 DEF RawByte
  <2>3. QED
    BY <1>4, <2>2
<1>10. ASSUME NEW i \in 1 .. Len(rawRequest)
       PROVE  apdu[i] = rawRequest[i]
  <2>1. CASE i <= 4
    BY <1>6, <2>1
  <2>2. CASE i \in {5, 6, 7}
    BY <1>7, <2>2
  <2>3. CASE i >= 8 /\ i <= 7 + n
    <3>1. i - 7 \in 1 .. n /\ 7 + (i - 7) = i
      BY <2>3
    <3>2. apdu[7 + (i - 7)] = rawRequest[7 + (i - 7)]
      BY <1>8, <3>1
    <3>3. QED
      BY <3>1, <3>2
  <2>4. CASE i > 7 + n
    <3>1. expected # 0 /\ i \in {8 + n, 9 + n}
      BY <1>1, <2>4
    <3>2. QED
      BY <1>9, <3>1
  <2>5. QED
    BY <1>1, <2>1, <2>2, <2>3, <2>4
<1>11. apdu = rawRequest
  BY <1>1, <1>4, <1>5, <1>10, SeqEqual
<1>12. QED
  BY <1>11 DEF apdu, data

\* The request encodes data of that size and an answer of that one, in one of the ways to do so.
Encodes(size, expected) ==
  rawRequest \in {Encoded(Header, Data(0, size), expected), WithSizes(Header, Data(0, size), expected)}

\* Nothing is data of no size.
LEMMA NoData == Data(0, 0) = <<>>
BY SubSeqEmpty DEF Data

\* A size of two bytes, as the code reads it.
LEMMA SizeRead ==
  ASSUME TypeOK, NEW i \in Nat, i + 2 <= Len(rawRequest)
  PROVE  /\ RawSize(i) \in Nat /\ RawSize(i) < SizeMod
         /\ Expected(RawSize(i)) \in Nat /\ Expected(RawSize(i)) # 0
         /\ TwoBytes(RawSize(i)) = <<RawByte(i), RawByte(i + 1)>>
         /\ TwoBytes(Expected(RawSize(i))) = <<RawByte(i), RawByte(i + 1)>>
<1>1. Len(rawRequest) \in Nat
  BY TypeSizes
<1>2. RawByte(i) \in Byte /\ RawByte(i + 1) \in Byte
  <2>1. i + 1 <= Len(rawRequest) /\ i + 1 + 1 <= Len(rawRequest) /\ i + 1 \in Nat
    BY <1>1
  <2>2. QED
    BY <2>1, RawFacts
<1>3. RawSize(i) \in Nat /\ RawSize(i) < SizeMod
  BY RawFacts, SizeModIs
<1>4. RawSize(i) = 256 * RawByte(i) + RawByte(i + 1)
  BY DEF RawSize
<1>5. Expected(RawSize(i)) \in Nat /\ Expected(RawSize(i)) # 0
  BY <1>3, SizeModIs DEF Expected
<1>6. QED
  BY <1>2, <1>3, <1>4, <1>5, TwoBytesRead

LEMMA BareEncodes ==
  ASSUME TypeOK, Bare
  PROVE  Encodes(0, 0)
<1>1. rawRequest \in Seq(Byte) /\ Len(rawRequest) = 4
  BY DEF TypeOK, Bare, rawRequestSize
<1>2. Header = rawRequest
  <2>1. SubSeq(rawRequest, 1, Len(rawRequest)) = rawRequest
    BY <1>1, SubSeqFull
  <2>2. QED
    BY <1>1, <2>1 DEF Header
<1>3. Encoded(Header, <<>>, 0) = Header
  BY DEF Encoded
<1>4. QED
  BY <1>2, <1>3, NoData DEF Encodes

LEMMA SizeOnlyEncodes ==
  ASSUME TypeOK, SizeOnly
  PROVE  Encodes(0, Expected(RawSize(5)))
<1> DEFINE expected == Expected(RawSize(5))
           apdu     == Header \o <<0>> \o TwoBytes(expected)
<1>1. rawRequest \in Seq(Byte) /\ Len(rawRequest) = 7 /\ rawRequest[5] = 0
  BY DEF TypeOK, SizeOnly, rawRequestSize, RawByte
<1>2. /\ expected \in Nat /\ expected # 0
      /\ TwoBytes(expected) = <<RawByte(5), RawByte(5 + 1)>>
  BY <1>1, SizeRead
<1>3. TwoBytes(expected)[1] = rawRequest[6] /\ TwoBytes(expected)[2] = rawRequest[7]
  BY <1>2 DEF RawByte
<1>4. /\ Header \in Seq(Byte) /\ Len(Header) = 4
      /\ \A i \in 1 .. 4 : Header[i] = rawRequest[i]
  BY <1>1, HeaderIs
<1> HIDE DEF expected
<1>5. /\ apdu \in Seq(Byte) /\ Len(apdu) = 7
      /\ \A i \in 1 .. 4 : apdu[i] = Header[i]
      /\ apdu[5] = 0 /\ apdu[6] = TwoBytes(expected)[1] /\ apdu[7] = TwoBytes(expected)[2]
  BY <1>2, <1>4, FrontIs
<1>6. Encoded(Header, <<>>, expected) = apdu
  BY <1>2 DEF Encoded, SizeExpected
<1> HIDE DEF apdu
<1>7. ASSUME NEW i \in 1 .. 7
      PROVE  apdu[i] = rawRequest[i]
  <2>1. CASE i \in 1 .. 4
    BY <1>4, <1>5, <2>1
  <2>2. CASE i \in {5, 6, 7}
    BY <1>1, <1>3, <1>5, <2>2
  <2>3. QED
    BY <2>1, <2>2
<1>8. apdu = rawRequest
  BY <1>1, <1>5, <1>7, SeqEqual
<1>9. QED
  BY <1>6, <1>8, NoData DEF Encodes, expected

LEMMA DataOnlyEncodes ==
  ASSUME TypeOK, Len(rawRequest) < WordMod, DataOnly
  PROVE  Encodes(RawSize(5), 0)
<1>1. Len(rawRequest) \in Nat /\ Len(rawRequest) > 7 /\ RawByte(4) = 0
  BY TypeSizes DEF DataOnly, WithData, rawRequestSize
<1>2. RawSize(5) \in Nat /\ TwoBytes(RawSize(5)) = <<RawByte(5), RawByte(5 + 1)>>
  BY <1>1, SizeRead
<1>3. RawSize(5) = Len(rawRequest) - 7
  BY <1>1, MinusFacts DEF DataOnly, rawRequestSize
<1> DEFINE n == RawSize(5)
<1> HIDE DEF n
<1>4. n \in Nat /\ n > 0 /\ Len(rawRequest) = 7 + n /\ TwoBytes(n) = <<RawByte(5), RawByte(6)>>
  BY <1>1, <1>2, <1>3 DEF n
<1>5. rawRequest = WithSizes(Header, Data(0, n), 0)
  BY <1>1, <1>4, SizesMatch
<1>6. QED
  BY <1>5 DEF Encodes, n

LEMMA DataAndSizeEncodes ==
  ASSUME TypeOK, Len(rawRequest) < WordMod, DataAndSize
  PROVE  Encodes(RawSize(5), Expected(RawSize(7 + RawSize(5))))
<1>1. Len(rawRequest) \in Nat /\ Len(rawRequest) > 7 /\ RawByte(4) = 0
  BY TypeSizes DEF DataAndSize, WithData, rawRequestSize
<1>2. /\ RawSize(5) \in Nat /\ RawSize(5) < SizeMod
      /\ TwoBytes(RawSize(5)) = <<RawByte(5), RawByte(5 + 1)>>
  BY <1>1, SizeRead
<1>3. Len(rawRequest) = 9 + RawSize(5)
  <2>1. CASE Len(rawRequest) = 8
    <3>1. RawSize(5) >= SizeMod
      <4>1. RawSize(5) = Minus(8, 9)
        BY <2>1 DEF DataAndSize, rawRequestSize
      <4>2. Minus(8, 9) >= SizeMod
        BY <1>1, <2>1, MinusFacts
      <4>3. QED
        BY <4>1, <4>2
    <3>2. FALSE
      BY <1>2, <3>1, SizeModIs
    <3>3. QED
      BY <3>2
  <2>2. CASE Len(rawRequest) >= 9
    <3>1. RawSize(5) = Len(rawRequest) - 9
      BY <1>1, <2>2, MinusFacts DEF DataAndSize, rawRequestSize
    <3>2. QED
      BY <1>1, <3>1
  <2>3. Len(rawRequest) = 8 \/ Len(rawRequest) >= 9
    <3>1. \A m \in Nat : m > 7 => m = 8 \/ m >= 9
      OBVIOUS
    <3>2. QED
      BY <1>1, <3>1
  <2>4. QED
    BY <2>1, <2>2, <2>3
<1> DEFINE n        == RawSize(5)
           expected == Expected(RawSize(7 + n))
<1>4. n \in Nat /\ Len(rawRequest) = 9 + n /\ TwoBytes(n) = <<RawByte(5), RawByte(6)>>
  BY <1>2, <1>3
<1> HIDE DEF n
<1>5. /\ expected \in Nat /\ expected # 0
      /\ TwoBytes(expected) = <<RawByte(7 + n), RawByte(7 + n + 1)>>
  <2>1. 7 + n \in Nat /\ 7 + n + 2 <= Len(rawRequest)
    BY <1>4
  <2>2. QED
    BY <2>1, SizeRead
<1> HIDE DEF expected
<1>6. TwoBytes(expected) = <<RawByte(7 + n), RawByte(8 + n)>>
  <2>1. 7 + n + 1 = 8 + n
    BY <1>4
  <2>2. QED
    BY <1>5, <2>1
<1>7. rawRequest = WithSizes(Header, Data(0, n), expected)
  BY <1>1, <1>4, <1>5, <1>6, SizesMatch
<1>8. QED
  BY <1>7 DEF Encodes, expected, n

\* What is refused encodes no data whose size fits its two bytes.
LEMMA RefusedEncodesNothing ==
  ASSUME TypeOK, Len(rawRequest) < WordMod, 4 <= Len(rawRequest),
         ~Bare, ~SizeOnly, ~DataOnly, ~DataAndSize,
         NEW n \in {0} \cup 1 .. Len(rawRequest) - 7, n < SizeMod,
         NEW size \in Nat, rawRequest = Encoded(Header, Data(0, n), size)
  PROVE  FALSE
<1> DEFINE data == Data(0, n)
<1>1. Len(rawRequest) \in Nat /\ n \in Nat
  BY TypeSizes
<1>2. Header \in Seq(Byte) /\ Len(Header) = 4
  BY HeaderIs
<1>3. CASE n = 0
  <2>1. rawRequest = IF size = 0 THEN Header ELSE Header \o <<0>> \o SizeExpected(size)
    BY <1>3, NoData DEF Encoded
  <2>2. CASE size = 0
    <3>1. Len(rawRequest) = 4
      BY <1>2, <2>1, <2>2
    <3>2. QED
      BY <3>1 DEF Bare, rawRequestSize
  <2>3. CASE size # 0
    <3>1. rawRequest = Header \o <<0>> \o TwoBytes(size)
      BY <2>1, <2>3 DEF SizeExpected
    <3>2. Len(rawRequest) = 7 /\ rawRequest[5] = 0
      <4> DEFINE front == Header \o <<0>> \o TwoBytes(size)
      <4>1. Len(front) = 7 /\ front[5] = 0
        BY <1>2, FrontIs
      <4> HIDE DEF front
      <4>2. QED
        BY <3>1, <4>1 DEF front
    <3>3. QED
      BY <3>2 DEF SizeOnly, rawRequestSize, RawByte
  <2>4. QED
    BY <2>2, <2>3
<1>4. CASE n # 0
  <2>1. n > 0 /\ 7 + n <= Len(rawRequest)
    BY <1>1, <1>4
  <2>2. data \in Seq(Byte) /\ n = Len(data)
    BY <1>1, <2>1, DataIs
  <2>3. data # <<>>
    BY <2>1, <2>2, EmptySeq
  <2>4. rawRequest = WithSizes(Header, data, size)
    BY <2>3 DEF Encoded
  <2> HIDE DEF data
  <2>5. BytesOf(rawRequest, Header, n, data, size)
    <3>1. BytesOf(WithSizes(Header, data, size), Header, n, data, size)
      BY <1>2, <2>2, WithSizesIs, Zenon
    <3>2. QED
      BY <2>4, <3>1, Zenon
  <2>6. /\ rawRequest[5] = 0 /\ rawRequest[6] = TwoBytes(n)[1] /\ rawRequest[7] = TwoBytes(n)[2]
        /\ Len(rawRequest) = 7 + n \/ Len(rawRequest) = 9 + n
    BY <2>5 DEF BytesOf
  <2>7. WithData
    BY <1>1, <2>1, <2>6 DEF WithData, rawRequestSize, RawByte
  <2>8. RawSize(5) = n
    <3>1. n = 256 * TwoBytes(n)[1] + TwoBytes(n)[2]
      BY <1>1, TwoBytesOf
    <3>2. RawSize(5) = 256 * rawRequest[6] + rawRequest[7]
      BY DEF RawSize, RawByte
    <3>3. QED
      BY <2>6, <3>1, <3>2, Zenon
  <2>9. CASE Len(rawRequest) = 7 + n
    <3>1. Minus(Len(rawRequest), 7) = n
      <4>1. Minus(Len(rawRequest), 7) = Len(rawRequest) - 7
        BY <1>1, <2>1, MinusFacts
      <4>2. QED
        BY <1>1, <2>9, <4>1
    <3>2. QED
      BY <2>7, <2>8, <3>1 DEF DataOnly, rawRequestSize
  <2>10. CASE Len(rawRequest) = 9 + n
    <3>1. Minus(Len(rawRequest), 9) = n
      <4>1. 9 <= Len(rawRequest)
        BY <1>1, <2>10
      <4>2. Minus(Len(rawRequest), 9) = Len(rawRequest) - 9
        BY <1>1, <4>1, MinusFacts
      <4>3. QED
        BY <1>1, <2>10, <4>2
    <3>2. QED
      BY <2>7, <2>8, <3>1 DEF DataAndSize, rawRequestSize
  <2>11. QED
    BY <2>6, <2>9, <2>10
<1>5. QED
  BY <1>3, <1>4

\* What the host may expect in the last two bytes is a size.
LEMMA LastSize ==
  ASSUME TypeOK, 4 <= Len(rawRequest), NEW size \in {0, Expected(RawSize(Len(rawRequest) - 2))}
  PROVE  size \in Nat
<1>1. Len(rawRequest) - 2 \in Nat /\ Len(rawRequest) - 2 + 2 <= Len(rawRequest)
  BY TypeSizes
<1>2. Expected(RawSize(Len(rawRequest) - 2)) \in Nat
  BY <1>1, SizeRead
<1>3. QED
  BY <1>2

LEMMA ParseStepInverts ==
  ASSUME CoreInv, Parse
  PROVE  ParseInverts'
<1>1. /\ TypeOK /\ Len(rawRequest) \in Nat /\ Len(rawRequest) < WordMod
  BY TypeSizes DEF CoreInv, DataInRequest, Parse, ParseBare, ParseSizeOnly, ParseDataOnly, ParseDataAndSize, Refuse
<1>2. ASSUME NEW size, NEW expected, NEW last, Parsed(size, expected, last), Encodes(size, expected)
      PROVE  ParseInverts'
  BY <1>2 DEF Parsed, Encodes, ParseInverts, Header, Data
<1>3. CASE ParseBare
  BY <1>1, <1>2, <1>3, BareEncodes DEF ParseBare
<1>4. CASE ParseSizeOnly
  BY <1>1, <1>2, <1>4, SizeOnlyEncodes DEF ParseSizeOnly
<1>5. CASE ParseDataOnly
  BY <1>1, <1>2, <1>5, DataOnlyEncodes DEF ParseDataOnly
<1>6. CASE ParseDataAndSize
  BY <1>1, <1>2, <1>6, DataAndSizeEncodes DEF ParseDataAndSize
<1>7. CASE Refuse
  <2>1. /\ pc' = "refused" /\ rawRequest' = rawRequest
        /\ ~Bare /\ ~SizeOnly /\ ~DataOnly /\ ~DataAndSize
    BY <1>7 DEF Refuse
  <2>2. ASSUME 4 <= Len(rawRequest),
               NEW n \in {0} \cup 1 .. Len(rawRequest) - 7,
               NEW size \in {0, Expected(RawSize(Len(rawRequest) - 2))},
               n < SizeMod, rawRequest = Encoded(Header, Data(0, n), size)
        PROVE  FALSE
    <3>1. size \in Nat
      BY <1>1, <2>2, LastSize
    <3>2. QED
      BY <1>1, <2>1, <2>2, <3>1, RefusedEncodesNothing
  <2>3. QED
    BY <2>1, <2>2 DEF ParseInverts, Header, Data, rawRequestSize, RawSize, RawByte
<1>8. QED
  BY <1>3, <1>4, <1>5, <1>6, <1>7 DEF Parse

\* A request is not parsed twice.
LEMMA ParseInvertsStep == CoreInv /\ ParseInverts /\ [Next]_vars => ParseInverts'
<1> SUFFICES ASSUME CoreInv, ParseInverts, [Next]_vars PROVE ParseInverts'
  OBVIOUS
<1>1. CASE Parse
  BY <1>1, ParseStepInverts
<1>2. CASE UNCHANGED vars
  BY <1>2 DEF vars, ParseInverts, rawRequestSize, RawSize, RawByte, Data
<1>3. CASE Receive \/ Forget
  BY <1>3 DEF Receive, Forget, ParseInverts
<1>4. CASE ProcessRequest \/ ProcessRegister \/ ProcessAuthenticate \/ Finish
  <2>1. pc' \in {"status", "enroll", "sign", "dead", "answered"}
    BY <1>4 DEF ProcessRequest, ProcessRegister, ProcessAuthenticate, Finish, WrongClass, UnknownInstruction,
         VersionWithoutRoom, Version, RegisterWrongLength, Register, EnrollFails, Enroll, EnrollOverruns,
         WrongControl, AuthenticateTooShort, AuthenticateWrongLength, InvalidHandle, UserNotPresent,
         Authenticate, AuthenticateOverruns, Sign, SignFails, SignOverruns, AppendStatus, StatusOverruns,
         Error, Return, Step, Overrun
  <2>2. QED
    BY <2>1 DEF ParseInverts
<1>5. QED
  BY <1>1, <1>2, <1>3, <1>4 DEF Next

\* Whatever request it is, what is accepted is an encoding, as ISO 7816-4 has it, of exactly
\* the data and the expected size that the handlers are given, and what is refused encodes no
\* data whose size fits its two bytes (core.cpp:24-70).
THEOREM ParsingInverts == Spec => []ParseInverts
<1>1. Init => ParseInverts
  BY DEF Init, ParseInverts
<1>2. QED
  BY <1>1, CoreIsInvariant, ParseInvertsStep, PTL DEF Spec

-----------------------------------------------------------------------------
(* What a host finds in an answer. *)

\* The part of a string between two others.
LEMMA Middle ==
  ASSUME NEW a \in Seq(Byte), NEW b \in Seq(Byte), NEW c \in Seq(Byte)
  PROVE  SubSeq((a \o b) \o c, Len(a) + 1, Len(a) + Len(b)) = b
<1> DEFINE ab == a \o b
           s  == ab \o c
           m  == SubSeq(s, Len(a) + 1, Len(a) + Len(b))
<1>1. /\ ab \in Seq(Byte) /\ Len(ab) = Len(a) + Len(b)
      /\ Len(a) \in Nat /\ Len(b) \in Nat
      /\ \A i \in 1 .. Len(b) : ab[Len(a) + i] = b[i]
  BY Joined
<1> HIDE DEF ab
<1>2. \A i \in 1 .. Len(ab) : s[i] = ab[i]
  BY <1>1, Joined
<1>3. s \in Seq(Byte) /\ Len(s) = Len(ab) + Len(c) /\ Len(c) \in Nat
  BY <1>1, Joined
<1> HIDE DEF s
<1>4. \A i \in Len(a) + 1 .. Len(a) + Len(b) : s[i] \in Byte
  <2>1. \A i \in Len(a) + 1 .. Len(a) + Len(b) : i \in 1 .. Len(s)
    BY <1>1, <1>3
  <2>2. QED
    BY <1>3, <2>1, ElementOfSeq
<1>5. /\ m \in Seq(Byte)
      /\ Len(m) = IF Len(a) + 1 <= Len(a) + Len(b) THEN Len(a) + Len(b) - (Len(a) + 1) + 1 ELSE 0
      /\ \A i \in 1 .. Len(a) + Len(b) - (Len(a) + 1) + 1 : m[i] = s[Len(a) + 1 + i - 1]
  BY <1>1, <1>4, SubSeqProperties
<1> HIDE DEF m
<1>6. Len(m) = Len(b)
  BY <1>1, <1>5
<1>7. ASSUME NEW i \in 1 .. Len(m)
      PROVE  m[i] = b[i]
  <2>1. i \in 1 .. Len(b)
    BY <1>6
  <2>2. m[i] = s[Len(a) + i]
    <3>1. i \in 1 .. Len(a) + Len(b) - (Len(a) + 1) + 1 /\ Len(a) + 1 + i - 1 = Len(a) + i
      BY <1>1, <2>1
    <3>2. QED
      BY <1>5, <3>1
  <2>3. Len(a) + i \in 1 .. Len(ab)
    BY <1>1, <2>1
  <2>4. QED
    BY <1>1, <1>2, <2>1, <2>2, <2>3
<1>8. m = b
  BY <1>5, <1>6, <1>7, SeqEqual
<1>9. QED
  BY <1>8 DEF m, s, ab

\* Three parts may be grouped in either way.  An operator of its own for the equality keeps the
\* provers from expanding the concatenations.
Equal(s, t) == s = t

LEMMA Grouped ==
  ASSUME NEW k \in Seq(Byte), NEW l \in Seq(Byte), NEW m \in Seq(Byte)
  PROVE  Equal((k \o l) \o m, k \o (l \o m))
BY ConcatAssociative DEF Equal

\* What comes after the first part, and the first part itself.
LEMMA Parts ==
  ASSUME NEW a \in Seq(Byte), NEW b \in Seq(Byte)
  PROVE  /\ SubSeq(a \o b, Len(a) + 1, Len(a \o b)) = b
         /\ SubSeq(a \o b, 1, Len(a)) = a
<1>1. <<>> \in Seq(Byte) /\ Len(<<>>) = 0
  BY EmptySeq
<1>2. a \o b \in Seq(Byte) /\ Len(a \o b) = Len(a) + Len(b) /\ Len(a) \in Nat /\ Len(b) \in Nat
  BY Joined
<1>3. (a \o b) \o <<>> = a \o b /\ <<>> \o a = a
  BY <1>2, ConcatEmptySeq
<1>4. SubSeq((a \o b) \o <<>>, Len(a) + 1, Len(a) + Len(b)) = b
  BY <1>1, Middle
<1>5. SubSeq((<<>> \o a) \o b, 0 + 1, 0 + Len(a)) = a
  <2>1. SubSeq((<<>> \o a) \o b, Len(<<>>) + 1, Len(<<>>) + Len(a)) = a
    BY <1>1, Middle, Zenon
  <2>2. QED
    BY <1>1, <2>1, Zenon
<1>6. 0 + 1 = 1 /\ 0 + Len(a) = Len(a)
  BY <1>2
<1>7. QED
  BY <1>2, <1>3, <1>4, <1>5, <1>6, Zenon

\* The zero that goes before a number, with the two bytes before it.
LEMMA PairAndZero ==
  ASSUME NEW a \in Byte, NEW b \in Byte
  PROVE  <<a, b>> \o <<0>> = <<a, b, 0>>
<1> DEFINE s == <<a, b>>
           z == <<0>>
           t == <<a, b, 0>>
           u == s \o z
<1>1. s \in Seq(Byte) /\ Len(s) = 2 /\ s[1] = a /\ s[2] = b
  BY Pair
<1>2. z \in Seq(Byte) /\ Len(z) = 1 /\ z[1] = 0
  BY DEF Byte
<1>3. t \in Seq(Byte) /\ Len(t) = 3 /\ t[1] = a /\ t[2] = b /\ t[3] = 0
  BY DEF Byte
<1> HIDE DEF s, z, t
<1>4. /\ u \in Seq(Byte) /\ Len(u) = Len(s) + Len(z)
      /\ \A i \in 1 .. Len(s) : u[i] = s[i]
      /\ \A i \in 1 .. Len(z) : u[Len(s) + i] = z[i]
  BY <1>1, <1>2, Joined
<1> HIDE DEF u
<1>5. Len(u) = 3 /\ u[1] = a /\ u[2] = b /\ u[3] = 0
  BY <1>1, <1>2, <1>4
<1>6. \A i \in 1 .. Len(u) : u[i] = t[i]
  BY <1>3, <1>5
<1>7. u = t
  BY <1>3, <1>4, <1>5, <1>6, SeqEqual
<1>8. QED
  BY <1>7 DEF s, z, t, u

\* A number whose first byte says nothing, and is not needed to keep it from looking negative.
Padded(n) == IntSize > 1 /\ n[1] = 0 /\ ~(n[2] >= 128)

\* What is written for a number reads as it, and is longer than DER allows when it is padded.
StandsFor(c, n) == ReadsAs(c, n) /\ (Minimal(c) <=> ~Padded(n))

\* The content of the INTEGER that sign() makes of a number stands for it.
LEMMA DerIntegerIs ==
  ASSUME NEW n \in Number
  PROVE  \E c \in Seq(Byte) : /\ DerInteger(n) = <<INTEGER, Len(c)>> \o c
                              /\ Len(c) \in Byte /\ Len(c) <= IntSize + 1 /\ StandsFor(c, n)
<1>1. n \in Seq(Byte) /\ Len(n) = IntSize /\ n[1] \in Byte
  BY NumberIsString
<1>2. IntSize \in Nat /\ IntSize >= 1 /\ IntSize <= 60
  BY CoreSizes
<1>3. CASE n[1] >= 128
  <2> DEFINE c == <<0>> \o n
  <2>1. <<0>> \in Seq(Byte) /\ Len(<<0>>) = 1 /\ <<0>>[1] = 0
    BY DEF Byte
  <2>2. /\ c \in Seq(Byte) /\ Len(c) = IntSize + 1
        /\ c[1] = 0
    <3>1. /\ c \in Seq(Byte) /\ Len(c) = Len(<<0>>) + Len(n)
          /\ \A i \in 1 .. Len(<<0>>) : c[i] = <<0>>[i]
      BY <1>1, <2>1, Joined
    <3>2. c[1] = <<0>>[1]
      BY <2>1, <3>1
    <3>3. QED
      BY <1>1, <1>2, <2>1, <3>1, <3>2
  <2>3. IntSize + 1 \in Byte
    BY <1>2 DEF Byte
  <2>4. DerInteger(n) = <<INTEGER, IntSize + 1>> \o c
    <3>1. <<INTEGER, IntSize + 1>> \in Seq(Byte)
      BY <2>3 DEF INTEGER, Byte
    <3>2. (<<INTEGER, IntSize + 1>> \o <<0>>) \o n = <<INTEGER, IntSize + 1>> \o c
      BY <1>1, <2>1, <3>1, ConcatAssociative
    <3>3. <<INTEGER, IntSize + 1>> \o <<0>> = <<INTEGER, IntSize + 1, 0>>
      <4>1. INTEGER \in Byte
        BY DEF INTEGER, Byte
      <4>2. QED
        BY <2>3, <4>1, PairAndZero
    <3>4. QED
      BY <1>3, <3>2, <3>3 DEF DerInteger
  <2>5. StandsFor(c, n)
    <3>1. c[2] = n[1]
      <4>1. \A i \in 1 .. Len(n) : c[Len(<<0>>) + i] = n[i]
        BY <1>1, <2>1, Joined
      <4> HIDE DEF c
      <4>2. 1 \in 1 .. Len(n)
        BY <1>1, <1>2
      <4>3. c[Len(<<0>>) + 1] = n[1]
        BY <4>1, <4>2
      <4>4. Len(<<0>>) + 1 = 2
        BY <2>1
      <4>5. QED
        BY <4>3, <4>4
    <3> HIDE DEF c
    <3>2. c[1] < 128
      BY <2>2
    <3>3. ReadsAs(c, n)
      BY <3>2 DEF ReadsAs, c
    <3>4. Minimal(c)
      BY <1>3, <3>1 DEF Minimal
    <3>5. ~Padded(n)
      BY <1>1, <1>3 DEF Padded
    <3>6. QED
      BY <3>3, <3>4, <3>5 DEF StandsFor
  <2> HIDE DEF c
  <2>6. Len(c) = IntSize + 1 /\ Len(c) <= IntSize + 1 /\ Len(c) \in Byte
    BY <1>2, <2>2, <2>3
  <2>7. DerInteger(n) = <<INTEGER, Len(c)>> \o c
    BY <2>4, <2>6
  <2>8. QED
    BY <2>2, <2>5, <2>6, <2>7, Zenon
<1>4. CASE ~(n[1] >= 128)
  <2>1. DerInteger(n) = <<INTEGER, Len(n)>> \o n
    BY <1>1, <1>4 DEF DerInteger
  <2>2. StandsFor(n, n)
    <3>1. ReadsAs(n, n)
      BY <1>1, <1>4, ByteFacts DEF ReadsAs
    <3>2. Minimal(n) <=> ~Padded(n)
      BY <1>1 DEF Minimal, Padded
    <3>3. QED
      BY <3>1, <3>2 DEF StandsFor
  <2>3. Len(n) \in Byte /\ Len(n) <= IntSize + 1
    BY <1>1, <1>2 DEF Byte
  <2>4. QED
    BY <1>1, <2>1, <2>2, <2>3
<1>5. QED
  BY <1>3, <1>4

\* A host finds the two numbers in what sign() wrote.
LEMMA WrappedReads ==
  ASSUME NEW r \in Number, NEW s \in Number
  PROVE  /\ Wrapped(r, s)[1] = SEQUENCE /\ Wrapped(r, s)[2] = Len(Wrapped(r, s)) - 2
         /\ StandsFor(FirstNumber(Wrapped(r, s)), r) /\ StandsFor(SecondNumber(Wrapped(r, s)), s)
<1>1. PICK c \in Seq(Byte) : /\ DerInteger(r) = <<INTEGER, Len(c)>> \o c
                             /\ Len(c) \in Byte /\ Len(c) <= IntSize + 1 /\ StandsFor(c, r)
  BY DerIntegerIs
<1>2. PICK d \in Seq(Byte) : /\ DerInteger(s) = <<INTEGER, Len(d)>> \o d
                             /\ Len(d) \in Byte /\ Len(d) <= IntSize + 1 /\ StandsFor(d, s)
  BY DerIntegerIs
<1>3. INTEGER \in Byte /\ SEQUENCE \in Byte
  BY DEF INTEGER, SEQUENCE, Byte
<1> DEFINE h2   == <<INTEGER, Len(c)>>
           h3   == <<INTEGER, Len(d)>>
           body == (h2 \o c) \o (h3 \o d)
           h1   == <<SEQUENCE, Len(body)>>
           w    == h1 \o body
           p    == h1 \o h2
           q    == p \o c
           t    == q \o h3
<1>4. Wrapped(r, s) = w
  BY <1>1, <1>2 DEF Wrapped
<1>5. h2 \in Seq(Byte) /\ Len(h2) = 2 /\ h2[2] = Len(c)
  BY <1>1, <1>3, Pair
<1>6. h3 \in Seq(Byte) /\ Len(h3) = 2 /\ h3[2] = Len(d)
  BY <1>2, <1>3, Pair
<1>7. Len(c) \in Nat /\ Len(d) \in Nat /\ IntSize \in Nat /\ IntSize <= 60
  BY CoreSizes, LenProperties
<1> HIDE DEF h2, h3
<1>8. /\ h2 \o c \in Seq(Byte) /\ Len(h2 \o c) = Len(h2) + Len(c)
      /\ h3 \o d \in Seq(Byte) /\ Len(h3 \o d) = Len(h3) + Len(d)
  BY <1>5, <1>6, Joined
<1>9. body \in Seq(Byte) /\ Len(body) = Len(h2 \o c) + Len(h3 \o d)
  BY <1>8, Joined
<1>10. Len(body) \in Nat /\ Len(body) <= 126 /\ Len(body) \in Byte
  <2>1. Len(body) = 2 + Len(c) + 2 + Len(d)
    BY <1>5, <1>6, <1>7, <1>8, <1>9
  <2>2. Len(body) \in Nat /\ Len(body) <= 126
    BY <1>1, <1>2, <1>7, <2>1
  <2>3. QED
    BY <2>2, ByteFacts
<1>11. h1 \in Seq(Byte) /\ Len(h1) = 2
  BY <1>3, <1>10, Pair
<1>12. w[1] = SEQUENCE /\ w[2] = Len(w) - 2
  <2>1. w[1] = SEQUENCE /\ w[2] = Len(body) /\ Len(w) = 2 + Len(body)
    BY <1>9, <1>10, HeaderSize
  <2>2. QED
    BY <1>10, <2>1
<1>13. h1 \in Seq(Byte) /\ h2 \in Seq(Byte) /\ h3 \in Seq(Byte) /\ h2 \o c \in Seq(Byte) /\ h3 \o d \in Seq(Byte)
  BY <1>5, <1>6, <1>8, <1>11
<1> HIDE DEF h1
<1>14. w = q \o (h3 \o d)
  <2>1. /\ Equal((h1 \o h2) \o c, h1 \o (h2 \o c))
        /\ Equal((h1 \o (h2 \o c)) \o (h3 \o d), h1 \o ((h2 \o c) \o (h3 \o d)))
    BY <1>13, Grouped, Zenon
  <2>2. QED
    BY <2>1 DEF Equal
<1> HIDE DEF body
<1>15. /\ p \in Seq(Byte) /\ Len(p) = Len(h1) + Len(h2)
       /\ \A i \in 1 .. Len(h2) : p[Len(h1) + i] = h2[i]
  BY <1>13, Joined
<1> HIDE DEF p
<1>16. Len(p) = 4 /\ p[4] = Len(c)
  BY <1>5, <1>11, <1>15
<1>17. /\ q \in Seq(Byte) /\ Len(q) = Len(p) + Len(c)
       /\ \A i \in 1 .. Len(p) : q[i] = p[i]
  BY <1>15, Joined
<1> HIDE DEF q
<1>18. Len(q) = 4 + Len(c) /\ q[4] = Len(c)
  BY <1>7, <1>16, <1>17
<1>19. /\ t \in Seq(Byte) /\ Len(t) = Len(q) + Len(h3)
       /\ \A i \in 1 .. Len(q) : t[i] = q[i]
       /\ \A i \in 1 .. Len(h3) : t[Len(q) + i] = h3[i]
  BY <1>13, <1>17, Joined
<1>20. w = t \o d
  <2>1. Equal((q \o h3) \o d, q \o (h3 \o d))
    BY <1>13, <1>17, Grouped, Zenon
  <2>2. QED
    BY <1>14, <2>1 DEF Equal
<1> HIDE DEF t
<1>21. Len(t) = 6 + Len(c) /\ t[6 + Len(c)] = Len(d) /\ t[4] = Len(c)
  <2>1. Len(q) + 2 = 6 + Len(c)
    BY <1>7, <1>18
  <2>2. t[Len(q) + 2] = h3[2]
    BY <1>6, <1>19
  <2>3. t[4] = q[4]
    BY <1>7, <1>18, <1>19
  <2>4. Len(t) = Len(q) + 2
    BY <1>6, <1>19
  <2>5. QED
    BY <1>6, <1>18, <2>1, <2>2, <2>3, <2>4
<1>22. \A i \in 1 .. Len(t) : w[i] = t[i]
  BY <1>19, <1>20, Joined
<1>23. w[4] = Len(c) /\ w[6 + Len(c)] = Len(d)
  <2>1. 4 \in 1 .. Len(t) /\ 6 + Len(c) \in 1 .. Len(t)
    BY <1>7, <1>21
  <2>2. QED
    BY <1>21, <1>22, <2>1
<1>24. FirstNumber(w) = c
  <2>1. SubSeq(w, Len(p) + 1, Len(p) + Len(c)) = c
    BY <1>13, <1>14, <1>15, Middle DEF q
  <2>2. FirstNumber(w) = SubSeq(w, 3 + 2, 3 + 1 + w[3 + 1])
    BY DEF FirstNumber, Content
  <2>3. Len(p) + 1 = 3 + 2 /\ Len(p) + Len(c) = 3 + 1 + w[3 + 1]
    <3>1. 3 + 1 = 4 /\ 3 + 2 = 5 /\ 4 + 1 = 5
      OBVIOUS
    <3>2. Len(p) + 1 = 3 + 2 /\ Len(p) + Len(c) = 3 + 1 + Len(c)
      BY <1>16, <3>1
    <3>3. w[3 + 1] = Len(c)
      BY <1>23, <3>1
    <3>4. QED
      BY <3>2, <3>3
  <2>4. QED
    BY <2>1, <2>2, <2>3
<1>25. SecondNumber(w) = d
  <2>1. SubSeq(w, Len(t) + 1, Len(w)) = d
    BY <1>19, <1>20, Parts
  <2>2. SecondNumber(w) = SubSeq(w, 5 + w[4] + 2, 5 + w[4] + 1 + w[5 + w[4] + 1])
    BY DEF SecondNumber, Content
  <2>3. Len(w) = Len(t) + Len(d)
    BY <1>19, <1>20, Joined
  <2>4. Len(t) + 1 = 5 + Len(c) + 2 /\ 5 + Len(c) + 1 = 6 + Len(c) /\ Len(w) = 6 + Len(c) + Len(d)
    BY <1>7, <1>21, <2>3
  <2>5. SecondNumber(w) = SubSeq(w, Len(t) + 1, Len(w))
    BY <1>23, <2>2, <2>4
  <2>6. QED
    BY <2>1, <2>5
<1>26. QED
  BY <1>1, <1>2, <1>4, <1>12, <1>24, <1>25

\* The answer to a registration, with what stands for its signature.
Registration(k, h, w) == (<<5>> \o Enrolled(k, h) \o Certificate) \o w

\* A host finds its parts by the sizes in it.
LEMMA RegistrationReads ==
  ASSUME NEW k \in PublicKeys, NEW h \in Handles, NEW w \in Seq(Byte),
         response = Registration(k, h, w), responseSize = Len(response)
  PROVE  /\ HostKey = k /\ HostHandle = h
         /\ HostCertificate = Certificate /\ HostRegisterSignature = w
<1> DEFINE f  == <<5>>
           z  == <<Len(h)>>
           a1 == f \o k
           a2 == a1 \o z
           a3 == a2 \o h
           cw == Certificate \o w
           zh == z \o h
<1>1. /\ k \in Seq(Byte) /\ h \in Seq(Byte) /\ Certificate \in Seq(Byte)
      /\ f \in Seq(Byte) /\ z \in Seq(Byte)
  <2>1. 5 \in Byte /\ Len(h) \in Byte
    <3>1. MaxHandleSize \in Nat /\ MaxHandleSize <= 255
      BY CoreAssumption, ByteFacts
    <3>2. Len(h) \in Nat /\ Len(h) <= MaxHandleSize
      BY EnrolledSize
    <3>3. Len(h) <= 255
      BY <3>1, <3>2
    <3>4. QED
      BY <3>2, <3>3, ByteFacts
  <2>2. QED
    BY <2>1, CoreAssumption
<1>2. /\ Len(f) = 1 /\ Len(z) = 1 /\ z[1] = Len(h)
      /\ Len(k) = PublicKeySize /\ PublicKeySize \in Nat /\ PublicKeySize >= 1
      /\ Len(h) \in Nat /\ Len(Certificate) \in Nat /\ Len(Certificate) >= 4
  BY EnrolledSize, CoreAssumption, CoreSizes
<1>3. /\ response = ((f \o ((k \o z) \o h)) \o Certificate) \o w
  BY DEF Registration, Enrolled
<1> HIDE DEF f, z
<1>4. /\ a1 \in Seq(Byte) /\ a2 \in Seq(Byte) /\ a3 \in Seq(Byte) /\ cw \in Seq(Byte) /\ zh \in Seq(Byte)
      /\ k \o z \in Seq(Byte) /\ (k \o z) \o h \in Seq(Byte) /\ f \o ((k \o z) \o h) \in Seq(Byte)
      /\ zh \o cw \in Seq(Byte)
  <2>1. \A s \in Seq(Byte), t \in Seq(Byte) : s \o t \in Seq(Byte)
    BY Joined
  <2>2. QED
    BY <1>1, <2>1, Zenon
<1>5. response = a3 \o cw
  <2>1. /\ Equal((f \o k) \o z, f \o (k \o z))
        /\ Equal((f \o (k \o z)) \o h, f \o ((k \o z) \o h))
        /\ Equal(((f \o ((k \o z) \o h)) \o Certificate) \o w, (f \o ((k \o z) \o h)) \o (Certificate \o w))
    BY <1>1, <1>4, Grouped, Zenon
  <2>2. QED
    BY <1>3, <2>1 DEF Equal
<1>6. response = a1 \o (zh \o cw)
  <2>1. /\ Equal((a1 \o z) \o h, a1 \o (z \o h))
        /\ Equal((a1 \o zh) \o cw, a1 \o (zh \o cw))
    BY <1>1, <1>4, Grouped, Zenon
  <2>2. QED
    BY <1>5, <2>1 DEF Equal
<1>7. HostKey = k
  <2>1. SubSeq((f \o k) \o (zh \o cw), Len(f) + 1, Len(f) + Len(k)) = k
    BY <1>1, <1>4, Middle, Zenon
  <2>2. Len(f) + 1 = 2 /\ Len(f) + Len(k) = 1 + PublicKeySize
    BY <1>2
  <2>3. QED
    BY <1>6, <2>1, <2>2 DEF HostKey
<1>8. /\ Len(a1) = Len(f) + Len(k)
      /\ Len(a2) = Len(a1) + Len(z) /\ \A i \in 1 .. Len(z) : a2[Len(a1) + i] = z[i]
      /\ Len(a3) = Len(a2) + Len(h) /\ \A i \in 1 .. Len(a2) : a3[i] = a2[i]
      /\ \A i \in 1 .. Len(a3) : (a3 \o cw)[i] = a3[i]
  <2>1. Len(a1) = Len(f) + Len(k)
    BY <1>1, Joined
  <2>2. Len(a2) = Len(a1) + Len(z) /\ \A i \in 1 .. Len(z) : a2[Len(a1) + i] = z[i]
    <3> HIDE DEF a1
    <3>1. QED
      BY <1>1, <1>4, Joined
  <2>3. Len(a3) = Len(a2) + Len(h) /\ \A i \in 1 .. Len(a2) : a3[i] = a2[i]
    <3> HIDE DEF a2
    <3>1. QED
      BY <1>1, <1>4, Joined
  <2>4. \A i \in 1 .. Len(a3) : (a3 \o cw)[i] = a3[i]
    <3> HIDE DEF a3, cw
    <3>1. QED
      BY <1>4, Joined
  <2>5. QED
    BY <2>1, <2>2, <2>3, <2>4, Zenon
<1>9. HostHandle = SubSeq(a3 \o cw, Len(a2) + 1, Len(a2) + Len(h))
      /\ HostAfterHandle = SubSeq(a3 \o cw, Len(a3) + 1, Len(a3 \o cw))
  <2> HIDE DEF a1, a2, a3, cw
  <2>1. Len(a2) = 2 + PublicKeySize /\ Len(a3) = 2 + PublicKeySize + Len(h)
    BY <1>2, <1>8
  <2>2. a2[2 + PublicKeySize] = Len(h)
    <3>1. Len(a1) + 1 = 2 + PublicKeySize
      BY <1>2, <1>8
    <3>2. 1 \in 1 .. Len(z)
      BY <1>2
    <3>3. a2[Len(a1) + 1] = z[1]
      BY <1>8, <3>2
    <3>4. QED
      BY <1>2, <3>1, <3>3
  <2>3. 2 + PublicKeySize \in 1 .. Len(a2) /\ 2 + PublicKeySize \in 1 .. Len(a3)
    BY <1>2, <2>1
  <2>4. HostHandleSize = Len(h)
    <3>1. (a3 \o cw)[2 + PublicKeySize] = a2[2 + PublicKeySize]
      BY <1>8, <2>3
    <3>2. QED
      BY <1>5, <2>2, <3>1 DEF HostHandleSize
  <2>5. /\ 3 + PublicKeySize = Len(a2) + 1 /\ 2 + PublicKeySize + Len(h) = Len(a2) + Len(h)
        /\ 3 + PublicKeySize + Len(h) = Len(a3) + 1
    BY <1>2, <2>1
  <2>6. QED
    BY <1>5, <2>4, <2>5 DEF HostHandle, HostAfterHandle
<1>10. HostHandle = h
  BY <1>1, <1>4, <1>9, Middle DEF a3
<1>11. HostAfterHandle = cw
  <2> HIDE DEF a3, cw
  <2>1. QED
    BY <1>4, <1>9, Parts
<1>12. CertificateSize(HostAfterHandle) = Len(Certificate)
  <2>1. cw[3] = Certificate[3] /\ cw[4] = Certificate[4]
    <3>1. \A i \in 1 .. Len(Certificate) : cw[i] = Certificate[i]
      BY <1>1, Joined
    <3>2. 3 \in 1 .. Len(Certificate) /\ 4 \in 1 .. Len(Certificate)
      BY <1>2
    <3> HIDE DEF cw
    <3>3. QED
      BY <3>1, <3>2
  <2> HIDE DEF cw
  <2>2. CertificateSize(cw) = CertificateSize(Certificate)
    BY <2>1 DEF CertificateSize
  <2>3. QED
    BY <1>11, <2>2, CoreAssumption
<1>13. HostCertificate = Certificate /\ HostRegisterSignature = w
  <2>1. /\ SubSeq(Certificate \o w, 1, Len(Certificate)) = Certificate
        /\ SubSeq(Certificate \o w, Len(Certificate) + 1, Len(Certificate \o w)) = w
    BY <1>1, Parts, Zenon
  <2>2. QED
    BY <1>11, <1>12, <2>1, Zenon DEF HostCertificate, HostRegisterSignature
<1>14. QED
  BY <1>7, <1>10, <1>13

-----------------------------------------------------------------------------
(* What is signed is what is answered. *)

\* The string to be signed is about the keys that were made, or about what is in the buffer.
Registers(k, h, w) == response = Registration(k, h, w) /\ hash = ToHash(k, h)
Authenticates(body, w) ==
  Len(body) = 5 /\ response = body \o w /\ hash = applicationHash \o body \o challengeHash

\* So is what is in the buffer, with w after it.
Answers(w) ==
  IF RawByte(1) = INS_REGISTER
  THEN \E k \in PublicKeys, h \in Handles : Registers(k, h, w)
  ELSE \E body \in Seq(Byte) : Authenticates(body, w)

AnswersInv ==
  /\ pc = "enroll" => RawByte(1) = INS_REGISTER
  /\ pc = "sign" => Answers(<<>>)
  /\ pc \in {"status", "answered"} /\ HasSigned =>
       /\ status = NO_ERROR
       /\ \E r \in Number, s \in Number : numbers = <<r, s>> /\ Answers(Wrapped(r, s))

\* A step that ends without a signature, in an error or in the version.
LEMMA UnsignedStep ==
  ASSUME CoreInv, pc \in {"process", "enroll"}, pc' = "status", UNCHANGED numbers
  PROVE  AnswersInv'
<1>1. numbers' = NotSigned
  BY DEF CoreInv, Filled
<1>2. ~HasSigned'
  BY <1>1 DEF HasSigned
<1>3. QED
  BY <1>2 DEF AnswersInv

\* A step after which nothing is about to be signed or answered.
LEMMA ElsewhereStep ==
  ASSUME pc' \notin {"enroll", "sign", "status", "answered"}
  PROVE  AnswersInv'
BY DEF AnswersInv

LEMMA RegisterAnswers ==
  ASSUME CoreInv, AnswersInv, ProcessRegister
  PROVE  AnswersInv'
<1>1. CASE RegisterWrongLength
  BY <1>1, UnsignedStep DEF RegisterWrongLength, Instruction, Error, Return, Step
<1>2. CASE Register
  <2>1. pc' = "enroll" /\ RawByte(1)' = INS_REGISTER
    BY <1>2 DEF Register, Instruction, Step, RawByte
  <2>2. QED
    BY <2>1 DEF AnswersInv
<1>3. CASE EnrollFails
  BY <1>3, UnsignedStep DEF EnrollFails, Error, Return, Step
<1>4. CASE Enroll
  <2>1. PICK k \in PublicKeys, h \in Handles :
          /\ Step("sign", response \o Enrolled(k, h) \o Certificate, responseSize + Len(h) + Len(Certificate))
          /\ hash' = ToHash(k, h)
    BY <1>4 DEF Enroll
  <2>2. pc = "enroll" /\ response = <<5>> /\ RawByte(1) = INS_REGISTER
    BY <1>4 DEF Enroll, CoreInv, Filled, AnswersInv
  <2>3. pc' = "sign" /\ rawRequest' = rawRequest /\ response' = <<5>> \o Enrolled(k, h) \o Certificate
    BY <2>1, <2>2 DEF Step
  <2>4. response' = Registration(k, h, <<>>)
    <3>1. <<5>> \o Enrolled(k, h) \o Certificate \in Seq(Byte)
      BY EnrolledSize
    <3>2. (<<5>> \o Enrolled(k, h) \o Certificate) \o <<>> = <<5>> \o Enrolled(k, h) \o Certificate
      BY <3>1, ConcatEmptySeq
    <3>3. QED
      BY <2>3, <3>2 DEF Registration
  <2>5. ToHash(k, h)' = ToHash(k, h) /\ RawByte(1)' = RawByte(1)
    BY <2>3 DEF ToHash, applicationHash, challengeHash, Data, RawByte
  <2>6. Registers(k, h, <<>>)'
    BY <2>1, <2>4, <2>5 DEF Registers
  <2>7. Answers(<<>>)'
    BY <2>2, <2>5, <2>6 DEF Answers
  <2>8. QED
    BY <2>3, <2>7 DEF AnswersInv
<1>5. CASE EnrollOverruns
  BY <1>5, ElsewhereStep DEF EnrollOverruns, Overrun
<1>6. QED
  BY <1>1, <1>2, <1>3, <1>4, <1>5 DEF ProcessRegister

LEMMA AuthenticateAnswers ==
  ASSUME CoreInv, AnswersInv, ProcessAuthenticate
  PROVE  AnswersInv'
<1>1. CASE WrongControl \/ AuthenticateTooShort \/ AuthenticateWrongLength \/ InvalidHandle \/ UserNotPresent
  BY <1>1, UnsignedStep
     DEF WrongControl, AuthenticateTooShort, AuthenticateWrongLength, InvalidHandle, UserNotPresent,
         HandleFollows, Instruction, Error, Return, Step
<1>2. CASE Authenticate
  <2>1. PICK present \in {0, 1}, c \in Counters :
          /\ Step("sign", <<present>> \o CounterBytes(c), Len(<<present>> \o CounterBytes(c)))
          /\ hash' = applicationHash \o (<<present>> \o CounterBytes(c)) \o challengeHash
    BY <1>2 DEF Authenticate
  <2>2. PICK body \in Seq(Byte) : body = <<present>> \o CounterBytes(c) /\ Len(body) = 5
    BY FiveBytes
  <2>3. /\ pc' = "sign" /\ rawRequest' = rawRequest /\ response' = body
        /\ hash' = applicationHash \o body \o challengeHash
    BY <2>1, <2>2 DEF Step
  <2>4. RawByte(1)' # INS_REGISTER
    BY <1>2, <2>3 DEF Authenticate, HandleFollows, Instruction, RawByte, INS_REGISTER, INS_AUTHENTICATE
  <2>5. body \o <<>> = body
    BY ConcatEmptySeq
  <2>6. Authenticates(body, <<>>)'
    <3>1. applicationHash' = applicationHash /\ challengeHash' = challengeHash
      BY <2>3 DEF applicationHash, challengeHash, Data
    <3>2. QED
      BY <2>2, <2>3, <2>5, <3>1 DEF Authenticates
  <2>7. Answers(<<>>)'
    BY <2>4, <2>6 DEF Answers
  <2>8. QED
    BY <2>3, <2>7 DEF AnswersInv
<1>3. CASE AuthenticateOverruns
  BY <1>3, ElsewhereStep DEF AuthenticateOverruns, Overrun
<1>4. QED
  BY <1>1, <1>2, <1>3 DEF ProcessAuthenticate

LEMMA FinishAnswers ==
  ASSUME CoreInv, AnswersInv, Finish
  PROVE  AnswersInv'
<1>1. CASE Sign
  <2>1. PICK r \in Number, s \in Number :
          /\ Return(NO_ERROR, response \o Wrapped(r, s), responseSize + SignatureSize(Wrapped(r, s)))
          /\ numbers' = <<r, s>>
    BY <1>1, CoreAssumption DEF Sign
  <2>2. /\ pc = "sign" /\ pc' = "status" /\ rawRequest' = rawRequest /\ hash' = hash
        /\ response' = response \o Wrapped(r, s) /\ status' = NO_ERROR
    BY <1>1, <2>1 DEF Sign, Return, Step
  <2>3. Answers(<<>>)
    BY <2>2 DEF AnswersInv
  <2>4. /\ RawByte(1)' = RawByte(1)
        /\ applicationHash' = applicationHash /\ challengeHash' = challengeHash
    BY <2>2 DEF RawByte, applicationHash, challengeHash, Data
  <2>5. Answers(Wrapped(r, s))'
    <3>1. CASE RawByte(1) = INS_REGISTER
      <4>1. PICK k \in PublicKeys, h \in Handles : Registers(k, h, <<>>)
        BY <2>3, <3>1 DEF Answers
      <4>2. <<5>> \o Enrolled(k, h) \o Certificate \in Seq(Byte)
        BY EnrolledSize
      <4>3. (<<5>> \o Enrolled(k, h) \o Certificate) \o <<>> = <<5>> \o Enrolled(k, h) \o Certificate
        BY <4>2, ConcatEmptySeq
      <4>4. response' = Registration(k, h, Wrapped(r, s))
        BY <2>2, <4>1, <4>3 DEF Registers, Registration
      <4>5. Registers(k, h, Wrapped(r, s))'
        BY <2>2, <2>4, <4>1, <4>4 DEF Registers, ToHash
      <4>6. QED
        BY <2>4, <3>1, <4>5 DEF Answers
    <3>2. CASE RawByte(1) # INS_REGISTER
      <4>1. PICK body \in Seq(Byte) : Authenticates(body, <<>>)
        BY <2>3, <3>2 DEF Answers
      <4>2. body \o <<>> = body
        BY ConcatEmptySeq
      <4>3. Authenticates(body, Wrapped(r, s))'
        BY <2>2, <2>4, <4>1, <4>2 DEF Authenticates
      <4>4. QED
        BY <2>4, <3>2, <4>3 DEF Answers
    <3>3. QED
      BY <3>1, <3>2
  <2>6. QED
    BY <2>1, <2>2, <2>5 DEF AnswersInv
<1>2. CASE SignFails
  <2>1. pc' = "status" /\ numbers' = SigningFailed
    BY <1>2 DEF SignFails, Return, Step
  <2>2. QED
    BY <2>1 DEF AnswersInv, HasSigned
<1>3. CASE SignOverruns \/ StatusOverruns
  BY <1>3, ElsewhereStep DEF SignOverruns, StatusOverruns, Overrun
<1>4. CASE AppendStatus
  <2>1. /\ pc = "status" /\ pc' = "answered"
        /\ UNCHANGED <<rawRequest, response, hash, numbers, status>>
    BY <1>4 DEF AppendStatus
  <2>2. QED
    BY <2>1 DEF AnswersInv, HasSigned, Answers, Registers, Authenticates, RawByte, ToHash,
                applicationHash, challengeHash, Data
<1>5. QED
  BY <1>1, <1>2, <1>3, <1>4 DEF Finish

LEMMA AnswersStep == CoreInv /\ AnswersInv /\ [Next]_vars => AnswersInv'
<1> SUFFICES ASSUME CoreInv, AnswersInv, [Next]_vars PROVE AnswersInv'
  OBVIOUS
<1>1. CASE UNCHANGED vars
  BY <1>1 DEF vars, AnswersInv, HasSigned, Answers, Registers, Authenticates, RawByte, ToHash,
              applicationHash, challengeHash, Data
<1>2. CASE Receive \/ Forget \/ Parse
  BY <1>2, ElsewhereStep
     DEF Receive, Forget, Parse, ParseBare, ParseSizeOnly, ParseDataOnly, ParseDataAndSize, Parsed, Refuse
<1>3. CASE ProcessRequest
  <2>1. pc = "process" /\ pc' = "status" /\ UNCHANGED numbers
    BY <1>3 DEF ProcessRequest, WrongClass, UnknownInstruction, VersionWithoutRoom, Version, Instruction,
                Error, Return, Step
  <2>2. QED
    BY <2>1, UnsignedStep
<1>4. CASE ProcessRegister
  BY <1>4, RegisterAnswers
<1>5. CASE ProcessAuthenticate
  BY <1>5, AuthenticateAnswers
<1>6. CASE Finish
  BY <1>6, FinishAnswers
<1>7. QED
  BY <1>1, <1>2, <1>3, <1>4, <1>5, <1>6 DEF Next

\* A host finds the signature of an authentication after its five bytes.
LEMMA AuthenticationReads ==
  ASSUME NEW body \in Seq(Byte), NEW w \in Seq(Byte), Authenticates(body, w),
         responseSize = Len(response)
  PROVE  HostAuthenticateSignature = w /\ SubSeq(response, 1, 5) = body
<1>1. Len(body) = 5 /\ response = body \o w
  BY DEF Authenticates
<1>2. /\ SubSeq(body \o w, Len(body) + 1, Len(body \o w)) = w
      /\ SubSeq(body \o w, 1, Len(body)) = body
  BY Parts
<1>3. Len(body) + 1 = 6
  BY <1>1
<1>4. QED
  BY <1>1, <1>2, <1>3, Zenon DEF HostAuthenticateSignature

\* So a host that reads the answer by its sizes verifies the signature.
LEMMA AnswersVerify == CoreInv /\ AnswersInv => HostVerifies
<1> SUFFICES ASSUME CoreInv, AnswersInv, pc = "answered", HasSigned
             PROVE  IF RawByte(1) = INS_REGISTER
                    THEN /\ HostCertificate = Certificate
                         /\ Verifies(HostRegisterSignature,
                                     <<0>> \o applicationHash \o challengeHash \o HostHandle \o HostKey)
                    ELSE Verifies(HostAuthenticateSignature,
                                  applicationHash \o SubSeq(response, 1, 5) \o challengeHash)
  BY DEF HostVerifies
<1>1. PICK r \in Number, s \in Number : numbers = <<r, s>> /\ Answers(Wrapped(r, s))
  BY DEF AnswersInv
<1> DEFINE w == Wrapped(r, s)
<1>2. responseSize = Len(response)
  BY DEF CoreInv, AnswersInv, Filled, HasSigned
<1>3. w \in Seq(Byte)
  BY WrappedSize
<1>4. \A data : data = hash => Verifies(w, data)
  BY <1>1, WrappedReads DEF Verifies, StandsFor
<1>5. Answers(w)
  BY <1>1
<1> HIDE DEF w
<1>6. CASE RawByte(1) = INS_REGISTER
  <2>1. PICK k \in PublicKeys, h \in Handles : Registers(k, h, w)
    BY <1>5, <1>6 DEF Answers
  <2>2. response = Registration(k, h, w) /\ hash = ToHash(k, h)
    BY <2>1 DEF Registers
  <2>3. /\ HostKey = k /\ HostHandle = h
        /\ HostCertificate = Certificate /\ HostRegisterSignature = w
    BY <1>2, <1>3, <2>2, RegistrationReads
  <2>4. <<0>> \o applicationHash \o challengeHash \o HostHandle \o HostKey = hash
    BY <2>2, <2>3 DEF ToHash
  <2>5. QED
    BY <1>4, <1>6, <2>3, <2>4
<1>7. CASE RawByte(1) # INS_REGISTER
  <2>1. PICK body \in Seq(Byte) : Authenticates(body, w)
    BY <1>5, <1>7 DEF Answers
  <2>2. hash = applicationHash \o body \o challengeHash
    BY <2>1 DEF Authenticates
  <2>3. HostAuthenticateSignature = w /\ SubSeq(response, 1, 5) = body
    BY <1>2, <1>3, <2>1, AuthenticationReads
  <2>4. applicationHash \o SubSeq(response, 1, 5) \o challengeHash = hash
    BY <2>2, <2>3
  <2>5. QED
    BY <1>4, <1>7, <2>3, <2>4
<1>8. QED
  BY <1>6, <1>7

\* Every signature that is answered is found by the sizes in the answer, reads as the two
\* numbers that were computed, and is about the request and about what the host reads in the
\* answer: for every key, handle, certificate, counter and signature (core.cpp:132-179 and
\* 228-247, crypto.cpp:84-117).
THEOREM AnswersAreVerified == Spec => []HostVerifies
<1>1. Init => AnswersInv
  BY DEF Init, AnswersInv
<1>2. QED
  BY <1>1, CoreIsInvariant, AnswersStep, AnswersVerify, PTL DEF Spec
\* Whether the signature of an authentication is the DER that the comment at crypto.cpp:85
\* says it is depends on its two numbers alone: it is, unless one of them begins with a zero
\* byte that it could do without, for which the code has no case.
THEOREM DerUnlessPadded ==
  Spec => [](pc = "answered" /\ HasSigned /\ RawByte(1) = INS_AUTHENTICATE =>
               (SignatureIsDER <=> ~Padded(numbers[1]) /\ ~Padded(numbers[2])))
<1>1. ASSUME CoreInv, AnswersInv, pc = "answered", HasSigned, RawByte(1) = INS_AUTHENTICATE
      PROVE  SignatureIsDER <=> ~Padded(numbers[1]) /\ ~Padded(numbers[2])
  <2>1. PICK r \in Number, s \in Number : numbers = <<r, s>> /\ Answers(Wrapped(r, s))
    BY <1>1 DEF AnswersInv
  <2> DEFINE w == Wrapped(r, s)
  <2>2. w \in Seq(Byte) /\ StandsFor(FirstNumber(w), r) /\ StandsFor(SecondNumber(w), s)
    BY WrappedSize, WrappedReads
  <2>3. Answers(w)
    BY <2>1
  <2> HIDE DEF w
  <2>4. RawByte(1) # INS_REGISTER
    BY <1>1 DEF INS_REGISTER, INS_AUTHENTICATE
  <2>5. PICK body \in Seq(Byte) : Authenticates(body, w)
    BY <2>3, <2>4 DEF Answers
  <2>6. responseSize = Len(response)
    BY <1>1 DEF CoreInv, AnswersInv, Filled, HasSigned
  <2>7. HostAuthenticateSignature = w
    BY <2>2, <2>5, <2>6, AuthenticationReads
  <2>8. /\ Minimal(FirstNumber(w)) <=> ~Padded(numbers[1])
        /\ Minimal(SecondNumber(w)) <=> ~Padded(numbers[2])
    BY <2>1, <2>2 DEF StandsFor
  <2>9. QED
    BY <1>1, <2>7, <2>8 DEF SignatureIsDER
<1>2. Init => AnswersInv
  BY DEF Init, AnswersInv
<1>3. QED
  BY <1>1, <1>2, CoreIsInvariant, AnswersStep, PTL DEF Spec
=============================================================================
