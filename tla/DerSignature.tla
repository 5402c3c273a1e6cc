----------------------------- MODULE DerSignature -----------------------------
(***************************************************************************)
(* How u2f::crypto::sign() (src/crypto.cpp) writes the two numbers of an   *)
(* ECDSA signature, and how a host reads them.  A number is its IntSize    *)
(* bytes, the most significant first.                                      *)
(*                                                                         *)
(* Where a definition stands right before another one with the same        *)
(* parameters, the first is the second with a mistake in it: the checks    *)
(* are run with it in turn to see that a property notices.                 *)
(***************************************************************************)
EXTENDS Integers, Sequences

CONSTANT IntSize   \* bytes of a number of the curve (32)

\* The length of what sign() wraps fits in seven bits.
ASSUME DerAssumption == IntSize \in 1 .. 60

Byte == 0 .. 255
Number == [1 .. IntSize -> Byte]

SEQUENCE == 48
INTEGER == 2

\* A zero goes before a number that would look negative.
DerIntegerUnsigned(n) == <<INTEGER, IntSize>> \o n
DerInteger(n) ==
  IF n[1] >= 128 THEN <<INTEGER, IntSize + 1, 0>> \o n ELSE <<INTEGER, IntSize>> \o n

\* What sign() leaves in the signature; its second byte is filled at the end.
Wrapped(r, s) ==
  LET numbers == DerInteger(r) \o DerInteger(s)
  IN  <<SEQUENCE, Len(numbers)>> \o numbers

\* signatureSize(), a uint8_t.
SignatureSizeOfBody(signature) == signature[2] % 256
SignatureSize(signature) == (signature[2] + 2) % 256

-----------------------------------------------------------------------------
(* The host: the content of the INTEGER whose tag is at position i, and of the *)
(* two that a signature holds.                                                 *)

Content(signature, i) == SubSeq(signature, i + 2, i + 1 + signature[i + 1])
FirstNumber(signature) == Content(signature, 3)
SecondNumber(signature) == Content(signature, 5 + signature[4])

\* The content reads as the number n, which is not negative.
ReadsAs(content, n) ==
  /\ content[1] < 128
  /\ content \in {n, <<0>> \o n}

\* A DER INTEGER has no more bytes than it needs: a leading zero only before a byte that
\* has its top bit set.
Minimal(content) == Len(content) > 1 /\ content[1] = 0 => content[2] >= 128
===============================================================================
