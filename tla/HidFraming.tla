------------------------------ MODULE HidFraming ------------------------------
(***************************************************************************)
(* u2f::Hid::sendResponse() (src/hid.cpp): a message of any length that    *)
(* fits 16 bits is cut into packets, in one buffer that is reused from     *)
(* packet to packet, and the host puts it together.                        *)
(*                                                                         *)
(* The layout of the buffer is kept byte by byte, because the mistakes to  *)
(* fear are about it; the widths are parameters.  The channel id that every*)
(* packet starts with is left out: byte 0 is msg[4], the command or the    *)
(* sequence number.                                                        *)
(*                                                                         *)
(* Where a definition stands right before another one with the same        *)
(* parameters, the first is the second with a mistake in it: the checks    *)
(* are run with it in turn to see that a property notices.                 *)
(***************************************************************************)
EXTENDS Integers, Sequences

CONSTANTS
  SeqMod,      \* number of sequence values of a continuation, 128
  PacketSize,  \* bytes of a packet after the channel id, RESPONSE_PACKET_SIZE - 4 = 60
  Commands,    \* the command bytes a response may carry
  Payloads     \* the payloads the callers pass

ByteMod == 2 * SeqMod
Byte == 0 .. ByteMod - 1
SizeMod == ByteMod * ByteMod

ASSUME FramingAssumption ==
  /\ SeqMod \in Nat \ {0}
  /\ PacketSize \in Nat /\ PacketSize > 3
  /\ Commands \subseteq Byte
  /\ Payloads \subseteq Seq(Byte)
  /\ \A p \in Payloads : Len(p) < SizeMod

VARIABLES
  payload,      \* the bytes the caller passed
  sentSize,     \* how far the pointer to them has moved
  payloadSize,  \* bytes left to send
  seq,          \* uint8_t
  msg,          \* the packet buffer
  sent,         \* the packets given to sendInputReport(), oldest first
  sending       \* FALSE once sendResponse() has returned

vars == <<payload, sentSize, payloadSize, seq, msg, sent, sending>>

Offsets == 0 .. PacketSize - 1
Packet == [Offsets -> Byte]

\* Bytes before the data: command and length, or sequence number.
InitHeader == 3
ContHeader == 1

Smaller(a, b) == IF a < b THEN a ELSE b

\* The buffer m once memcpy() has put bytes from+1 .. from+sz of p at offset h, and
\* memset() has cleared the rest.
FillClearingLess(m, h, p, from, sz) ==
  [j \in Offsets |-> IF j < h THEN m[j]
                     ELSE IF j < h + sz THEN p[from + j - h + 1]
                     ELSE IF j < PacketSize - 2 THEN 0 ELSE m[j]]
Fill(m, h, p, from, sz) ==
  [j \in Offsets |-> IF j < h THEN m[j]
                     ELSE IF j < h + sz THEN p[from + j - h + 1]
                     ELSE 0]

\* What is left of n bytes once sz are sent.
LeftShortOfOne(n, sz) == IF n = sz + 1 THEN 0 ELSE n - sz
Left(n, sz) == n - sz

NextSeqUnwrapped(s) == s + 1
NextSeq(s) == (s + 1) % ByteMod

-----------------------------------------------------------------------------
\* Up to the first sendInputReport(), and the set-up of the loop.
SendFirst(cmd, p) ==
  LET sz == Smaller(Len(p), PacketSize - InitHeader)
  IN  /\ ~sending
      /\ payload' = p
      /\ msg' = Fill([msg EXCEPT ![0] = cmd, ![1] = Len(p) \div ByteMod, ![2] = Len(p) % ByteMod],
                     InitHeader, p, 0, sz)
      /\ sent' = <<msg'>>
      /\ seq' = 0
      /\ sentSize' = sz
      /\ payloadSize' = Left(Len(p), sz)
      /\ sending' = (payloadSize' # 0)

\* One turn of the loop.
SendNext ==
  LET sz == Smaller(payloadSize, PacketSize - ContHeader)
  IN  /\ sending
      /\ msg' = Fill([msg EXCEPT ![0] = seq % SeqMod], ContHeader, payload, sentSize, sz)
      /\ sent' = Append(sent, msg')
      /\ seq' = NextSeq(seq)
      /\ sentSize' = sentSize + sz
      /\ payloadSize' = Left(payloadSize, sz)
      /\ sending' = (payloadSize' # 0)
      /\ UNCHANGED payload

\* The buffer is on the stack: it holds anything before it is filled.
Init ==
  /\ payload = <<>> /\ sentSize = 0 /\ payloadSize = 0 /\ seq = 0
  /\ msg \in {[j \in Offsets |-> b] : b \in Byte}
  /\ sent = <<>>
  /\ sending = FALSE

Next ==
  \/ \E cmd \in Commands, p \in Payloads : SendFirst(cmd, p)
  \/ SendNext

Spec == Init /\ [][Next]_vars

-----------------------------------------------------------------------------
TypeOK ==
  /\ payload \in Seq(Byte)
  /\ sentSize \in Nat
  /\ payloadSize \in 0 .. SizeMod - 1
  /\ seq \in Byte
  /\ msg \in Packet
  /\ sent \in Seq(Packet)
  /\ sending \in BOOLEAN

Header(k) == IF k = 1 THEN InitHeader ELSE ContHeader

\* Bytes of the payload that the packets before the k-th carry.
Before(k) == IF k = 1 THEN 0 ELSE PacketSize - InitHeader + (k - 2) * (PacketSize - ContHeader)

\* Every packet carries the bytes of the payload that belong in it, in order, and zeros
\* after the last one: nothing of the packet before it stays in the buffer.
EveryByteInPlace ==
  \A k \in DOMAIN sent :
    \A j \in Header(k) .. PacketSize - 1 :
      LET n == Before(k) + j - Header(k) + 1
      IN  sent[k][j] = IF n <= Len(payload) THEN payload[n] ELSE 0

\* What a host reads: the length in the first packet, then the data of the packets one
\* after the other, each with the sequence number that is due.
InSequence == \A k \in 2 .. Len(sent) : sent[k][0] = (k - 2) % SeqMod
HostReads ==
  LET size == sent[1][1] * ByteMod + sent[1][2]
  IN  [n \in 1 .. size |->
         IF n <= PacketSize - InitHeader THEN sent[1][InitHeader + n - 1]
         ELSE LET m == n - (PacketSize - InitHeader) - 1
              IN  sent[2 + m \div (PacketSize - ContHeader)]
                      [ContHeader + (m % (PacketSize - ContHeader))]]

\* When sendResponse() returns, and it always does, the host has the whole message, length
\* 0 and the largest included, and has not been sent a packet too many or too few.
HostGetsMessage ==
  (sent # <<>> /\ ~sending) =>
    /\ Before(Len(sent) + 1) >= Len(payload)
    /\ Len(sent) = 1 \/ Before(Len(sent)) < Len(payload)
    /\ InSequence
    /\ HostReads = payload
=============================================================================
