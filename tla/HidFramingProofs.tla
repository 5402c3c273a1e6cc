-------------------------- MODULE HidFramingProofs --------------------------
(***************************************************************************)
(* Theorems about HidFraming: for packets of any size and a message of any *)
(* length, the packets carry the message and nothing else.                 *)
(***************************************************************************)
EXTENDS HidFraming, ModuloLemmas, SequenceTheorems, TLAPS

InitData == PacketSize - InitHeader
ContData == PacketSize - ContHeader

\* What holds between two packets: how far the transfer is can be read off the
\* number of packets sent.
Progress ==
  /\ payloadSize = Len(payload) - sentSize
  /\ sending <=> payloadSize # 0
  /\ sent = <<>> => ~sending
  /\ sent # <<>> => /\ sentSize = Smaller(Before(Len(sent) + 1), Len(payload))
                    /\ Len(sent) = 1 \/ Before(Len(sent)) < Len(payload)
                    /\ seq % SeqMod = (Len(sent) - 1) % SeqMod
                    /\ sent[1][1] * ByteMod + sent[1][2] = Len(payload)

FramingInv == TypeOK /\ Len(payload) < SizeMod /\ Progress /\ InSequence /\ EveryByteInPlace

-----------------------------------------------------------------------------
(* Arithmetic. *)

\* The parameters are positive and a packet has room for data.
LEMMA Sizes ==
  /\ ByteMod \in Nat \ {0} /\ SizeMod \in Nat \ {0}
  /\ InitData \in Nat \ {0} /\ ContData \in Nat \ {0}
BY FramingAssumption DEF ByteMod, SizeMod, InitData, ContData, InitHeader, ContHeader

\* Multiplication keeps the order.
LEMMA TimesMonotone ==
  ASSUME NEW a \in Nat, NEW b \in Nat, NEW c \in Nat, a <= b
  PROVE  a * c <= b * c
<1> DEFINE d == b - a
<1>1. d \in Nat /\ b = a + d
  OBVIOUS
<1>2. (a + d) * c = a * c + d * c /\ d * c \in Nat /\ a * c \in Nat
  BY <1>1
<1>3. QED
  BY <1>1, <1>2

\* Before counts the bytes of the packets before the k-th.
LEMMA BeforeNext ==
  ASSUME NEW k \in Nat \ {0}
  PROVE  /\ Before(k) \in Nat
         /\ Before(k + 1) = Before(k) + (PacketSize - Header(k))
         /\ PacketSize - Header(k) \in Nat \ {0}
<1>1. CASE k = 1
  BY <1>1, Sizes DEF Before, Header, InitData, ContData
<1>2. CASE k # 1
  <2>1. k - 2 \in Nat /\ k + 1 # 1 /\ (k + 1) - 2 = (k - 2) + 1
    BY <1>2
  <2>2. /\ (k - 2) * ContData \in Nat
        /\ ((k - 2) + 1) * ContData = (k - 2) * ContData + ContData
    BY <2>1, Sizes
  <2>3. /\ Before(k) = InitData + (k - 2) * ContData
        /\ Before(k + 1) = InitData + ((k - 2) + 1) * ContData
    BY <1>2, <2>1 DEF Before, InitData, ContData
  <2>4. QED
    BY <1>2, <2>2, <2>3, Sizes DEF Header, ContData
<1>3. QED
  BY <1>1, <1>2

\* A later packet starts later.
LEMMA BeforeMonotone ==
  ASSUME NEW k \in Nat \ {0}, NEW l \in Nat \ {0}, k <= l
  PROVE  Before(k) <= Before(l)
<1>1. CASE k = 1
  <2>1. Before(l) \in Nat
    BY BeforeNext
  <2>2. Before(k) = 0
    BY <1>1 DEF Before
  <2>3. QED
    BY <2>1, <2>2
<1>2. CASE k # 1
  <2>1. k - 2 \in Nat /\ l - 2 \in Nat /\ k - 2 <= l - 2 /\ l # 1
    BY <1>2
  <2>2. (k - 2) * ContData <= (l - 2) * ContData
    BY <2>1, Sizes, TimesMonotone
  <2>3. (k - 2) * ContData \in Nat /\ (l - 2) * ContData \in Nat
    BY <2>1, Sizes
  <2>4. QED
    BY <1>2, <2>1, <2>2, <2>3, Sizes DEF Before, InitData, ContData
<1>3. QED
  BY <1>1, <1>2

-----------------------------------------------------------------------------
(* One packet. *)

\* Fill yields a packet, and in it the data it was given, then zeros.
LEMMA FillPacket ==
  ASSUME NEW m \in Packet, NEW h \in {InitHeader, ContHeader}, NEW p \in Seq(Byte),
         NEW from \in Nat, NEW sz \in Nat,
         sz <= PacketSize - h, from + sz <= Len(p)
  PROVE  /\ Fill(m, h, p, from, sz) \in Packet
         /\ \A j \in 0 .. h - 1 : Fill(m, h, p, from, sz)[j] = m[j]
         /\ \A j \in h .. PacketSize - 1 :
              Fill(m, h, p, from, sz)[j] = IF j < h + sz THEN p[from + j - h + 1] ELSE 0
<1>1. h \in Nat /\ h < PacketSize
  BY FramingAssumption DEF InitHeader, ContHeader
<1>2. 0 \in Byte
  BY Sizes DEF Byte
<1>3. \A j \in Offsets : (j >= h /\ j < h + sz) => p[from + j - h + 1] \in Byte
  <2>1. TAKE j \in Offsets
  <2>2. HAVE j >= h /\ j < h + sz
  <2>3. from + j - h + 1 \in 1 .. Len(p)
    BY <1>1, <2>2 DEF Offsets
  <2>4. QED
    BY <2>3
<1>4. \A j \in Offsets : m[j] \in Byte
  BY DEF Packet
<1>5. QED
  BY <1>1, <1>2, <1>3, <1>4, FramingAssumption DEF Fill, Packet, Offsets

\* The k-th packet carries what it should when Fill is given what belongs in it.
LEMMA PacketInPlace ==
  ASSUME NEW m \in Packet, NEW k \in Nat \ {0}, NEW p \in Seq(Byte),
         Before(k) <= Len(p),
         NEW sz, sz = Smaller(Len(p) - Before(k), PacketSize - Header(k)),
         NEW j \in Header(k) .. PacketSize - 1
  PROVE  LET n == Before(k) + j - Header(k) + 1
         IN  Fill(m, Header(k), p, Before(k), sz)[j] = IF n <= Len(p) THEN p[n] ELSE 0
<1>1. Before(k) \in Nat /\ PacketSize - Header(k) \in Nat /\ Header(k) \in {InitHeader, ContHeader}
  BY BeforeNext DEF Header
<1>2. Len(p) - Before(k) \in Nat
  BY <1>1
<1>3. sz \in Nat /\ sz <= PacketSize - Header(k) /\ Before(k) + sz <= Len(p)
  BY <1>1, <1>2 DEF Smaller
<1>4. Fill(m, Header(k), p, Before(k), sz)[j]
        = IF j < Header(k) + sz THEN p[Before(k) + j - Header(k) + 1] ELSE 0
  BY <1>1, <1>3, FillPacket
<1>5. j < Header(k) + sz <=> Before(k) + j - Header(k) + 1 <= Len(p)
  BY <1>1, <1>2, FramingAssumption DEF Smaller, InitHeader, ContHeader
<1>6. QED
  BY <1>4, <1>5
-----------------------------------------------------------------------------
(* The steps. *)

LEMMA FramingInit == Init => FramingInv
<1> SUFFICES ASSUME Init PROVE FramingInv
  OBVIOUS
<1>1. TypeOK
  <2>1. msg \in Packet
    BY DEF Init, Packet
  <2>2. /\ payload \in Seq(Byte) /\ sent \in Seq(Packet)
        /\ sentSize \in Nat /\ sending \in BOOLEAN
    BY EmptySeq, Zenon DEF Init
  <2>3. payloadSize \in 0 .. SizeMod - 1 /\ seq \in Byte
    BY Sizes DEF Init, Byte
  <2>4. QED
    BY <2>1, <2>2, <2>3 DEF TypeOK
<1>2. Len(payload) < SizeMod /\ Progress /\ InSequence /\ EveryByteInPlace
  BY Sizes DEF Init, Progress, InSequence, EveryByteInPlace
<1>3. QED
  BY <1>1, <1>2 DEF FramingInv

\* The packet with the command and the length.
LEMMA FirstKeeps ==
  ASSUME NEW cmd \in Commands, NEW p \in Payloads, FramingInv, SendFirst(cmd, p)
  PROVE  FramingInv'
<1> DEFINE sz == Smaller(Len(p), InitData)
           m == [msg EXCEPT ![0] = cmd, ![1] = Len(p) \div ByteMod, ![2] = Len(p) % ByteMod]
<1>1. p \in Seq(Byte) /\ Len(p) \in Nat /\ Len(p) < SizeMod /\ cmd \in Byte
  BY FramingAssumption
<1>2. /\ Len(p) \div ByteMod \in Byte /\ Len(p) % ByteMod \in Byte
      /\ (Len(p) \div ByteMod) * ByteMod + (Len(p) % ByteMod) = Len(p)
  <2>1. PICK q \in Nat, x \in 0 .. ByteMod - 1 :
          Len(p) = ByteMod * q + x /\ Len(p) \div ByteMod = q /\ Len(p) % ByteMod = x
    BY <1>1, Sizes, DivMod
  <2>2. q < ByteMod
    <3>1. SUFFICES ASSUME ByteMod <= q PROVE FALSE
      BY Sizes
    <3>2. ByteMod * ByteMod <= q * ByteMod
      BY <3>1, Sizes, TimesMonotone
    <3>3. q * ByteMod = ByteMod * q /\ ByteMod * q \in Nat
      BY Sizes
    <3>4. QED
      BY <1>1, <2>1, <3>2, <3>3, Sizes DEF SizeMod
  <2>3. q * ByteMod = ByteMod * q
    BY Sizes
  <2>4. QED
    BY <2>1, <2>2, <2>3, Sizes DEF Byte
<1>3. m \in Packet
  BY <1>1, <1>2 DEF FramingInv, TypeOK, Packet
<1>4. m[1] = Len(p) \div ByteMod /\ m[2] = Len(p) % ByteMod
  BY FramingAssumption DEF FramingInv, TypeOK, Packet, Offsets
<1> HIDE DEF m
<1>5. /\ payload' = p /\ msg' = Fill(m, InitHeader, p, 0, sz) /\ sent' = <<msg'>>
      /\ seq' = 0 /\ sentSize' = sz /\ payloadSize' = Len(p) - sz
      /\ sending' = (payloadSize' # 0)
  BY DEF SendFirst, Left, InitData, m
<1>6. sz \in Nat /\ sz <= InitData /\ sz <= Len(p)
  BY <1>1, Sizes DEF Smaller
<1>7. msg' \in Packet /\ \A j \in 0 .. InitHeader - 1 : msg'[j] = m[j]
  <2>1. sz <= PacketSize - InitHeader /\ 0 + sz <= Len(p) /\ 0 \in Nat
    BY <1>6 DEF InitData
  <2>2. InitHeader \in {InitHeader, ContHeader}
    OBVIOUS
  <2> HIDE DEF sz
  <2>3. QED
    BY <1>1, <1>3, <1>5, <1>6, <2>1, <2>2, FillPacket
<1>8. Before(1) = 0 /\ Before(2) = InitData /\ Header(1) = InitHeader
  BY Sizes DEF Before, Header, InitData, ContData
<1>9. TypeOK'
  <2>1. payloadSize' \in 0 .. SizeMod - 1 /\ sentSize' \in Nat
    BY <1>1, <1>5, <1>6, Sizes
  <2>2. seq' \in Byte
    BY <1>5, Sizes DEF Byte
  <2>3. sent' \in Seq(Packet) /\ sending' \in BOOLEAN
    BY <1>5, <1>7
  <2>4. QED
    BY <1>1, <1>5, <1>7, <2>1, <2>2, <2>3 DEF TypeOK
<1>10. Progress'
  <2>1. msg'[1] = Len(p) \div ByteMod /\ msg'[2] = Len(p) % ByteMod
    BY <1>4, <1>7 DEF InitHeader
  <2>2. Len(sent') = 1 /\ sent'[1] = msg' /\ sent' # <<>>
    BY <1>5
  <2>3. sentSize' = Smaller(Before(Len(sent') + 1), Len(p))
    BY <1>1, <1>5, <1>8, <2>2, Sizes DEF Smaller
  <2>4. seq' % SeqMod = (Len(sent') - 1) % SeqMod
    BY <1>5, <2>2
  <2>5. sent'[1][1] * ByteMod + sent'[1][2] = Len(p)
    BY <1>2, <2>1, <2>2
  <2>6. payload' = p /\ payloadSize' = Len(p) - sentSize' /\ (sending' <=> payloadSize' # 0)
    BY <1>5
  <2>7. QED
    BY <2>2, <2>3, <2>4, <2>5, <2>6 DEF Progress
<1>11. InSequence'
  BY <1>5 DEF InSequence
<1>12. EveryByteInPlace'
  <2>1. sz = Smaller(Len(p) - Before(1), PacketSize - Header(1))
    BY <1>1, <1>8 DEF InitData
  <2>2. \A j \in Header(1) .. PacketSize - 1 :
          LET n == Before(1) + j - Header(1) + 1
          IN  Fill(m, Header(1), p, Before(1), sz)[j] = IF n <= Len(p) THEN p[n] ELSE 0
    BY <1>1, <1>3, <1>8, <2>1, PacketInPlace
  <2>3. QED
    BY <1>5, <1>8, <2>2 DEF EveryByteInPlace
<1>13. QED
  BY <1>1, <1>5, <1>9, <1>10, <1>11, <1>12 DEF FramingInv

\* Each packet after it.
LEMMA NextKeeps ==
  ASSUME FramingInv, SendNext
  PROVE  FramingInv'
<1> DEFINE k  == Len(sent) + 1
           sz == Smaller(payloadSize, ContData)
           m  == [msg EXCEPT ![0] = seq % SeqMod]
<1>1. /\ payload \in Seq(Byte) /\ Len(payload) \in Nat /\ Len(payload) < SizeMod
      /\ sentSize \in Nat /\ payloadSize \in Nat /\ seq \in Byte
      /\ sent \in Seq(Packet) /\ msg \in Packet /\ sending \in BOOLEAN
  BY DEF FramingInv, TypeOK
<1>2. /\ sending /\ payloadSize # 0 /\ sent # <<>> /\ Len(sent) \in Nat \ {0}
      /\ payloadSize = Len(payload) - sentSize
  BY <1>1 DEF FramingInv, Progress, SendNext
<1>3. k \in Nat \ {0} /\ k # 1 /\ Header(k) = ContHeader /\ ContHeader = 1
  BY <1>2 DEF Header, ContHeader
<1>4. sentSize = Before(k) /\ Before(k) \in Nat /\ Before(k) < Len(payload)
  <2>1. sentSize = Smaller(Before(k), Len(payload))
    BY <1>2 DEF FramingInv, Progress
  <2>2. Before(k) \in Nat
    BY <1>3, BeforeNext
  <2>3. QED
    BY <1>1, <1>2, <2>1, <2>2 DEF Smaller
<1>5. seq % SeqMod \in Byte /\ m \in Packet /\ m[0] = seq % SeqMod
  <2>1. seq % SeqMod \in 0 .. SeqMod - 1
    <3>1. SeqMod \in Nat \ {0} /\ seq \in Nat
      BY <1>1, FramingAssumption DEF Byte
    <3>2. QED
      BY <3>1, DivMod
  <2>2. seq % SeqMod \in Byte
    BY <2>1, FramingAssumption DEF Byte, ByteMod
  <2>3. 0 \in Offsets
    BY FramingAssumption DEF Offsets
  <2>4. QED
    BY <1>1, <2>2, <2>3, Zenon DEF Packet
<1> HIDE DEF m
<1>6. /\ payload' = payload /\ msg' = Fill(m, ContHeader, payload, sentSize, sz)
      /\ sent' = Append(sent, msg') /\ seq' = (seq + 1) % ByteMod
      /\ sentSize' = sentSize + sz /\ payloadSize' = payloadSize - sz
      /\ sending' = (payloadSize' # 0)
  BY DEF SendNext, Left, NextSeq, ContData, m
<1>7. sz \in Nat /\ sz <= ContData /\ sz <= payloadSize /\ sentSize + sz <= Len(payload)
  BY <1>1, <1>2, Sizes DEF Smaller
<1>8. msg' \in Packet /\ msg'[0] = seq % SeqMod
  <2>1. sz <= PacketSize - ContHeader /\ ContHeader \in {InitHeader, ContHeader} /\ 0 \in 0 .. ContHeader - 1
    BY <1>3, <1>7 DEF ContData
  <2> HIDE DEF sz
  <2>2. /\ Fill(m, ContHeader, payload, sentSize, sz) \in Packet
        /\ \A j \in 0 .. ContHeader - 1 : Fill(m, ContHeader, payload, sentSize, sz)[j] = m[j]
    BY <1>1, <1>5, <1>7, <2>1, FillPacket
  <2>3. QED
    BY <1>5, <1>6, <2>1, <2>2
<1>9. /\ Len(sent') = k /\ sent' # <<>> /\ sent'[k] = msg' /\ DOMAIN sent' = 1 .. k
      /\ \A l \in 1 .. Len(sent) : sent'[l] = sent[l]
      /\ sent' \in Seq(Packet)
  BY <1>1, <1>6, <1>8
<1>10. TypeOK'
  <2>1. payloadSize' \in 0 .. SizeMod - 1 /\ sentSize' \in Nat
    <3> HIDE DEF sz
    <3>1. payloadSize - sz \in Nat /\ payloadSize - sz <= Len(payload) /\ sentSize + sz \in Nat
      BY <1>1, <1>2, <1>7
    <3>2. QED
      BY <1>1, <1>6, <3>1, Sizes
  <2>2. seq' \in Byte
    <3>1. seq + 1 \in Nat
      BY <1>1, Sizes DEF Byte
    <3>2. (seq + 1) % ByteMod \in 0 .. ByteMod - 1
      BY <3>1, Sizes, DivMod
    <3>3. QED
      BY <1>6, <3>2 DEF Byte
  <2>3. sending' \in BOOLEAN
    BY <1>6
  <2>4. QED
    BY <1>1, <1>6, <1>8, <1>9, <2>1, <2>2, <2>3 DEF TypeOK
<1>11. Progress'
  <2>1. /\ Before(k + 1) = Before(k) + ContData /\ Before(k + 1) \in Nat
    BY <1>3, BeforeNext DEF ContData
  <2>2. sentSize' = Smaller(Before(Len(sent') + 1), Len(payload'))
    <3>1. sentSize' = Smaller(Before(k + 1), Len(payload))
      BY <1>1, <1>2, <1>4, <1>6, <2>1, Sizes DEF Smaller
    <3>2. QED
      BY <1>6, <1>9, <3>1
  <2>3. Before(Len(sent')) < Len(payload')
    BY <1>4, <1>6, <1>9
  <2>4. seq' % SeqMod = (Len(sent') - 1) % SeqMod
    <3>1. seq \in 0 .. 2 * SeqMod - 1 /\ SeqMod \in Nat \ {0}
      BY <1>1, FramingAssumption DEF Byte, ByteMod
    <3>2. seq % SeqMod = (Len(sent) - 1) % SeqMod /\ Len(sent) - 1 \in Nat
      BY <1>2 DEF FramingInv, Progress
    <3>3. ((seq + 1) % (2 * SeqMod)) % SeqMod = ((Len(sent) - 1) + 1) % SeqMod
      BY <3>1, <3>2, WrappedIncrement
    <3>4. (Len(sent) - 1) + 1 = Len(sent') - 1
      BY <1>2, <1>9
    <3>5. QED
      BY <1>6, <3>3, <3>4 DEF ByteMod
  <2>5. sent'[1][1] * ByteMod + sent'[1][2] = Len(payload')
    BY <1>2, <1>6, <1>9 DEF FramingInv, Progress
  <2>6. payloadSize' = Len(payload') - sentSize'
    BY <1>1, <1>2, <1>6, <1>7
  <2>7. QED
    BY <1>6, <1>9, <2>2, <2>3, <2>4, <2>5, <2>6 DEF Progress
<1>12. InSequence'
  <2>1. SUFFICES ASSUME NEW l \in 2 .. Len(sent')
                 PROVE  sent'[l][0] = (l - 2) % SeqMod
    BY DEF InSequence
  <2>2. CASE l = k
    <3>1. sent'[l][0] = (Len(sent) - 1) % SeqMod
      BY <1>2, <1>8, <1>9, <2>2 DEF FramingInv, Progress
    <3>2. QED
      BY <1>2, <2>2, <3>1
  <2>3. CASE l # k
    BY <1>2, <1>9, <2>3 DEF FramingInv, InSequence
  <2>4. QED
    BY <2>2, <2>3
<1>13. EveryByteInPlace'
  <2>1. sz = Smaller(Len(payload) - Before(k), PacketSize - Header(k)) /\ Before(k) <= Len(payload)
    BY <1>1, <1>2, <1>3, <1>4 DEF ContData
  <2>2. \A j \in Header(k) .. PacketSize - 1 :
          LET n == Before(k) + j - Header(k) + 1
          IN  msg'[j] = IF n <= Len(payload) THEN payload[n] ELSE 0
    <3> HIDE DEF sz, k
    <3>1. msg' = Fill(m, Header(k), payload, Before(k), sz)
      BY <1>3, <1>4, <1>6
    <3>2. \A j \in Header(k) .. PacketSize - 1 :
            LET n == Before(k) + j - Header(k) + 1
            IN  Fill(m, Header(k), payload, Before(k), sz)[j] = IF n <= Len(payload) THEN payload[n] ELSE 0
      BY <1>1, <1>3, <1>5, <2>1, PacketInPlace
    <3>3. QED
      BY <3>1, <3>2, Zenon
  <2>3. SUFFICES ASSUME NEW l \in 1 .. k
                 PROVE  \A j \in Header(l) .. PacketSize - 1 :
                          LET n == Before(l) + j - Header(l) + 1
                          IN  sent'[l][j] = IF n <= Len(payload') THEN payload'[n] ELSE 0
    BY <1>9 DEF EveryByteInPlace
  <2>4. CASE l = k
    BY <1>6, <1>9, <2>2, <2>4
  <2>5. CASE l # k
    BY <1>1, <1>2, <1>6, <1>9, <2>5 DEF FramingInv, EveryByteInPlace
  <2>6. QED
    BY <2>4, <2>5
<1>14. QED
  BY <1>1, <1>6, <1>10, <1>11, <1>12, <1>13 DEF FramingInv

LEMMA FramingStep == FramingInv /\ [Next]_vars => FramingInv'
<1> SUFFICES ASSUME FramingInv, [Next]_vars PROVE FramingInv'
  OBVIOUS
<1>1. CASE \E cmd \in Commands, p \in Payloads : SendFirst(cmd, p)
  BY <1>1, FirstKeeps
<1>2. CASE SendNext
  BY <1>2, NextKeeps
<1>3. CASE UNCHANGED vars
  BY <1>3 DEF vars, FramingInv, TypeOK, Progress, InSequence, EveryByteInPlace
<1>4. QED
  BY <1>1, <1>2, <1>3 DEF Next

-----------------------------------------------------------------------------
(* What the host reads. *)

\* When the last packet is sent, the host has the message.
LEMMA HostHasMessage == FramingInv => HostGetsMessage
<1> SUFFICES ASSUME FramingInv, sent # <<>>, ~sending
             PROVE  /\ Before(Len(sent) + 1) >= Len(payload)
                    /\ Len(sent) = 1 \/ Before(Len(sent)) < Len(payload)
                    /\ HostReads = payload
  BY DEF HostGetsMessage, FramingInv
<1>1. /\ payload \in Seq(Byte) /\ Len(payload) \in Nat /\ sent \in Seq(Packet)
      /\ Len(sent) \in Nat \ {0} /\ sentSize \in Nat
      /\ payloadSize = 0 /\ sentSize = Len(payload)
  BY DEF FramingInv, TypeOK, Progress
<1>2. Before(Len(sent) + 1) \in Nat /\ Before(Len(sent) + 1) >= Len(payload)
  <2>1. Before(Len(sent) + 1) \in Nat
    BY <1>1, BeforeNext
  <2>2. Len(payload) = Smaller(Before(Len(sent) + 1), Len(payload))
    BY <1>1 DEF FramingInv, Progress
  <2>3. QED
    BY <1>1, <2>1, <2>2 DEF Smaller
<1>3. sent[1][1] * ByteMod + sent[1][2] = Len(payload)
  BY DEF FramingInv, Progress
<1>4. \A k \in 1 .. Len(sent) : \A j \in Header(k) .. PacketSize - 1 :
        LET n == Before(k) + j - Header(k) + 1
        IN  sent[k][j] = IF n <= Len(payload) THEN payload[n] ELSE 0
  BY <1>1 DEF FramingInv, EveryByteInPlace
<1> DEFINE Read(n) ==
      IF n <= InitData THEN sent[1][InitHeader + n - 1]
      ELSE LET m == n - InitData - 1
           IN  sent[2 + m \div ContData][ContHeader + (m % ContData)]
<1>5. ASSUME NEW n \in 1 .. Len(payload) PROVE Read(n) = payload[n]
  <2>1. CASE n <= InitData
    <3>1. Before(1) = 0 /\ Header(1) = InitHeader
      BY DEF Before, Header
    <3>2. InitHeader + n - 1 \in Header(1) .. PacketSize - 1 /\ 1 \in 1 .. Len(sent)
      BY <1>1, <2>1, <3>1, FramingAssumption DEF InitData, InitHeader
    <3>3. Before(1) + (InitHeader + n - 1) - Header(1) + 1 = n
      BY <3>1, FramingAssumption DEF InitHeader
    <3>4. sent[1][InitHeader + n - 1]
            = IF Before(1) + (InitHeader + n - 1) - Header(1) + 1 <= Len(payload)
              THEN payload[Before(1) + (InitHeader + n - 1) - Header(1) + 1] ELSE 0
      BY <1>4, <3>2, Zenon
    <3>5. sent[1][InitHeader + n - 1] = payload[n]
      BY <3>3, <3>4
    <3>6. QED
      BY <2>1, <3>5, Zenon
  <2>2. CASE n > InitData
    <3> DEFINE m == n - InitData - 1
    <3>1. m \in Nat
      BY <2>2, Sizes
    <3>2. PICK q \in Nat, x \in 0 .. ContData - 1 :
            m = ContData * q + x /\ m \div ContData = q /\ m % ContData = x
      BY <3>1, Sizes, DivMod
    <3> DEFINE k == 2 + q
    <3>3. /\ k \in Nat \ {0} /\ Header(k) = ContHeader
          /\ Before(k) = InitData + ContData * q /\ Before(k) \in Nat
      <4>1. (k - 2) * ContData = ContData * q /\ ContData * q \in Nat
        BY Sizes
      <4>2. QED
        BY <4>1, Sizes DEF Before, Header, InitData, ContData
    <3>4. Before(k) + x + 1 = n
      BY <3>2, <3>3, Sizes
    <3>5. k <= Len(sent)
      <4>1. SUFFICES ASSUME Len(sent) + 1 <= k PROVE FALSE
        BY <1>1
      <4>2. Before(Len(sent) + 1) <= Before(k)
        BY <1>1, <3>3, <4>1, BeforeMonotone
      <4>3. QED
        BY <1>1, <1>2, <3>3, <3>4, <4>2
    <3>6. ContHeader + x \in Header(k) .. PacketSize - 1
          /\ Before(k) + (ContHeader + x) - Header(k) + 1 = n
      BY <3>3, <3>4, FramingAssumption DEF ContData, ContHeader
    <3>7. sent[k][ContHeader + x] = payload[n]
      <4> HIDE DEF k, m
      <4>1. k \in 1 .. Len(sent)
        BY <3>3, <3>5
      <4>2. QED
        BY <1>4, <3>6, <4>1
    <3>8. ~(n <= InitData)
      BY <2>2, Sizes
    <3>9. QED
      BY <3>2, <3>7, <3>8, Zenon
  <2>3. QED
    BY <2>1, <2>2, Sizes
<1>6. HostReads = [n \in 1 .. Len(payload) |-> Read(n)]
  BY <1>3 DEF HostReads, InitData, ContData
<1>7. HostReads = payload
  <2> HIDE DEF Read
  <2>1. payload = [n \in 1 .. Len(payload) |-> payload[n]]
    BY <1>1
  <2>2. QED
    BY <1>5, <1>6, <2>1
<1>8. QED
  BY <1>2, <1>7 DEF FramingInv, Progress

-----------------------------------------------------------------------------
\* sendResponse() stays within the widths of its variables, for packets of any size and
\* messages of any length below 2^16: the uint8_t counter wraps and nothing else does.
THEOREM FramingTypes == Spec => []TypeOK
<1>1. FramingInv => TypeOK
  BY DEF FramingInv
<1>2. QED
  BY <1>1, FramingInit, FramingStep, PTL DEF Spec

\* No byte of a message is skipped, repeated or moved, and nothing of one packet is
\* left in the buffer of the next.
THEOREM BytesInPlace == Spec => []EveryByteInPlace
<1>1. FramingInv => EveryByteInPlace
  BY DEF FramingInv
<1>2. QED
  BY <1>1, FramingInit, FramingStep, PTL DEF Spec

\* A host that checks the sequence numbers and trusts the length of the first packet
\* reads the message back, whatever its length, the counter's wrap included.
THEOREM MessageReadBack == Spec => []HostGetsMessage
<1>1. QED
  BY HostHasMessage, FramingInit, FramingStep, PTL DEF Spec
=============================================================================
