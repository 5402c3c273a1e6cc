-------------------------- MODULE HidRefinementProofs --------------------------
(***************************************************************************)
(* HidTransport implements HidChannels while the clock has not wrapped:    *)
(* the slots, deadlines and sequence counters are one reassembly buffer    *)
(* per channel.                                                            *)
(***************************************************************************)
EXTENDS HidTransportProofs, FiniteSetTheorems

-----------------------------------------------------------------------------
(* What a table of slots shows of the channels at a time, on which the     *)
(* refinement mapping depends.                                             *)

View(s) == [cmd |-> s.cmd, size |-> s.size, data |-> s.payload]

\* The channels that have a request in reassembly.
Reassembling(table, t) == {table[i].cid : i \in {k \in Slots : ~IsExpired(table[k], t)}}

Seen(table, t) ==
  [c \in Reassembling(table, t) |->
     LET s == table[Min({i \in Slots : table[i].cid = c /\ ~IsExpired(table[i], t)})]
     IN  [cmd |-> s.cmd, size |-> s.size, data |-> s.payload]]

LEMMA BarIsSeen ==
  /\ partialBar = Seen(slot, clock)
  /\ partialBar' = Seen(slot', clock')
BY DEF partialBar, PendingCids, Pending, PendingSlots, Seen, Reassembling, IsExpired

\* In a good table a channel is seen when a slot of it pends, and that slot is what is seen.
LEMMA SeenIs ==
  ASSUME NoWrap, NEW t \in Nat, t <= Horizon, NEW table \in [Slots -> Slot], Good(table, t)
  PROVE  /\ \A c : c \in DOMAIN Seen(table, t) <=> \E i \in Slots : table[i].cid = c /\ Pends(table[i], t)
         /\ \A i \in Slots : Pends(table[i], t) => Seen(table, t)[table[i].cid] = View(table[i])
<1>1. \A i \in Slots : ~IsExpired(table[i], t) <=> Pends(table[i], t)
  BY ExpiredIsNotPending
<1>2. DOMAIN Seen(table, t) = Reassembling(table, t)
  BY DEF Seen
<1>3. ASSUME NEW i \in Slots, Pends(table[i], t)
      PROVE  Seen(table, t)[table[i].cid] = View(table[i])
  <2> DEFINE c     == table[i].cid
             found == {k \in Slots : table[k].cid = c /\ ~IsExpired(table[k], t)}
  <2>1. found \in SUBSET Nat /\ i \in found
    BY <1>1, <1>3, ProtocolAssumption DEF Slots
  <2>2. Min(found) \in found
    <3> HIDE DEF found
    <3>1. QED
      BY <2>1, MinInSet
  <2>3. Min(found) = i
    <3>1. \A k \in found : k \in Slots /\ table[k].cid = c /\ Pends(table[k], t)
      BY <1>1
    <3> HIDE DEF found
    <3>2. QED
      BY <1>3, <2>2, <3>1, Zenon DEF Good
  <2>4. c \in Reassembling(table, t)
    BY <1>1, <1>3 DEF Reassembling
  <2>5. Seen(table, t)[c] = View(table[Min(found)])
    BY <2>4, Zenon DEF Seen, View
  <2>6. QED
    BY <2>3, <2>5
<1>4. QED
  BY <1>1, <1>2, <1>3, Zenon DEF Reassembling

\* So a function is what is seen when it has these channels and these values.
LEMMA SeenEquals ==
  ASSUME NoWrap, NEW t \in Nat, t <= Horizon, NEW table \in [Slots -> Slot], Good(table, t),
         NEW D, NEW f, f = [c \in D |-> f[c]],
         \A c : c \in D <=> \E i \in Slots : table[i].cid = c /\ Pends(table[i], t),
         \A i \in Slots : Pends(table[i], t) => f[table[i].cid] = View(table[i])
  PROVE  Seen(table, t) = f
<1>1. DOMAIN Seen(table, t) = D
  <2>1. \A c : c \in DOMAIN Seen(table, t) <=> c \in D
    BY SeenIs
  <2>2. QED
    BY <2>1
<1>2. Seen(table, t) = [c \in D |-> Seen(table, t)[c]]
  BY <1>1 DEF Seen
<1>3. ASSUME NEW c \in D
      PROVE  Seen(table, t)[c] = f[c]
  <2>1. PICK i \in Slots : table[i].cid = c /\ Pends(table[i], t)
    OBVIOUS
  <2>2. QED
    BY <2>1, SeenIs
<1>4. QED
  BY <1>2, <1>3

\* A slot that pends is what the mapping shows of its channel, and goes on pending in the past.
LEMMA PendedBefore ==
  ASSUME NoWrap, SafeInv, NEW t \in Nat, clock <= t, NEW i \in Slots, Pends(slot[i], t)
  PROVE  /\ Pends(slot[i], clock)
         /\ slot[i].cid \in DOMAIN partialBar
         /\ partialBar[slot[i].cid] = View(slot[i])
<1>1. slot[i] \in Slot /\ slot[i].expiresAt \in Nat
  BY TransportAssumption DEF SafeInv, TypeOK, Slot
<1>2. Pends(slot[i], clock)
  BY <1>1 DEF Pends, SafeInv, TypeOK
<1>3. QED
  BY <1>2, SeenIs, BarIsSeen DEF SafeInv, TypeOK

\* A step that takes slots out of reassembly, and puts none in, loses channels.
LEMMA SeenKept ==
  ASSUME NoWrap, SafeInv, NEW t \in Nat, t <= Horizon, clock <= t,
         NEW table \in [Slots -> Slot], Good(table, t),
         \A i \in Slots : Pends(table[i], t) => table[i] = slot[i]
  PROVE  \E D \in SUBSET DOMAIN partialBar :
            /\ Seen(table, t) = Channels!Keep(D)
            /\ \A c : c \in D <=> \E i \in Slots : table[i].cid = c /\ Pends(table[i], t)
<1> DEFINE D == DOMAIN Seen(table, t)
<1>1. \A c : c \in D <=> \E i \in Slots : table[i].cid = c /\ Pends(table[i], t)
  BY SeenIs
<1>2. ASSUME NEW i \in Slots, Pends(table[i], t)
      PROVE  /\ table[i].cid \in DOMAIN partialBar
             /\ partialBar[table[i].cid] = View(table[i])
  BY <1>2, PendedBefore
<1> HIDE DEF D
<1>3. D \in SUBSET DOMAIN partialBar
  BY <1>1, <1>2
<1> DEFINE f == [c \in D |-> partialBar[c]]
<1>4. f = [c \in D |-> f[c]]
  OBVIOUS
<1>5. \A i \in Slots : Pends(table[i], t) => f[table[i].cid] = View(table[i])
  BY <1>1, <1>2
<1> HIDE DEF f
<1>6. Seen(table, t) = f
  BY <1>1, <1>4, <1>5, SeenEquals
<1>7. Channels!Keep(D) = f
  BY DEF f, Channels!Keep
<1>8. QED
  BY <1>1, <1>3, <1>6, <1>7

\* A step that puts the slot k in reassembly, or changes what it holds.
LEMMA SeenChanged ==
  ASSUME NoWrap, SafeInv, NEW t \in Nat, t <= Horizon, clock <= t,
         NEW table \in [Slots -> Slot], Good(table, t), NEW k \in Slots,
         \A i \in Slots : Pends(table[i], t) => i = k \/ (table[i] = slot[i] /\ slot[i].cid # table[k].cid)
  PROVE  \E D :
            /\ D \subseteq DOMAIN partialBar \cup {table[k].cid}
            /\ Seen(table, t) = [c \in D |-> IF c = table[k].cid THEN View(table[k]) ELSE partialBar[c]]
            /\ \A c : c \in D <=> \E i \in Slots : table[i].cid = c /\ Pends(table[i], t)
<1> DEFINE D == DOMAIN Seen(table, t)
<1>1. \A c : c \in D <=> \E i \in Slots : table[i].cid = c /\ Pends(table[i], t)
  BY SeenIs
<1>2. ASSUME NEW i \in Slots, Pends(table[i], t), i # k
      PROVE  /\ table[i].cid \in DOMAIN partialBar
             /\ partialBar[table[i].cid] = View(table[i])
             /\ table[i].cid # table[k].cid
  BY <1>2, PendedBefore
<1> HIDE DEF D
<1>3. D \subseteq DOMAIN partialBar \cup {table[k].cid}
  BY <1>1, <1>2
<1> DEFINE f == [c \in D |-> IF c = table[k].cid THEN View(table[k]) ELSE partialBar[c]]
<1>4. f = [c \in D |-> f[c]]
  OBVIOUS
<1>5. \A i \in Slots : Pends(table[i], t) => f[table[i].cid] = View(table[i])
  BY <1>1, <1>2
<1> HIDE DEF f
<1>6. Seen(table, t) = f
  BY <1>1, <1>4, <1>5, SeenEquals
<1>7. QED
  BY <1>1, <1>3, <1>6 DEF f

-----------------------------------------------------------------------------
(* Time and the lock. *)

\* What the mapping shows of the lock at the moment t of a step.
HolderAt(t) == IF Now(t) < lock.lockedUntil THEN lock.channel ELSE Channels!Nobody

LEMMA HolderLapses ==
  ASSUME NoWrap, SafeInv, NEW t \in Nat, t <= Horizon, clock <= t
  PROVE  HolderAt(t) \in {holderBar, Channels!Nobody}
<1>1. Now(t) = t /\ Now(clock) = clock /\ clock \in Nat /\ lock.lockedUntil \in Nat
  BY NowIsTrue, TransportAssumption DEF SafeInv, TypeOK
<1>2. QED
  BY <1>1 DEF HolderAt, holderBar, Channels!Nobody

\* No message is completed: the mapping shows nothing but the reply.
LEMMA NoRequestIsQuiet ==
  ASSUME NoWrap, SafeInv, NEW t \in Nat, t <= Horizon, clock <= t, clock' = t,
         NEW msgs, NoRequest(msgs)
  PROVE  Channels!Quiet(msgs)
<1>1. holderBar' = HolderAt(t)
  BY DEF NoRequest, holderBar, HolderAt, Channels!Nobody
<1>2. QED
  BY <1>1, HolderLapses DEF NoRequest, Channels!Quiet

\* The nonce and the new channel id begin the answer to INIT.
LEMMA InitAnswer ==
  ASSUME NEW payload \in Seq(Byte), Len(payload) = NonceSize, NEW id \in Nat, NEW capabilities \in Nat
  PROVE  SubSeq(payload \o <<id, capabilities>>, 1, NonceSize + 1) = payload \o <<id>>
<1>a. payload \in Seq(Nat)
  BY SeqMonotonic, ProtocolAssumption
<1>b. <<id>> \in Seq(Nat) /\ Len(<<id>>) = 1 /\ <<capabilities>> \in Seq(Nat)
  OBVIOUS
<1>1. /\ payload \in Seq(Nat) /\ NonceSize \in Nat
      /\ <<id>> \in Seq(Nat) /\ Len(<<id>>) = 1
      /\ <<capabilities>> \in Seq(Nat)
  BY <1>a, <1>b, ProtocolAssumption
<1> DEFINE front == payload \o <<id>>
<1>2. /\ front \in Seq(Nat) /\ Len(front) = NonceSize + 1
  BY <1>1, ConcatProperties
<1>3. payload \o <<id, capabilities>> = front \o <<capabilities>>
  <2>1. <<id, capabilities>> = <<id>> \o <<capabilities>>
    <3>1. /\ <<id, capabilities>> \in Seq(Nat) /\ Len(<<id, capabilities>>) = 2
          /\ <<id, capabilities>>[1] = id /\ <<id, capabilities>>[2] = capabilities
          /\ <<capabilities>>[1] = capabilities /\ Len(<<capabilities>>) = 1 /\ <<id>>[1] = id
      OBVIOUS
    <3>2. /\ <<id>> \o <<capabilities>> \in Seq(Nat) /\ Len(<<id>> \o <<capabilities>>) = 2
          /\ (<<id>> \o <<capabilities>>)[1] = id
          /\ (<<id>> \o <<capabilities>>)[2] = capabilities
      BY <1>1, <3>1, ConcatProperties
    <3>3. \A i \in 1 .. 2 : <<id, capabilities>>[i] = (<<id>> \o <<capabilities>>)[i]
      BY <3>1, <3>2
    <3>4. QED
      BY <3>1, <3>2, <3>3, SeqEqual
  <2>2. QED
    BY <1>1, <2>1, ConcatAssociative
<1> HIDE DEF front
<1>4. SubSeq(front \o <<capabilities>>, 1, Len(front)) = SubSeq(front, 1, Len(front))
  <2>1. 1 \in 1 .. Len(front) /\ Len(front) \in 1 .. Len(front)
    BY <1>1, <1>2
  <2>2. QED
    BY <1>1, <1>2, <2>1, SubSeqOfConcat1
<1>5. SubSeq(front, 1, Len(front)) = front
  BY <1>2, SubSeqFull
<1>6. QED
  BY <1>2, <1>3, <1>4, <1>5 DEF front

\* What the command switch does is what a channel is promised, with the lock as it is at t.
LEMMA HandleRequestServes ==
  ASSUME NoWrap, SafeInv, NEW t \in Nat, t <= Horizon, clock <= t, clock' = t,
         NEW cid \in Cids, NEW cmd \in Commands, NEW payload \in Seq(Byte),
         HandleRequest(cid, cmd, payload, t)
  PROVE  \E h \in {holderBar, Channels!Nobody} : Channels!Serve(cid, cmd, payload, h)
<1> DEFINE h == HolderAt(t)
<1>1. h \in {holderBar, Channels!Nobody}
  BY HolderLapses
<1>2. IsLocked(cid, t) <=> h \notin {Channels!Nobody, cid}
  <2>1. lock.channel # CidMod
    BY ProtocolAssumption DEF SafeInv, TypeOK, Cids
  <2>2. QED
    BY <2>1 DEF IsLocked, HolderAt, Channels!Nobody
<1>3. cmd \in LockExempt <=> cmd \in Channels!LockExempt
  BY DEF LockExempt, Channels!LockExempt
<1>4. handled' = <<Channels!Message(cid, cmd, payload)>>
  BY DEF HandleRequest, Message, Channels!Message
<1>5. UNCHANGED lock => holderBar' = h
  BY DEF holderBar, HolderAt, Channels!Nobody
<1> HIDE DEF h
<1> SUFFICES Channels!Serve(cid, cmd, payload, h)
  BY <1>1
<1>6. ASSUME NEW err, Fail(cid, err), cmd # "PING",
             err = ERR_LOCK_REQUIRED <=> IsLocked(cid, t) /\ cmd \notin LockExempt
      PROVE  Channels!Serve(cid, cmd, payload, h)
  <2>1. /\ Len(replies') = 1 /\ replies'[1].cid = cid /\ replies'[1].cmd = "ERROR"
        /\ replies'[1].payload = <<err>>
    BY <1>6 DEF Fail, ErrorMessage, Message
  <2>2. replies'[1].payload = <<Channels!ERR_LOCK_REQUIRED>> <=> err = ERR_LOCK_REQUIRED
    BY <2>1 DEF ERR_LOCK_REQUIRED, Channels!ERR_LOCK_REQUIRED
  <2>3. UNCHANGED channelIdCount /\ holderBar' = h
    BY <1>5, <1>6 DEF Fail
  <2>4. QED
    BY <1>2, <1>3, <1>4, <1>6, <2>1, <2>2, <2>3 DEF Channels!Serve
<1>7. ASSUME NEW answer, Answer(cid, cmd, answer), UNCHANGED <<lock, channelIdCount>>,
             ~(IsLocked(cid, t) /\ cmd \notin LockExempt),
             cmd = "PING" => answer = payload, cmd \notin {"LOCK", "INIT"}
      PROVE  Channels!Serve(cid, cmd, payload, h)
  <2>1. /\ Len(replies') = 1 /\ replies'[1].cid = cid /\ replies'[1].cmd = cmd
        /\ replies'[1].payload = answer
    BY <1>7 DEF Answer, Message
  <2>2. QED
    BY <1>2, <1>3, <1>4, <1>5, <1>7, <2>1 DEF Channels!Serve
<1>8. CASE IsLocked(cid, t) /\ cmd \notin LockExempt
  <2>1. Fail(cid, ERR_LOCK_REQUIRED) /\ cmd # "PING"
    BY <1>8 DEF HandleRequest, LockExempt
  <2>2. QED
    BY <1>6, <1>8, <2>1
<1>9. CASE ~(IsLocked(cid, t) /\ cmd \notin LockExempt)
  <2>1. ASSUME NEW err \in {ERR_INVALID_CMD, ERR_INVALID_PAR, ERR_INVALID_LEN}, Fail(cid, err), cmd # "PING"
        PROVE  Channels!Serve(cid, cmd, payload, h)
    BY <1>6, <1>9, <2>1 DEF ERR_INVALID_CMD, ERR_INVALID_PAR, ERR_INVALID_LEN, ERR_LOCK_REQUIRED
  <2>2. CASE cmd = "INIT" /\ HandleInit(cid, payload)
    <3>1. CASE Fail(cid, ERR_INVALID_CMD) \/ Fail(cid, ERR_INVALID_LEN)
      BY <2>1, <2>2, <3>1
    <3>2. CASE /\ cid = Broadcast /\ Len(payload) = NonceSize
               /\ channelIdCount' = NextCid
               /\ Answer(Broadcast, "INIT",
                         payload \o <<channelIdCount', IF SupportsWink THEN 3 ELSE 2>>)
               /\ UNCHANGED lock
      <4>1. /\ channelIdCount' = (channelIdCount + 1) % CidMod
            /\ channelIdCount' \in Nat
        BY <3>2, ProtocolAssumption DEF NextCid, SafeInv, TypeOK, Cids
      <4>2. SubSeq(payload \o <<channelIdCount', IF SupportsWink THEN 3 ELSE 2>>, 1, NonceSize + 1)
              = payload \o <<channelIdCount'>>
        BY <3>2, <4>1, InitAnswer
      <4>3. /\ Len(replies') = 1 /\ replies'[1].cid = cid /\ replies'[1].cmd = "INIT"
            /\ SubSeq(replies'[1].payload, 1, NonceSize + 1) = payload \o <<channelIdCount'>>
        BY <3>2, <4>2 DEF Answer, Message
      <4>4. QED
        BY <1>3, <1>4, <1>5, <2>2, <3>2, <4>1, <4>3 DEF Channels!Serve, LockExempt
    <3>3. QED
      BY <2>2, <3>1, <3>2 DEF HandleInit
  <2>3. CASE cmd = "MSG" /\ HandleMsg(cid)
    BY <1>7, <1>9, <2>1, <2>3 DEF HandleMsg
  <2>4. CASE cmd = "PING" /\ HandlePing(cid, payload)
    BY <1>7, <1>9, <2>4 DEF HandlePing
  <2>5. CASE cmd = "WINK" /\ HandleWink(cid, payload)
    BY <1>7, <1>9, <2>1, <2>5 DEF HandleWink
  <2>6. CASE cmd = "LOCK" /\ HandleLock(cid, payload, t)
    <3>1. CASE Fail(cid, ERR_INVALID_LEN) \/ Fail(cid, ERR_INVALID_PAR)
      BY <2>1, <2>6, <3>1
    <3>2. CASE /\ lock' = [channel |-> cid, lockedUntil |-> Now(t + payload[1] * SecondTicks)]
               /\ Answer(cid, "LOCK", <<>>)
               /\ UNCHANGED channelIdCount
      <4>1. holderBar' \in {cid, Channels!Nobody}
        BY <3>2 DEF holderBar, Channels!Nobody
      <4>2. /\ Len(replies') = 1 /\ replies'[1].cid = cid /\ replies'[1].cmd = "LOCK"
        BY <3>2 DEF Answer, Message
      <4>3. QED
        BY <1>2, <1>3, <1>4, <1>9, <2>6, <3>2, <4>1, <4>2 DEF Channels!Serve
    <3>3. QED
      BY <2>6, <3>1, <3>2 DEF HandleLock
  <2>7. CASE cmd = "OTHER" /\ Fail(cid, ERR_INVALID_CMD)
    BY <2>1, <2>7
  <2>8. QED
    BY <1>9, <2>2, <2>3, <2>4, <2>5, <2>6, <2>7 DEF HandleRequest
<1>10. QED
  BY <1>8, <1>9

-----------------------------------------------------------------------------
(* How many channels there are in a table. *)

\* The instance has its own copy of the operator.
LEMMA SameCardinality == ASSUME NEW S PROVE Channels!Cardinality(S) = Cardinality(S)
BY Zenon DEF Channels!Cardinality, Cardinality

LEMMA SlotCount ==
  /\ IsFiniteSet(Slots) /\ Cardinality(Slots) = NumSlots
  /\ \A k \in Slots : IsFiniteSet(Slots \ {k}) /\ Cardinality(Slots \ {k}) = NumSlots - 1
<1>1. IsFiniteSet(Slots) /\ Cardinality(Slots) = NumSlots
  BY FS_Interval, ProtocolAssumption DEF Slots
<1>2. QED
  BY <1>1, FS_RemoveElement

\* There are not more channels than slots that hold one.
LEMMA ChannelsInSlots ==
  ASSUME NEW table \in [Slots -> Slot], NEW S \in SUBSET Slots,
         NEW D, \A c \in D : \E i \in S : table[i].cid = c
  PROVE  IsFiniteSet(D) /\ Cardinality(D) <= Cardinality(S)
<1> DEFINE g == [c \in D |-> CHOOSE i \in S : table[i].cid = c]
<1>1. \A c \in D : g[c] \in S /\ table[g[c]].cid = c
  OBVIOUS
<1>2. g \in [D -> S]
  BY <1>1
<1> HIDE DEF g
<1>3. g \in Injection(D, S)
  BY <1>1, <1>2 DEF Injection, IsInjective
<1>4. IsFiniteSet(S)
  BY SlotCount, FS_Subset
<1>5. QED
  BY <1>3, <1>4, FS_Injection

\* There are as many when no two of them hold the same.
LEMMA SlotsInChannels ==
  ASSUME NEW table \in [Slots -> Slot], NEW D, \A i \in Slots : table[i].cid \in D,
         \A c \in D : \E i \in Slots : table[i].cid = c,
         \A i, j \in Slots : table[i].cid = table[j].cid => i = j
  PROVE  Cardinality(D) = NumSlots
<1>1. IsFiniteSet(D) /\ Cardinality(D) <= NumSlots
  BY ChannelsInSlots, SlotCount
<1> DEFINE g == [i \in Slots |-> table[i].cid]
<1>2. g \in [Slots -> D] /\ \A i \in Slots : g[i] = table[i].cid
  OBVIOUS
<1> HIDE DEF g
<1>3. g \in Injection(Slots, D)
  BY <1>2 DEF Injection, IsInjective
<1>4. NumSlots <= Cardinality(D)
  BY <1>1, <1>3, FS_Injection, SlotCount
<1>5. Cardinality(D) \in Nat
  BY <1>1, FS_CardinalityType
<1>6. QED
  BY <1>1, <1>4, <1>5, ProtocolAssumption

-----------------------------------------------------------------------------
(* A command packet. *)

\* What still pends after cancel() is as it was.
LEMMA CancelledOrSame ==
  ASSUME NoWrap, SafeInv, NEW t \in Nat, t <= Horizon, NEW cid, NEW i \in Slots,
         Pends(AfterCancel(cid, t)[i], t)
  PROVE  AfterCancel(cid, t)[i] = slot[i]
<1>1. slot[i] \in Slot /\ Now(t) = t
  BY NowIsTrue, TransportAssumption DEF SafeInv, TypeOK
<1>2. ~Pends(Cancel(slot[i], t), t)
  BY <1>1 DEF Cancel, Slot, Pends
<1>3. AfterCancel(cid, t)[i] \in {slot[i], Cancel(slot[i], t)}
  BY DEF AfterCancel
<1>4. QED
  BY <1>2, <1>3

\* After cancel() the channels are those that had not expired, but not that of the command.
LEMMA SeenAfterCancel ==
  ASSUME NoWrap, SafeInv, NEW t \in Nat, t <= Horizon, clock <= t, NEW cid
  PROVE  \E D \in SUBSET (DOMAIN partialBar \ {cid}) :
            /\ Seen(AfterCancel(cid, t), t) = Channels!Keep(D)
            /\ \A c : c \in D <=> \E i \in Slots : AfterCancel(cid, t)[i].cid = c /\ Pends(AfterCancel(cid, t)[i], t)
<1> DEFINE table == AfterCancel(cid, t)
<1>1. table \in [Slots -> Slot]
  BY AfterCancelType DEF SafeInv
<1>2. /\ Good(table, t)
      /\ \A j \in Slots : table[j].cid = cid => ~Pends(table[j], t)
  BY GoodAfterCancel
<1>3. \A i \in Slots : Pends(table[i], t) => table[i] = slot[i]
  BY CancelledOrSame
<1> HIDE DEF table
<1>4. PICK D \in SUBSET DOMAIN partialBar :
         /\ Seen(table, t) = Channels!Keep(D)
         /\ \A c : c \in D <=> \E i \in Slots : table[i].cid = c /\ Pends(table[i], t)
  BY <1>1, <1>2, <1>3, SeenKept
<1>5. D \in SUBSET (DOMAIN partialBar \ {cid})
  BY <1>2, <1>4
<1>6. QED
  BY <1>4, <1>5 DEF table

LEMMA ShortCommandRefines ==
  ASSUME NoWrap, SafeInv, NEW r \in CmdReports, NEW t \in Nat, t <= Horizon, clock <= t, clock' = t,
         ShortCommand(r, t)
  PROVE  Channels!Command(r)
<1>1. PICK D \in SUBSET (DOMAIN partialBar \ {r.cid}) : partialBar' = Channels!Keep(D)
  BY SeenAfterCancel, BarIsSeen DEF ShortCommand
<1>2. SubSeq(r.data, 1, r.size) \in Seq(Byte)
  BY CommandFields, PrefixType, ProtocolAssumption DEF ShortCommand
<1>3. \E h \in {holderBar, Channels!Nobody} :
         Channels!Serve(r.cid, r.cmd, SubSeq(r.data, 1, r.size), h)
  BY <1>2, CommandFields, HandleRequestServes DEF ShortCommand
<1>4. QED
  BY <1>1, <1>3 DEF ShortCommand, Channels!Command

LEMMA LongCommandRefines ==
  ASSUME NoWrap, SafeInv, NEW r \in CmdReports, NEW t \in Nat, t <= Horizon, clock <= t, clock' = t,
         LongCommand(r, t)
  PROVE  Channels!Command(r)
<1> DEFINE table == AfterCancel(r.cid, t)
           k     == Min(FreeSlots(table, t))
           after == [table EXCEPT ![k] = Start(r, t)]
<1>1. /\ r.size > InitRoom /\ FreeSlots(table, t) # {}
      /\ slot' = after /\ NoRequest(<<>>)
  BY DEF LongCommand
<1>2. k \in Slots
  BY <1>1, FreeFound
<1>3. /\ table \in [Slots -> Slot]
      /\ \A j \in Slots : table[j].cid = r.cid => ~Pends(table[j], t)
      /\ \A j \in Slots : Pends(table[j], t) => table[j] = slot[j]
  BY AfterCancelType, GoodAfterCancel, CancelledOrSame DEF SafeInv
<1>4. Start(r, t) \in Slot /\ Good(slot', t)
  BY StartType, CommandSafe
<1>5. /\ Start(r, t).cid = r.cid /\ Pends(Start(r, t), t)
      /\ View(Start(r, t)) = [cmd |-> r.cmd, size |-> r.size, data |-> r.data]
  <2>1. Start(r, t).expiresAt = t + RequestTimeout
    <3>1. t + RequestTimeout \in Nat /\ t + RequestTimeout <= Horizon + RequestTimeout
      BY TransportAssumption
    <3>2. QED
      BY <3>1, NowIsTrue DEF Start
  <2>2. Start(r, t).payload = r.data
    <3>1. Smaller(InitRoom, r.size) = InitRoom
      BY <1>1, CommandFields, ProtocolAssumption DEF Smaller
    <3>2. r.data \in Seq(Byte) /\ Len(r.data) = InitRoom
      BY CommandFields, ProtocolAssumption, SeqDef
    <3>3. QED
      BY <3>1, <3>2, SubSeqFull DEF Start
  <2>3. t < t + RequestTimeout
    BY TransportAssumption
  <2>4. Start(r, t).cid = r.cid /\ Start(r, t).cmd = r.cmd /\ Start(r, t).size = r.size
    BY DEF Start
  <2>5. QED
    BY <2>1, <2>2, <2>3, <2>4 DEF Pends, View
<1> HIDE DEF table, k
<1>6. /\ after \in [Slots -> Slot] /\ after[k] = Start(r, t)
      /\ \A i \in Slots : i # k => after[i] = table[i]
  BY <1>2, <1>3, <1>4
<1> HIDE DEF after
<1>7. \A i \in Slots : Pends(after[i], t) => i = k \/ (after[i] = slot[i] /\ slot[i].cid # after[k].cid)
  BY <1>3, <1>5, <1>6
<1>8. PICK D :
         /\ D \subseteq DOMAIN partialBar \cup {after[k].cid}
         /\ Seen(after, t) = [c \in D |-> IF c = after[k].cid THEN View(after[k]) ELSE partialBar[c]]
         /\ \A c : c \in D <=> \E i \in Slots : after[i].cid = c /\ Pends(after[i], t)
  BY <1>1, <1>2, <1>4, <1>6, <1>7, SeenChanged
<1> DEFINE others == D \ {r.cid}
<1>9. r.cid \in D /\ D = others \cup {r.cid}
  BY <1>2, <1>5, <1>6, <1>8
<1>10. others \in SUBSET (DOMAIN partialBar \ {r.cid})
  BY <1>5, <1>6, <1>8
<1>11. Cardinality(others) < NumSlots
  <2>1. \A c \in others : \E i \in Slots \ {k} : after[i].cid = c
    BY <1>5, <1>6, <1>8
  <2>2. IsFiniteSet(others) /\ Cardinality(others) <= Cardinality(Slots \ {k})
    <3> HIDE DEF others
    <3>1. Slots \ {k} \in SUBSET Slots
      OBVIOUS
    <3>2. QED
      BY <1>6, <2>1, <3>1, ChannelsInSlots
  <2> HIDE DEF others
  <2>3. Cardinality(others) \in Nat
    BY <2>2, FS_CardinalityType
  <2>4. Cardinality(Slots \ {k}) = NumSlots - 1
    BY <1>2, SlotCount
  <2>5. Cardinality(others) <= NumSlots - 1
    BY <2>2, <2>4, Zenon
  <2>6. QED
    BY <2>3, <2>5, ProtocolAssumption
<1>12. partialBar' = [c \in others \cup {r.cid} |->
                        IF c = r.cid THEN [cmd |-> r.cmd, size |-> r.size, data |-> r.data]
                                     ELSE partialBar[c]]
  BY <1>1, <1>5, <1>6, <1>8, <1>9, BarIsSeen
<1>13. Channels!Quiet(<<>>)
  BY <1>1, NoRequestIsQuiet
<1> HIDE DEF others
<1>14. QED
  BY <1>1, <1>10, <1>11, <1>12, <1>13, SameCardinality DEF Channels!Command

LEMMA BusyRefines ==
  ASSUME NoWrap, SafeInv, NEW r \in CmdReports, NEW t \in Nat, t <= Horizon, clock <= t, clock' = t,
         LongCommandBusy(r, t)
  PROVE  Channels!Command(r)
<1> DEFINE table == AfterCancel(r.cid, t)
<1>1. /\ r.size > InitRoom /\ FreeSlots(table, t) = {} /\ slot' = table
      /\ NoRequest(<<ErrorMessage(r.cid, ERR_CHANNEL_BUSY)>>)
  BY DEF LongCommandBusy
<1>2. table \in [Slots -> Slot] /\ Good(table, t)
  BY AfterCancelType, GoodAfterCancel DEF SafeInv
<1>3. PICK D \in SUBSET (DOMAIN partialBar \ {r.cid}) :
         /\ Seen(table, t) = Channels!Keep(D)
         /\ \A c : c \in D <=> \E i \in Slots : table[i].cid = c /\ Pends(table[i], t)
  BY SeenAfterCancel
<1> HIDE DEF table
<1>4. \A i \in Slots : Pends(table[i], t)
  BY <1>1, <1>2, ExpiredIsNotPending DEF FreeSlots
<1>5. Cardinality(D) = NumSlots
  <2>1. \A i, j \in Slots : table[i].cid = table[j].cid => i = j
    BY <1>2, <1>4, Zenon DEF Good
  <2>2. QED
    BY <1>2, <1>3, <1>4, <2>1, SlotsInChannels
<1>6. partialBar' = Channels!Keep(D)
  BY <1>1, <1>3, BarIsSeen
<1>7. Channels!Quiet(<<Channels!ErrorMessage(r.cid, Channels!ERR_CHANNEL_BUSY)>>)
  BY <1>1, NoRequestIsQuiet
     DEF ErrorMessage, Message, ERR_CHANNEL_BUSY,
         Channels!ErrorMessage, Channels!Message, Channels!ERR_CHANNEL_BUSY
<1>8. QED
  BY <1>1, <1>3, <1>5, <1>6, <1>7, SameCardinality DEF Channels!Command

-----------------------------------------------------------------------------
(* A continuation packet. *)

\* The slot that the search finds holds all that its channel has sent, and expects
\* the sequence number that comes next.
LEMMA PendingIsPartial ==
  ASSUME NoWrap, SafeInv, NEW cid, PendingSlots(cid, clock) # {}
  PROVE  /\ Pending(cid) \in Slots /\ slot[Pending(cid)] \in Slot
         /\ slot[Pending(cid)].cid = cid
         /\ Consistent(slot[Pending(cid)])
         /\ cid \in DOMAIN partialBar /\ partialBar[cid] = View(slot[Pending(cid)])
         /\ Channels!NextSeq(partialBar[cid]) = slot[Pending(cid)].seq % SeqMod
         /\ \A i \in Slots : slot[i].cid = cid /\ Pends(slot[i], clock) => i = Pending(cid)
<1> DEFINE p == Pending(cid)
<1>1. clock \in Nat /\ clock <= Horizon /\ slot \in [Slots -> Slot] /\ Good(slot, clock)
  BY DEF SafeInv, TypeOK
<1>2. p \in Slots /\ slot[p].cid = cid /\ ~IsExpired(slot[p], clock)
  BY PendingFound
<1> HIDE DEF p
<1>3. slot[p] \in Slot /\ Pends(slot[p], clock)
  BY <1>1, <1>2, ExpiredIsNotPending
<1>4. Consistent(slot[p])
  BY <1>1, <1>2, <1>3 DEF Good
<1>5. cid \in DOMAIN partialBar /\ partialBar[cid] = View(slot[p])
  BY <1>1, <1>2, <1>3, PendedBefore
<1>6. Channels!NextSeq(partialBar[cid]) = slot[p].seq % SeqMod
  <2>1. partialBar[cid].data = slot[p].payload
    BY <1>5 DEF View
  <2>2. /\ slot[p].current = Len(slot[p].payload)
        /\ slot[p].seq % SeqMod = ((slot[p].current - InitRoom) \div ContRoom) % SeqMod
    BY <1>4 DEF Consistent
  <2>3. QED
    BY <2>1, <2>2, Zenon DEF Channels!NextSeq
<1>7. \A i \in Slots : slot[i].cid = cid /\ Pends(slot[i], clock) => i = p
  BY <1>1, <1>2, <1>3, Zenon DEF Good
<1>8. QED
  BY <1>2, <1>3, <1>4, <1>5, <1>6, <1>7 DEF p

\* When the slot that was found is cancelled, its channel has nothing in reassembly.
LEMMA CancelDrops ==
  ASSUME NoWrap, SafeInv, NEW t \in Nat, t <= Horizon, clock <= t, clock' = t,
         NEW cid, PendingSlots(cid, clock) # {}, NEW s \in Slot,
         slot' = [slot EXCEPT ![Pending(cid)] = Cancel(s, t)]
  PROVE  \E D \in SUBSET (DOMAIN partialBar \ {cid}) : partialBar' = Channels!Keep(D)
<1> DEFINE p == Pending(cid)
           after == [slot EXCEPT ![p] = Cancel(s, t)]
<1>1. clock \in Nat /\ slot \in [Slots -> Slot] /\ Good(slot, t)
  BY GoodLater DEF SafeInv, TypeOK
<1>2. /\ p \in Slots
      /\ \A i \in Slots : slot[i].cid = cid /\ Pends(slot[i], clock) => i = p
  BY PendingIsPartial
<1>3. Cancel(s, t) \in Slot /\ ~Pends(Cancel(s, t), t)
  <2>1. Cancel(s, t).expiresAt = t
    BY NowIsTrue, TransportAssumption DEF Cancel, Slot
  <2>2. QED
    BY <2>1, CancelType DEF Pends
<1> HIDE DEF p
<1>4. Good(after, t)
  BY <1>1, <1>2, GoodCancel
<1>5. /\ after \in [Slots -> Slot] /\ after[p] = Cancel(s, t)
      /\ \A i \in Slots : i # p => after[i] = slot[i]
  BY <1>1, <1>2, <1>3
<1>6. partialBar' = Seen(after, t)
  BY BarIsSeen DEF p
<1> HIDE DEF after
<1>7. \A i \in Slots : Pends(after[i], t) => i # p /\ after[i] = slot[i]
  BY <1>3, <1>5
<1>8. PICK D \in SUBSET DOMAIN partialBar :
         /\ Seen(after, t) = Channels!Keep(D)
         /\ \A c : c \in D <=> \E i \in Slots : after[i].cid = c /\ Pends(after[i], t)
  BY <1>4, <1>5, <1>7, SeenKept
<1>9. cid \notin D
  <2>1. ASSUME NEW i \in Slots, after[i].cid = cid, Pends(after[i], t)
        PROVE  FALSE
    BY <1>2, <1>7, <2>1, PendedBefore
  <2>2. QED
    BY <1>8, <2>1
<1>10. QED
  BY <1>6, <1>8, <1>9

LEMMA ContinueNothingRefines ==
  ASSUME NoWrap, SafeInv, NEW r \in ContReports, NEW t \in Nat, t <= Horizon, clock <= t, clock' = t,
         ContinueNothing(r)
  PROVE  Channels!Reject(r)
<1>1. clock \in Nat /\ clock <= Horizon /\ slot \in [Slots -> Slot] /\ Good(slot, clock) /\ Good(slot, t)
  BY GoodLater DEF SafeInv, TypeOK
<1>2. r.cid \notin DOMAIN partialBar
  <2>1. \A i \in Slots : ~IsExpired(slot[i], clock) <=> Pends(slot[i], clock)
    BY <1>1, ExpiredIsNotPending
  <2>2. \A i \in Slots : ~(slot[i].cid = r.cid /\ Pends(slot[i], clock))
    BY <2>1 DEF ContinueNothing, PendingSlots
  <2>3. QED
    BY <1>1, <2>2, SeenIs, BarIsSeen
<1>3. PICK D \in SUBSET DOMAIN partialBar : Seen(slot, t) = Channels!Keep(D)
  BY <1>1, SeenKept
<1>4. partialBar' = Channels!Keep(D)
  BY <1>3, BarIsSeen DEF ContinueNothing
<1>5. Channels!Quiet(<<Channels!ErrorMessage(r.cid, Channels!ERR_INVALID_SEQ)>>)
  BY NoRequestIsQuiet
     DEF ContinueNothing, ErrorMessage, Message, ERR_INVALID_SEQ,
         Channels!ErrorMessage, Channels!Message, Channels!ERR_INVALID_SEQ
<1>6. D \in SUBSET (DOMAIN partialBar \ {r.cid})
  BY <1>2, <1>3
<1>7. QED
  BY <1>2, <1>4, <1>5, <1>6 DEF Channels!Reject

LEMMA OutOfSequenceRefines ==
  ASSUME NoWrap, SafeInv, NEW r \in ContReports, NEW t \in Nat, t <= Horizon, clock <= t, clock' = t,
         ContinueOutOfSequence(r, t)
  PROVE  Channels!Reject(r)
<1> DEFINE p == Pending(r.cid)
<1>1. /\ PendingSlots(r.cid, clock) # {}
      /\ ~SeqMatches(slot[p], r.seq)
      /\ slot' = [slot EXCEPT ![p] = Cancel(slot[p], t)]
      /\ NoRequest(<<ErrorMessage(r.cid, ERR_INVALID_SEQ)>>)
  BY DEF ContinueOutOfSequence
<1>2. slot[p] \in Slot /\ Channels!NextSeq(partialBar[r.cid]) = slot[p].seq % SeqMod
  BY <1>1, PendingIsPartial
<1>3. r.seq # Channels!NextSeq(partialBar[r.cid])
  BY <1>1, <1>2 DEF SeqMatches
<1>4. \E D \in SUBSET (DOMAIN partialBar \ {r.cid}) : partialBar' = Channels!Keep(D)
  BY <1>1, <1>2, CancelDrops
<1>5. Channels!Quiet(<<Channels!ErrorMessage(r.cid, Channels!ERR_INVALID_SEQ)>>)
  BY <1>1, NoRequestIsQuiet
     DEF ErrorMessage, Message, ERR_INVALID_SEQ,
         Channels!ErrorMessage, Channels!Message, Channels!ERR_INVALID_SEQ
<1>6. QED
  BY <1>3, <1>4, <1>5 DEF Channels!Reject

\* The first bytes of two strings, beyond the first of them.
LEMMA PrefixOfConcat ==
  ASSUME NEW s \in Seq(Byte), NEW d \in Seq(Byte), NEW n \in 1 .. Len(d)
  PROVE  s \o SubSeq(d, 1, n) = SubSeq(s \o d, 1, Len(s) + n)
<1>1. Len(s) \in Nat /\ Len(d) \in Nat /\ s \o d \in Seq(Byte) /\ Len(s \o d) = Len(s) + Len(d)
  BY LenProperties, ConcatProperties
<1>2. \A i \in 1 .. n : d[i] \in Byte
  BY <1>1, ElementOfSeq
<1>3. /\ SubSeq(d, 1, n) \in Seq(Byte) /\ Len(SubSeq(d, 1, n)) = n
      /\ \A i \in 1 .. n : SubSeq(d, 1, n)[i] = d[i]
  BY <1>1, <1>2, SubSeqProperties
<1>4. \A i \in 1 .. Len(s) + n : (s \o d)[i] \in Byte
  BY <1>1, ElementOfSeq
<1>5. /\ SubSeq(s \o d, 1, Len(s) + n) \in Seq(Byte) /\ Len(SubSeq(s \o d, 1, Len(s) + n)) = Len(s) + n
      /\ \A i \in 1 .. Len(s) + n : SubSeq(s \o d, 1, Len(s) + n)[i] = (s \o d)[i]
  BY <1>1, <1>4, SubSeqProperties
<1>6. /\ s \o SubSeq(d, 1, n) \in Seq(Byte) /\ Len(s \o SubSeq(d, 1, n)) = Len(s) + n
      /\ \A i \in 1 .. Len(s) + n :
           (s \o SubSeq(d, 1, n))[i] = IF i <= Len(s) THEN s[i] ELSE SubSeq(d, 1, n)[i - Len(s)]
  BY <1>1, <1>3, ConcatProperties
<1>7. \A i \in 1 .. Len(s) + n : (s \o d)[i] = IF i <= Len(s) THEN s[i] ELSE d[i - Len(s)]
  BY <1>1, ConcatProperties
<1>8. \A i \in 1 .. Len(s) + n : (s \o SubSeq(d, 1, n))[i] = SubSeq(s \o d, 1, Len(s) + n)[i]
  <2> TAKE i \in 1 .. Len(s) + n
  <2>1. i > Len(s) => i - Len(s) \in 1 .. n
    BY <1>1
  <2>2. QED
    BY <1>1, <1>3, <1>5, <1>6, <1>7, <2>1
<1>9. QED
  BY <1>5, <1>6, <1>8, SeqEqual

\* append() copies a whole packet, or what is left of the message.
LEMMA AppendIs ==
  ASSUME NEW s \in Slot, Consistent(s), NEW r \in ContReports
  PROVE  LET a    == AppendPacket(s, r.data)
             data == s.payload \o r.data
         IN  /\ a \in Slot
             /\ a.cid = s.cid /\ a.cmd = s.cmd /\ a.size = s.size /\ a.expiresAt = s.expiresAt
             /\ ~IsComplete(a) => a.payload = data /\ Len(data) < s.size
             /\ IsComplete(a) => a.payload = SubSeq(data, 1, s.size) /\ Len(data) >= s.size
<1> DEFINE n    == Smaller(ContRoom, s.size - s.current)
           a    == AppendPacket(s, r.data)
           data == s.payload \o r.data
<1>1. /\ s.size \in Nat /\ s.current \in Nat /\ s.payload \in Seq(Byte)
      /\ s.current < s.size /\ s.current = Len(s.payload)
  BY DEF Slot, Consistent
<1>2. r.data \in Seq(Byte) /\ Len(r.data) = ContRoom /\ ContRoom \in Nat \ {0}
  BY ContFields, ProtocolAssumption, SeqDef
<1>3. a \in Slot
  BY AppendType
<1>4. /\ a.cid = s.cid /\ a.cmd = s.cmd /\ a.size = s.size /\ a.expiresAt = s.expiresAt
      /\ a.current = s.current + n
      /\ a.payload = s.payload \o SubSeq(r.data, 1, n)
  <2> HIDE DEF n
  <2>1. a = [s EXCEPT !.payload = s.payload \o SubSeq(r.data, 1, n),
                      !.current = s.current + n,
                      !.seq = (s.seq + 1) % (2 * SeqMod)]
    BY Zenon DEF AppendPacket, n
  <2> HIDE DEF a
  <2>2. QED
    BY <2>1, Zenon DEF Slot
<1> HIDE DEF a
<1>5. Len(data) = s.current + ContRoom
  <2>1. Len(s.payload \o r.data) = Len(s.payload) + Len(r.data)
    BY <1>1, <1>2, ConcatProperties, Zenon
  <2>2. QED
    BY <1>1, <1>2, <2>1
<1>6. CASE ~IsComplete(a)
  <2>1. n = ContRoom /\ s.current + ContRoom < s.size
    BY <1>1, <1>2, <1>4, <1>6 DEF Smaller, IsComplete
  <2>2. SubSeq(r.data, 1, ContRoom) = r.data
    BY <1>2, SubSeqFull
  <2> HIDE DEF n
  <2>3. QED
    BY <1>3, <1>4, <1>5, <1>6, <2>1, <2>2 DEF a
<1>7. CASE IsComplete(a)
  <2>1. n = s.size - s.current /\ n \in 1 .. ContRoom
    BY <1>1, <1>2, <1>4, <1>7 DEF Smaller, IsComplete
  <2>2. Len(data) >= s.size
    BY <1>1, <1>2, <1>5, <2>1
  <2>3. a.payload = SubSeq(data, 1, s.size)
    <3> HIDE DEF n
    <3>1. s.payload \o SubSeq(r.data, 1, n) = SubSeq(data, 1, Len(s.payload) + n)
      BY <1>1, <1>2, <2>1, PrefixOfConcat
    <3>2. Len(s.payload) + n = s.size
      BY <1>1, <2>1
    <3>3. QED
      BY <1>4, <3>1, <3>2
  <2>4. QED
    BY <1>3, <1>4, <1>7, <2>2, <2>3 DEF a
<1>8. QED
  BY <1>6, <1>7

LEMMA ContinueRefines ==
  ASSUME NoWrap, SafeInv, NEW r \in ContReports, NEW t \in Nat, t <= Horizon, clock <= t, clock' = t,
         Continue(r)
  PROVE  Channels!Extend(r)
<1> DEFINE p     == Pending(r.cid)
           a     == AppendPacket(slot[p], r.data)
           after == [slot EXCEPT ![p] = a]
           m     == partialBar[r.cid]
           data  == m.data \o r.data
<1>1. /\ PendingSlots(r.cid, clock) # {}
      /\ SeqMatches(slot[p], r.seq)
      /\ ~IsComplete(a) /\ slot' = after /\ NoRequest(<<>>)
  BY DEF Continue, Accepts
<1>2. /\ p \in Slots /\ slot[p] \in Slot /\ slot[p].cid = r.cid /\ Consistent(slot[p])
      /\ r.cid \in DOMAIN partialBar /\ m = View(slot[p])
      /\ Channels!NextSeq(m) = slot[p].seq % SeqMod
      /\ \A i \in Slots : slot[i].cid = r.cid /\ Pends(slot[i], clock) => i = p
  BY <1>1, PendingIsPartial
<1>3. /\ a \in Slot /\ a.cid = r.cid
      /\ Len(data) < m.size
      /\ View(a) = [m EXCEPT !.data = data]
  <2>1. /\ a \in Slot /\ a.cid = slot[p].cid /\ a.cmd = slot[p].cmd /\ a.size = slot[p].size
        /\ a.payload = slot[p].payload \o r.data
        /\ Len(slot[p].payload \o r.data) < slot[p].size
    BY <1>1, <1>2, AppendIs
  <2>2. m.size = slot[p].size /\ m.data = slot[p].payload
    BY <1>2 DEF View
  <2>3. m = [cmd |-> slot[p].cmd, size |-> slot[p].size, data |-> slot[p].payload]
    BY <1>2 DEF View
  <2>4. View(a) = [cmd |-> a.cmd, size |-> a.size, data |-> a.payload]
    BY DEF View
  <2> HIDE DEF a, m, p
  <2>5. \A c, n, d, e : [[cmd |-> c, size |-> n, data |-> d] EXCEPT !.data = e]
                         = [cmd |-> c, size |-> n, data |-> e]
    OBVIOUS
  <2>6. View(a) = [m EXCEPT !.data = data]
    <3>1. View(a) = [cmd |-> slot[p].cmd, size |-> slot[p].size, data |-> data]
      BY <2>1, <2>2, <2>4
    <3>2. [m EXCEPT !.data = data] = [cmd |-> slot[p].cmd, size |-> slot[p].size, data |-> data]
      <4> HIDE DEF data
      <4>1. QED
        BY <2>3, <2>5, Zenon
    <3>3. QED
      BY <3>1, <3>2
  <2>7. QED
    BY <1>2, <2>1, <2>2, <2>6
<1>4. slot \in [Slots -> Slot] /\ Good(after, t)
  BY <1>1, ContinuationSafe DEF SafeInv, TypeOK
<1>5. partialBar' = Seen(after, t)
  BY <1>1, BarIsSeen
<1> HIDE DEF a, p
<1>6. /\ after \in [Slots -> Slot] /\ after[p] = a
      /\ \A i \in Slots : i # p => after[i] = slot[i]
  BY <1>2, <1>3, <1>4
<1> HIDE DEF after
<1>7. \A i \in Slots : Pends(after[i], t) => i = p \/ (after[i] = slot[i] /\ slot[i].cid # after[p].cid)
  BY <1>2, <1>3, <1>6, PendedBefore
<1>8. PICK D :
         /\ D \subseteq DOMAIN partialBar \cup {after[p].cid}
         /\ Seen(after, t) = [c \in D |-> IF c = after[p].cid THEN View(after[p]) ELSE partialBar[c]]
  BY <1>2, <1>4, <1>6, <1>7, SeenChanged
<1>9. D \in SUBSET DOMAIN partialBar
  BY <1>2, <1>3, <1>6, <1>8
<1>10. partialBar' = [c \in D |-> IF c = r.cid THEN [m EXCEPT !.data = data] ELSE partialBar[c]]
  BY <1>3, <1>5, <1>6, <1>8
<1>11. Channels!Quiet(<<>>)
  BY <1>1, NoRequestIsQuiet
<1>12. r.seq = Channels!NextSeq(m)
  BY <1>1, <1>2 DEF SeqMatches
<1>13. QED
  BY <1>2, <1>3, <1>9, <1>10, <1>11, <1>12 DEF Channels!Extend

LEMMA ContinueToEndRefines ==
  ASSUME NoWrap, SafeInv, NEW r \in ContReports, NEW t \in Nat, t <= Horizon, clock <= t, clock' = t,
         ContinueToEnd(r, t)
  PROVE  Channels!Extend(r)
<1> DEFINE p     == Pending(r.cid)
           a     == AppendPacket(slot[p], r.data)
           m     == partialBar[r.cid]
           data  == m.data \o r.data
<1>1. /\ PendingSlots(r.cid, clock) # {}
      /\ SeqMatches(slot[p], r.seq)
      /\ IsComplete(a) /\ slot' = [slot EXCEPT ![p] = Cancel(a, t)]
      /\ HandleRequest(r.cid, a.cmd, a.payload, t)
  BY DEF ContinueToEnd, Accepts
<1>2. /\ slot[p] \in Slot /\ Consistent(slot[p])
      /\ r.cid \in DOMAIN partialBar /\ m = View(slot[p])
      /\ Channels!NextSeq(m) = slot[p].seq % SeqMod
  BY <1>1, PendingIsPartial
<1>3. /\ a \in Slot /\ a.cmd = m.cmd
      /\ Len(data) >= m.size
      /\ a.payload = SubSeq(data, 1, m.size)
  <2>1. /\ a \in Slot /\ a.cmd = slot[p].cmd
        /\ a.payload = SubSeq(slot[p].payload \o r.data, 1, slot[p].size)
        /\ Len(slot[p].payload \o r.data) >= slot[p].size
    BY <1>1, <1>2, AppendIs
  <2>2. m.cmd = slot[p].cmd /\ m.size = slot[p].size /\ m.data = slot[p].payload
    BY <1>2 DEF View
  <2> HIDE DEF a, m, p
  <2>3. QED
    BY <2>1, <2>2
<1>4. \E D \in SUBSET (DOMAIN partialBar \ {r.cid}) : partialBar' = Channels!Keep(D)
  BY <1>1, <1>3, CancelDrops
<1> HIDE DEF a, p
<1>5. a.cmd \in Commands /\ a.payload \in Seq(Byte)
  BY <1>3 DEF Slot
<1>6. \E h \in {holderBar, Channels!Nobody} : Channels!Serve(r.cid, m.cmd, SubSeq(data, 1, m.size), h)
  BY <1>1, <1>3, <1>5, ContFields, HandleRequestServes
<1>7. r.seq = Channels!NextSeq(m)
  BY <1>1, <1>2 DEF SeqMatches
<1>8. QED
  BY <1>2, <1>3, <1>4, <1>6, <1>7 DEF Channels!Extend

-----------------------------------------------------------------------------
(* Time, and the theorem. *)

LEMMA TickRefines ==
  ASSUME NoWrap, SafeInv, Tick
  PROVE  Channels!Lapse
<1> DEFINE t == clock + 1
<1>1. t \in Nat /\ t <= Horizon /\ clock <= t /\ clock \in Nat /\ clock' = t
  BY TransportAssumption DEF SafeInv, TypeOK, Tick
<1> HIDE DEF t
<1>2. slot \in [Slots -> Slot] /\ Good(slot, t)
  BY <1>1, GoodLater DEF SafeInv, TypeOK
<1>3. \E D \in SUBSET DOMAIN partialBar : partialBar' = Channels!Keep(D)
  BY <1>1, <1>2, SeenKept, BarIsSeen DEF Tick
<1>4. holderBar' = HolderAt(t)
  BY <1>1 DEF Tick, holderBar, HolderAt, Channels!Nobody
<1>5. holderBar' \in {holderBar, Channels!Nobody}
  BY <1>1, <1>4, HolderLapses
<1>6. QED
  BY <1>3, <1>5 DEF Channels!Lapse, Tick

LEMMA ChannelsInit == NoWrap /\ Init => Channels!Init
<1> SUFFICES ASSUME NoWrap, Init PROVE Channels!Init
  OBVIOUS
<1>1. /\ SafeInv /\ slot \in [Slots -> Slot] /\ clock \in Nat /\ clock <= Horizon
  BY SafeInit DEF SafeInv, TypeOK
<1>2. \A i \in Slots : ~Pends(slot[i], clock)
  <2>1. \A i \in Slots : slot[i].payload = NoBuffer
    BY DEF Init
  <2>2. QED
    BY <1>1, <2>1 DEF SafeInv, Good
<1>3. partialBar = <<>>
  <2>1. DOMAIN partialBar = {}
    BY <1>1, <1>2, SeenIs, BarIsSeen DEF SafeInv
  <2>2. partialBar = [c \in 1 .. 0 |-> partialBar[c]]
    <3>1. 1 .. 0 = {}
      OBVIOUS
    <3>2. QED
      BY <2>1, <3>1 DEF partialBar
  <2>3. partialBar \in Seq({}) /\ Len(partialBar) = 0
    BY <2>2, SeqDef
  <2>4. QED
    BY <2>3, EmptySeq
<1>4. holderBar = Channels!Nobody
  <2>1. Now(clock) = Now(StartClock) /\ lock.lockedUntil = Now(StartClock)
    BY DEF Init
  <2>2. Now(StartClock) \in Int
    BY NowType, TransportAssumption
  <2>3. ~(Now(clock) < lock.lockedUntil)
    BY <2>1, <2>2
  <2>4. QED
    BY <2>3 DEF holderBar, Channels!Nobody
<1>5. channelIdCount \in Channels!Cids
  BY TransportAssumption DEF Init, Cids, Channels!Cids
<1>6. QED
  BY <1>3, <1>4, <1>5 DEF Init, Channels!Init

LEMMA ChannelsNext == NoWrap /\ SafeInv /\ [Next]_vars => [Channels!Next]_(Channels!vars)
<1> SUFFICES ASSUME NoWrap, SafeInv, [Next]_vars
             PROVE  [Channels!Next]_(Channels!vars)
  OBVIOUS
<1>1. ASSUME NEW t \in clock .. clock + MaxStall
      PROVE  t \in Nat /\ clock <= t
  BY TransportAssumption DEF SafeInv, TypeOK
<1>2. CASE \E r \in CmdReports : ReceiveCommand(r)
  <2>1. PICK r \in CmdReports, t \in clock .. clock + MaxStall :
          /\ Returns(t)
          /\ ShortCommand(r, t) \/ LongCommand(r, t) \/ LongCommandBusy(r, t)
    BY <1>2 DEF ReceiveCommand
  <2>2. t <= Horizon /\ clock' = t
    BY <2>1 DEF Returns
  <2>3. Channels!Command(r)
    BY <1>1, <2>1, <2>2, ShortCommandRefines, LongCommandRefines, BusyRefines
  <2>4. QED
    BY <2>3 DEF Channels!Next
<1>3. CASE \E r \in ContReports : ReceiveContinuation(r)
  <2>1. PICK r \in ContReports, t \in clock .. clock + MaxStall :
          /\ t <= Horizon /\ clock' = t
          /\ \/ ContinueNothing(r)
             \/ ContinueOutOfSequence(r, t)
             \/ Continue(r)
             \/ ContinueToEnd(r, t)
             \/ ContinueWithoutBuffer(r, t)
    BY <1>3 DEF ReceiveContinuation, Returns
  <2>2. ~ContinueWithoutBuffer(r, t)
    BY <1>1, <2>1, ContinuationSafe
  <2>3. Channels!Reject(r) \/ Channels!Extend(r)
    BY <1>1, <2>1, <2>2, ContinueNothingRefines, OutOfSequenceRefines, ContinueRefines, ContinueToEndRefines
  <2>4. QED
    BY <2>3 DEF Channels!Next
<1>4. CASE Tick
  BY <1>4, TickRefines DEF Channels!Next
<1>5. CASE UNCHANGED vars
  <2>1. partialBar' = partialBar /\ holderBar' = holderBar
    BY <1>5, BarIsSeen DEF vars, holderBar
  <2>2. QED
    BY <1>5, <2>1 DEF vars, Channels!vars
<1>6. QED
  BY <1>2, <1>3, <1>4, <1>5 DEF Next

\* Until the clock wraps, whatever the slots, the timeouts and the order of the packets of
\* any number of channels: what is handed to the command switch is what one channel sent, in
\* order and whole, answered once; a channel is refused for want of room only when every slot
\* holds a request of another; and a channel without the lock is served INIT and PING alone
\* while another holds it (hid.cpp:46-230).
THEOREM ChannelsImplemented ==
  ASSUME NoWrap
  PROVE  Spec => ImplementsChannels
<1>1. QED
  BY SafeInit, SafeStep, ChannelsInit, ChannelsNext, PTL DEF Spec, ImplementsChannels, Channels!Spec
===============================================================================
