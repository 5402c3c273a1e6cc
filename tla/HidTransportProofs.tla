------------------------- MODULE HidTransportProofs -------------------------
(***************************************************************************)
(* Theorems about HidTransport for every value of its constants.  Types    *)
(* and the lock need no assumption on the clock; the reassembly invariants *)
(* hold while the machine has been up for less than ClockMod (NoWrap).     *)
(***************************************************************************)
EXTENDS HidTransport, ModuloLemmas, SequenceTheorems, WellFoundedInduction, TLAPS

-----------------------------------------------------------------------------
(* The first-match searches: a set of slots that is not empty has a least  *)
(* member, and Min finds it.                                               *)

Less == {p \in Nat \X Nat : p[1] < p[2]}

\* The order of the naturals has no infinite descent.
LEMMA LessWellFounded == IsWellFoundedOn(Less, Nat)
<1>1. Less = OpToRel(<, Nat)
  BY ZenonT(20) DEF Less, OpToRel
<1>2. QED
  BY <1>1, NatLessThanWellFounded

\* Min returns a member, so a search that finds anything returns what it found.
LEMMA MinInSet ==
  ASSUME NEW S \in SUBSET Nat, S # {}
  PROVE  Min(S) \in S
<1>1. PICK x \in S : \A y \in S : ~(<<y, x>> \in Less)
  BY LessWellFounded, WFMin
<1>2. ASSUME NEW y \in S PROVE x <= y
  <2>1. x \in Nat /\ y \in Nat
    OBVIOUS
  <2>2. y < x => <<y, x>> \in Less
    BY <2>1 DEF Less
  <2>3. QED
    BY <2>1, <2>2, <1>1
<1>3. QED
  BY <1>2, Zenon DEF Min

\* getPendingMultipartHidRequest() returns a slot of the channel, not expired.
LEMMA PendingFound ==
  ASSUME NEW cid, PendingSlots(cid, clock) # {}
  PROVE  /\ Pending(cid) \in Slots
         /\ slot[Pending(cid)].cid = cid
         /\ ~IsExpired(slot[Pending(cid)], clock)
<1>1. PendingSlots(cid, clock) \in SUBSET Nat
  BY ProtocolAssumption DEF PendingSlots, Slots
<1>2. Pending(cid) \in PendingSlots(cid, clock)
  BY <1>1, MinInSet DEF Pending
<1>3. QED
  BY <1>2, Zenon DEF PendingSlots

\* getFreeMultipartHidRequest() returns an expired slot.
LEMMA FreeFound ==
  ASSUME NEW table, NEW t, FreeSlots(table, t) # {}
  PROVE  /\ Min(FreeSlots(table, t)) \in Slots
         /\ IsExpired(table[Min(FreeSlots(table, t))], t)
<1>1. FreeSlots(table, t) \in SUBSET Nat
  BY ProtocolAssumption DEF FreeSlots, Slots
<1>2. Min(FreeSlots(table, t)) \in FreeSlots(table, t)
  BY <1>1, MinInSet
<1>3. QED
  BY <1>2, Zenon DEF FreeSlots

-----------------------------------------------------------------------------
(* Types of the operations on one slot. *)

LEMMA NowType ==
  ASSUME NEW t \in Nat
  PROVE  Now(t) \in 0 .. ClockMod - 1
BY TransportAssumption DEF Now

\* The prefix of a packet is a sequence of bytes, as long as it was asked to be.
LEMMA PrefixType ==
  ASSUME NEW room \in Nat, NEW data \in [1 .. room -> Byte], NEW n \in Int, n <= room
  PROVE  /\ SubSeq(data, 1, n) \in Seq(Byte)
         /\ Len(SubSeq(data, 1, n)) = IF 1 <= n THEN n ELSE 0
<1>1. \A i \in 1 .. n : data[i] \in Byte
  OBVIOUS
<1>2. QED
  BY <1>1, SubSeqProperties, SMT

\* cancel() keeps a slot a slot.
LEMMA CancelType ==
  ASSUME NEW s \in Slot, NEW t \in Nat
  PROVE  Cancel(s, t) \in Slot
<1>1. NoBuffer \in Seq(Byte)
  BY EmptySeq DEF NoBuffer
<1>2. QED
  BY <1>1, NowType DEF Cancel, Slot

\* start() makes a slot out of a command packet.
LEMMA StartType ==
  ASSUME NEW r \in CmdReports, NEW t \in Nat
  PROVE  /\ Start(r, t) \in Slot
         /\ r.size > InitRoom => /\ Len(Start(r, t).payload) = InitRoom
                                 /\ Start(r, t).current = InitRoom
<1>1. r \in CommandReport
  BY ProtocolAssumption
<1>2. /\ r.cid \in Cids
      /\ r.cmd \in Commands
      /\ r.size \in Nat
      /\ r.data \in [1 .. InitRoom -> Byte]
  BY <1>1 DEF CommandReport
<1>3. /\ Smaller(r.size, InitRoom) \in Nat
      /\ Smaller(InitRoom, r.size) \in Nat
      /\ Smaller(InitRoom, r.size) <= InitRoom
      /\ r.size > InitRoom => /\ Smaller(InitRoom, r.size) = InitRoom
                              /\ Smaller(r.size, InitRoom) = InitRoom
  BY <1>2, ProtocolAssumption DEF Smaller
<1>4. Now(t + RequestTimeout) \in 0 .. ClockMod - 1
  BY NowType, TransportAssumption
<1>5. 0 \in 0 .. 2 * SeqMod - 1
  BY ProtocolAssumption
<1>6. /\ SubSeq(r.data, 1, Smaller(InitRoom, r.size)) \in Seq(Byte)
      /\ r.size > InitRoom => Len(SubSeq(r.data, 1, Smaller(InitRoom, r.size))) = InitRoom
  BY <1>2, <1>3, PrefixType, ProtocolAssumption
<1>7. QED
  BY <1>2, <1>3, <1>4, <1>5, <1>6 DEF Start, Slot

\* append() keeps a slot a slot.
LEMMA AppendType ==
  ASSUME NEW s \in Slot, NEW r \in ContReports
  PROVE  AppendPacket(s, r.data) \in Slot
<1> DEFINE n == Smaller(ContRoom, s.size - s.current)
<1>1. r \in ContReport
  BY ProtocolAssumption
<1>2. r.data \in [1 .. ContRoom -> Byte]
  BY <1>1 DEF ContReport
<1>3. /\ s.size \in Nat /\ s.current \in Nat
      /\ s.payload \in Seq(Byte)
      /\ s.seq \in 0 .. 2 * SeqMod - 1
  BY DEF Slot
<1>4. n \in Int /\ n <= ContRoom /\ s.current + n \in Nat
  BY <1>3, ProtocolAssumption DEF Smaller
<1>5. SubSeq(r.data, 1, n) \in Seq(Byte)
  BY <1>2, <1>4, PrefixType, ProtocolAssumption
<1>6. s.payload \o SubSeq(r.data, 1, n) \in Seq(Byte)
  BY <1>3, <1>5, ConcatProperties
<1>7. (s.seq + 1) % (2 * SeqMod) \in 0 .. 2 * SeqMod - 1
  <2>1. 2 * SeqMod \in Nat \ {0} /\ s.seq + 1 \in Nat
    BY <1>3, ProtocolAssumption
  <2>2. QED
    BY <2>1
<1>8. QED
  BY <1>4, <1>6, <1>7, Zenon DEF AppendPacket, Slot

-----------------------------------------------------------------------------
(* Types of the replies and of the table. *)

ReplyTypes ==
  /\ lock \in [channel: Cids, lockedUntil: 0 .. ClockMod - 1]
  /\ channelIdCount \in Cids
  /\ handled \in Seq(Request) /\ Len(handled) <= 1
  /\ replies \in Seq(Reply) /\ Len(replies) <= 1

\* A message made of parts of the right types is a reply.
LEMMA AnswerType ==
  ASSUME NEW cid \in Cids, NEW cmd \in Commands \cup {"ERROR"}, NEW payload \in Seq(Nat)
  PROVE  /\ <<Message(cid, cmd, payload)>> \in Seq(Reply)
         /\ Len(<<Message(cid, cmd, payload)>>) <= 1
<1>1. Message(cid, cmd, payload) \in Reply
  BY DEF Message, Reply
<1>2. QED
  BY <1>1

\* So is an error message.
LEMMA ErrorType ==
  ASSUME NEW cid \in Cids, NEW err \in Nat
  PROVE  /\ <<ErrorMessage(cid, err)>> \in Seq(Reply)
         /\ Len(<<ErrorMessage(cid, err)>>) <= 1
<1>1. <<err>> \in Seq(Nat)
  OBVIOUS
<1>2. QED
  BY <1>1, AnswerType DEF ErrorMessage

\* Every way out of handleRequest() leaves values of the right types.
LEMMA HandleRequestType ==
  ASSUME TypeOK, NEW cid \in Cids, NEW cmd \in Commands, NEW payload \in Seq(Byte),
         NEW t \in Nat, HandleRequest(cid, cmd, payload, t)
  PROVE  ReplyTypes'
<1>1. handled' \in Seq(Request) /\ Len(handled') <= 1
  <2>1. Message(cid, cmd, payload) \in Request
    BY DEF Message, Request
  <2>2. QED
    BY <2>1 DEF HandleRequest
<1>2. payload \in Seq(Nat)
  BY SeqMonotonic, ProtocolAssumption
<1>3. ASSUME NEW err \in {ERR_INVALID_CMD, ERR_INVALID_PAR, ERR_INVALID_LEN, ERR_LOCK_REQUIRED},
             Fail(cid, err)
      PROVE  ReplyTypes'
  <2>1. err \in Nat
    BY DEF ERR_INVALID_CMD, ERR_INVALID_PAR, ERR_INVALID_LEN, ERR_LOCK_REQUIRED
  <2>2. QED
    BY <1>1, <1>3, <2>1, ErrorType DEF Fail, ReplyTypes, TypeOK
<1>4. ASSUME NEW name \in Commands, NEW answer \in Seq(Nat), Answer(cid, name, answer)
      PROVE  replies' \in Seq(Reply) /\ Len(replies') <= 1
  BY <1>4, AnswerType DEF Answer
<1>5. CASE IsLocked(cid, t) /\ cmd \notin LockExempt
  BY <1>3, <1>5 DEF HandleRequest
<1>6. CASE cmd = "INIT" /\ HandleInit(cid, payload)
  <2>1. CASE Fail(cid, ERR_INVALID_CMD) \/ Fail(cid, ERR_INVALID_LEN)
    BY <1>3, <2>1
  <2>2. CASE /\ cid = Broadcast
             /\ channelIdCount' = NextCid
             /\ Answer(Broadcast, "INIT",
                       payload \o <<channelIdCount', IF SupportsWink THEN 3 ELSE 2>>)
             /\ UNCHANGED lock
    <3>1. channelIdCount' \in Cids
      BY <2>2, ProtocolAssumption DEF NextCid, Cids, TypeOK
    <3>2. <<channelIdCount', IF SupportsWink THEN 3 ELSE 2>> \in Seq(Nat)
      BY <3>1 DEF Cids
    <3>3. payload \o <<channelIdCount', IF SupportsWink THEN 3 ELSE 2>> \in Seq(Nat)
      BY <1>2, <3>2, ConcatProperties
    <3>4. QED
      BY <1>1, <1>4, <2>2, <3>1, <3>3 DEF ReplyTypes, TypeOK, Commands
  <2>3. QED
    BY <1>6, <2>1, <2>2 DEF HandleInit
<1>7. CASE cmd = "MSG" /\ HandleMsg(cid)
  <2>1. CASE Fail(cid, ERR_INVALID_CMD) \/ Fail(cid, ERR_INVALID_PAR)
    BY <1>3, <2>1
  <2>2. CASE /\ \E response \in Responses : Answer(cid, "MSG", response)
             /\ UNCHANGED <<lock, channelIdCount>>
    BY <1>1, <1>4, <2>2, ProtocolAssumption DEF ReplyTypes, TypeOK, Commands
  <2>3. QED
    BY <1>7, <2>1, <2>2 DEF HandleMsg
<1>8. CASE cmd = "PING" /\ HandlePing(cid, payload)
  BY <1>1, <1>2, <1>4, <1>8 DEF HandlePing, ReplyTypes, TypeOK, Commands
<1>9. CASE cmd = "WINK" /\ HandleWink(cid, payload)
  <2>1. <<>> \in Seq(Nat)
    OBVIOUS
  <2>2. QED
    BY <1>1, <1>3, <1>4, <1>9, <2>1 DEF HandleWink, ReplyTypes, TypeOK, Commands
<1>10. CASE cmd = "LOCK" /\ HandleLock(cid, payload, t)
  <2>1. CASE Fail(cid, ERR_INVALID_LEN) \/ Fail(cid, ERR_INVALID_PAR)
    BY <1>3, <2>1
  <2>2. CASE /\ Len(payload) = 1
             /\ lock' = [channel |-> cid, lockedUntil |-> Now(t + payload[1] * SecondTicks)]
             /\ Answer(cid, "LOCK", <<>>)
             /\ UNCHANGED channelIdCount
    <3>1. payload[1] \in Nat
      <4>1. 1 \in 1 .. Len(payload)
        BY <2>2
      <4>2. QED
        BY <1>2, <4>1, ElementOfSeq, Zenon
    <3>2. t + payload[1] * SecondTicks \in Nat
      BY <3>1, TransportAssumption
    <3>3. lock' \in [channel: Cids, lockedUntil: 0 .. ClockMod - 1]
      BY <2>2, <3>2, NowType
    <3>4. <<>> \in Seq(Nat)
      OBVIOUS
    <3>5. QED
      BY <1>1, <1>4, <2>2, <3>3, <3>4 DEF ReplyTypes, TypeOK, Commands
  <2>3. QED
    BY <1>10, <2>1, <2>2 DEF HandleLock
<1>11. CASE cmd = "OTHER" /\ Fail(cid, ERR_INVALID_CMD)
  BY <1>3, <1>11
<1>12. QED
  BY <1>5, <1>6, <1>7, <1>8, <1>9, <1>10, <1>11 DEF HandleRequest

\* So does one that is given no buffer.
LEMMA UnreadType ==
  ASSUME TypeOK, NEW cid \in Cids, NEW cmd \in Commands, NEW size, NEW t \in Nat,
         HandleUnread(cid, cmd, size, t)
  PROVE  ReplyTypes'
<1>1. <<>> \in Seq(Byte)
  OBVIOUS
<1>2. CASE HandleRequest(cid, cmd, <<>>, t)
  BY <1>1, <1>2, HandleRequestType
<1>3. CASE ~HandleRequest(cid, cmd, <<>>, t)
  <2>1. PICK err \in {ERR_INVALID_CMD, ERR_INVALID_PAR, ERR_INVALID_LEN, ERR_LOCK_REQUIRED} : Fail(cid, err)
    BY <1>3, Zenon DEF HandleUnread
  <2>2. err \in Nat
    BY DEF ERR_INVALID_CMD, ERR_INVALID_PAR, ERR_INVALID_LEN, ERR_LOCK_REQUIRED
  <2>3. Message(cid, cmd, <<>>) \in Request /\ handled' = <<Message(cid, cmd, <<>>)>>
    BY <1>1, <1>3 DEF HandleUnread, Message, Request
  <2>4. QED
    BY <2>1, <2>2, <2>3, ErrorType DEF Fail, ReplyTypes, TypeOK
<1>4. QED
  BY <1>2, <1>3

\* A handler that dispatches nothing leaves values of the right types.
LEMMA NoRequestType ==
  ASSUME TypeOK, NEW msgs \in Seq(Reply), Len(msgs) <= 1, NoRequest(msgs)
  PROVE  ReplyTypes'
<1>1. <<>> \in Seq(Request) /\ Len(<<>>) = 0
  OBVIOUS
<1>2. QED
  BY <1>1 DEF NoRequest, ReplyTypes, TypeOK

\* Cancelling what is pending on a channel keeps the table a table of slots.
LEMMA AfterCancelType ==
  ASSUME TypeOK, NEW cid, NEW t \in Nat
  PROVE  AfterCancel(cid, t) \in [Slots -> Slot]
<1>1. \A i \in Slots : slot[i] \in Slot /\ Cancel(slot[i], t) \in Slot
  BY CancelType DEF TypeOK
<1>2. QED
  BY <1>1, Zenon DEF AfterCancel

-----------------------------------------------------------------------------
(* Type correctness. *)

\* The fields of the reports, as the handlers use them.
LEMMA CommandFields ==
  ASSUME NEW r \in CmdReports
  PROVE  /\ r.cid \in Cids
         /\ r.cmd \in Commands
         /\ r.size \in Nat
         /\ r.data \in [1 .. InitRoom -> Byte]
BY ProtocolAssumption DEF CommandReport

LEMMA ContFields ==
  ASSUME NEW r \in ContReports
  PROVE  /\ r.cid \in Cids
         /\ r.seq \in 0 .. SeqMod - 1
         /\ r.data \in [1 .. ContRoom -> Byte]
BY ProtocolAssumption DEF ContReport

\* The constructors leave values of the right types.
LEMMA TypeInit == Init => TypeOK
<1> SUFFICES ASSUME Init PROVE TypeOK
  OBVIOUS
<1>1. clock \in Nat /\ alive \in BOOLEAN
  BY TransportAssumption DEF Init
<1>2. Now(StartClock) \in 0 .. ClockMod - 1
  BY NowType, TransportAssumption
<1>3. slot \in [Slots -> Slot]
  <2>1. PICK junk \in [Slots -> UninitSlots] :
          slot = [i \in Slots |-> [cid |-> 0, cmd |-> junk[i].cmd, seq |-> junk[i].seq,
                                  size |-> junk[i].size, current |-> junk[i].current,
                                  payload |-> NoBuffer, expiresAt |-> Now(StartClock)]]
    BY DEF Init
  <2>2. ASSUME NEW i \in Slots
        PROVE  [cid |-> 0, cmd |-> junk[i].cmd, seq |-> junk[i].seq,
                size |-> junk[i].size, current |-> junk[i].current,
                payload |-> NoBuffer, expiresAt |-> Now(StartClock)] \in Slot
    <3>1. junk[i] \in [cmd: Commands, seq: 0 .. 2 * SeqMod - 1, size: Nat, current: Nat]
      BY TransportAssumption
    <3>2. NoBuffer \in Seq(Byte)
      BY EmptySeq DEF NoBuffer
    <3>3. 0 \in Cids
      BY ProtocolAssumption DEF Cids
    <3>4. QED
      BY <1>2, <3>1, <3>2, <3>3 DEF Slot
  <2>3. QED
    BY <2>1, <2>2, Zenon
<1>4. lock \in [channel: Cids, lockedUntil: 0 .. ClockMod - 1] /\ channelIdCount \in Cids
  BY <1>2, TransportAssumption DEF Init
<1>5. /\ handled \in Seq(Request) /\ Len(handled) <= 1
      /\ replies \in Seq(Reply) /\ Len(replies) <= 1
  <2>1. handled = <<>> /\ replies = <<>>
    BY DEF Init
  <2>2. QED
    BY <2>1
<1>6. QED
  BY <1>1, <1>3, <1>4, <1>5 DEF TypeOK

\* Each path through the handler of a command packet keeps the table well typed.
LEMMA CommandTypes ==
  ASSUME TypeOK, NEW r \in CmdReports, NEW t \in Nat,
         ShortCommand(r, t) \/ LongCommand(r, t) \/ LongCommandBusy(r, t)
  PROVE  slot' \in [Slots -> Slot] /\ ReplyTypes'
<1>1. AfterCancel(r.cid, t) \in [Slots -> Slot]
  BY AfterCancelType
<1>2. CASE ShortCommand(r, t)
  <2>1. SubSeq(r.data, 1, r.size) \in Seq(Byte)
    BY <1>2, CommandFields, PrefixType, ProtocolAssumption DEF ShortCommand
  <2>2. QED
    BY <1>1, <1>2, <2>1, CommandFields, HandleRequestType DEF ShortCommand
<1>3. CASE LongCommand(r, t)
  <2> DEFINE table == AfterCancel(r.cid, t)
             free  == FreeSlots(table, t)
  <2>1. /\ free # {}
        /\ slot' = [table EXCEPT ![Min(free)] = Start(r, t)]
        /\ NoRequest(<<>>)
    BY <1>3 DEF LongCommand
  <2>2. ReplyTypes'
    <3>1. <<>> \in Seq(Reply) /\ Len(<<>>) <= 1
      OBVIOUS
    <3>2. QED
      BY <2>1, <3>1, NoRequestType
  <2>3. slot' \in [Slots -> Slot]
    <3>1. Start(r, t) \in Slot
      BY StartType
    <3>2. Min(free) \in Slots
      BY <2>1, FreeFound
    <3> HIDE DEF table, free
    <3>3. QED
      BY <1>1, <2>1, <3>1, <3>2, Zenon DEF table
  <2>4. QED
    BY <2>2, <2>3
<1>4. CASE LongCommandBusy(r, t)
  <2>1. ERR_CHANNEL_BUSY \in Nat
    BY DEF ERR_CHANNEL_BUSY
  <2>2. ReplyTypes'
    BY <1>4, <2>1, CommandFields, ErrorType, NoRequestType DEF LongCommandBusy
  <2>3. QED
    BY <1>1, <1>4, <2>2 DEF LongCommandBusy
<1>5. QED
  BY <1>2, <1>3, <1>4

\* So does each path through the handler of a continuation packet.
LEMMA ContinuationTypes ==
  ASSUME TypeOK, NEW r \in ContReports, NEW t \in Nat,
         \/ ContinueNothing(r)
         \/ ContinueOutOfSequence(r, t)
         \/ Continue(r)
         \/ ContinueToEnd(r, t)
         \/ ContinueWithoutBuffer(r, t)
  PROVE  slot' \in [Slots -> Slot] /\ ReplyTypes'
<1> DEFINE p == Pending(r.cid)
<1>1. ASSUME PendingSlots(r.cid, clock) # {}
      PROVE  /\ slot[p] \in Slot
             /\ Cancel(slot[p], t) \in Slot
             /\ AppendPacket(slot[p], r.data) \in Slot
             /\ Cancel(AppendPacket(slot[p], r.data), t) \in Slot
  BY <1>1, PendingFound, CancelType, AppendType DEF TypeOK
<1>2. /\ <<ErrorMessage(r.cid, ERR_INVALID_SEQ)>> \in Seq(Reply)
      /\ Len(<<ErrorMessage(r.cid, ERR_INVALID_SEQ)>>) <= 1
  BY ContFields, ErrorType DEF ERR_INVALID_SEQ
<1>3. <<>> \in Seq(Reply) /\ Len(<<>>) <= 1
  OBVIOUS
<1>4. CASE ContinueNothing(r)
  BY <1>2, <1>4, NoRequestType DEF ContinueNothing, TypeOK
<1>5. CASE ContinueOutOfSequence(r, t)
  BY <1>1, <1>2, <1>5, NoRequestType DEF ContinueOutOfSequence, TypeOK
<1>6. CASE Continue(r)
  BY <1>1, <1>3, <1>6, NoRequestType DEF Continue, Accepts, TypeOK
<1>7. CASE ContinueToEnd(r, t)
  <2> DEFINE s == AppendPacket(slot[p], r.data)
  <2>1. /\ PendingSlots(r.cid, clock) # {}
        /\ slot' = [slot EXCEPT ![p] = Cancel(s, t)]
        /\ HandleRequest(r.cid, s.cmd, s.payload, t)
    BY <1>7 DEF ContinueToEnd, Accepts
  <2>2. s \in Slot /\ Cancel(s, t) \in Slot
    BY <1>1, <2>1
  <2> HIDE DEF s
  <2>3. s.cmd \in Commands /\ s.payload \in Seq(Byte)
    BY <2>2 DEF Slot
  <2>4. QED
    BY <2>1, <2>2, <2>3, ContFields, HandleRequestType DEF TypeOK
<1>8. CASE ContinueWithoutBuffer(r, t)
  <2>1. CASE UNCHANGED <<slot, lock, channelIdCount, handled, replies>>
    BY <2>1 DEF ReplyTypes, TypeOK
  <2>2. CASE /\ slot' = [slot EXCEPT ![p] = Cancel([slot[p] EXCEPT !.seq = (@ + 1) % (2 * SeqMod)], t)]
             /\ HandleUnread(r.cid, slot[p].cmd, slot[p].size, t)
    <3>1. slot[p] \in Slot
      BY <1>1, <1>8 DEF ContinueWithoutBuffer
    <3>2. (slot[p].seq + 1) % (2 * SeqMod) \in 0 .. 2 * SeqMod - 1
      <4>1. slot[p].seq \in 0 .. 2 * SeqMod - 1
        BY <3>1, Zenon DEF Slot
      <4>2. 2 * SeqMod \in Nat \ {0} /\ slot[p].seq + 1 \in Nat
        BY <4>1, ProtocolAssumption
      <4>3. QED
        BY <4>2
    <3>3. [slot[p] EXCEPT !.seq = (@ + 1) % (2 * SeqMod)] \in Slot
      BY <3>1, <3>2, Zenon DEF Slot
    <3>4. slot' \in [Slots -> Slot]
      BY <2>2, <3>3, CancelType, Zenon DEF TypeOK
    <3>5. slot[p].cmd \in Commands
      BY <3>1, Zenon DEF Slot
    <3>6. ReplyTypes'
      BY <2>2, <3>5, ContFields, UnreadType
    <3>7. QED
      BY <3>4, <3>6
  <2>3. QED
    BY <1>8, <2>1, <2>2 DEF ContinueWithoutBuffer
<1>9. QED
  BY <1>4, <1>5, <1>6, <1>7, <1>8

\* Every step keeps every variable within its width.
LEMMA TypeStep == TypeOK /\ [Next]_vars => TypeOK'
<1> SUFFICES ASSUME TypeOK, [Next]_vars
             PROVE  TypeOK'
  OBVIOUS
<1>1. ASSUME NEW t \in clock .. clock + MaxStall
      PROVE  t \in Nat
  BY TransportAssumption DEF TypeOK
<1>2. CASE \E r \in CmdReports : ReceiveCommand(r)
  <2>1. PICK r \in CmdReports, t \in clock .. clock + MaxStall :
          /\ Returns(t)
          /\ ShortCommand(r, t) \/ LongCommand(r, t) \/ LongCommandBusy(r, t)
    BY <1>2 DEF ReceiveCommand
  <2>2. slot' \in [Slots -> Slot] /\ ReplyTypes'
    BY <1>1, <2>1, CommandTypes
  <2>3. QED
    BY <1>1, <2>1, <2>2 DEF Returns, ReplyTypes, TypeOK
<1>3. CASE \E r \in ContReports : ReceiveContinuation(r)
  <2>1. PICK r \in ContReports, t \in clock .. clock + MaxStall :
          /\ clock' = t
          /\ alive' \in BOOLEAN
          /\ \/ ContinueNothing(r)
             \/ ContinueOutOfSequence(r, t)
             \/ Continue(r)
             \/ ContinueToEnd(r, t)
             \/ ContinueWithoutBuffer(r, t)
    BY <1>3 DEF ReceiveContinuation, Returns, ContinueWithoutBuffer, TypeOK
  <2>2. slot' \in [Slots -> Slot] /\ ReplyTypes'
    BY <1>1, <2>1, ContinuationTypes
  <2>3. QED
    BY <1>1, <2>1, <2>2 DEF ReplyTypes, TypeOK
<1>4. CASE Tick
  BY <1>4 DEF Tick, TypeOK
<1>5. CASE UNCHANGED vars
  BY <1>5 DEF vars, TypeOK
<1>6. QED
  BY <1>2, <1>3, <1>4, <1>5 DEF Next

\* Whatever is received and whenever, every variable stays within the width the
\* program declares for it, and every reply is one message on a channel.
THEOREM TypeCorrect == Spec => []TypeOK
<1>1. QED
  BY TypeInit, TypeStep, PTL DEF Spec

-----------------------------------------------------------------------------
(* The lock. *)

\* A lock in force is changed by nothing but a LOCK request of its own channel,
\* for every number of slots and channels, and across the wrap of the clock.
THEOREM LockHeld == Spec => LockNotStolen
<1> DEFINE Held ==
      Now(clock') < lock.lockedUntil =>
        \/ lock' = lock
        \/ handled' # <<>> /\ handled'[1].cid = lock.channel /\ handled'[1].cmd = "LOCK"
<1>1. ASSUME NEW cid, NEW cmd, NEW payload, NEW t, t = clock',
             HandleRequest(cid, cmd, payload, t)
      PROVE  Held
  <2>1. CASE lock' = lock
    BY <2>1
  <2>2. CASE lock' # lock
    <3>1. cmd = "LOCK" /\ ~IsLocked(cid, t)
      BY <1>1, <2>2 DEF HandleRequest, Fail, HandleInit, HandleMsg, HandlePing, HandleWink, LockExempt
    <3>2. cid = lock.channel \/ ~(Now(clock') < lock.lockedUntil)
      BY <1>1, <3>1 DEF IsLocked
    <3>3. handled' = <<Message(cid, cmd, payload)>>
      BY <1>1 DEF HandleRequest
    <3>4. handled' # <<>> /\ handled'[1].cid = cid /\ handled'[1].cmd = cmd
      BY <3>3 DEF Message
    <3>5. QED
      BY <3>1, <3>2, <3>4
  <2>3. QED
    BY <2>1, <2>2
<1>2. [Next]_vars => Held
  <2> SUFFICES ASSUME [Next]_vars, lock' # lock
               PROVE  Held
    OBVIOUS
  <2>1. CASE \E r \in CmdReports : ReceiveCommand(r)
    BY <1>1, <2>1, Zenon DEF ReceiveCommand, Returns, ShortCommand, LongCommand, LongCommandBusy, NoRequest
  <2>2. CASE \E r \in ContReports : ReceiveContinuation(r)
    BY <1>1, <2>2, Zenon
       DEF ReceiveContinuation, Returns, ContinueNothing, ContinueOutOfSequence, Continue,
           ContinueToEnd, ContinueWithoutBuffer, HandleUnread, NoRequest, Fail
  <2>3. CASE Tick \/ UNCHANGED vars
    BY <2>3 DEF Tick, vars
  <2>4. QED
    BY <2>1, <2>2, <2>3 DEF Next
<1>3. QED
  BY <1>2, PTL DEF Spec, LockNotStolen

-----------------------------------------------------------------------------
(* Reassembly, while the clock has not wrapped.                            *)
(*                                                                         *)
(* Good(table, t) is the inductive invariant of the table of slots at the  *)
(* time t.  Time alone preserves it, because deadlines only ever pass; the *)
(* four things a handler does to a slot preserve it each for a reason of   *)
(* its own, given by the four lemmas that follow.                          *)

Pends(s, t) == t < s.expiresAt

Good(table, t) ==
  /\ \A i \in Slots : table[i].payload = NoBuffer => ~Pends(table[i], t)
  /\ \A i \in Slots : Pends(table[i], t) => Consistent(table[i])
  /\ \A i, j \in Slots :
       (table[i].cid = table[j].cid /\ Pends(table[i], t) /\ Pends(table[j], t)) => i = j

SafeInv == TypeOK /\ alive /\ clock <= Horizon /\ Good(slot, clock)

\* Up to the horizon the program sees the true time.
LEMMA NowIsTrue ==
  ASSUME NoWrap, NEW t \in Nat, t <= Horizon + RequestTimeout
  PROVE  Now(t) = t
<1>1. t < ClockMod
  BY TransportAssumption DEF NoWrap
<1>2. QED
  BY <1>1, TransportAssumption DEF Now

\* So a slot is expired exactly when it does not pend.
LEMMA ExpiredIsNotPending ==
  ASSUME NoWrap, NEW s \in Slot, NEW t \in Nat, t <= Horizon
  PROVE  IsExpired(s, t) <=> ~Pends(s, t)
<1>1. s.expiresAt \in Nat
  BY TransportAssumption DEF Slot
<1>2. Now(t) = t
  BY NowIsTrue, TransportAssumption
<1>3. QED
  BY <1>1, <1>2 DEF IsExpired, Pends

\* Time passes.
LEMMA GoodLater ==
  ASSUME NEW table \in [Slots -> Slot], NEW t \in Nat, NEW u \in Nat, t <= u, Good(table, t)
  PROVE  Good(table, u)
<1>1. \A i \in Slots : Pends(table[i], u) => Pends(table[i], t)
  <2>1. \A i \in Slots : table[i].expiresAt \in Nat
    BY TransportAssumption DEF Slot
  <2>2. QED
    BY <2>1 DEF Pends
<1>2. QED
  BY <1>1, Zenon DEF Good

\* cancel(): the slot no longer pends, and the others are as they were.
LEMMA GoodCancel ==
  ASSUME NoWrap, NEW table \in [Slots -> Slot], NEW t \in Nat, t <= Horizon,
         Good(table, t), NEW i \in Slots, NEW s \in Slot
  PROVE  Good([table EXCEPT ![i] = Cancel(s, t)], t)
<1> DEFINE after == [table EXCEPT ![i] = Cancel(s, t)]
<1>1. ~Pends(Cancel(s, t), t)
  <2>1. Cancel(s, t).expiresAt = t
    BY NowIsTrue, TransportAssumption DEF Cancel, Slot
  <2>2. QED
    BY <2>1 DEF Pends
<1>2. after[i] = Cancel(s, t) /\ \A j \in Slots : j # i => after[j] = table[j]
  OBVIOUS
<1> HIDE DEF after
<1>3. \A j \in Slots : Pends(after[j], t) => j # i /\ after[j] = table[j]
  BY <1>1, <1>2
<1>4. \A j \in Slots : after[j].payload = NoBuffer => ~Pends(after[j], t)
  BY <1>3 DEF Good
<1>5. \A j \in Slots : Pends(after[j], t) => Consistent(after[j])
  BY <1>3 DEF Good
<1>6. \A j, k \in Slots :
        (after[j].cid = after[k].cid /\ Pends(after[j], t) /\ Pends(after[k], t)) => j = k
  BY <1>3 DEF Good
<1>7. QED
  BY <1>4, <1>5, <1>6 DEF Good, after

\* start(): the new request is consistent, and the only one of its channel if none
\* was pending there.
LEMMA GoodStart ==
  ASSUME NEW table \in [Slots -> Slot], NEW t \in Nat, Good(table, t),
         NEW i \in Slots, NEW r \in CmdReports, r.size > InitRoom,
         \A j \in Slots : table[j].cid = r.cid => ~Pends(table[j], t)
  PROVE  Good([table EXCEPT ![i] = Start(r, t)], t)
<1> DEFINE after == [table EXCEPT ![i] = Start(r, t)]
<1>1. Start(r, t).cid = r.cid
  BY DEF Start
<1>2. Consistent(Start(r, t))
  <2>1. /\ Len(Start(r, t).payload) = InitRoom
        /\ Start(r, t).current = InitRoom
    BY StartType
  <2>2. Start(r, t).size = r.size /\ Start(r, t).seq = 0
    BY DEF Start
  <2>3. /\ 0 % ContRoom = 0 /\ 0 \div ContRoom = 0
        /\ InitRoom - InitRoom = 0
    BY ProtocolAssumption
  <2>4. InitRoom <= InitRoom /\ InitRoom < r.size
    BY ProtocolAssumption, CommandFields
  <2>5. QED
    BY <2>1, <2>2, <2>3, <2>4 DEF Consistent
<1>3. Start(r, t).payload # NoBuffer
  <2>1. Len(Start(r, t).payload) = InitRoom /\ InitRoom # 0
    BY StartType, ProtocolAssumption
  <2>2. Len(NoBuffer) = 0
    BY DEF NoBuffer
  <2>3. QED
    BY <2>1, <2>2
<1>4. after[i] = Start(r, t) /\ \A j \in Slots : j # i => after[j] = table[j]
  OBVIOUS
<1> HIDE DEF after
<1>5. \A j \in Slots : after[j].payload = NoBuffer => ~Pends(after[j], t)
  BY <1>3, <1>4 DEF Good
<1>6. \A j \in Slots : Pends(after[j], t) => Consistent(after[j])
  BY <1>2, <1>4 DEF Good
<1>7. \A j, k \in Slots :
        (after[j].cid = after[k].cid /\ Pends(after[j], t) /\ Pends(after[k], t)) => j = k
  BY <1>1, <1>4 DEF Good
<1>8. QED
  BY <1>5, <1>6, <1>7 DEF Good, after

\* A continuation that does not complete the message fills a whole packet, so the
\* buffer grows by ContRoom as the sequence number grows by one.
LEMMA AppendConsistent ==
  ASSUME NEW s \in Slot, Consistent(s), NEW r \in ContReports,
         ~IsComplete(AppendPacket(s, r.data))
  PROVE  /\ Consistent(AppendPacket(s, r.data))
         /\ AppendPacket(s, r.data).payload # NoBuffer
<1> DEFINE n == Smaller(ContRoom, s.size - s.current)
           a == AppendPacket(s, r.data)
<1>1. /\ s.size \in Nat /\ s.current \in Nat
      /\ s.payload \in Seq(Byte)
      /\ s.seq \in 0 .. 2 * SeqMod - 1
  BY DEF Slot
<1>2. /\ InitRoom <= s.current /\ s.current < s.size /\ s.current = Len(s.payload)
      /\ (s.current - InitRoom) % ContRoom = 0
      /\ s.seq % SeqMod = ((s.current - InitRoom) \div ContRoom) % SeqMod
  BY DEF Consistent
<1>3. /\ a.size = s.size
      /\ a.current = s.current + n
      /\ a.payload = s.payload \o SubSeq(r.data, 1, n)
      /\ a.seq = (s.seq + 1) % (2 * SeqMod)
  <2> HIDE DEF n
  <2>1. a = [s EXCEPT !.payload = s.payload \o SubSeq(r.data, 1, n),
                      !.current = s.current + n,
                      !.seq = (s.seq + 1) % (2 * SeqMod)]
    BY Zenon DEF AppendPacket, n
  <2> HIDE DEF a
  <2>2. QED
    BY <2>1, Zenon DEF Slot
<1>4. n = ContRoom /\ s.current + ContRoom < s.size
  <2>1. s.current + n # s.size
    BY <1>3 DEF IsComplete
  <2>2. QED
    BY <1>1, <1>2, <2>1, ProtocolAssumption DEF Smaller
<1> HIDE DEF n, a
<1>5. /\ a.current = s.current + ContRoom
      /\ Len(a.payload) = s.current + ContRoom
  <2>1. /\ SubSeq(r.data, 1, ContRoom) \in Seq(Byte)
        /\ Len(SubSeq(r.data, 1, ContRoom)) = ContRoom
    BY ContFields, PrefixType, ProtocolAssumption
  <2>2. Len(s.payload \o SubSeq(r.data, 1, ContRoom)) = Len(s.payload) + ContRoom
    BY <1>1, <2>1, ConcatProperties
  <2>3. QED
    BY <1>2, <1>3, <1>4, <2>2
<1>6. /\ (a.current - InitRoom) % ContRoom = 0
      /\ a.seq % SeqMod = ((a.current - InitRoom) \div ContRoom) % SeqMod
  <2> DEFINE d == s.current - InitRoom
             k == d \div ContRoom
  <2>1. d \in Nat /\ a.current - InitRoom = d + ContRoom
    BY <1>1, <1>2, <1>5, ProtocolAssumption
  <2>2. d % ContRoom = 0 /\ s.seq % SeqMod = k % SeqMod
    BY <1>2, Zenon
  <2> HIDE DEF d
  <2>3. k \in Nat
    BY <2>1, ProtocolAssumption
  <2>4. (d + ContRoom) % ContRoom = 0 /\ (d + ContRoom) \div ContRoom = k + 1
    BY <2>1, <2>2, AddModulus, ProtocolAssumption, Zenon
  <2> HIDE DEF k
  <2>5. ((s.seq + 1) % (2 * SeqMod)) % SeqMod = (k + 1) % SeqMod
    <3>1. \A c \in 0 .. 2 * SeqMod - 1, j \in Nat :
            c % SeqMod = j % SeqMod => ((c + 1) % (2 * SeqMod)) % SeqMod = (j + 1) % SeqMod
      BY WrappedIncrement, ProtocolAssumption
    <3>2. QED
      BY <1>1, <2>2, <2>3, <3>1, Zenon
  <2>6. QED
    BY <1>3, <2>1, <2>4, <2>5, Zenon
<1>7. InitRoom <= Len(a.payload) /\ Len(a.payload) < a.size
  <2>1. InitRoom <= s.current + ContRoom /\ s.current + ContRoom < s.size
    BY <1>1, <1>2, <1>4, ProtocolAssumption
  <2>2. QED
    BY <1>3, <1>5, <2>1, Zenon
<1>8. Consistent(a)
  BY <1>5, <1>6, <1>7 DEF Consistent
<1>9. a.payload # NoBuffer
  <2>1. Len(a.payload) # 0
    BY <1>1, <1>5, ProtocolAssumption
  <2>2. Len(NoBuffer) = 0
    BY DEF NoBuffer
  <2>3. QED
    BY <2>1, <2>2
<1>10. QED
  BY <1>8, <1>9 DEF a

\* append() changes neither the channel nor the deadline.
LEMMA GoodAppend ==
  ASSUME NEW table \in [Slots -> Slot], NEW t \in Nat, Good(table, t),
         NEW i \in Slots, Consistent(table[i]), NEW r \in ContReports,
         ~IsComplete(AppendPacket(table[i], r.data))
  PROVE  Good([table EXCEPT ![i] = AppendPacket(table[i], r.data)], t)
<1> DEFINE a     == AppendPacket(table[i], r.data)
           after == [table EXCEPT ![i] = a]
<1>1. table[i] \in Slot
  OBVIOUS
<1>2. Consistent(a) /\ a.payload # NoBuffer
  BY <1>1, AppendConsistent
<1>3. a.cid = table[i].cid /\ a.expiresAt = table[i].expiresAt
  BY <1>1, Zenon DEF AppendPacket, Slot
<1> HIDE DEF a
<1>4. after[i] = a /\ \A j \in Slots : j # i => after[j] = table[j]
  OBVIOUS
<1> HIDE DEF after
<1>5. \A j \in Slots : /\ Pends(after[j], t) <=> Pends(table[j], t)
                       /\ after[j].cid = table[j].cid
  BY <1>3, <1>4, Zenon DEF Pends
<1>6. \A j \in Slots : after[j].payload = NoBuffer => ~Pends(after[j], t)
  BY <1>2, <1>4 DEF Good
<1>7. \A j \in Slots : Pends(after[j], t) => Consistent(after[j])
  BY <1>2, <1>4 DEF Good
<1>8. \A j, k \in Slots :
        (after[j].cid = after[k].cid /\ Pends(after[j], t) /\ Pends(after[k], t)) => j = k
  BY <1>5, Zenon DEF Good
<1>9. QED
  BY <1>6, <1>7, <1>8 DEF Good, after, a

\* After a command packet has cancelled what was pending on its channel at the time
\* of the lookup, nothing is pending there, however long the handler took.
LEMMA GoodAfterCancel ==
  ASSUME NoWrap, SafeInv, NEW cid, NEW t \in Nat, clock <= t, t <= Horizon
  PROVE  /\ Good(AfterCancel(cid, t), t)
         /\ \A j \in Slots : AfterCancel(cid, t)[j].cid = cid => ~Pends(AfterCancel(cid, t)[j], t)
<1> DEFINE table == AfterCancel(cid, t)
           p     == Pending(cid)
<1>1. clock \in Nat /\ slot \in [Slots -> Slot] /\ clock <= Horizon /\ Good(slot, clock)
  BY DEF SafeInv, TypeOK
<1>2. Good(slot, t)
  BY <1>1, GoodLater
<1>3. ASSUME NEW j \in Slots
      PROVE  /\ IsExpired(slot[j], clock) <=> ~Pends(slot[j], clock)
             /\ Pends(slot[j], t) => Pends(slot[j], clock)
  <2>1. slot[j] \in Slot /\ slot[j].expiresAt \in Nat
    BY <1>1, TransportAssumption DEF Slot
  <2>2. QED
    BY <1>1, <2>1, ExpiredIsNotPending DEF Pends
<1>4. CASE PendingSlots(cid, clock) = {}
  <2>1. table = slot
    BY <1>1, <1>4, Zenon DEF AfterCancel
  <2>2. \A j \in Slots : slot[j].cid = cid => ~Pends(slot[j], t)
    BY <1>3, <1>4 DEF PendingSlots
  <2>3. QED
    BY <1>2, <2>1, <2>2
<1>5. CASE PendingSlots(cid, clock) # {}
  <2>1. p \in Slots /\ slot[p].cid = cid /\ Pends(slot[p], clock)
    BY <1>3, <1>5, PendingFound
  <2> HIDE DEF p
  <2>2. table = [slot EXCEPT ![p] = Cancel(slot[p], t)]
    BY <1>1, <1>5, <2>1, Zenon DEF AfterCancel, p
  <2>3. Good(table, t)
    <3>1. slot[p] \in Slot
      BY <1>1, <2>1
    <3>2. Good([slot EXCEPT ![p] = Cancel(slot[p], t)], t)
      BY <1>1, <1>2, <2>1, <3>1, GoodCancel
    <3>3. QED
      BY <2>2, <3>2
  <2>4. ASSUME NEW j \in Slots, table[j].cid = cid, Pends(table[j], t)
        PROVE  FALSE
    <3>1. CASE j = p
      <4>1. table[p] = Cancel(slot[p], t) /\ slot[p] \in Slot
        BY <1>1, <2>1, <2>2
      <4>2. Cancel(slot[p], t).payload = NoBuffer
        BY <4>1 DEF Cancel, Slot
      <4>3. QED
        BY <2>3, <2>4, <3>1, <4>1, <4>2, Zenon DEF Good
    <3>2. CASE j # p
      <4>1. table[j] = slot[j]
        BY <1>1, <2>1, <2>2, <3>2
      <4>2. Pends(slot[j], clock)
        BY <1>3, <2>4, <4>1
      <4>3. QED
        BY <1>1, <2>1, <2>4, <3>2, <4>1, <4>2, Zenon DEF Good
    <3>3. QED
      BY <3>1, <3>2
  <2>5. QED
    BY <2>3, <2>4, Zenon
<1>6. QED
  BY <1>4, <1>5

\* The paths of the handler of a command packet.
LEMMA CommandSafe ==
  ASSUME NoWrap, SafeInv, NEW r \in CmdReports, NEW t \in Nat, clock <= t, t <= Horizon,
         ShortCommand(r, t) \/ LongCommand(r, t) \/ LongCommandBusy(r, t)
  PROVE  Good(slot', t)
<1> DEFINE table == AfterCancel(r.cid, t)
           free  == FreeSlots(table, t)
<1>1. table \in [Slots -> Slot]
  BY AfterCancelType DEF SafeInv
<1>2. /\ Good(table, t)
      /\ \A j \in Slots : table[j].cid = r.cid => ~Pends(table[j], t)
  BY GoodAfterCancel
<1>3. CASE ShortCommand(r, t) \/ LongCommandBusy(r, t)
  BY <1>2, <1>3 DEF ShortCommand, LongCommandBusy
<1>4. CASE LongCommand(r, t)
  <2>1. /\ r.size > InitRoom
        /\ free # {}
        /\ slot' = [table EXCEPT ![Min(free)] = Start(r, t)]
    BY <1>4 DEF LongCommand
  <2>2. Min(free) \in Slots
    BY <2>1, FreeFound
  <2> HIDE DEF table, free
  <2>3. QED
    BY <1>1, <1>2, <2>1, <2>2, GoodStart
<1>5. QED
  BY <1>3, <1>4

\* The paths of the handler of a continuation packet; the one through a null buffer
\* cannot be taken, because a slot that pends has a buffer.
LEMMA ContinuationSafe ==
  ASSUME NoWrap, SafeInv, NEW r \in ContReports, NEW t \in Nat, clock <= t, t <= Horizon,
         \/ ContinueNothing(r)
         \/ ContinueOutOfSequence(r, t)
         \/ Continue(r)
         \/ ContinueToEnd(r, t)
         \/ ContinueWithoutBuffer(r, t)
  PROVE  Good(slot', t) /\ ~ContinueWithoutBuffer(r, t)
<1> DEFINE p == Pending(r.cid)
<1>1. /\ clock \in Nat /\ clock <= Horizon
      /\ slot \in [Slots -> Slot]
      /\ Good(slot, clock)
  BY DEF SafeInv, TypeOK
<1>2. Good(slot, t)
  BY <1>1, GoodLater
<1>3. ASSUME PendingSlots(r.cid, clock) # {}
      PROVE  /\ p \in Slots /\ slot[p] \in Slot
             /\ Consistent(slot[p])
             /\ slot[p].payload # NoBuffer
  <2>1. p \in Slots /\ ~IsExpired(slot[p], clock)
    BY <1>3, PendingFound
  <2>2. slot[p] \in Slot
    BY <1>1, <2>1
  <2>3. Pends(slot[p], clock)
    BY <1>1, <2>1, <2>2, ExpiredIsNotPending
  <2>4. QED
    BY <1>1, <2>1, <2>2, <2>3, Zenon DEF Good
<1>4. ASSUME PendingSlots(r.cid, clock) # {}, NEW s \in Slot
      PROVE  Good([slot EXCEPT ![p] = Cancel(s, t)], t)
  BY <1>1, <1>2, <1>3, <1>4, GoodCancel
<1>5. ~ContinueWithoutBuffer(r, t)
  BY <1>3 DEF ContinueWithoutBuffer
<1>6. CASE ContinueNothing(r)
  BY <1>2, <1>5, <1>6 DEF ContinueNothing
<1>7. CASE ContinueOutOfSequence(r, t)
  BY <1>3, <1>4, <1>5, <1>7 DEF ContinueOutOfSequence
<1>8. CASE Continue(r)
  <2> DEFINE a == AppendPacket(slot[p], r.data)
  <2>1. /\ PendingSlots(r.cid, clock) # {}
        /\ ~IsComplete(a)
        /\ slot' = [slot EXCEPT ![p] = a]
    BY <1>8 DEF Continue, Accepts
  <2>2. Good([slot EXCEPT ![p] = a], t)
    BY <1>1, <1>2, <1>3, <2>1, GoodAppend
  <2>3. QED
    BY <1>5, <2>1, <2>2
<1>9. CASE ContinueToEnd(r, t)
  <2> DEFINE a == AppendPacket(slot[p], r.data)
  <2>1. /\ PendingSlots(r.cid, clock) # {}
        /\ slot' = [slot EXCEPT ![p] = Cancel(a, t)]
    BY <1>9 DEF ContinueToEnd, Accepts
  <2>2. a \in Slot
    BY <1>3, <2>1, AppendType
  <2>3. QED
    BY <1>4, <1>5, <2>1, <2>2
<1>10. QED
  BY <1>5, <1>6, <1>7, <1>8, <1>9

\* The constructors leave no slot pending.
LEMMA SafeInit == NoWrap /\ Init => SafeInv
<1> SUFFICES ASSUME NoWrap, Init PROVE SafeInv
  OBVIOUS
<1>1. TypeOK
  BY TypeInit
<1>2. alive /\ clock = StartClock /\ clock <= Horizon
  BY DEF Init, NoWrap
<1>3. Now(StartClock) = StartClock
  BY NowIsTrue, TransportAssumption DEF NoWrap
<1>4. \A i \in Slots : slot[i].expiresAt = clock
  <2>1. PICK junk \in [Slots -> UninitSlots] :
          slot = [i \in Slots |-> [cid |-> 0, cmd |-> junk[i].cmd, seq |-> junk[i].seq,
                                  size |-> junk[i].size, current |-> junk[i].current,
                                  payload |-> NoBuffer, expiresAt |-> Now(StartClock)]]
    BY DEF Init
  <2>2. QED
    BY <1>2, <1>3, <2>1
<1>5. \A i \in Slots : ~Pends(slot[i], clock)
  BY <1>2, <1>4, TransportAssumption DEF Pends
<1>6. QED
  BY <1>1, <1>2, <1>5, Zenon DEF SafeInv, Good

\* Every step keeps the table good.
LEMMA SafeStep == NoWrap /\ SafeInv /\ [Next]_vars => SafeInv'
<1> SUFFICES ASSUME NoWrap, SafeInv, [Next]_vars
             PROVE  SafeInv'
  OBVIOUS
<1>1. TypeOK'
  BY TypeStep DEF SafeInv
<1>2. ASSUME NEW t \in clock .. clock + MaxStall
      PROVE  t \in Nat /\ clock <= t
  BY TransportAssumption DEF SafeInv, TypeOK
<1>3. CASE \E r \in CmdReports : ReceiveCommand(r)
  <2>1. PICK r \in CmdReports, t \in clock .. clock + MaxStall :
          /\ Returns(t)
          /\ ShortCommand(r, t) \/ LongCommand(r, t) \/ LongCommandBusy(r, t)
    BY <1>3 DEF ReceiveCommand
  <2>2. Good(slot', t)
    BY <1>2, <2>1, CommandSafe DEF Returns
  <2>3. QED
    BY <1>1, <2>1, <2>2 DEF Returns, SafeInv
<1>4. CASE \E r \in ContReports : ReceiveContinuation(r)
  <2>1. PICK r \in ContReports, t \in clock .. clock + MaxStall :
          /\ t <= Horizon /\ clock' = t
          /\ \/ /\ UNCHANGED alive
                /\ \/ ContinueNothing(r)
                   \/ ContinueOutOfSequence(r, t)
                   \/ Continue(r)
                   \/ ContinueToEnd(r, t)
             \/ ContinueWithoutBuffer(r, t)
    BY <1>4 DEF ReceiveContinuation, Returns
  <2>2. Good(slot', t) /\ ~ContinueWithoutBuffer(r, t)
    BY <1>2, <2>1, ContinuationSafe
  <2>3. QED
    BY <1>1, <2>1, <2>2 DEF SafeInv
<1>5. CASE Tick
  <2>1. clock \in Nat /\ clock + 1 \in Nat /\ clock <= clock + 1 /\ clock + 1 <= Horizon
    BY <1>5, TransportAssumption DEF Tick, SafeInv, TypeOK
  <2>2. Good(slot, clock + 1)
    BY <2>1, GoodLater DEF SafeInv, TypeOK
  <2>3. QED
    BY <1>1, <1>5, <2>1, <2>2 DEF Tick, SafeInv
<1>6. CASE UNCHANGED vars
  BY <1>1, <1>6 DEF vars, SafeInv
<1>7. QED
  BY <1>3, <1>4, <1>5, <1>6 DEF Next

\* The inductive invariant says what the properties say.
LEMMA SafeInvImplies ==
  NoWrap /\ SafeInv => CancelledIsExpired /\ OnePendingPerChannel /\ ReassemblySound
<1> SUFFICES ASSUME NoWrap, SafeInv
             PROVE  CancelledIsExpired /\ OnePendingPerChannel /\ ReassemblySound
  OBVIOUS
<1>1. \A i \in Slots : IsExpired(slot[i], clock) <=> ~Pends(slot[i], clock)
  BY ExpiredIsNotPending DEF SafeInv, TypeOK
<1>2. QED
  BY <1>1 DEF SafeInv, Good, CancelledIsExpired, OnePendingPerChannel, ReassemblySound

\* Until the clock wraps, a slot that was never started or was cancelled is never
\* returned by the search for a pending request, for any number of slots and channels.
THEOREM CancelledStaysExpired ==
  ASSUME NoWrap
  PROVE  Spec => []CancelledIsExpired
<1>1. QED
  BY SafeInit, SafeStep, SafeInvImplies, PTL DEF Spec

\* Until the clock wraps, the search for the pending request of a channel is
\* unambiguous, however commands, continuations and timeouts interleave.
THEOREM PendingIsUnique ==
  ASSUME NoWrap
  PROVE  Spec => []OnePendingPerChannel
<1>1. QED
  BY SafeInit, SafeStep, SafeInvImplies, PTL DEF Spec

\* Until the clock wraps, append() never copies outside a buffer or through a null
\* one, and the sequence numbers it expects count the packets it has stored.
THEOREM ReassemblyIsSound ==
  ASSUME NoWrap
  PROVE  Spec => []ReassemblySound
<1>1. QED
  BY SafeInit, SafeStep, SafeInvImplies, PTL DEF Spec
=============================================================================
