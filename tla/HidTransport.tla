---------------------------- MODULE HidTransport ----------------------------
(***************************************************************************)
(* u2f::Hid (src/hid.cpp): reassembly of multi-packet requests in a fixed  *)
(* pool of slots, the channel lock, the command dispatcher.                *)
(*                                                                         *)
(* One report is handled by one step.  The handler reads the clock more    *)
(* than once: the pending slot is looked up at `clock', everything after   *)
(* that happens at a later instant t, at most MaxStall away.  `clock' is   *)
(* the true time in milliseconds; the program sees Now(t), 32 bits of it.  *)
(*                                                                         *)
(* Where a definition stands right before another one with the same        *)
(* parameters, the first is the second with a mistake in it: the checks    *)
(* are run with it in turn to see that a property notices.                 *)
(***************************************************************************)
EXTENDS HidProtocol

CONSTANTS
  ClockMod,        \* now() wraps here, 2^32 ms
  RequestTimeout,  \* 3000 ms
  SecondTicks,     \* 1000 ms
  SupportsWink,    \* what core.supportsWink() answers
  StartClock,      \* machine uptime when the device is created
  Horizon,         \* last instant considered (bounds the model)
  MaxStall,        \* longest time a handler takes after its first clock read
  UninitCids,      \* what uninitialised channel ids may hold
  UninitSlots      \* what the uninitialised fields of a slot may hold

ASSUME TransportAssumption ==
  /\ ClockMod \in Nat \ {0}
  /\ RequestTimeout \in Nat \ {0}
  /\ SecondTicks \in Nat
  /\ SupportsWink \in BOOLEAN
  /\ StartClock \in Nat
  /\ Horizon \in Nat
  /\ MaxStall \in Nat
  /\ UninitCids \subseteq Cids
  /\ UninitSlots \subseteq [cmd: Commands, seq: 0 .. 2 * SeqMod - 1, size: Nat, current: Nat]

\* The machine stays up for less than the 49.7 days now() takes to wrap.
NoWrap == StartClock <= Horizon /\ Horizon + RequestTimeout < ClockMod

VARIABLES
  clock,           \* true time
  alive,           \* FALSE once the process has used a null buffer
  slot,            \* multipartRequest[]
  lock,            \* HidLock
  channelIdCount,
  handled,         \* the request the last report made handleRequest() process, if any
  replies          \* the messages the last report made the device send

vars == <<clock, alive, slot, lock, channelIdCount, handled, replies>>

NoBuffer == <<>>   \* payload == nullptr; a started slot holds at least one byte

Slot == [cid: Cids, cmd: Commands, seq: 0 .. 2 * SeqMod - 1, size: Nat,
         current: Nat, payload: Seq(Byte), expiresAt: 0 .. ClockMod - 1]

-----------------------------------------------------------------------------
(* Clock, slots and lock. *)

Now(t) == t % ClockMod
Smaller(a, b) == IF a < b THEN a ELSE b

IsExpired(s, t) == Now(t) >= s.expiresAt

IsLockedOneTickMore(cid, t) == cid # lock.channel /\ Now(t) <= lock.lockedUntil
IsLocked(cid, t) == cid # lock.channel /\ Now(t) < lock.lockedUntil

CancelKeepsDeadline(s, t) == [s EXCEPT !.payload = NoBuffer]
Cancel(s, t) == [s EXCEPT !.expiresAt = Now(t), !.payload = NoBuffer]

Start(r, t) ==
  [cid |-> r.cid, cmd |-> r.cmd, seq |-> 0, size |-> r.size,
   current |-> Smaller(r.size, InitRoom),
   payload |-> SubSeq(r.data, 1, Smaller(InitRoom, r.size)),
   expiresAt |-> Now(t + RequestTimeout)]

SeqMatches(s, seq) == seq = s.seq % SeqMod

AppendUncapped(s, data) ==
  [s EXCEPT !.payload = @ \o data, !.current = @ + ContRoom, !.seq = (@ + 1) % (2 * SeqMod)]
AppendPacket(s, data) ==
  LET bytesToCopy == Smaller(ContRoom, s.size - s.current)
  IN  [s EXCEPT !.payload = @ \o SubSeq(data, 1, bytesToCopy),
                !.current = @ + bytesToCopy,
                !.seq = (@ + 1) % (2 * SeqMod)]

IsCompleteEarly(s) == s.current + ContRoom >= s.size
IsComplete(s) == s.current = s.size

\* The slots getPendingMultipartHidRequest(cid) would accept at time t; it takes the first.
PendingSlots(cid, t) == {i \in Slots : slot[i].cid = cid /\ ~IsExpired(slot[i], t)}
Pending(cid) == Min(PendingSlots(cid, clock))

\* The slots getFreeMultipartHidRequest() would accept at time t; it takes the first.
FreeSlots(table, t) == {i \in Slots : IsExpired(table[i], t)}

AfterCancelNothing(cid, t) == slot

\* The table once a new command has cancelled what was pending on its channel.
AfterCancel(cid, t) ==
  [i \in Slots |-> IF PendingSlots(cid, clock) # {} /\ i = Pending(cid)
                   THEN Cancel(slot[i], t) ELSE slot[i]]

-----------------------------------------------------------------------------
(* handleRequest(): every branch sets lock, channelIdCount and replies. *)

Answer(cid, cmd, payload) == replies' = <<Message(cid, cmd, payload)>>

Fail(cid, err) ==
  /\ replies' = <<ErrorMessage(cid, err)>>
  /\ UNCHANGED <<lock, channelIdCount>>

NextCidUnwrapped == channelIdCount + 1
NextCid == (channelIdCount + 1) % CidMod

HandleInit(cid, payload) ==
  \/ /\ cid # Broadcast
     /\ Fail(cid, ERR_INVALID_CMD)
  \/ /\ cid = Broadcast
     /\ Len(payload) # NonceSize
     /\ Fail(cid, ERR_INVALID_LEN)
  \/ /\ cid = Broadcast
     /\ Len(payload) = NonceSize
     /\ channelIdCount' = NextCid
     /\ Answer(Broadcast, "INIT",
               payload \o <<channelIdCount', IF SupportsWink THEN 3 ELSE 2>>)
     /\ UNCHANGED lock

\* core.processRawAdpu() is outside this module: it fails or yields any response.
HandleMsg(cid) ==
  \/ /\ cid = Broadcast
     /\ Fail(cid, ERR_INVALID_CMD)
  \/ /\ cid # Broadcast
     /\ \/ Fail(cid, ERR_INVALID_PAR)
        \/ /\ \E response \in Responses : Answer(cid, "MSG", response)
           /\ UNCHANGED <<lock, channelIdCount>>

HandlePing(cid, payload) ==
  /\ Answer(cid, "PING", payload)
  /\ UNCHANGED <<lock, channelIdCount>>

HandleWink(cid, payload) ==
  \/ /\ Len(payload) # 0
     /\ Fail(cid, ERR_INVALID_LEN)
  \/ /\ Len(payload) = 0
     /\ Answer(cid, "WINK", <<>>)
     /\ UNCHANGED <<lock, channelIdCount>>

HandleLock(cid, payload, t) ==
  \/ /\ Len(payload) # 1
     /\ Fail(cid, ERR_INVALID_LEN)
  \/ /\ Len(payload) = 1
     /\ payload[1] > MaxLockTimeout
     /\ Fail(cid, ERR_INVALID_PAR)
  \/ /\ Len(payload) = 1
     /\ payload[1] <= MaxLockTimeout
     /\ lock' = [channel |-> cid, lockedUntil |-> Now(t + payload[1] * SecondTicks)]
     /\ Answer(cid, "LOCK", <<>>)
     /\ UNCHANGED channelIdCount

HandleRequest(cid, cmd, payload, t) ==
  /\ handled' = <<Message(cid, cmd, payload)>>
  /\ IF IsLocked(cid, t) /\ cmd \notin LockExempt
     THEN Fail(cid, ERR_LOCK_REQUIRED)
     ELSE \/ cmd = "INIT" /\ HandleInit(cid, payload)
          \/ cmd = "MSG" /\ HandleMsg(cid)
          \/ cmd = "PING" /\ HandlePing(cid, payload)
          \/ cmd = "WINK" /\ HandleWink(cid, payload)
          \/ cmd = "LOCK" /\ HandleLock(cid, payload, t)
          \/ cmd = "OTHER" /\ Fail(cid, ERR_INVALID_CMD)

\* The report completes no request; msgs is what the device sends for it.
NoRequest(msgs) ==
  /\ handled' = <<>>
  /\ replies' = msgs
  /\ UNCHANGED <<lock, channelIdCount>>

-----------------------------------------------------------------------------
(* receivedOutputReport(), one operator per path through it. *)

ShortCommand(r, t) ==
  /\ r.size <= InitRoom
  /\ slot' = AfterCancel(r.cid, t)
  /\ HandleRequest(r.cid, r.cmd, SubSeq(r.data, 1, r.size), t)

LongCommand(r, t) ==
  LET table == AfterCancel(r.cid, t)
      free  == FreeSlots(table, t)
  IN  /\ r.size > InitRoom
      /\ free # {}
      /\ slot' = [table EXCEPT ![Min(free)] = Start(r, t)]
      /\ NoRequest(<<>>)

LongCommandBusy(r, t) ==
  LET table == AfterCancel(r.cid, t)
  IN  /\ r.size > InitRoom
      /\ FreeSlots(table, t) = {}
      /\ slot' = table
      /\ NoRequest(<<ErrorMessage(r.cid, ERR_CHANNEL_BUSY)>>)

ContinueNothing(r) ==
  /\ PendingSlots(r.cid, clock) = {}
  /\ NoRequest(<<ErrorMessage(r.cid, ERR_INVALID_SEQ)>>)
  /\ UNCHANGED slot

ContinueOutOfSequence(r, t) ==
  /\ PendingSlots(r.cid, clock) # {}
  /\ ~SeqMatches(slot[Pending(r.cid)], r.seq)
  /\ slot' = [slot EXCEPT ![Pending(r.cid)] = Cancel(@, t)]
  /\ NoRequest(<<ErrorMessage(r.cid, ERR_INVALID_SEQ)>>)

\* A continuation accepted by a slot that has a buffer.
Accepts(r) ==
  /\ PendingSlots(r.cid, clock) # {}
  /\ SeqMatches(slot[Pending(r.cid)], r.seq)
  /\ slot[Pending(r.cid)].payload # NoBuffer

Continue(r) ==
  /\ Accepts(r)
  /\ LET s == AppendPacket(slot[Pending(r.cid)], r.data)
     IN  /\ ~IsComplete(s)
         /\ slot' = [slot EXCEPT ![Pending(r.cid)] = s]
         /\ NoRequest(<<>>)

ContinueToEnd(r, t) ==
  /\ Accepts(r)
  /\ LET s == AppendPacket(slot[Pending(r.cid)], r.data)
     IN  /\ IsComplete(s)
         /\ slot' = [slot EXCEPT ![Pending(r.cid)] = Cancel(s, t)]
         /\ HandleRequest(r.cid, s.cmd, s.payload, t)

\* handleRequest() of a request that has size bytes and a null buffer, when it ends without
\* a look at them: there are none, or the header alone makes it fail (core.cpp:24 fails an
\* APDU of less than four bytes).
HandleUnread(cid, cmd, size, t) ==
  \/ size = 0 /\ HandleRequest(cid, cmd, <<>>, t)
  \/ /\ size > 0
     /\ handled' = <<Message(cid, cmd, <<>>)>>
     /\ IF IsLocked(cid, t) /\ cmd \notin LockExempt
        THEN Fail(cid, ERR_LOCK_REQUIRED)
        ELSE \/ /\ cmd = "OTHER" \/ (cmd = "INIT" /\ cid # Broadcast) \/ (cmd = "MSG" /\ cid = Broadcast)
                /\ Fail(cid, ERR_INVALID_CMD)
             \/ /\ \/ cmd = "INIT" /\ cid = Broadcast /\ size # NonceSize
                   \/ cmd = "LOCK" /\ size # 1
                   \/ cmd = "WINK"
                /\ Fail(cid, ERR_INVALID_LEN)
             \/ /\ cmd = "MSG" /\ cid # Broadcast /\ size < 4
                /\ Fail(cid, ERR_INVALID_PAR)

\* append() on a slot that has no buffer, which the search finds once the clock has
\* wrapped: a byte read or written through the null pointer ends the process (a build that
\* logs reads all of them); with none left to copy the old request is dispatched again.
ContinueWithoutBuffer(r, t) ==
  /\ PendingSlots(r.cid, clock) # {}
  /\ LET s == slot[Pending(r.cid)]
     IN  /\ SeqMatches(s, r.seq)
         /\ s.payload = NoBuffer
         /\ \/ /\ s.size > 0 \/ ~IsComplete(s)
               /\ alive' = FALSE
               /\ UNCHANGED <<slot, lock, channelIdCount, handled, replies>>
            \/ /\ IsComplete(s)
               /\ slot' = [slot EXCEPT ![Pending(r.cid)] = Cancel([s EXCEPT !.seq = (@ + 1) % (2 * SeqMod)], t)]
               /\ HandleUnread(r.cid, s.cmd, s.size, t)
               /\ UNCHANGED alive

-----------------------------------------------------------------------------
\* A handler that returns at time t with the process still running.
Returns(t) == alive /\ t <= Horizon /\ clock' = t /\ UNCHANGED alive

ReceiveCommand(r) ==
  \E t \in clock .. clock + MaxStall :
     /\ Returns(t)
     /\ ShortCommand(r, t) \/ LongCommand(r, t) \/ LongCommandBusy(r, t)

ReceiveContinuation(r) ==
  \E t \in clock .. clock + MaxStall :
     \/ /\ Returns(t)
        /\ \/ ContinueNothing(r)
           \/ ContinueOutOfSequence(r, t)
           \/ Continue(r)
           \/ ContinueToEnd(r, t)
     \/ alive /\ t <= Horizon /\ clock' = t /\ ContinueWithoutBuffer(r, t)

Tick ==
  /\ clock < Horizon
  /\ clock' = clock + 1
  /\ UNCHANGED <<alive, slot, lock, channelIdCount, handled, replies>>

\* Neither the channel of the lock, nor channelIdCount, nor most fields of a
\* slot are initialised by the constructors.
Init ==
  /\ clock = StartClock
  /\ alive = TRUE
  /\ \E junk \in [Slots -> UninitSlots] :
       slot = [i \in Slots |-> [cid |-> 0, cmd |-> junk[i].cmd, seq |-> junk[i].seq,
                                size |-> junk[i].size, current |-> junk[i].current,
                                payload |-> NoBuffer, expiresAt |-> Now(StartClock)]]
  /\ \E channel \in UninitCids : lock = [channel |-> channel, lockedUntil |-> Now(StartClock)]
  /\ channelIdCount \in UninitCids
  /\ handled = <<>>
  /\ replies = <<>>

Next ==
  \/ \E r \in CmdReports : ReceiveCommand(r)
  \/ \E r \in ContReports : ReceiveContinuation(r)
  \/ Tick

Spec == Init /\ [][Next]_vars

-----------------------------------------------------------------------------
\* Every variable stays within the width the program declares for it.
TypeOK ==
  /\ clock \in Nat
  /\ alive \in BOOLEAN
  /\ slot \in [Slots -> Slot]
  /\ lock \in [channel: Cids, lockedUntil: 0 .. ClockMod - 1]
  /\ channelIdCount \in Cids
  /\ handled \in Seq(Request) /\ Len(handled) <= 1
  /\ replies \in Seq(Reply) /\ Len(replies) <= 1

\* A channel never has two requests in reassembly: a new command cancels the old
\* one before it claims a slot, whatever expires while the handler runs, so the
\* first-match search of getPendingMultipartHidRequest() is unambiguous.
OnePendingPerChannel ==
  \A i, j \in Slots :
    (slot[i].cid = slot[j].cid /\ ~IsExpired(slot[i], clock) /\ ~IsExpired(slot[j], clock)) => i = j

\* getPendingMultipartHidRequest() returns a non-expired request (hid.h:66-68): a
\* slot that was never started, or was cancelled, is not found by the search.
CancelledIsExpired ==
  \A i \in Slots : slot[i].payload = NoBuffer => IsExpired(slot[i], clock)

\* What append() relies on: the buffer holds exactly currentPayloadSize bytes, there
\* is room left for more, and the sequence number counts the continuations received.
Consistent(s) ==
  /\ InitRoom <= Len(s.payload) /\ Len(s.payload) < s.size
  /\ s.current = Len(s.payload)
  /\ (s.current - InitRoom) % ContRoom = 0
  /\ s.seq % SeqMod = ((s.current - InitRoom) \div ContRoom) % SeqMod

\* Every request in reassembly is consistent, whatever was cancelled, expired or
\* reused in between, and so no handler has used a null buffer.
ReassemblySound ==
  alive /\ \A i \in Slots : ~IsExpired(slot[i], clock) => Consistent(slot[i])

\* A lock in force is not taken over: until it runs out, only a LOCK request of
\* the channel that holds it changes it (hid.cpp:197-203).
LockNotStolen ==
  [][ Now(clock') < lock.lockedUntil =>
        \/ lock' = lock
        \/ handled' # <<>> /\ handled'[1].cid = lock.channel /\ handled'[1].cmd = "LOCK" ]_vars

-----------------------------------------------------------------------------
(* The abstract view: what each channel has received so far, and who holds *)
(* the lock.                                                               *)

PendingCids == {slot[i].cid : i \in {k \in Slots : ~IsExpired(slot[k], clock)}}

partialBar ==
  [c \in PendingCids |->
     LET s == slot[Pending(c)]
     IN  [cmd |-> s.cmd, size |-> s.size, data |-> s.payload]]

holderBar == IF Now(clock) < lock.lockedUntil THEN lock.channel ELSE CidMod

Channels == INSTANCE HidChannels WITH partial <- partialBar, holder <- holderBar

\* The slots, deadlines and sequence counters implement one reassembly buffer per
\* channel: what is dispatched is what was sent, in order, on that channel alone.
ImplementsChannels == Channels!Spec
============================================================================
