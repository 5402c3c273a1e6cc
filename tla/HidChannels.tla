---------------------------- MODULE HidChannels ----------------------------
(***************************************************************************)
(* What the HID transport promises, without slots, clocks or sequence      *)
(* counters: each channel accumulates the packets of at most one message;  *)
(* a message is handed on once, whole, as it was sent; time may make any   *)
(* unfinished message, or the lock, go away; a message is refused for want *)
(* of room only when NumSlots other channels have one unfinished; and a    *)
(* channel that does not hold the lock is served nothing but INIT and PING *)
(* while another does.                                                     *)
(***************************************************************************)
EXTENDS HidProtocol

VARIABLES
  partial,         \* channel |-> the message it has begun: command, size, bytes so far
  holder,          \* the channel that holds the lock, or Nobody
  channelIdCount,  \* last channel id allocated
  handled,         \* the request completed by the last packet, if any
  replies          \* the messages sent for the last packet

vars == <<partial, holder, channelIdCount, handled, replies>>

Nobody == CidMod

\* The sequence number the next continuation of message m must carry.
NextSeq(m) == ((Len(m.data) - InitRoom) \div ContRoom) % SeqMod

\* The messages of the channels in D are kept, the others are lost.
Keep(D) == [c \in D |-> partial[c]]

-----------------------------------------------------------------------------
\* Exactly one answer, on the channel of the request, that is either the result
\* of the command or an error.  h is the holder of the lock at that moment.
Serve(cid, cmd, payload, h) ==
  /\ handled' = <<Message(cid, cmd, payload)>>
  /\ Len(replies') = 1
  /\ replies'[1].cid = cid
  /\ \/ /\ replies'[1].cmd = "ERROR"
        /\ cmd # "PING"
        /\ (replies'[1].payload = <<ERR_LOCK_REQUIRED>>)
             <=> (h \notin {Nobody, cid} /\ cmd \notin LockExempt)
        /\ holder' = h
        /\ UNCHANGED channelIdCount
     \/ /\ replies'[1].cmd = cmd
        /\ h \in {Nobody, cid} \/ cmd \in LockExempt
        /\ cmd = "PING" => replies'[1].payload = payload
        /\ IF cmd = "LOCK" THEN holder' \in {cid, Nobody} ELSE holder' = h
        /\ IF cmd = "INIT"
           THEN /\ channelIdCount' = (channelIdCount + 1) % CidMod
                /\ SubSeq(replies'[1].payload, 1, NonceSize + 1) = payload \o <<channelIdCount'>>
           ELSE UNCHANGED channelIdCount

\* No message is complete: the lock may lapse, nothing else happens but the reply.
Quiet(msgs) ==
  /\ handled' = <<>>
  /\ replies' = msgs
  /\ holder' \in {holder, Nobody}
  /\ UNCHANGED channelIdCount

Command(r) ==
  \E D \in SUBSET (DOMAIN partial \ {r.cid}) :
    \/ /\ r.size <= InitRoom
       /\ partial' = Keep(D)
       /\ \E h \in {holder, Nobody} : Serve(r.cid, r.cmd, SubSeq(r.data, 1, r.size), h)
    \/ /\ r.size > InitRoom
       /\ Cardinality(D) < NumSlots
       /\ partial' = [c \in D \cup {r.cid} |->
                        IF c = r.cid THEN [cmd |-> r.cmd, size |-> r.size, data |-> r.data]
                                     ELSE partial[c]]
       /\ Quiet(<<>>)
    \/ /\ r.size > InitRoom
       /\ Cardinality(D) = NumSlots
       /\ partial' = Keep(D)
       /\ Quiet(<<ErrorMessage(r.cid, ERR_CHANNEL_BUSY)>>)

\* Nothing to continue, or not with this packet: the message, if any, is dropped.
Reject(r) ==
  /\ r.cid \in DOMAIN partial => r.seq # NextSeq(partial[r.cid])
  /\ \E D \in SUBSET (DOMAIN partial \ {r.cid}) : partial' = Keep(D)
  /\ Quiet(<<ErrorMessage(r.cid, ERR_INVALID_SEQ)>>)

Extend(r) ==
  /\ r.cid \in DOMAIN partial
  /\ r.seq = NextSeq(partial[r.cid])
  /\ LET m    == partial[r.cid]
         data == m.data \o r.data
     IN  \/ /\ Len(data) < m.size
            /\ \E D \in SUBSET DOMAIN partial :
                 partial' = [c \in D |-> IF c = r.cid THEN [m EXCEPT !.data = data] ELSE partial[c]]
            /\ Quiet(<<>>)
         \/ /\ Len(data) >= m.size
            /\ \E D \in SUBSET (DOMAIN partial \ {r.cid}) : partial' = Keep(D)
            /\ \E h \in {holder, Nobody} : Serve(r.cid, m.cmd, SubSeq(data, 1, m.size), h)

\* Time passes: unfinished messages and the lock may lapse.
Lapse ==
  /\ \E D \in SUBSET DOMAIN partial : partial' = Keep(D)
  /\ holder' \in {holder, Nobody}
  /\ UNCHANGED <<channelIdCount, handled, replies>>

-----------------------------------------------------------------------------
Init ==
  /\ partial = <<>>
  /\ holder = Nobody
  /\ channelIdCount \in Cids
  /\ handled = <<>>
  /\ replies = <<>>

Next ==
  \/ \E r \in CmdReports : Command(r)
  \/ \E r \in ContReports : Reject(r) \/ Extend(r)
  \/ Lapse

Spec == Init /\ [][Next]_vars
============================================================================
