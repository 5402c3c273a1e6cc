---------------------------- MODULE HidProtocol ----------------------------
(***************************************************************************)
(* The vocabulary of the U2F HID protocol as src/hid.cpp defines it: the   *)
(* reports a host sends, the messages the device answers with, the command *)
(* and error codes.  A report is what is left of the 64 byte packet once   *)
(* its header is decoded; the widths of the integers are parameters.       *)
(***************************************************************************)
EXTENDS Integers, Sequences, FiniteSetsExt

CONSTANTS
  NumSlots,        \* HID_MAX_PENDING_REQUESTS, 10
  CidMod,          \* number of channel ids, 2^32
  InitRoom,        \* payload bytes of a command packet, 57
  ContRoom,        \* payload bytes of a continuation packet, 59
  SeqMod,          \* number of sequence values of a continuation, 128
  NonceSize,       \* bytes of an INIT request, 8
  MaxLockTimeout,  \* MAX_LOCK_TIMEOUT, 10 seconds
  Byte,            \* the values of a payload byte
  CmdReports,      \* the command packets the hosts may send
  ContReports,     \* the continuation packets the hosts may send
  Responses        \* the response APDUs the core may produce

Cids == 0 .. CidMod - 1
Broadcast == CidMod - 1
Slots == 1 .. NumSlots

\* "OTHER" stands for every command byte the switch has no case for.
Commands == {"INIT", "MSG", "PING", "WINK", "LOCK", "OTHER"}

ERR_INVALID_CMD   == 1
ERR_INVALID_PAR   == 2
ERR_INVALID_LEN   == 3
ERR_INVALID_SEQ   == 4
ERR_CHANNEL_BUSY  == 6
ERR_LOCK_REQUIRED == 10

CommandReport == [cid: Cids, cmd: Commands, size: Nat, data: [1 .. InitRoom -> Byte]]
ContReport == [cid: Cids, seq: 0 .. SeqMod - 1, data: [1 .. ContRoom -> Byte]]

ASSUME ProtocolAssumption ==
  /\ NumSlots \in Nat \ {0}
  /\ CidMod \in Nat \ {0}
  /\ InitRoom \in Nat \ {0}
  /\ ContRoom \in Nat \ {0}
  /\ SeqMod \in Nat \ {0}
  /\ NonceSize \in Nat
  /\ MaxLockTimeout \in Nat
  /\ Byte \subseteq Nat
  /\ CmdReports \subseteq CommandReport
  /\ ContReports \subseteq ContReport
  /\ Responses \subseteq Seq(Nat)

Message(cid, cmd, payload) == [cid |-> cid, cmd |-> cmd, payload |-> payload]
ErrorMessage(cid, err) == Message(cid, "ERROR", <<err>>)

Request == [cid: Cids, cmd: Commands, payload: Seq(Byte)]
Reply == [cid: Cids, cmd: Commands \cup {"ERROR"}, payload: Seq(Nat)]

\* Commands that a lock held by another channel does not stop.
LockExemptTooMany == {"INIT", "PING", "LOCK"}
LockExempt == {"INIT", "PING"}
============================================================================
