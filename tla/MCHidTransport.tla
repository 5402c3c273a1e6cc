--------------------------- MODULE MCHidTransport ---------------------------
(***************************************************************************)
(* Small instances of HidTransport: three channels (the last one is the    *)
(* broadcast channel), packets of one and of two payload bytes.            *)
(***************************************************************************)
EXTENDS HidTransport

Bytes == 0 .. 2
SomeCids == Cids
NoJunk == {[cmd |-> "PING", seq |-> 0, size |-> 0, current |-> 0]}
SomeResponses == {<<0>>}

\* Reassembly: requests of three continuations, the last one full, on every channel, one
\* of two with a last one that is not full, and a command that fits its packet.  The
\* bytes tell the channel and the packet.
LongRequests ==
  [cid: Cids, cmd: {"PING"}, size: {7}, data: {<<1>>}]
    \cup [cid: {0}, cmd: {"MSG"}, size: {4}, data: {<<2>>}]
    \cup [cid: {1}, cmd: {"WINK"}, size: {0}, data: {<<0>>}]
AnyContinuations ==
  {[cid |-> c, seq |-> q, data |-> <<c, q>>] : c \in Cids, q \in 0 .. SeqMod - 1}

\* Commands: every command with every outcome the switch has for it, locks on
\* two channels, and one LOCK request that needs a second packet.
Command(c, name, n, b) == [cid |-> c, cmd |-> name, size |-> n, data |-> <<b>>]
ShortRequests ==
  {Command(Broadcast, "INIT", 1, 2), Command(Broadcast, "INIT", 0, 0), Command(0, "INIT", 1, 2),
   Command(Broadcast, "MSG", 1, 0), Command(0, "MSG", 1, 0),
   Command(0, "WINK", 0, 0), Command(1, "WINK", 0, 0), Command(1, "WINK", 1, 0),
   Command(0, "LOCK", 1, 1), Command(0, "LOCK", 1, 0), Command(1, "LOCK", 1, 1),
   Command(0, "LOCK", 1, 2), Command(0, "LOCK", 0, 0),
   Command(1, "PING", 1, 2), Command(1, "OTHER", 0, 0), Command(1, "LOCK", 3, 1)}
SomeContinuations == [cid: {0, 1}, seq: {0, 1}, data: {<<1, 2>>}]
============================================================================
