---------------------------- MODULE MCHidFraming ----------------------------
(***************************************************************************)
(* Bytes of three bits, packets of five: a message of 63 bytes, the        *)
(* longest, takes 17 packets, twice round the uint8_t counter.             *)
(***************************************************************************)
EXTENDS HidFraming

\* Every length; the bytes are never zero and differ from packet to packet.
EveryLength == {[i \in 1 .. n |-> 1 + ((a * i) % (ByteMod - 1))] : n \in 0 .. SizeMod - 1, a \in {1, 3}}
PingAndMsg == {1 + SeqMod, 3 + SeqMod}
==============================================================================
