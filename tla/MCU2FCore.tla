------------------------------ MODULE MCU2FCore ------------------------------
(* Values of the constants of U2FCore for TLC. *)
EXTENDS U2FCore

Headers == {<<1, 1, 3, 0>>, <<0, 1, 3, 0>>, <<0, 3, 0, 0>>, <<0, 4, 0, 0>>}
             \cup {<<0, 2, p1, 0>> : p1 \in Controls \cup {0}}

\* Data for a registration and for authentications, and data that is too long or too short.
DataStrings == {<<>>, <<1>>, <<1, 2>>, <<1, 2, 0>>, <<1, 2, 1, 9>>, <<1, 2, 2, 9, 8>>, <<1, 2, 1>>, <<1, 2, 0, 9>>}

\* No size expected, sizes about those of the answers, none that is too large, and a stray byte.
Endings == {<<>>, <<5>>} \cup {TwoBytes(n) : n \in {0, 3, 5, 6, 18, LongestAnswer - 1, LongestAnswer}}

\* Requests of every form; the size of their data is right or wrong, or spoilt.
MCRawRequests ==
  Headers
  \cup {<<>>, <<0, 3, 0>>}
  \cup {h \o t : h \in Headers, t \in {<<0>>, <<0, 1>>, <<1, 0, 6>>, <<1, 0, 1, 9>>}}
  \cup {h \o <<0>> \o e : h \in Headers, e \in Endings}
  \cup {h \o <<0>> \o TwoBytes(n) \o d \o e : h \in Headers, n \in 0 .. 5 \cup {256}, d \in DataStrings, e \in Endings}

MCPublicKeys == {<<4, 7>>}
MCHandles == {<<9>>, <<9, 8>>}
MCCertificate == <<SEQUENCE, 130, 0, 1, 6>>
MCNumbers == {<<0, 1>>, <<1, 0>>, <<128, 0>>}
MCLeftovers == {0, 7, 254, 255}
===============================================================================
