------------------------------ MODULE MCH4Link ------------------------------
(* H4Link with the sizes of the code. *)
EXTENDS H4Link

(* ACL data with 251 bytes, a packet of 256 bytes *)
LongestPacket == {<<2, 251>>}

(* Of the transfers it may be cut into, those of half a packet *)
Halves == Len(line) \in {0, 128, 256}
=============================================================================
