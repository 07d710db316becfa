---------------------------- MODULE MCConnManager ----------------------------
(* Small instances of ConnManager for TLC. *)
EXTENDS ConnManager, TLC

CONSTANTS p1, p2

MCPeers == {p1, p2}
OnePeer == {p1}

(* The low bits tell the connections apart, and the first one's are 0. *)
MCLowBits == [h \in MasterHandleOrNone |-> IF h = NoHandle THEN 0 ELSE h - 1]

Symmetry == Permutations(MCPeers)
=============================================================================
