----------------------------- MODULE MCHciLinks -----------------------------
(* Small instances of the two transports.  A build has one of them: a behaviour
   is one of one of them.                                                  *)
EXTENDS H5Link, H4Link

(* A command without parameters and ACL data with one byte *)
MCShapes == {<<1, 0>>, <<2, 1>>}

VARIABLE part  \* the one that is at work

LinksInit ==
  /\ part \in {"H5", "H4"}
  /\ Init /\ H4Init

LinksNext ==
  /\ UNCHANGED part
  /\ \/ part = "H5" /\ Next /\ UNCHANGED h4vars
     \/ part = "H4" /\ H4Next /\ UNCHANGED vars

LinksSpec == LinksInit /\ [][LinksNext]_<<part, vars, h4vars>>
=============================================================================
