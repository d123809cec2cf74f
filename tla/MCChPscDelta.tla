---------------------------- MODULE MCChPscDelta ----------------------------
(* Two appointments on one pair, one on another.                              *)
EXTENDS ChPscDelta, TLC

CONSTANTS rec1, rec2, rec3, pair1, pair2

File(sa, sb, sc) == (rec1 :> sa) @@ (rec2 :> sb) @@ (rec3 :> sc)
MCFirst == {File("live", "absent", "live")}
MCPairOf == (rec1 :> pair1) @@ (rec2 :> pair1) @@ (rec3 :> pair2)
=============================================================================
