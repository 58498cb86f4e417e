-------------------------- MODULE MCRingReadiness --------------------------
(* Two publishers, one reader, both forms of readiness. *)
EXTENDS RingReadiness

CONSTANTS p1, p2
=============================================================================
