------------------------- MODULE MCHandshakeCompletion -------------------------
(***************************************************************************)
(* Instances of HandshakeCompletion for TLC: two nodes that call each      *)
(* other, with one or two channels that open and as many that answer.      *)
(***************************************************************************)
EXTENDS HandshakeCompletion

CONSTANTS n1, n2, c1, c2, c3, c4

CrossingCalls == {<<n1, n2>>, <<n2, n1>>}
=============================================================================
