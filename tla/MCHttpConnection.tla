-------------------------- MODULE MCHttpConnection --------------------------
(* Instances of HttpConnection for TLC. *)
EXTENDS HttpConnection, TLC

CONSTANTS c1, c2

OneConn == {c1}
TwoConns == {c1, c2}
ConnSymmetry == Permutations(TwoConns)

=============================================================================
