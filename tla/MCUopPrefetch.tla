---------------------------- MODULE MCUopPrefetch ----------------------------
(* Line L has instructions p1, p2 of one window and p3 of the other; lines M  *)
(* and N have q1 and s1.  Any number of branches may take the same path, so    *)
(* that they share lines.                                                     *)
EXTENDS UopPrefetch, TLC

CONSTANTS p1, p2, p3, q1, s1, L, M, N, V, W, X, Y

MCLineOf == [ip \in Ips |-> CASE ip = q1 -> M [] ip = s1 -> N [] OTHER -> L]
MCWindowOf == [ip \in Ips |-> CASE ip = q1 -> X [] ip = s1 -> Y [] ip = p3 -> W [] OTHER -> V]

ShortPaths == {<<p1, q1>>, <<s1>>}
ReturningPaths == {<<p1, q1, p3>>, <<q1, p3>>}
=============================================================================
