--------------------------- MODULE MCRealtimeHub ---------------------------
(* A small instance of RealtimeHub. *)
EXTENDS RealtimeHub, TLC

CONSTANTS s1, s2, s3, p1, p2, a1, a2, b1, b2

\* Two sockets of one user, one of another.
MCProfileOf == (s1 :> p1) @@ (s2 :> p1) @@ (s3 :> p2)
MCSessionOf == (s1 :> a1) @@ (s2 :> a1) @@ (s3 :> a2)
=============================================================================
