--------------------------- MODULE MCRateLimiter ---------------------------
(* Constants for model checking RateLimiter. *)
EXTENDS RateLimiter, TLC

CONSTANTS hostA, hostB, proxy, c1, c2, c3, l1, l2, l3

(* Two hosts behind a trusted proxy, one of them on two of its connections. *)
ProxyPeer   == c1 :> proxy @@ c2 :> proxy @@ c3 :> proxy
ProxyHeader == c1 :> hostA @@ c2 :> hostA @@ c3 :> hostB

(* One host, two connections, no proxy. *)
DirectPeer   == c1 :> hostA @@ c2 :> hostA
DirectHeader == c1 :> NoHeader @@ c2 :> NoHeader

LimSymmetry == Permutations(Lims)
=============================================================================
