---------------------------- MODULE MCProxyRelay ----------------------------
(* A small instance of ProxyRelay for TLC. *)
EXTENDS ProxyRelay

CONSTANTS k1, k2

TwoConns == {k1, k2}
FrameKinds == {[size |-> 0, close |-> FALSE], [size |-> 2, close |-> FALSE],
               [size |-> 2, close |-> TRUE]}
=============================================================================
