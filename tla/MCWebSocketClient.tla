------------------------- MODULE MCWebSocketClient --------------------------
(* Small instances of WebSocketClient for TLC. *)
EXTENDS WebSocketClient, TLC

CONSTANTS c1, c2, f1

TwoCalls == {c1, c2}
OneCall == {c1}
OneFire == {f1}
NoFire == {}
Symm == Permutations(TwoCalls)
=============================================================================
