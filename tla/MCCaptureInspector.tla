------------------------- MODULE MCCaptureInspector -------------------------
(* A small instance of CaptureInspector for TLC: two connections that use   *)
(* the same numbers, a command that is too long, pushes and control frames. *)
EXTENDS CaptureInspector

Request(c, n, cmd, body) ==
    [conn |-> c, dir |-> "c2s", opcode |-> "binary", seq |-> n, resp |-> 0,
     cmd |-> cmd, code |-> "none", body |-> body]
Response(c, n, cmd, code, body) ==
    [conn |-> c, dir |-> "s2c", opcode |-> "binary", seq |-> 0, resp |-> n,
     cmd |-> cmd, code |-> code, body |-> body]

SomeRecords ==
    {Request("k1", 0, "beat", "none"), Request("k1", 1, "get", "flat"),
     Request("k1", 1, "set", "deep"), Request("k1", 2, "long", "none"),
     Request("k1", 2, "none", "none"), Request("k2", 1, "get", "deep"),
     Response("k1", 1, "get", "0", "flat"), Response("k1", 1, "get", "7", "huge"),
     Response("k1", 2, "set", "0", "none"), Response("k2", 1, "long", "0", "none"),
     Response("k2", 1, "set", "none", "deep"), Response("k2", 0, "get", "0", "flat"),
     [Request("k2", 0, "none", "none") EXCEPT !.opcode = "control"],
     [Request("k2", 0, "none", "none") EXCEPT !.opcode = "garbage"]}

TwoCmds == {"get", "set", "beat"}
SomeShapes == {"flat", "deep", "huge"}
ShapeBytes == [s \in SomeShapes |-> CASE s = "flat" -> 1 [] s = "deep" -> 2 [] OTHER -> 9]
=============================================================================
