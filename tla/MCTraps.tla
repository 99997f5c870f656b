------------------------------ MODULE MCTraps ------------------------------
(* Instances of Traps for TLC. *)
EXTENDS Traps, TLC

Watch(h, c, signals, condition) ==
    [handle |-> h, context |-> c, signals |-> signals, condition |-> condition]

(* Two triggers that cannot both be on the handle: one waits for messages, the
   other for the peer to go *)
OneHandle ==
    {Watch("a", "c", {"readable"}, "satisfied"),
     Watch("a", "d", {"writable"}, "unsatisfied")}
===============
