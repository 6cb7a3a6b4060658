--------------------------- MODULE MCCursorStore ---------------------------
(* A small instance of CursorStore: an agent that stamps one of its        *)
(* streams with another name.                                              *)
EXTENDS CursorStore

CONSTANT nil

Key(a, s) == [agent |-> a, stream |-> s]
ThreeKeys == {Key("a", s) : s \in {"intent", "deviation", "audit"}}
Stamps    == [k \in ThreeKeys |-> IF k.stream = "audit" THEN "log" ELSE k.stream]
Node      == {"n1"}
=============================================================================
