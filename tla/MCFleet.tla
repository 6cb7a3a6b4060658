------------------------------ MODULE MCFleet ------------------------------
(* Small instance of Fleet: slices with an agent that becomes ready or     *)
(* terminates, or without the port that is dialled.                        *)
EXTENDS Fleet

CONSTANTS s1, s2, absent, a1, a2

Ready(a)   == [addr |-> a, ready |-> "true", terminating |-> "unset"]
Unset(a)   == [addr |-> a, ready |-> "unset", terminating |-> "unset"]
Leaving(a) == [addr |-> a, ready |-> "unset", terminating |-> "true"]

Both   == [ports |-> <<80>>, endpoints |-> {Ready(a1), Unset(a2)}]
One    == [ports |-> <<70, 80>>, endpoints |-> {Ready(a1), Leaving(a2)}]

Churn    == {Both, One}
Agent(n, a) == [name |-> <<n, a>>, addr |-> a, port |-> 80]
Repeated    == <<Agent("static", a2), Agent("static", a2)>>
=============================================================================
