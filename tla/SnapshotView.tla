---------------------------- MODULE SnapshotView ----------------------------
(***************************************************************************)
(* What a list+watch loop promises its consumer: the view it publishes is  *)
(* always a whole version the API server held, and it only moves forward.  *)
(* The server changes one object at a time.                                *)
(***************************************************************************)
EXTENDS Integers, Sequences

CONSTANTS
  Objects,  \* keys of the watched resource
  Values,   \* what an object may hold
  Absent    \* the object does not exist

VARIABLES
  hist,     \* the versions of the resource, the last one is current
  shown,    \* the version the consumer sees, 0 before the first
  view      \* what the consumer sees

Version == [Objects -> Values \cup {Absent}]
Empty   == [o \in Objects |-> Absent]

Start == hist \in {<<v>> : v \in Version} /\ shown = 0 /\ view = Empty

Change ==
  /\ \E o \in Objects, v \in Values \cup {Absent} :
       hist' = Append(hist, [hist[Len(hist)] EXCEPT ![o] = v])
  /\ UNCHANGED <<shown, view>>

Advance ==
  /\ shown' \in shown..Len(hist) \ {0}
  /\ view' = hist[shown']
  /\ UNCHANGED hist

Views == Start /\ [][Change \/ Advance]_<<hist, shown, view>>
=============================================================================
