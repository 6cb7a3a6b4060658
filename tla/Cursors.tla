------------------------------ MODULE Cursors ------------------------------
(***************************************************************************)
(* What a CursorStore promises: one cursor per key in memory, a whole copy *)
(* of them on disk from time to time, and the last copy back after a       *)
(* restart.  FanIn uses the store at this level.                           *)
(***************************************************************************)
CONSTANTS
  Keys,     \* (agent, stream) pairs
  Cursor,   \* what may be saved
  NoCursor  \* nothing saved

VARIABLES
  mem,      \* the cursors Load returns
  dirty,    \* a Save since the last copy
  copy      \* the cursors on disk

Start == mem = [k \in Keys |-> NoCursor] /\ dirty = FALSE /\ copy = mem

(* Of one of the keys, or of one that is not among them.                   *)
SaveOne ==
  /\ mem' = mem \/ \E k \in Keys, c \in Cursor : mem' = [mem EXCEPT ![k] = c]
  /\ dirty' = TRUE /\ copy' = copy

CopyAll == dirty /\ copy' = mem /\ dirty' = FALSE /\ mem' = mem

Restart == mem' = copy /\ dirty' = FALSE /\ copy' = copy

Store == Start /\ [][SaveOne \/ CopyAll \/ Restart]_<<mem, dirty, copy>>
=============================================================================
