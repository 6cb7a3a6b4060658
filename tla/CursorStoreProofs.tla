------------------------- MODULE CursorStoreProofs -------------------------
(***************************************************************************)
(* Proofs about CursorStore, for any set of agents and streams, any stamps *)
(* and any number of restarts.                                             *)
(*                                                                         *)
(* The invariant says, beyond the types, which stream a cursor may name in *)
(* memory, that the file is unambiguous for the keys of Own, that a clean  *)
(* store agrees with its file, and what the flusher leaves when it exits.  *)
(***************************************************************************)
EXTENDS CursorStore, TLAPS

(* A cursor in memory names its key's stream, or the one stamped on it.    *)
Stamped(d) ==
  \A j \in Slots : d[j] # NoCursor =>
    d[j].stream = j.stream \/ (j \in Keys /\ d[j].stream = Stamp[j])

Unambiguous(f) ==
  \A k \in Own : \A e, g \in f : Matches(e, k) /\ Matches(g, k) => e.cursor = g.cursor

Clean == Up /\ ~dirty => Loaded(file) = Kept

(* The flusher exits only while the store closes, with nothing unwritten   *)
(* unless the write failed.                                                *)
Exited == Up /\ loop = "exit" => Closing /\ (failed \/ ~dirty)

(* Memory is never behind the file.                                        *)
Ahead ==
  Up /\ OneNode => \A k \in Own : Loaded(file)[k] # NoCursor =>
    data[k] # NoCursor /\ data[k].seq >= Loaded(file)[k].seq

Inv ==
  /\ TypeOK /\ Stamped(data) /\ Unambiguous(file)
  /\ Clean /\ Exited /\ Ahead /\ ClosedExact

-----------------------------------------------------------------------------
(* Cursors, keys and the file.                                             *)

(* A cursor is not nil and has a node and a seq.                           *)
LEMMA CursorFacts ==
  ASSUME NEW c \in Cursor
  PROVE  c # NoCursor /\ c.node \in Nodes /\ c.seq \in Nat
<1>1. PICK k \in Keys : c \in CursorOf(k)
  BY DEF Cursor
<1> QED
  BY <1>1, NilAssumption, CursorStoreConstants DEF CursorOf

(* Own keys are keys, and every key is a slot of one of their agents.      *)
LEMMA SlotFacts ==
  /\ Own \subseteq Keys /\ Keys \subseteq Slots
  /\ \A j \in Slots : j = [agent |-> j.agent, stream |-> j.stream]
  /\ \A j \in Slots : j.agent \in {k.agent : k \in Keys}
BY CursorStoreConstants DEF Own, Slots

(* Among the slots of stamped cursors, only an own key matches itself.     *)
LEMMA SoleMatch ==
  ASSUME NEW d, Stamped(d), NEW k \in Own, NEW j \in Slots, d[j] # NoCursor,
         j.agent = k.agent, d[j].stream = k.stream
  PROVE  j = k
<1>1. k \in Keys /\ k \in Slots
  BY SlotFacts
<1>2. CASE d[j].stream = j.stream
  <2>1. j = [agent |-> j.agent, stream |-> j.stream]
        /\ k = [agent |-> k.agent, stream |-> k.stream]
    BY <1>1, SlotFacts
  <2> QED
    BY <1>2, <2>1
<1>3. CASE j \in Keys /\ d[j].stream = Stamp[j]
  BY <1>3, Zenon DEF Own
<1> QED
  BY <1>2, <1>3 DEF Stamped

(* A cursor of an own key names that key's stream.                         *)
LEMMA OwnStamp ==
  ASSUME NEW d, Stamped(d), NEW k \in Own, d[k] # NoCursor
  PROVE  d[k].stream = k.stream
BY SlotFacts DEF Stamped, Own

(* An entry that flushLockedBare writes and that loads under an own key is *)
(* the key's.                                                              *)
LEMMA EntryOf ==
  ASSUME NEW d, Stamped(d), NEW k \in Own, NEW e \in Entries(d), Matches(e, k)
  PROVE  d[k] # NoCursor /\ e.cursor = d[k]
<1>1. PICK j \in Slots : d[j] # NoCursor /\ e = [agent |-> j.agent, cursor |-> d[j]]
  BY DEF Entries
<1>2. j = k
  BY <1>1, SoleMatch DEF Matches
<1> QED
  BY <1>1, <1>2

(* The file gives back what was written for the own keys.                  *)
LEMMA WrittenIsLoaded ==
  ASSUME NEW d, Stamped(d)
  PROVE  /\ Loaded(Entries(d)) = [k \in Own |-> d[k]]
         /\ Unambiguous(Entries(d))
<1>1. ASSUME NEW k \in Own
      PROVE  Loaded(Entries(d))[k] = d[k]
  <2>1. CASE d[k] # NoCursor
    <3> DEFINE e == [agent |-> k.agent, cursor |-> d[k]]
    <3>1. e \in Entries(d)
      BY <2>1, SlotFacts DEF Entries
    <3>2. Matches(e, k)
      BY <2>1, OwnStamp DEF Matches
    <3>3. \E x \in Entries(d) : Matches(x, k)
      BY <3>1, <3>2
    <3> DEFINE x == CHOOSE y \in Entries(d) : Matches(y, k)
    <3>4. x \in Entries(d) /\ Matches(x, k)
      BY <3>3
    <3>5. x.cursor = d[k]
      BY <3>4, EntryOf
    <3> QED
      BY <3>3, <3>5 DEF Loaded
  <2>2. CASE d[k] = NoCursor
    <3>1. ~ \E e \in Entries(d) : Matches(e, k)
      BY <2>2, EntryOf
    <3> QED
      BY <2>2, <3>1 DEF Loaded
  <2> QED
    BY <2>1, <2>2
<1>2. Loaded(Entries(d)) = [k \in Own |-> d[k]]
  BY <1>1 DEF Loaded
<1>3. Unambiguous(Entries(d))
  BY EntryOf DEF Unambiguous
<1> QED
  BY <1>2, <1>3

(* A reload gives the own keys what the file has for them, and stamps      *)
(* every cursor with its key's stream.                                     *)
LEMMA Reloaded ==
  ASSUME NEW f, NEW d, Unambiguous(f), Loads(f, d)
  PROVE  Stamped(d) /\ [k \in Own |-> d[k]] = Loaded(f)
<1>1. Stamped(d)
  BY DEF Loads, Stamped, Matches
<1>2. ASSUME NEW k \in Own
      PROVE  d[k] = Loaded(f)[k]
  <2>1. k \in Slots
    BY SlotFacts
  <2>2. CASE \E e \in f : Matches(e, k)
    <3>1. PICK e \in f : Matches(e, k) /\ d[k] = e.cursor
      BY <2>1, <2>2 DEF Loads
    <3> DEFINE x == CHOOSE y \in f : Matches(y, k)
    <3>2. x \in f /\ Matches(x, k)
      BY <2>2
    <3>3. x.cursor = e.cursor
      BY <3>1, <3>2 DEF Unambiguous
    <3> QED
      BY <2>2, <3>1, <3>3 DEF Loaded
  <2>3. CASE ~ \E e \in f : Matches(e, k)
    BY <2>1, <2>3 DEF Loads, Loaded
  <2> QED
    BY <2>2, <2>3
<1>3. [k \in Own |-> d[k]] = Loaded(f)
  BY <1>2 DEF Loaded
<1> QED
  BY <1>1, <1>3

-----------------------------------------------------------------------------
(* The invariant.                                                          *)

(* What a flush does: nothing, or the file gets what is in memory, or the  *)
(* write fails.                                                            *)
LEMMA FlushFacts ==
  ASSUME Inv, Up, Flush, data' = data
  PROVE  /\ dirty' \in BOOLEAN /\ failed' \in BOOLEAN
         /\ file' \subseteq [agent : {k.agent : k \in Keys}, cursor : Cursor]
         /\ Unambiguous(file')
         /\ dirty' => Loaded(file') = Loaded(file)
         /\ ~dirty' => Loaded(file') = Kept
         /\ dirty' => failed'
         /\ \/ file' = file
            \/ dirty /\ ~dirty' /\ Loaded(file') = Kept
<1>1. TypeOK /\ Stamped(data) /\ Unambiguous(file) /\ Clean
  BY DEF Inv
<1>2. CASE ~dirty /\ UNCHANGED <<file, dirty, failed>>
  BY <1>1, <1>2 DEF TypeOK, Clean
<1>3. CASE dirty /\ file' = Entries(data) /\ dirty' = FALSE /\ failed' = FALSE
  <2>1. Loaded(file') = Kept /\ Unambiguous(file')
    BY <1>1, <1>3, WrittenIsLoaded DEF Kept
  <2>2. file' \subseteq [agent : {k.agent : k \in Keys}, cursor : Cursor]
    BY <1>1, <1>3, SlotFacts DEF Entries, TypeOK
  <2> QED
    BY <1>3, <2>1, <2>2, Zenon
<1>4. CASE dirty /\ WriteFails /\ failed' = TRUE /\ UNCHANGED <<file, dirty>>
  BY <1>1, <1>4 DEF TypeOK
<1> QED
  BY <1>2, <1>3, <1>4, Zenon DEF Flush

(* A step with a flush keeps the invariant, if it leaves the store open    *)
(* and the flusher exits only while it closes.                             *)
LEMMA FlushStep ==
  ASSUME Inv, Up, Flush, UNCHANGED <<data, wake, saver, lives>>,
         phase' \in {"run", "flushed", "close", "closed"},
         loop' \in {"select", "check", "flush", "exit"},
         loop' = "exit" => Closing'
  PROVE  Inv'
<1>1. TypeOK /\ Stamped(data) /\ Ahead
  BY DEF Inv
<1>2. data' = data /\ Kept' = Kept
  BY DEF Kept
<1>3. /\ dirty' \in BOOLEAN /\ failed' \in BOOLEAN
      /\ file' \subseteq [agent : {k.agent : k \in Keys}, cursor : Cursor]
      /\ Unambiguous(file')
      /\ dirty' => Loaded(file') = Loaded(file)
      /\ ~dirty' => Loaded(file') = Kept
      /\ dirty' => failed'
  BY <1>2, FlushFacts
<1>4. TypeOK'
  BY <1>1, <1>3 DEF TypeOK
<1>5. Stamped(data')
  BY <1>1, <1>2
<1>6. Clean' /\ Exited'
  BY <1>2, <1>3 DEF Clean, Exited
<1>7. Ahead'
  <2> SUFFICES ASSUME OneNode, NEW k \in Own, Loaded(file')[k] # NoCursor
               PROVE  data[k] # NoCursor /\ data[k].seq >= Loaded(file')[k].seq
    BY <1>2 DEF Ahead, OneNode
  <2>1. CASE dirty'
    BY <1>1, <1>3, <2>1 DEF Ahead
  <2>2. CASE ~dirty'
    <3>1. Loaded(file')[k] = data[k]
      BY <1>3, <2>2 DEF Kept
    <3>2. data[k] \in Cursor
      BY <1>1, <3>1, SlotFacts DEF TypeOK
    <3>3. data[k].seq \in Nat
      BY <3>2, CursorFacts
    <3> QED
      BY <3>1, <3>3
  <2> QED
    BY <2>1, <2>2
<1>8. ClosedExact'
  BY DEF ClosedExact
<1> QED
  BY <1>3, <1>4, <1>5, <1>6, <1>7, <1>8 DEF Inv

(* Save moves memory on, and never back within a node's numbering.         *)
LEMMA SaveStep ==
  ASSUME Inv, NEW k \in Keys, Save(k)
  PROVE  Inv'
<1>1. /\ TypeOK /\ Stamped(data) /\ Unambiguous(file)
      /\ Clean /\ Exited /\ Ahead
  BY DEF Inv
<1>2. phase = "run" /\ UNCHANGED <<phase, wake, loop, file, lives, failed>>
  BY DEF Save
<1>3. PICK c \in CursorOf(k) :
        IF Accepted(k, c)
        THEN /\ data' = [data EXCEPT ![k] = c]
             /\ dirty' = TRUE
             /\ saver' = [saver EXCEPT ![k] = "wake"]
        ELSE UNCHANGED <<data, dirty, saver>>
  BY DEF Save
<1>4. CASE ~Accepted(k, c)
  BY <1>1, <1>2, <1>3, <1>4
     DEF Inv, TypeOK, Stamped, Unambiguous, Clean, Kept, Exited, Ahead, ClosedExact,
         Up, Closing, OneNode
<1>5. CASE Accepted(k, c)
  <2>1. /\ c \in Cursor /\ c.stream = Stamp[k] /\ k \in Slots
        /\ c # NoCursor /\ c.node \in Nodes /\ c.seq \in Nat
    BY CursorFacts, SlotFacts DEF Cursor, CursorOf
  <2>2. data' = [data EXCEPT ![k] = c] /\ dirty' = TRUE
        /\ saver' = [saver EXCEPT ![k] = "wake"]
    BY <1>3, <1>5
  <2>3. TypeOK'
    BY <1>1, <1>2, <2>1, <2>2 DEF TypeOK
  <2>4. Stamped(data')
    BY <1>1, <2>1, <2>2 DEF Stamped, TypeOK
  <2>5. Unambiguous(file') /\ Clean' /\ Exited' /\ ClosedExact'
    BY <1>1, <1>2, <2>2 DEF Clean, Exited, ClosedExact, Up, Closing
  <2>6. Ahead'
    <3> SUFFICES ASSUME OneNode, NEW j \in Own, Loaded(file)[j] # NoCursor
                 PROVE  data'[j] # NoCursor /\ data'[j].seq >= Loaded(file)[j].seq
      BY <1>2 DEF Ahead, OneNode
    <3>1. data[j] # NoCursor /\ data[j].seq >= Loaded(file)[j].seq
      BY <1>1, <1>2 DEF Ahead, Up
    <3>2. CASE j # k
      BY <1>1, <2>2, <3>1, <3>2, SlotFacts DEF TypeOK
    <3>3. CASE j = k
      <4>1. data[k] \in Cursor
        BY <1>1, <2>1, <3>1, <3>3 DEF TypeOK
      <4>2. data[k].node \in Nodes /\ data[k].seq \in Nat
        BY <4>1, CursorFacts
      <4>3. c.seq >= data[k].seq
        BY <1>5, <2>1, <3>1, <3>3, <4>2 DEF Accepted, OneNode
      <4>4. Loaded(file)[k] \in Cursor
        <5>1. \E e \in file : Matches(e, k) /\ Loaded(file)[k] = e.cursor
          BY <3>3, Zenon DEF Loaded
        <5> QED
          BY <1>1, <5>1 DEF TypeOK
      <4>5. Loaded(file)[k].seq \in Nat
        BY <4>4, CursorFacts
      <4>6. data'[k] = c
        BY <1>1, <2>1, <2>2 DEF TypeOK
      <4> QED
        BY <2>1, <3>1, <3>3, <4>2, <4>3, <4>5, <4>6
    <3> QED
      BY <3>2, <3>3
  <2> QED
    BY <2>3, <2>4, <2>5, <2>6 DEF Inv
<1> QED
  BY <1>4, <1>5

(* A restart reads back what the file has.                                 *)
LEMMA RestartStep ==
  ASSUME Inv, NewFileCursorStore
  PROVE  Inv' /\ Kept' = Loaded(file)
<1>1. TypeOK /\ Unambiguous(file)
  BY DEF Inv
<1>2. /\ phase' = "run" /\ lives' = lives + 1 /\ lives < MaxLives
      /\ Loads(file, data') /\ dirty' = FALSE
      /\ wake' = FALSE /\ loop' = "select" /\ saver' = [k \in Keys |-> "idle"]
      /\ failed' = FALSE /\ file' = file
  BY DEF NewFileCursorStore
<1>3. Stamped(data') /\ Kept' = Loaded(file)
  BY <1>1, <1>2, Reloaded DEF Kept
<1>4. data' \in [Slots -> Cursor \cup {NoCursor}]
  BY <1>1, <1>2 DEF Loads, TypeOK
<1>5. lives' \in 0..MaxLives
  BY <1>1, <1>2, CursorStoreConstants DEF TypeOK
<1>6. TypeOK'
  BY <1>1, <1>2, <1>4, <1>5, Zenon DEF TypeOK
<1>7. Clean' /\ Exited' /\ ClosedExact'
  BY <1>2, <1>3 DEF Clean, Exited, ClosedExact
<1>8. Ahead'
  <2> SUFFICES ASSUME NEW k \in Own, Loaded(file)[k] # NoCursor
               PROVE  data'[k] # NoCursor /\ data'[k].seq >= Loaded(file)[k].seq
    BY <1>2 DEF Ahead
  <2>1. data'[k] = Loaded(file)[k]
    BY <1>3 DEF Kept
  <2>2. data'[k] \in Cursor
    BY <1>4, <2>1, SlotFacts
  <2>3. data'[k].seq \in Nat
    BY <2>2, CursorFacts
  <2> QED
    BY <2>1, <2>3
<1> QED
  BY <1>1, <1>2, <1>3, <1>6, <1>7, <1>8 DEF Inv

(* Every step keeps the invariant.                                         *)
LEMMA InvStep == Inv /\ [Next]_vars => Inv'
<1> SUFFICES ASSUME Inv, [Next]_vars
             PROVE  Inv'
  OBVIOUS
<1>1. CASE \E k \in Keys : Save(k)
  BY <1>1, SaveStep
<1>2. CASE \E k \in Keys : SaveWakes(k)
  BY <1>2 DEF SaveWakes, Inv, TypeOK, Stamped, Unambiguous, Clean, Kept, Exited,
              Ahead, ClosedExact, Up, Closing, OneNode
<1>3. CASE LoopTick
  BY <1>3 DEF LoopTick, Inv, TypeOK, Stamped, Unambiguous, Clean, Kept, Exited,
              Ahead, ClosedExact, Up, Closing, OneNode
<1>4. CASE LoopWoken
  BY <1>4, Zenon DEF LoopWoken, Inv, TypeOK, Stamped, Unambiguous, Clean, Kept, Exited,
              Ahead, ClosedExact, Up, Closing, OneNode
<1>5. CASE LoopClosed
  BY <1>5, FlushStep DEF LoopClosed, Up, Closing
<1>6. CASE LoopCheck
  <2>1. CASE Closing
    BY <1>6, <2>1, FlushStep DEF LoopCheck, Up, Closing
  <2>2. CASE ~Closing
    BY <1>6, <2>2 DEF LoopCheck, Inv, TypeOK, Stamped, Unambiguous, Clean, Kept,
                      Exited, Ahead, ClosedExact, Up, Closing, OneNode
  <2> QED
    BY <2>1, <2>2
<1>7. CASE LoopFlush
  <2>1. phase \in {"run", "flushed", "close", "closed"}
    BY <1>7 DEF LoopFlush, Inv, TypeOK, Up
  <2> QED
    BY <1>7, <2>1, FlushStep DEF LoopFlush
<1>8. CASE RunFlushes
  <2>1. loop \in {"select", "check", "flush"}
    BY <1>8 DEF RunFlushes, Inv, TypeOK, Exited, Up, Closing
  <2> QED
    BY <1>8, <2>1, FlushStep DEF RunFlushes, Up
<1>9. CASE CloseBegins
  <2>1. loop # "exit"
    BY <1>9 DEF CloseBegins, Inv, Exited, Up, Closing
  <2> QED
    BY <1>9, <2>1, Zenon DEF CloseBegins, Inv, TypeOK, Stamped, Unambiguous, Clean, Kept,
                      Exited, Ahead, ClosedExact, Up, Closing, OneNode
<1>10. CASE CloseWakeCh
  BY <1>10 DEF CloseWakeCh, Inv, TypeOK, Stamped, Unambiguous, Clean, Kept, Exited,
               Ahead, ClosedExact, Up, Closing, OneNode
<1>11. CASE CloseReturns
  <2>1. ~failed => Loaded(file) = Kept
    BY <1>11 DEF CloseReturns, Inv, Exited, Clean, Up
  <2> QED
    BY <1>11, <2>1 DEF CloseReturns, Inv, TypeOK, Stamped, Unambiguous, Clean, Kept,
                       Exited, Ahead, ClosedExact, Up, Closing, OneNode
<1>12. CASE NewFileCursorStore
  BY <1>12, RestartStep
<1>13. CASE Crash
  BY <1>13 DEF Crash, Inv, TypeOK, Stamped, Unambiguous, Clean, Kept, Exited,
               Ahead, ClosedExact, Up, Closing, OneNode
<1>14. CASE UNCHANGED vars
  BY <1>14 DEF vars, Inv, TypeOK, Stamped, Unambiguous, Clean, Kept, Exited,
               Ahead, ClosedExact, Up, Closing, OneNode
<1> QED
  BY <1>1, <1>2, <1>3, <1>4, <1>5, <1>6, <1>7, <1>8, <1>9, <1>10, <1>11, <1>12,
     <1>13, <1>14 DEF Next, Flusher

(* The first start finds no file and nothing in memory.                    *)
LEMMA InvStart == Init => Inv /\ Loaded(file) = [k \in Own |-> NoCursor]
<1> SUFFICES ASSUME Init
             PROVE  Inv /\ Loaded(file) = [k \in Own |-> NoCursor]
  OBVIOUS
<1>1. Loaded(file) = [k \in Own |-> NoCursor]
  BY DEF Init, Loaded
<1>2. Kept = [k \in Own |-> NoCursor]
  BY SlotFacts DEF Init, Kept
<1>3. TypeOK
  <2>1. data \in [Slots -> Cursor \cup {NoCursor}] /\ saver \in [Keys -> {"idle", "wake"}]
    BY DEF Init
  <2>2. lives \in 0..MaxLives
    BY CursorStoreConstants DEF Init
  <2>3. file \subseteq [agent : {k.agent : k \in Keys}, cursor : Cursor]
    BY DEF Init
  <2> QED
    BY <2>1, <2>2, <2>3, Zenon DEF Init, TypeOK
<1> QED
  BY <1>1, <1>2, <1>3 DEF Init, Inv, Stamped, Unambiguous, Clean, Exited, Ahead,
                          ClosedExact, Up

(* Every reachable state satisfies the invariant.                          *)
THEOREM Invariance == Spec => []Inv
BY InvStart, InvStep, PTL DEF Spec

(* Every variable of the cursor store keeps its type.                      *)
THEOREM TypeCorrect == Spec => []TypeOK
<1>1. Inv => TypeOK
  BY DEF Inv
<1> QED
  BY <1>1, Invariance, PTL

(* A store that was closed and whose last write did not fail is read back  *)
(* as it was, however Close raced the ticker, a wake token and a flush.    *)
THEOREM ClosesExactly == Spec => []ClosedExact
<1>1. Inv => ClosedExact
  BY DEF Inv
<1> QED
  BY <1>1, Invariance, PTL

-----------------------------------------------------------------------------
(* The file, step by step.                                                 *)

(* The file changes in no other way than by a flush of a running process.  *)
LEMMA FileStep ==
  ASSUME Inv, [Next]_vars
  PROVE  \/ file' = file
         \/ Up /\ Up' /\ dirty /\ ~dirty' /\ data' = data /\ Loaded(file') = Kept
<1>1. CASE LoopClosed \/ LoopCheck \/ LoopFlush \/ RunFlushes
  <2>1. CASE ~Flush
    BY <1>1, <2>1 DEF LoopClosed, LoopCheck, LoopFlush, RunFlushes
  <2>2. CASE Flush
    <3>1. Up /\ Up' /\ data' = data
      BY <1>1 DEF LoopClosed, LoopCheck, LoopFlush, RunFlushes, Up
    <3> QED
      BY <2>2, <3>1, FlushFacts
  <2> QED
    BY <2>1, <2>2
<1>2. CASE ~(LoopClosed \/ LoopCheck \/ LoopFlush \/ RunFlushes)
  BY <1>2 DEF Next, vars, Flusher, Save, SaveWakes, LoopTick, LoopWoken, CloseBegins,
              CloseWakeCh, CloseReturns, NewFileCursorStore, Crash
<1> QED
  BY <1>1, <1>2

(* The cursor on disk never moves back while the agents keep their node.   *)
THEOREM NeverBack == Spec => DiskMonotonic
<1> DEFINE Moves ==
      \A k \in Own : OneNode /\ Loaded(file)[k] # NoCursor =>
        /\ Loaded(file)'[k] # NoCursor
        /\ Loaded(file)'[k].seq >= Loaded(file)[k].seq
<1>1. ASSUME Inv, [Next]_vars
      PROVE  Moves
  <2> SUFFICES ASSUME NEW k \in Own, OneNode, Loaded(file)[k] # NoCursor
               PROVE  /\ Loaded(file)'[k] # NoCursor
                      /\ Loaded(file)'[k].seq >= Loaded(file)[k].seq
    OBVIOUS
  <2>1. Loaded(file)' = Loaded(file')
    BY DEF Loaded, Matches
  <2>2. CASE file' = file
    <3>1. \E e \in file : Loaded(file)[k] = e.cursor
      BY Zenon DEF Loaded
    <3>2. Loaded(file)[k] \in Cursor
      BY <1>1, <3>1 DEF Inv, TypeOK
    <3>3. Loaded(file)[k].seq \in Nat
      BY <3>2, CursorFacts
    <3> QED
      BY <2>1, <2>2, <3>3
  <2>3. CASE Up /\ Loaded(file') = Kept
    <3>1. Loaded(file')[k] = data[k]
      BY <2>3 DEF Kept
    <3> QED
      BY <1>1, <2>1, <2>3, <3>1 DEF Inv, Ahead
  <2> QED
    BY <1>1, <2>2, <2>3, FileStep
<1>2. Inv /\ [Next]_vars => [Moves]_vars
  BY <1>1
<1> QED
  BY <1>2, Invariance, PTL DEF Spec, DiskMonotonic

-----------------------------------------------------------------------------
(* The store implements Cursors.                                           *)

Mem == IF Up THEN Kept ELSE Loaded(file)

(* A Save is one of an own key, of another key, or is refused.             *)
LEMMA SaveMaps ==
  ASSUME Inv, NEW k \in Keys, Save(k)
  PROVE  [Abstract!SaveOne]_<<Mem, Up /\ dirty, Loaded(file)>>
<1>1. Up /\ Up' /\ Mem = Kept /\ Mem' = Kept' /\ Loaded(file)' = Loaded(file)
  BY DEF Save, Up, Mem, Loaded, Matches
<1>2. PICK c \in CursorOf(k) :
        IF Accepted(k, c)
        THEN data' = [data EXCEPT ![k] = c] /\ dirty' = TRUE
        ELSE UNCHANGED <<data, dirty>>
  BY DEF Save
<1>3. data \in [Slots -> Cursor \cup {NoCursor}] /\ c \in Cursor
  BY DEF Inv, TypeOK, Cursor
<1>4. CASE ~Accepted(k, c)
  BY <1>1, <1>2, <1>4 DEF Kept
<1>5. CASE Accepted(k, c) /\ k \in Own
  <2>1. Kept' = [Kept EXCEPT ![k] = c]
    BY <1>2, <1>3, <1>5, SlotFacts, Zenon DEF Kept
  <2> QED
    BY <1>1, <1>2, <1>3, <1>5, <2>1, Zenon DEF Abstract!SaveOne, Mem
<1>6. CASE Accepted(k, c) /\ k \notin Own
  <2>1. Kept' = Kept
    BY <1>2, <1>3, <1>6, SlotFacts DEF Kept
  <2> QED
    BY <1>1, <1>2, <1>6, <2>1 DEF Abstract!SaveOne, Mem
<1> QED
  BY <1>4, <1>5, <1>6

(* Every other step is a copy, the end or the start of a process, or       *)
(* nothing.                                                                *)
LEMMA StepMaps ==
  ASSUME Inv, [Next]_vars
  PROVE  [Abstract!SaveOne \/ Abstract!CopyAll \/ Abstract!Restart]_
           <<Mem, Up /\ dirty, Loaded(file)>>
<1>1. Loaded(file)' = Loaded(file')
  BY DEF Loaded, Matches
<1>2. CASE \E k \in Keys : Save(k)
  BY <1>2, SaveMaps
<1>3. CASE file' # file
  <2>1. Up /\ Up' /\ dirty /\ ~dirty' /\ data' = data /\ Loaded(file') = Kept
    BY <1>3, FileStep
  <2>2. Mem = Kept /\ Mem' = Kept
    BY <2>1 DEF Mem, Kept
  <2>3. (Up /\ dirty) = TRUE /\ (Up /\ dirty)' = FALSE
    BY <2>1
  <2> QED
    BY <1>1, <2>1, <2>2, <2>3 DEF Abstract!CopyAll, Mem
<1>4. CASE file' = file /\ (CloseReturns \/ Crash)
  <2>1. Loaded(file)' = Loaded(file) /\ ~Up'
    BY <1>1, <1>4 DEF CloseReturns, Crash, Up
  <2>2. Mem' = Loaded(file) /\ (Up /\ dirty)' = FALSE
    BY <2>1 DEF Mem
  <2> QED
    BY <2>1, <2>2 DEF Abstract!Restart
<1>5. CASE file' = file /\ NewFileCursorStore
  <2>1. ~Up /\ Up' /\ dirty' = FALSE /\ Kept' = Loaded(file)
    BY <1>5, RestartStep, Zenon DEF NewFileCursorStore, Up
  <2> QED
    BY <1>1, <1>5, <2>1 DEF Mem
<1>6. CASE /\ file' = file
           /\ ~(\E k \in Keys : Save(k))
           /\ ~(CloseReturns \/ Crash \/ NewFileCursorStore)
  <2>1. data' = data /\ Up' = Up
    BY <1>6 DEF Next, vars, Flusher, SaveWakes, LoopTick, LoopWoken, LoopClosed,
                LoopCheck, LoopFlush, RunFlushes, CloseBegins, CloseWakeCh, Up
  <2>2. dirty' = dirty \/ (dirty /\ ~dirty' /\ Up /\ Loaded(file') = Kept)
    <3>1. CASE Flush /\ Up
      <4>1. dirty' \in BOOLEAN /\ (~dirty' => Loaded(file') = Kept)
        BY <2>1, <3>1, FlushFacts
      <4>2. dirty' = dirty \/ (dirty /\ dirty' = FALSE)
        BY <3>1 DEF Flush
      <4> QED
        BY <3>1, <4>1, <4>2
    <3>2. CASE ~(Flush /\ Up)
      BY <1>6, <3>2
         DEF Next, vars, Flusher, SaveWakes, LoopTick, LoopWoken, LoopClosed,
             LoopCheck, LoopFlush, RunFlushes, CloseBegins, CloseWakeCh, Up
    <3> QED
      BY <3>1, <3>2
  <2>3. Mem' = Mem /\ Loaded(file)' = Loaded(file)
    BY <1>1, <1>6, <2>1 DEF Mem, Kept
  <2>4. CASE dirty' = dirty
    BY <2>1, <2>3, <2>4
  <2>5. CASE dirty /\ ~dirty' /\ Up /\ Loaded(file') = Kept
    <3>1. Mem = Kept /\ (Up /\ dirty) = TRUE /\ (Up /\ dirty)' = FALSE
      BY <2>1, <2>5 DEF Mem
    <3> QED
      BY <1>1, <2>3, <2>5, <3>1 DEF Abstract!CopyAll, Mem
  <2> QED
    BY <2>2, <2>4, <2>5
<1> QED
  BY <1>2, <1>3, <1>4, <1>5, <1>6

(* The cursor store implements the abstract one: what is on disk is always *)
(* a whole copy of the cursors, and a restart gives the last copy back.    *)
THEOREM Keeping == Spec => KeepsCursors
<1>1. Init => Abstract!Start
  BY InvStart DEF Init, Up, Abstract!Start
<1>2. Inv /\ [Next]_vars
      => [Abstract!SaveOne \/ Abstract!CopyAll \/ Abstract!Restart]_
           <<IF Up THEN Kept ELSE Loaded(file), Up /\ dirty, Loaded(file)>>
  BY StepMaps DEF Mem
<1> QED
  BY <1>1, <1>2, Invariance, PTL DEF Spec, KeepsCursors, Abstract!Store
=============================================================================
