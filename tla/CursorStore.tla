---------------------------- MODULE CursorStore ----------------------------
(***************************************************************************)
(* fileCursorStore: the in-memory map of resume cursors, the background    *)
(* flusher with its ticker and single-slot wake channel, and Close.  Save, *)
(* the flusher's check and each flush hold the mutex and are one step      *)
(* each; a Save wakes the flusher after it released the mutex.  A flush    *)
(* writes a temporary file that nothing reads and takes effect when it     *)
(* renames it: a process that dies in a flush dies before or after that.   *)
(*                                                                         *)
(* On disk a cursor is kept with its agent and the stream it names itself; *)
(* a key is rebuilt from these two.  Stamp is the stream name an agent     *)
(* puts into the cursors of a key; where it is not the key's own, the      *)
(* cursor comes back under another key, and stays there.                   *)
(***************************************************************************)
EXTENDS Integers, FiniteSets

CONSTANTS
  Keys,        \* [agent, stream] pairs
  Stamp,       \* key -> the stream its agent's cursors name
  Nodes,       \* node ids the agents' cursors name
  NoCursor,    \* Load's nil
  WriteFails,  \* whether writing the file may fail
  MaxSeq,      \* bound: seqs
  MaxLives     \* bound: times the process is started

ASSUME CursorStoreConstants ==
  /\ \A k \in Keys : k = [agent |-> k.agent, stream |-> k.stream]
  /\ WriteFails \in BOOLEAN /\ MaxSeq \in Nat /\ MaxLives \in Nat

ASSUME NilAssumption ==
  \A k \in Keys : NoCursor \notin [node : Nodes, stream : {Stamp[k]}, seq : 1..MaxSeq]

VARIABLES
  phase,    \* "down", "run", "flushed" (Run returned), "close" (closing is set),
            \* "closed" (wakeCh is closed)
  data,     \* fileCursorStore.data
  dirty,    \* fileCursorStore.dirty
  wake,     \* a token is in wakeCh
  saver,    \* per key: "idle", "wake" (Save between unlock and wake)
  loop,     \* flusher: "select", "check", "flush", "exit"
  file,     \* entries of the cursor file
  lives,    \* times the process was started
  failed    \* history: the last flush, since Close began if it did, failed

vars == <<phase, data, dirty, wake, saver, loop, file, lives, failed>>

Up == phase # "down"
Closing == phase \in {"close", "closed"}
CursorOf(k) == [node : Nodes, stream : {Stamp[k]}, seq : 1..MaxSeq]
Cursor == UNION {CursorOf(k) : k \in Keys}

(* The keys data may have: those saved, and those a reload makes of them.  *)
Slots == Keys \cup {[agent |-> k.agent, stream |-> Stamp[k]] : k \in Keys}

-----------------------------------------------------------------------------
(* The file.                                                               *)

Entries(d) == {[agent |-> k.agent, cursor |-> d[k]] : k \in {j \in Slots : d[j] # NoCursor}}

(* Fault: the entry of any stream of the agent is taken.                   *)
BugMatches(e, k) == e.agent = k.agent

Matches(e, k) == e.agent = k.agent /\ e.cursor.stream = k.stream

(* loadFromDisk: the last matching entry wins, in the order of the file.   *)
Loads(f, d) ==
  /\ d \in [Slots -> {e.cursor : e \in f} \cup {NoCursor}]
  /\ \A k \in Slots :
       IF \E e \in f : Matches(e, k)
       THEN \E e \in f : Matches(e, k) /\ d[k] = e.cursor
       ELSE d[k] = NoCursor

(* The keys whose cursors name them, and that no other key's name.         *)
Own == {k \in Keys : \A j \in Keys : j.agent = k.agent => (Stamp[j] = k.stream <=> j = k)}

(* What the file gives back for them.                                      *)
Loaded(f) == [k \in Own |->
  IF \E e \in f : Matches(e, k)
  THEN (CHOOSE e \in f : Matches(e, k)).cursor ELSE NoCursor]

(* Fault: a failed write leaves the store clean.                           *)
BugFlush ==
  \/ /\ ~dirty /\ UNCHANGED <<file, dirty, failed>>
  \/ /\ dirty /\ file' = Entries(data) /\ dirty' = FALSE /\ failed' = FALSE
  \/ /\ dirty /\ WriteFails /\ failed' = TRUE /\ dirty' = FALSE /\ UNCHANGED file

(* flushLockedBare.                                                        *)
Flush ==
  \/ /\ ~dirty /\ UNCHANGED <<file, dirty, failed>>
  \/ /\ dirty /\ file' = Entries(data) /\ dirty' = FALSE /\ failed' = FALSE
  \/ /\ dirty /\ WriteFails /\ failed' = TRUE /\ UNCHANGED <<file, dirty>>

-----------------------------------------------------------------------------
(* Save, by the one stream loop of a key.                                  *)

(* Fault: no guard.                                                        *)
BugAccepted(k, c) == TRUE

(* The monotonic guard.                                                    *)
Accepted(k, c) ==
  data[k] = NoCursor \/ c.seq >= data[k].seq \/ c.node # data[k].node

Save(k) ==
  /\ phase = "run" /\ saver[k] = "idle"
  /\ \E c \in CursorOf(k) :
       IF Accepted(k, c)
       THEN /\ data' = [data EXCEPT ![k] = c]
            /\ dirty' = TRUE
            /\ saver' = [saver EXCEPT ![k] = "wake"]
       ELSE UNCHANGED <<data, dirty, saver>>
  /\ UNCHANGED <<phase, wake, loop, file, lives, failed>>

SaveWakes(k) ==
  /\ saver[k] = "wake"
  /\ saver' = [saver EXCEPT ![k] = "idle"]
  /\ wake' = TRUE
  /\ UNCHANGED <<phase, data, dirty, loop, file, lives, failed>>

-----------------------------------------------------------------------------
(* loop.  The ticker may fire at any time.                                 *)

LoopTick ==
  /\ Up /\ loop = "select" /\ loop' = "check"
  /\ UNCHANGED <<phase, data, dirty, wake, saver, file, lives, failed>>

LoopWoken ==
  /\ Up /\ loop = "select" /\ wake
  /\ wake' = FALSE /\ loop' = "check"
  /\ UNCHANGED <<phase, data, dirty, saver, file, lives, failed>>

(* wakeCh is closed and empty: flush and return.                           *)
LoopClosed ==
  /\ phase = "closed" /\ loop = "select" /\ ~wake
  /\ Flush /\ loop' = "exit"
  /\ UNCHANGED <<phase, data, wake, saver, lives>>

(* Fault: the flusher returns without a last flush.                        *)
BugLoopCheck ==
  /\ Up /\ loop = "check"
  /\ loop' = IF Closing THEN "exit" ELSE "flush"
  /\ UNCHANGED <<phase, data, dirty, wake, saver, file, lives, failed>>

(* Fault: the flusher does not look at closing.                            *)
BugLoopCheckOpen ==
  /\ Up /\ loop = "check" /\ loop' = "flush"
  /\ UNCHANGED <<phase, data, dirty, wake, saver, file, lives, failed>>

LoopCheck ==
  /\ Up /\ loop = "check"
  /\ IF Closing
     THEN Flush /\ loop' = "exit"
     ELSE loop' = "flush" /\ UNCHANGED <<dirty, file, failed>>
  /\ UNCHANGED <<phase, data, wake, saver, lives>>

LoopFlush ==
  /\ Up /\ loop = "flush" /\ loop' = "select"
  /\ Flush
  /\ UNCHANGED <<phase, data, wake, saver, lives>>

-----------------------------------------------------------------------------
(* The end of Run, Close, and the process.                                 *)

(* Run flushes once its stream loops returned, so that no Save is under    *)
(* way.                                                                    *)
RunFlushes ==
  /\ phase = "run" /\ \A k \in Keys : saver[k] = "idle"
  /\ phase' = "flushed" /\ Flush
  /\ UNCHANGED <<data, wake, saver, loop, lives>>

CloseBegins ==
  /\ phase = "flushed" /\ phase' = "close"
  /\ failed' = FALSE
  /\ UNCHANGED <<data, dirty, wake, saver, loop, file, lives>>

CloseWakeCh ==
  /\ phase = "close" /\ phase' = "closed"
  /\ UNCHANGED <<data, dirty, wake, saver, loop, file, lives, failed>>

(* <-doneCh, and the process exits.                                        *)
CloseReturns ==
  /\ phase = "closed" /\ loop = "exit"
  /\ phase' = "down"
  /\ UNCHANGED <<data, dirty, wake, saver, loop, file, lives, failed>>

NewFileCursorStore ==
  /\ phase = "down" /\ lives < MaxLives
  /\ phase' = "run" /\ lives' = lives + 1
  /\ Loads(file, data') /\ dirty' = FALSE
  /\ wake' = FALSE /\ loop' = "select"
  /\ saver' = [k \in Keys |-> "idle"]
  /\ failed' = FALSE
  /\ UNCHANGED file

(* The process dies.  failed says that memory and disk need not agree.     *)
Crash ==
  /\ Up /\ phase' = "down"
  /\ loop' = "exit" /\ failed' = TRUE
  /\ UNCHANGED <<data, dirty, wake, saver, file, lives>>

Init ==
  /\ phase = "down" /\ lives = 0
  /\ data = [k \in Slots |-> NoCursor] /\ dirty = FALSE
  /\ wake = FALSE /\ saver = [k \in Keys |-> "idle"] /\ loop = "exit"
  /\ file = {} /\ failed = FALSE

Flusher == LoopTick \/ LoopWoken \/ LoopClosed \/ LoopCheck \/ LoopFlush

Next ==
  \/ \E k \in Keys : Save(k) \/ SaveWakes(k)
  \/ Flusher
  \/ RunFlushes
  \/ CloseBegins
  \/ CloseWakeCh
  \/ CloseReturns
  \/ NewFileCursorStore
  \/ Crash

Spec == Init /\ [][Next]_vars

(* Goroutines run, the ticker ticks, and a write that is repeated succeeds *)
(* in the end.                                                             *)
Fairness ==
  /\ \A k \in Keys : WF_vars(SaveWakes(k))
  /\ WF_vars(Flusher) /\ SF_vars(LoopFlush /\ dirty /\ ~dirty')
  /\ WF_vars(CloseWakeCh) /\ WF_vars(CloseReturns)

FairSpec == Spec /\ Fairness

-----------------------------------------------------------------------------
(* Properties.                                                             *)

(* Every variable has its type.                                            *)
TypeOK ==
  /\ phase \in {"down", "run", "flushed", "close", "closed"}
  /\ data \in [Slots -> Cursor \cup {NoCursor}]
  /\ dirty \in BOOLEAN /\ wake \in BOOLEAN /\ failed \in BOOLEAN
  /\ saver \in [Keys -> {"idle", "wake"}]
  /\ loop \in {"select", "check", "flush", "exit"}
  /\ file \subseteq [agent : {k.agent : k \in Keys}, cursor : Cursor]
  /\ lives \in 0..MaxLives

(* The cursors in memory of the keys that come back under themselves.      *)
Kept == [k \in Own |-> data[k]]

(* A process that closed its store restarts with exactly the cursors it    *)
(* had, unless the last write failed: the flusher writes what Run could    *)
(* not before it returns, whichever of the ticker, the wake token and the  *)
(* closed channel it sees first.  Keys that stamp another stream name      *)
(* disturb only those that carry it.                                       *)
ClosedExact == phase = "down" /\ ~failed => Loaded(file) = Kept

OneNode == \A m, n \in Nodes : m = n

(* The cursor on disk never moves back within one node's numbering, over   *)
(* failed writes, crashes and restarts.                                    *)
DiskMonotonic ==
  [][\A k \in Own : OneNode /\ Loaded(file)[k] # NoCursor =>
       /\ Loaded(file)'[k] # NoCursor
       /\ Loaded(file)'[k].seq >= Loaded(file)[k].seq]_vars

Abstract == INSTANCE Cursors WITH
  Keys <- Own,
  mem  <- IF Up THEN Kept ELSE Loaded(file),
  dirty <- Up /\ dirty,
  copy <- Loaded(file)

(* The store implements the abstract one: the file is always a whole copy  *)
(* of the cursors at some time, and a restart gives exactly it back.       *)
KeepsCursors == Abstract!Store

(* While the process runs, what was saved reaches the disk, also when      *)
(* writes fail for a while.                                                *)
EventuallyOnDisk == []<>(phase # "run" \/ Loaded(file) = Kept)

(* Close returns.                                                          *)
CloseCompletes == (phase = "close") ~> (phase = "down")
=============================================================================
