------------------------------- MODULE FanIn -------------------------------
(***************************************************************************)
(* The fan-in path of one aggregator process and its successors: one       *)
(* streamLoop goroutine per (agent, stream) pair receives envelopes, saves *)
(* the resume cursor and offers the envelope to the merge channel; the     *)
(* writer drains the channel; the cursor store is flushed in the           *)
(* background.  Run's shutdown order (cancel, wait for the stream loops,   *)
(* close the channel, wait for the writer, flush the cursors) is modelled  *)
(* step by step, as are crashes and restarts.                              *)
(*                                                                         *)
(* The agents are external: an agent numbers the envelopes of a stream     *)
(* 1, 2, ..., serves a Subscribe with a cursor from the next one, without  *)
(* one from its live tail, and rejects a cursor older than what it keeps.  *)
(***************************************************************************)
EXTENDS Integers, Sequences, FiniteSets

CONSTANTS
  Pairs,       \* the (agent, stream) pairs subscribed to
  QueueDepth,  \* Config.QueueDepth: capacity of the merge channel
  Retain,      \* envelopes an agent keeps for replay
  MaxSeq,      \* bound: envelopes per pair
  MaxLives,    \* bound: times the process is started
  Crashes      \* whether the process may die without shutting down

ASSUME FanInConstants ==
  /\ QueueDepth \in Nat \ {0} /\ Retain \in Nat
  /\ MaxSeq \in Nat /\ MaxLives \in Nat /\ Crashes \in BOOLEAN

VARIABLES
  produced,  \* last seq of each agent's stream
  phase,     \* "down", "run", "stop" (ctx cancelled), "drain" (channel closed)
  loop,      \* per pair: the streamLoop goroutine
  pos,       \* per pair: last seq the agent sent on the open stream
  queue,     \* Aggregator.ch
  data,      \* cursor store: in memory, 0 when there is no entry
  dirty,     \* cursor store: something to flush
  file,      \* cursor store: on disk
  lives,     \* times the process was started
  emitted,   \* history: seqs the writer emitted or folded, over all lives
  dropped,   \* history: seqs dropped on a full channel, over all lives
  lost,      \* history: seqs in the channel or in hand when a process died
  since      \* history: live tail at the last attach without a cursor

vars == <<produced, phase, loop, pos, queue, data, dirty, file, lives,
          emitted, dropped, lost, since>>
agents  == <<produced>>
cursors == <<data, dirty, file>>
history == <<emitted, dropped, lost, since>>

Up == phase # "down"
Item == [pair : Pairs, seq : Nat]

-----------------------------------------------------------------------------
(* streamLoop and subscribeOnce.                                           *)

Ctx == phase = "run"     \* ctx.Err() == nil

Goto(p, from, to) == loop[p] = from /\ loop' = [loop EXCEPT ![p] = to]

(* The agent no longer holds the envelope after the cursor.                *)
CursorExpired(p) == data[p] # 0 /\ data[p] < produced[p] - Retain

(* Subscribe with the saved cursor; without one, from the live tail.       *)
Attach(p) ==
  /\ Ctx /\ Goto(p, "dial", "recv")
  /\ ~CursorExpired(p)
  /\ pos' = [pos EXCEPT ![p] = IF data[p] = 0 THEN produced[p] ELSE data[p]]
  /\ IF data[p] = 0
     THEN since' = [since EXCEPT ![p] = produced[p]]
     ELSE UNCHANGED since
  /\ UNCHANGED <<agents, phase, queue, cursors, lives, emitted, dropped, lost>>

(* The dial fails or the agent answers FailedPrecondition.                 *)
AttachFails(p) ==
  /\ Ctx /\ Goto(p, "dial", "backoff")
  /\ UNCHANGED <<agents, phase, pos, queue, cursors, lives, history>>

(* stream.Recv returns the next envelope.                                  *)
Recv(p) ==
  /\ Up /\ Goto(p, "recv", "got")
  /\ pos[p] < produced[p]
  /\ pos' = [pos EXCEPT ![p] = @ + 1]
  /\ UNCHANGED <<agents, phase, queue, cursors, lives, history>>

(* Cursors.Save, before the envelope is offered to the channel.  The       *)
(* monotonic guard refuses a lower seq.                                    *)
Save(p) ==
  /\ Up /\ Goto(p, "got", "saved")
  /\ IF pos[p] < data[p]
     THEN UNCHANGED cursors
     ELSE /\ data' = [data EXCEPT ![p] = pos[p]]
          /\ dirty' = TRUE
          /\ UNCHANGED file
  /\ UNCHANGED <<agents, phase, pos, queue, lives, history>>

(* Fault: a dropped envelope is not counted.                               *)
BugForwardSilent(p) ==
  /\ Up /\ Goto(p, "saved", "recv")
  /\ queue' = IF Len(queue) < QueueDepth
              THEN Append(queue, [pair |-> p, seq |-> pos[p]]) ELSE queue
  /\ UNCHANGED <<agents, phase, pos, cursors, lives, history>>

(* The non-blocking send on the merge channel.                             *)
Forward(p) ==
  /\ Up /\ Goto(p, "saved", "recv")
  /\ IF Len(queue) < QueueDepth
     THEN /\ queue' = Append(queue, [pair |-> p, seq |-> pos[p]])
          /\ UNCHANGED dropped
     ELSE /\ dropped' = [dropped EXCEPT ![p] = @ \cup {pos[p]}]
          /\ UNCHANGED queue
  /\ UNCHANGED <<agents, phase, pos, cursors, lives, emitted, lost, since>>

(* Fault: a broken stream ends the loop.                                   *)
BugStreamError(p) ==
  /\ Ctx /\ Goto(p, "recv", "exit")
  /\ UNCHANGED <<agents, phase, pos, queue, cursors, lives, history>>

(* The stream breaks while ctx is live; back off, then subscribe again.    *)
StreamError(p) ==
  /\ Ctx /\ Goto(p, "recv", "backoff")
  /\ UNCHANGED <<agents, phase, pos, queue, cursors, lives, history>>

Retry(p) ==
  /\ Ctx /\ Goto(p, "backoff", "dial")
  /\ UNCHANGED <<agents, phase, pos, queue, cursors, lives, history>>

(* Fault: the back-off does not watch ctx.                                 *)
BugLoopReturns(p) ==
  /\ phase = "stop" /\ loop[p] \in {"dial", "recv"}
  /\ loop' = [loop EXCEPT ![p] = "exit"]
  /\ UNCHANGED <<agents, phase, pos, queue, cursors, lives, history>>

(* ctx is cancelled: Recv fails, the back-off is cut short, no new dial.   *)
LoopReturns(p) ==
  /\ phase = "stop" /\ loop[p] \in {"dial", "recv", "backoff"}
  /\ loop' = [loop EXCEPT ![p] = "exit"]
  /\ UNCHANGED <<agents, phase, pos, queue, cursors, lives, history>>

-----------------------------------------------------------------------------
(* writeLoop: one envelope emitted, or folded into the registry.           *)
Write ==
  /\ Up /\ queue # <<>>
  /\ queue' = Tail(queue)
  /\ emitted' = [emitted EXCEPT ![Head(queue).pair] = @ \cup {Head(queue).seq}]
  /\ UNCHANGED <<agents, phase, loop, pos, cursors, lives, dropped, lost, since>>

(* The background flusher; a failed write leaves the store dirty.          *)
Flush ==
  /\ Up /\ dirty
  /\ file' = data
  /\ dirty' = FALSE
  /\ UNCHANGED <<agents, phase, loop, pos, queue, data, lives, history>>

-----------------------------------------------------------------------------
(* Run and the process.                                                    *)

(* Fault: the file is not read back.                                       *)
BugStart ==
  /\ phase = "down" /\ lives < MaxLives
  /\ phase' = "run"
  /\ lives' = lives + 1
  /\ loop' = [p \in Pairs |-> "dial"]
  /\ data' = [p \in Pairs |-> 0] /\ dirty' = FALSE
  /\ UNCHANGED <<agents, pos, queue, file, history>>

Start ==
  /\ phase = "down" /\ lives < MaxLives
  /\ phase' = "run"
  /\ lives' = lives + 1
  /\ loop' = [p \in Pairs |-> "dial"]
  /\ data' = file /\ dirty' = FALSE
  /\ UNCHANGED <<agents, pos, queue, file, history>>

(* SIGTERM cancels ctx.                                                    *)
Cancel ==
  /\ phase = "run" /\ phase' = "stop"
  /\ UNCHANGED <<agents, loop, pos, queue, cursors, lives, history>>

(* agentWg.Wait, then close(a.ch).                                         *)
AllLoopsReturned == \A p \in Pairs : loop[p] = "exit"

CloseChannel ==
  /\ phase = "stop" /\ AllLoopsReturned
  /\ phase' = "drain"
  /\ UNCHANGED <<agents, loop, pos, queue, cursors, lives, history>>

(* Fault: the cursors are flushed without waiting for the writer.          *)
BugFinish ==
  /\ phase = "drain"
  /\ phase' = "down"
  /\ queue' = <<>>
  /\ file' \in {data, file}
  /\ UNCHANGED <<agents, loop, pos, data, dirty, lives, history>>

(* writerWg.Wait, Cursors.Flush, Cursors.Close, exit.  The flush may fail. *)
Finish ==
  /\ phase = "drain" /\ queue = <<>>
  /\ phase' = "down"
  /\ file' \in {data, file}
  /\ UNCHANGED <<agents, loop, pos, queue, data, dirty, lives, history>>

Queued(p) == {queue[i].seq : i \in {j \in DOMAIN queue : queue[j].pair = p}}

InHand(p) == IF loop[p] \in {"got", "saved"} THEN {pos[p]} ELSE {}

Crash ==
  /\ Crashes /\ Up
  /\ phase' = "down"
  /\ queue' = <<>>
  /\ loop' = [p \in Pairs |-> "exit"]
  /\ lost' = [p \in Pairs |-> lost[p] \cup Queued(p) \cup InHand(p)]
  /\ UNCHANGED <<agents, pos, cursors, lives, emitted, dropped, since>>

Produce(p) ==
  /\ produced[p] < MaxSeq
  /\ produced' = [produced EXCEPT ![p] = @ + 1]
  /\ UNCHANGED <<phase, loop, pos, queue, cursors, lives, history>>

-----------------------------------------------------------------------------
Init ==
  /\ produced = [p \in Pairs |-> 0]
  /\ phase = "down"
  /\ loop = [p \in Pairs |-> "exit"]
  /\ pos = [p \in Pairs |-> 0]
  /\ queue = <<>>
  /\ data = [p \in Pairs |-> 0] /\ dirty = FALSE
  /\ file = [p \in Pairs |-> 0]
  /\ lives = 0
  /\ emitted = [p \in Pairs |-> {}] /\ dropped = [p \in Pairs |-> {}]
  /\ lost = [p \in Pairs |-> {}]
  /\ since = [p \in Pairs |-> 0]

StreamLoop(p) ==
  \/ Attach(p)
  \/ AttachFails(p)
  \/ Recv(p)
  \/ Save(p)
  \/ Forward(p)
  \/ StreamError(p)
  \/ Retry(p)
  \/ LoopReturns(p)

Next ==
  \/ \E p \in Pairs : StreamLoop(p)
  \/ Write
  \/ Flush
  \/ Start
  \/ Cancel
  \/ CloseChannel
  \/ Finish
  \/ Crash
  \/ \E p \in Pairs : Produce(p)

Spec == Init /\ [][Next]_vars

(* Goroutines that can run do; an agent's stream delivers what it has, and *)
(* a dial that keeps being tried against an agent willing to serve it      *)
(* succeeds in the end.  Nothing forces errors, signals, crashes or a      *)
(* start.                                                                  *)
Fairness ==
  /\ \A p \in Pairs :
       /\ SF_vars(Attach(p)) /\ WF_vars(Attach(p) \/ AttachFails(p))
       /\ SF_vars(Recv(p)) /\ WF_vars(Save(p)) /\ WF_vars(Forward(p))
       /\ WF_vars(Retry(p)) /\ WF_vars(LoopReturns(p))
  /\ WF_vars(Write) /\ WF_vars(Flush)
  /\ WF_vars(CloseChannel) /\ WF_vars(Finish)

FairSpec == Spec /\ Fairness

-----------------------------------------------------------------------------
(* Properties.                                                             *)

(* Every variable has its type, and the merge channel keeps within the     *)
(* capacity New gave it.                                                   *)
TypeOK ==
  /\ produced \in [Pairs -> Nat]
  /\ phase \in {"down", "run", "stop", "drain"}
  /\ loop \in [Pairs -> {"dial", "recv", "got", "saved", "backoff", "exit"}]
  /\ pos \in [Pairs -> Nat]
  /\ queue \in Seq(Item) /\ Len(queue) <= QueueDepth
  /\ data \in [Pairs -> Nat] /\ dirty \in BOOLEAN /\ file \in [Pairs -> Nat]
  /\ lives \in Nat
  /\ emitted \in [Pairs -> SUBSET Nat] /\ dropped \in [Pairs -> SUBSET Nat]
  /\ lost \in [Pairs -> SUBSET Nat]
  /\ since \in [Pairs -> Nat]

Accounted(p, s) == s \in emitted[p] \cup dropped[p] \cup Queued(p) \cup InHand(p)

(* Every envelope up to the saved cursor, counted from the live tail the   *)
(* pair last attached at, was emitted, is on its way, was counted as       *)
(* dropped, or was in the channel or in hand when a process died: neither  *)
(* reconnects nor restarts skip one, and a crash costs no more than that.  *)
CursorAccounted ==
  \A p \in Pairs : \A s \in 1..MaxSeq :
    since[p] < s /\ s <= data[p] => Accounted(p, s) \/ s \in lost[p]

(* A process that stopped by itself left nothing in the channel: no        *)
(* envelope up to the file's cursor is unwritten but those that were in    *)
(* the channel or in hand when an earlier process, or this one, crashed.   *)
StoppedClean ==
  phase = "down" => \A p \in Pairs : \A s \in 1..MaxSeq :
    since[p] < s /\ s <= file[p] => s \in emitted[p] \cup dropped[p] \cup lost[p]

(* A pair whose cursor ever reached the disk is never attached at the live *)
(* tail again, whatever restarts, crashes and refusals follow: the backlog *)
(* of an agent is skipped on "first attach" only.                          *)
ResumesFromDisk == [][\A p \in Pairs : file[p] # 0 => since'[p] = since[p]]_vars

(* Once cancelled, Run returns.                                            *)
ShutdownCompletes == (phase = "stop") ~> (phase = "down")

(* While the process stays up, what a pair with a saved cursor has not yet *)
(* seen is received and emitted, or counted as dropped, however often the  *)
(* stream breaks: streamLoop reconnects "re-supplying the last-saved       *)
(* cursor so the agent's WAL replay resumes precisely".  The one way out   *)
(* is a cursor older than what the agent keeps: it is supplied again and   *)
(* refused again.                                                          *)
EventuallyHandled ==
  \A p \in Pairs : \A s \in 1..MaxSeq :
    (Ctx /\ 0 < data[p] /\ data[p] < s /\ s <= produced[p])
      ~> (s \in emitted[p] \cup dropped[p] \/ ~Ctx \/ CursorExpired(p))
=============================================================================
