------------------------------- MODULE Writer -------------------------------
(***************************************************************************)
(* The writer goroutine and the counters operators see: stream loops count *)
(* and queue what they receive; writeLoop folds control envelopes into the *)
(* registry, numbers and writes every other one, and lets the edge of a    *)
(* cross-node join follow its source; Stats, which Collect calls once per  *)
(* scrape, loads the counters one after the other while they move.         *)
(*                                                                         *)
(* What an envelope says is left out: it is "control" (an advertise or a   *)
(* withdraw), "exchange" (a NetworkExchange with a peer that the kernel    *)
(* did not attribute) or "plain".  What Join answers is the subject of     *)
(* ListenerRegistry and is any answer here; the WAL is its seq counter and *)
(* the ways an Append fails (see EnvWal and ReExport).                     *)
(***************************************************************************)
EXTENDS Integers, Sequences, FiniteSets

CONSTANTS
  Loops,       \* stream loops
  QueueDepth,  \* Config.QueueDepth
  Recovered,   \* seq the WAL resumed at
  MaxRecv,     \* bound: envelopes received
  MaxErrors    \* bound: stream errors

ASSUME WriterConstants ==
  /\ IsFiniteSet(Loops) /\ QueueDepth \in Nat \ {0} /\ Recovered \in Nat
  /\ MaxRecv \in Nat /\ MaxErrors \in Nat

Kinds    == {"control", "exchange", "plain"}
Counters == {"received", "written", "dropped", "errors", "walAppends",
             "walErrors", "xnodeJoins", "xnodeMisses", "vipJoins"}

VARIABLES
  phase,   \* "run", "stop" (ctx cancelled), "drain" (channel closed), "done"
  hand,    \* per stream loop: the envelope it holds, "none", or "exit"
  queue,   \* Aggregator.ch
  pc,      \* writeLoop: "idle", "number", "sink", "join", "vip"
  cur,     \* the envelope it is at: its kind, or "edge"
  walSeq,  \* WAL.seq, NoWal if Config.WAL is nil
  liveSeq, \* Aggregator.liveSeq
  cnt,     \* the atomic counters
  next,    \* Stats: counters still to load
  snap,    \* the ones it has loaded
  log,     \* history: what was numbered and broadcast, in order
  folded,  \* history: control envelopes consumed
  broken   \* history: stream errors

vars == <<phase, hand, queue, pc, cur, walSeq, liveSeq, cnt, next, snap,
          log, folded, broken>>
writer == <<pc, cur, walSeq, liveSeq, log, folded>>
stats  == <<next, snap>>

NoWal  == -1
HasWal == walSeq # NoWal

Count(c) == cnt' = [cnt EXCEPT ![c] = @ + 1]

-----------------------------------------------------------------------------
(* subscribeOnce and streamLoop.                                           *)

(* Recv returned an envelope: count it; Save is the subject of FanIn.      *)
Receive(l) ==
  /\ phase \in {"run", "stop"} /\ hand[l] = "none"
  /\ cnt["received"] < MaxRecv
  /\ Count("received")
  /\ \E k \in Kinds : hand' = [hand EXCEPT ![l] = k]
  /\ UNCHANGED <<phase, queue, writer, stats, broken>>

(* Fault: a dropped envelope is not counted.                               *)
BugForward(l) ==
  /\ hand[l] \in Kinds
  /\ hand' = [hand EXCEPT ![l] = "none"]
  /\ queue' = IF Len(queue) < QueueDepth THEN Append(queue, hand[l]) ELSE queue
  /\ UNCHANGED <<phase, cnt, writer, stats, broken>>

(* The non-blocking send.                                                  *)
Forward(l) ==
  /\ hand[l] \in Kinds
  /\ hand' = [hand EXCEPT ![l] = "none"]
  /\ \/ /\ Len(queue) < QueueDepth
        /\ queue' = Append(queue, hand[l])
        /\ UNCHANGED cnt
     \/ /\ Len(queue) >= QueueDepth
        /\ Count("dropped")
        /\ UNCHANGED queue
  /\ UNCHANGED <<phase, writer, stats, broken>>

(* The stream fails while ctx is live.                                     *)
StreamError(l) ==
  /\ phase = "run" /\ hand[l] = "none" /\ broken < MaxErrors
  /\ Count("errors")
  /\ broken' = broken + 1
  /\ UNCHANGED <<phase, hand, queue, writer, stats>>

LoopReturns(l) ==
  /\ phase = "stop" /\ hand[l] = "none"
  /\ hand' = [hand EXCEPT ![l] = "exit"]
  /\ UNCHANGED <<phase, queue, cnt, writer, stats, broken>>

-----------------------------------------------------------------------------
(* writeLoop.                                                              *)

(* foldAdvertise, foldWithdraw: consumed, whether or not it names a        *)
(* listener the registry takes.                                            *)
Fold ==
  /\ pc = "idle" /\ queue # <<>> /\ Head(queue) = "control"
  /\ queue' = Tail(queue)
  /\ folded' = folded + 1
  /\ UNCHANGED <<phase, hand, pc, cur, walSeq, liveSeq, cnt, log, stats, broken>>

Take ==
  /\ pc = "idle" /\ queue # <<>> /\ Head(queue) # "control"
  /\ queue' = Tail(queue)
  /\ cur' = Head(queue) /\ pc' = "number"
  /\ UNCHANGED <<phase, hand, walSeq, liveSeq, cnt, log, folded, stats, broken>>

(* Fault: a failed write gives its seq back.                               *)
BugSpent(failure) == walSeq

(* The seq a failed append leaves: spent, unless the envelope has no JSON  *)
(* form.                                                                   *)
Spent(failure) == IF failure = "write" THEN walSeq + 1 ELSE walSeq

(* emitEnvelope up to the broadcast: Append, or the in-memory counter when *)
(* it fails or there is no WAL.                                            *)
Record(s, failure) == log' = Append(log, [seq |-> s, env |-> cur, failure |-> failure])

Number ==
  /\ pc = "number" /\ pc' = "sink"
  /\ \/ /\ HasWal
        /\ walSeq' = walSeq + 1 /\ liveSeq' = walSeq + 1
        /\ Record(walSeq + 1, "no")
        /\ Count("walAppends")
     \/ /\ HasWal
        /\ \E failure \in {"write", "encode"} :
             /\ walSeq' = Spent(failure) /\ liveSeq' = liveSeq + 1
             /\ Record(liveSeq + 1, failure)
        /\ Count("walErrors")
     \/ /\ ~HasWal
        /\ liveSeq' = liveSeq + 1
        /\ Record(liveSeq + 1, "no")
        /\ UNCHANGED <<walSeq, cnt>>
  /\ UNCHANGED <<phase, hand, queue, cur, folded, stats, broken>>

AfterSink == IF cur = "exchange" THEN "join" ELSE "idle"

(* The NDJSON line: written, or the envelope or the agent's name cannot be *)
(* marshalled, or the write fails.                                         *)
Sink ==
  /\ pc = "sink" /\ pc' = AfterSink
  /\ Count("written") \/ Count("errors")
  /\ UNCHANGED <<phase, hand, queue, cur, walSeq, liveSeq, log, folded, stats, broken>>

JoinMiss ==
  /\ pc = "join" /\ pc' = "idle"
  /\ Count("xnodeMisses")
  /\ UNCHANGED <<phase, hand, queue, cur, walSeq, liveSeq, log, folded, stats, broken>>

(* Fault: the edge is put on the merge channel.                            *)
BugJoinHit ==
  /\ pc = "join" /\ pc' = "idle"
  /\ Count("xnodeJoins")
  /\ queue' = Append(queue, "edge")
  /\ UNCHANGED <<phase, hand, cur, walSeq, liveSeq, log, folded, stats, broken>>

(* A hit: the edge goes through emitEnvelope next...                       *)
JoinHit ==
  /\ pc = "join" /\ pc' \in {"number", "vip"} /\ cur' = "edge"
  /\ Count("xnodeJoins")
  /\ UNCHANGED <<phase, hand, queue, walSeq, liveSeq, log, folded, stats, broken>>

(* ... counted once more if the peer was a Service VIP.                    *)
JoinVip ==
  /\ pc = "vip" /\ pc' = "number"
  /\ Count("vipJoins")
  /\ UNCHANGED <<phase, hand, queue, cur, walSeq, liveSeq, log, folded, stats, broken>>

-----------------------------------------------------------------------------
(* Stats, in the order of its loads; Collect takes the result.  Of the     *)
(* counters it loads this follows the ones a snapshot can contradict       *)
(* itself in: what the writer counts twice for one emission.               *)

(* Fault: the WAL's counters are loaded before the lines written.          *)
BugOrder == <<"walAppends", "walErrors", "written">>

Order == <<"written", "walAppends", "walErrors">>

None == [c \in {} |-> 0]

Load ==
  /\ next <= Len(Order)
  /\ snap' = [c \in DOMAIN snap \cup {Order[next]} |->
                IF c = Order[next] THEN cnt[c] ELSE snap[c]]
  /\ next' = next + 1
  /\ UNCHANGED <<phase, hand, queue, cnt, writer, broken>>

Collect ==
  /\ next > Len(Order)
  /\ next' = 1 /\ snap' = None
  /\ UNCHANGED <<phase, hand, queue, cnt, writer, broken>>

-----------------------------------------------------------------------------
(* Run.                                                                    *)

Cancel ==
  /\ phase = "run" /\ phase' = "stop"
  /\ UNCHANGED <<hand, queue, cnt, writer, stats, broken>>

CloseChannel ==
  /\ phase = "stop" /\ \A l \in Loops : hand[l] = "exit"
  /\ phase' = "drain"
  /\ UNCHANGED <<hand, queue, cnt, writer, stats, broken>>

WriterReturns ==
  /\ phase = "drain" /\ pc = "idle" /\ queue = <<>>
  /\ phase' = "done"
  /\ UNCHANGED <<hand, queue, cnt, writer, stats, broken>>

Init ==
  /\ phase = "run"
  /\ hand = [l \in Loops |-> "none"] /\ queue = <<>>
  /\ pc = "idle" /\ cur = "plain"
  /\ walSeq \in {NoWal, Recovered} /\ liveSeq = 0
  /\ cnt = [c \in Counters |-> 0]
  /\ next = 1 /\ snap = None
  /\ log = <<>> /\ folded = 0 /\ broken = 0

StreamLoop(l) ==
  \/ Receive(l)
  \/ Forward(l)
  \/ StreamError(l)
  \/ LoopReturns(l)

Next ==
  \/ \E l \in Loops : StreamLoop(l)
  \/ Fold
  \/ Take
  \/ Number
  \/ Sink
  \/ JoinMiss
  \/ JoinHit
  \/ JoinVip
  \/ Load
  \/ Collect
  \/ Cancel
  \/ CloseChannel
  \/ WriterReturns

Spec == Init /\ [][Next]_vars

-----------------------------------------------------------------------------
(* Properties.                                                             *)

Emissions(kinds) == Cardinality({i \in DOMAIN log : log[i].env \in kinds})

(* When Run has returned the counters account for every envelope: one that *)
(* was received was dropped, folded or emitted as a source; every emission *)
(* was appended or counted as a WAL error, and none went unwritten unseen; *)
(* and every exchange was joined or missed, one edge per join.  A line     *)
(* that cannot be written shows in errors only, which its documentation    *)
(* has count stream errors: there it can be seen, but not told apart.      *)
CountersBalance ==
  phase = "done" =>
    /\ cnt["received"] = cnt["dropped"] + folded + Emissions({"exchange", "plain"})
    /\ HasWal => cnt["walAppends"] + cnt["walErrors"] = Len(log)
    /\ cnt["written"] <= Len(log) /\ Len(log) <= cnt["written"] + cnt["errors"]
    /\ cnt["xnodeJoins"] + cnt["xnodeMisses"] = Emissions({"exchange"})
    /\ cnt["xnodeJoins"] = Emissions({"edge"})

(* An edge follows the exchange it explains at once, under the next seq,   *)
(* whatever else is queued and even if its own append fails: "the edge is  *)
(* contiguous with its trigger in both the WAL and the re-export stream".  *)
(* It takes an append that succeeded for the trigger.                      *)
EdgeContiguous ==
  \A i \in DOMAIN log : log[i].env = "edge" =>
    /\ i > 1 /\ log[i - 1].env = "exchange"
    /\ log[i - 1].failure = "no" => log[i].seq = log[i - 1].seq + 1

(* Seqs are broadcast in increasing order across write failures and the    *)
(* fallback to liveSeq, "so broadcast ordering holds".  Only an envelope   *)
(* that has no JSON form disturbs it: its append spends no seq.            *)
BroadcastOrdered ==
  \A i, j \in DOMAIN log :
    i < j => \/ log[i].seq < log[j].seq
             \/ \E k \in 1..(j - 1) : log[k].failure = "encode"

(* A snapshot of Stats is torn, as the counters move while it loads them,  *)
(* but the order of the loads keeps it from showing a line written that it *)
(* does not show as appended or as a WAL error.                            *)
SnapshotCovers ==
  HasWal /\ next > Len(Order) =>
    snap["written"] <= snap["walAppends"] + snap["walErrors"]
=============================================================================
