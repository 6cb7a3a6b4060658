---------------------------- MODULE WriterProofs ----------------------------
(***************************************************************************)
(* Proofs about the writer goroutine and its counters, for any number of   *)
(* stream loops, any queue depth and any number of envelopes.              *)
(*                                                                         *)
(* None of the four properties is inductive.  CountersBalance is about the *)
(* end of Run; Balance says where an envelope that is not accounted for    *)
(* yet is on its way there: in a stream loop's hand, in the channel, or at *)
(* a step of writeLoop.  EdgeContiguous and BroadcastOrdered need what the *)
(* last emission left in the two seq counters (Follows, Ordered), and      *)
(* SnapshotCovers what a load has still to come (Covers).                  *)
(***************************************************************************)
EXTENDS Writer, FiniteSetTheorems, SequenceTheorems, TLAPS

Sources  == {"exchange", "plain"}
Emission == [seq : Nat, env : Sources \cup {"edge"}, failure : {"no", "write", "encode"}]

WTypeOK ==
  /\ phase \in {"run", "stop", "drain", "done"}
  /\ hand \in [Loops -> Kinds \cup {"none", "exit"}]
  /\ queue \in Seq(Kinds)
  /\ pc \in {"idle", "number", "sink", "join", "vip"} /\ cur \in Sources \cup {"edge"}
  /\ walSeq \in Nat \cup {NoWal} /\ liveSeq \in Nat
  /\ cnt \in [Counters -> Nat] /\ folded \in Nat /\ broken \in Nat
  /\ log \in Seq(Emission)

(* The stream loops that hold an envelope.                                 *)
Held == {l \in Loops : hand[l] \in Kinds}

One(b) == IF b THEN 1 ELSE 0

(* The envelopes held, queued and taken up by writeLoop.                   *)
OnItsWay == Cardinality(Held) + Len(queue) + One(pc = "number" /\ cur # "edge")

(* ... and those it is done with.                                          *)
Settled == cnt["dropped"] + folded + Emissions(Sources)

(* Every envelope received is dropped, folded or emitted, or on its way.   *)
Arrivals == cnt["received"] = Settled + OnItsWay

(* Every emission is in the WAL's counters, ...                            *)
Appends == HasWal => cnt["walAppends"] + cnt["walErrors"] = Len(log)

(* ... and in the sink's, or it goes there next.                           *)
Lines ==
  /\ broken <= cnt["errors"]
  /\ cnt["written"] + cnt["errors"] + One(pc = "sink") = Len(log) + broken

(* Every exchange is joined or missed, or it is at the sink or the join.   *)
Exchanges ==
  cnt["xnodeJoins"] + cnt["xnodeMisses"] + One(pc = "join" \/ (pc = "sink" /\ cur = "exchange"))
    = Emissions({"exchange"})

(* Every join has its edge, or it is the one to number.                    *)
Edges == cnt["xnodeJoins"] = Emissions({"edge"}) + One(pc \in {"number", "vip"} /\ cur = "edge")

Balance == Arrivals /\ Appends /\ Lines /\ Exchanges /\ Edges

(* Run closes the channel after the stream loops, and returns after the    *)
(* writer.                                                                 *)
Closing ==
  /\ phase \in {"drain", "done"} => \A l \in Loops : hand[l] = "exit"
  /\ phase = "done" => pc = "idle" /\ queue = <<>>

Newest == log[Len(log)]

(* After an append that succeeded both seq counters are at its seq; what   *)
(* writeLoop is at tells what was emitted last.                            *)
Follows ==
  /\ pc \in {"sink", "join"} => log # <<>> /\ Newest.env = cur
  /\ pc = "join" => cur = "exchange"
  /\ pc = "vip" => cur = "edge"
  /\ pc \in {"number", "vip"} /\ cur = "edge" => log # <<>> /\ Newest.env = "exchange"
  /\ log # <<>> /\ Newest.failure = "no" =>
       Newest.seq = liveSeq /\ (HasWal => walSeq = liveSeq)

(* Without an encoding failure so far no seq was broadcast above liveSeq,  *)
(* and the WAL has spent at least as many.                                 *)
Ordered ==
  (\A k \in DOMAIN log : log[k].failure # "encode") =>
    /\ \A i \in DOMAIN log : log[i].seq <= liveSeq
    /\ HasWal => liveSeq <= walSeq

(* What Stats has loaded is covered by what it has loaded or will load.    *)
Covers ==
  /\ next \in 1..4
  /\ DOMAIN snap = {Order[i] : i \in 1..(next - 1)} /\ \A c \in DOMAIN snap : snap[c] \in Nat
  /\ HasWal /\ next = 2 => snap["written"] <= cnt["walAppends"] + cnt["walErrors"]
  /\ HasWal /\ next = 3 => snap["written"] <= snap["walAppends"] + cnt["walErrors"]
  /\ HasWal /\ next = 4 => snap["written"] <= snap["walAppends"] + snap["walErrors"]

WInv ==
  /\ WTypeOK /\ Balance /\ Closing /\ Follows /\ Ordered /\ Covers
  /\ EdgeContiguous /\ BroadcastOrdered
-----------------------------------------------------------------------------
(* Counting.                                                               *)

LEMMA EmissionsType ==
  ASSUME log \in Seq(Emission), NEW kinds
  PROVE  Emissions(kinds) \in Nat /\ IsFiniteSet({i \in DOMAIN log : log[i].env \in kinds})
<1>1. IsFiniteSet(DOMAIN log)
  BY LenProperties, FS_Interval
<1> QED
  BY <1>1, FS_Subset, FS_CardinalityType DEF Emissions

(* A new emission is counted with the kinds that have its own.             *)
LEMMA EmissionsAppend ==
  ASSUME log \in Seq(Emission), NEW e \in Emission, log' = Append(log, e), NEW kinds
  PROVE  Emissions(kinds)' = Emissions(kinds) + One(e.env \in kinds)
<1> DEFINE at == {i \in DOMAIN log : log[i].env \in kinds}
           n  == Len(log) + 1
<1>1. /\ Len(log) \in Nat /\ DOMAIN log = 1..Len(log) /\ DOMAIN log' = 1..n
      /\ \A i \in 1..Len(log) : log'[i] = log[i]
      /\ log'[n] = e
  <2>1. /\ Append(log, e) \in Seq(Emission) /\ Len(Append(log, e)) = n
        /\ \A i \in 1..Len(log) : Append(log, e)[i] = log[i]
        /\ Append(log, e)[Len(log) + 1] = e
    BY AppendProperties
  <2> QED
    BY <2>1
<1>2. n \notin at /\ IsFiniteSet(at) /\ Cardinality(at) \in Nat
  <2>1. n \notin at
    BY <1>1
  <2>2. IsFiniteSet(at) /\ Emissions(kinds) \in Nat
    BY EmissionsType, Zenon
  <2> QED
    BY <2>1, <2>2 DEF Emissions
<1> DEFINE new == {i \in DOMAIN log' : log'[i].env \in kinds}
<1>3. IF e.env \in kinds THEN new = at \cup {n} ELSE new = at
  BY <1>1
<1>4. Cardinality(at \cup {n}) = Cardinality(at) + 1
  BY <1>2, FS_AddElement, Zenon
<1>5. Emissions(kinds) = Cardinality(at)
  BY DEF Emissions
<1>6. Emissions(kinds)' = Cardinality(new)
  BY DEF Emissions
<1> HIDE DEF at, n, new
<1>7. CASE e.env \in kinds
  BY <1>3, <1>4, <1>5, <1>6, <1>7, Zenon DEF One
<1>8. CASE e.env \notin kinds
  BY <1>2, <1>3, <1>5, <1>6, <1>8 DEF One
<1> QED
  BY <1>7, <1>8

LEMMA EmissionsSame ==
  ASSUME log' = log
  PROVE  /\ Emissions(Sources)' = Emissions(Sources) /\ Emissions({"edge"})' = Emissions({"edge"})
         /\ Emissions({"exchange"})' = Emissions({"exchange"}) /\ Len(log)' = Len(log)
BY DEF Emissions

LEMMA EmptyHands == "none" \notin Kinds /\ "exit" \notin Kinds
BY DEF Kinds

LEMMA HeldType == IsFiniteSet(Held) /\ Cardinality(Held) \in Nat
BY WriterConstants, FS_Subset, FS_CardinalityType DEF Held

(* A loop takes an envelope in hand, or puts it down.                      *)
LEMMA HeldMoves ==
  ASSUME WTypeOK, NEW l \in Loops, NEW h, hand' = [hand EXCEPT ![l] = h]
  PROVE  /\ hand[l] \notin Kinds /\ h \in Kinds => Cardinality(Held)' = Cardinality(Held) + 1
         /\ hand[l] \in Kinds /\ h \notin Kinds => Cardinality(Held)' = Cardinality(Held) - 1
         /\ hand[l] \notin Kinds /\ h \notin Kinds => Held' = Held
<1>1. hand'[l] = h /\ \A m \in Loops \ {l} : hand'[m] = hand[m]
  BY DEF WTypeOK
<1>2. hand[l] \notin Kinds /\ h \in Kinds => l \notin Held /\ Held' = Held \cup {l}
  BY <1>1 DEF Held
<1>3. hand[l] \in Kinds /\ h \notin Kinds => l \in Held /\ Held' = Held \ {l}
  BY <1>1 DEF Held
<1>4. hand[l] \notin Kinds /\ h \notin Kinds => Held' = Held
  BY <1>1 DEF Held
<1> QED
  BY <1>2, <1>3, <1>4, HeldType, FS_AddElement, FS_RemoveElement

-----------------------------------------------------------------------------
(* What a step that leaves a part of the state alone keeps.                *)

LEMMA LogKept ==
  ASSUME WInv, UNCHANGED <<walSeq, liveSeq, log>>
  PROVE  Ordered' /\ EdgeContiguous' /\ BroadcastOrdered'
BY DEF WInv, Ordered, EdgeContiguous, BroadcastOrdered, HasWal

LEMMA FollowsKept ==
  ASSUME WInv, UNCHANGED <<walSeq, liveSeq, log, pc, cur>>
  PROVE  Follows'
BY DEF WInv, Follows, HasWal, Newest

LEMMA ClosingKept ==
  ASSUME WInv, UNCHANGED <<phase, hand, pc, queue>>
  PROVE  Closing'
BY DEF WInv, Closing

(* The WAL's counters only grow.                                           *)
LEMMA CoversKept ==
  ASSUME WInv, UNCHANGED stats, HasWal' = HasWal, cnt' \in [Counters -> Nat],
         cnt["walAppends"] <= cnt'["walAppends"], cnt["walErrors"] <= cnt'["walErrors"]
  PROVE  Covers'
<1>1. \A i \in {"walAppends", "walErrors"} : cnt[i] \in Nat /\ cnt'[i] \in Nat
  BY Zenon DEF WInv, WTypeOK, Counters
<1>2. next' = next /\ snap' = snap
  BY DEF stats
<1>3. next = 2 => snap["written"] \in Nat
  BY DEF WInv, Covers, Order
<1>4. next = 3 => snap["written"] \in Nat /\ snap["walAppends"] \in Nat
  BY DEF WInv, Covers, Order
<1> QED
  BY <1>1, <1>2, <1>3, <1>4 DEF WInv, Covers
LEMMA Counts ==
  ASSUME WTypeOK, NEW c \in Counters, Count(c)
  PROVE  /\ cnt' \in [Counters -> Nat] /\ cnt'[c] = cnt[c] + 1
         /\ \A d \in Counters \ {c} : cnt'[d] = cnt[d]
BY DEF WTypeOK, Count

(* The numbers the invariant is about are naturals.                        *)
LEMMA Naturals ==
  ASSUME WTypeOK
  PROVE  /\ cnt["received"] \in Nat /\ cnt["dropped"] \in Nat /\ folded \in Nat
         /\ cnt["written"] \in Nat /\ cnt["errors"] \in Nat /\ broken \in Nat
         /\ cnt["walAppends"] \in Nat /\ cnt["walErrors"] \in Nat
         /\ cnt["xnodeJoins"] \in Nat /\ cnt["xnodeMisses"] \in Nat
         /\ Len(queue) \in Nat /\ Len(log) \in Nat /\ Cardinality(Held) \in Nat
         /\ Emissions(Sources) \in Nat /\ Emissions({"exchange"}) \in Nat
         /\ Emissions({"edge"}) \in Nat /\ OnItsWay \in Nat /\ Settled \in Nat
<1>1. \A c \in Counters : cnt[c] \in Nat
  BY DEF WTypeOK
<1>2. Len(queue) \in Nat /\ Len(log) \in Nat /\ Cardinality(Held) \in Nat
  BY HeldType DEF WTypeOK
<1>3. One(pc = "number" /\ cur # "edge") \in Nat
  BY DEF One
<1>4. /\ Emissions(Sources) \in Nat /\ Emissions({"exchange"}) \in Nat
      /\ Emissions({"edge"}) \in Nat
  BY EmissionsType, Zenon DEF WTypeOK
<1>5. OnItsWay \in Nat
  BY <1>2, <1>3 DEF OnItsWay
<1>6. cnt["dropped"] \in Nat /\ folded \in Nat
  BY <1>1 DEF WTypeOK, Counters
<1>7. Settled \in Nat
  BY <1>4, <1>6 DEF Settled
<1> QED
  BY <1>1, <1>2, <1>4, <1>5, <1>7 DEF WTypeOK, Counters

(* Counters that did not move, and nothing taken up or put down.           *)
LEMMA ArrivalsKept ==
  ASSUME Arrivals, UNCHANGED <<log, folded, queue, pc, cur>>, Held' = Held,
         cnt'["received"] = cnt["received"], cnt'["dropped"] = cnt["dropped"]
  PROVE  Arrivals'
BY EmissionsSame DEF Arrivals, Settled, OnItsWay, One

LEMMA AppendsKept ==
  ASSUME Appends, UNCHANGED <<log, walSeq>>,
         cnt'["walAppends"] = cnt["walAppends"], cnt'["walErrors"] = cnt["walErrors"]
  PROVE  Appends'
BY EmissionsSame DEF Appends, HasWal

LEMMA LinesKept ==
  ASSUME Lines, UNCHANGED <<log, broken, pc>>,
         cnt'["errors"] = cnt["errors"], cnt'["written"] = cnt["written"]
  PROVE  Lines'
BY EmissionsSame DEF Lines, One

LEMMA JoinsKept ==
  ASSUME Exchanges, Edges, UNCHANGED <<log, pc, cur>>,
         cnt'["xnodeJoins"] = cnt["xnodeJoins"], cnt'["xnodeMisses"] = cnt["xnodeMisses"]
  PROVE  Exchanges' /\ Edges'
BY EmissionsSame DEF Exchanges, Edges, One

-----------------------------------------------------------------------------
(* The stream loops.                                                       *)

LEMMA ReceiveStep ==
  ASSUME WInv, NEW l \in Loops, Receive(l)
  PROVE  WInv'
<1>1. WTypeOK /\ Balance /\ Closing
  BY DEF WInv
<1>2. PICK k \in Kinds : hand' = [hand EXCEPT ![l] = k]
  BY Zenon DEF Receive
<1>3. /\ hand[l] = "none" /\ phase \in {"run", "stop"} /\ Count("received") /\ UNCHANGED stats
      /\ UNCHANGED <<phase, queue, pc, cur, walSeq, liveSeq, log, folded, broken>>
  BY DEF Receive, writer
<1>4. /\ cnt' \in [Counters -> Nat] /\ cnt'["received"] = cnt["received"] + 1
      /\ \A d \in Counters \ {"received"} : cnt'[d] = cnt[d]
  BY <1>1, <1>3, Counts DEF Counters
<1>5. Cardinality(Held)' = Cardinality(Held) + 1
  BY <1>1, <1>2, <1>3, EmptyHands, HeldMoves, Zenon
<1>6. WTypeOK'
  BY <1>1, <1>2, <1>3, <1>4 DEF WTypeOK
<1>7. Arrivals'
  <2>1. /\ cnt["received"] \in Nat /\ cnt["dropped"] \in Nat /\ folded \in Nat /\ OnItsWay \in Nat
        /\ Settled \in Nat /\ Emissions(Sources) \in Nat /\ Len(queue) \in Nat /\ Cardinality(Held) \in Nat
    BY <1>1, Naturals
  <2>2. OnItsWay' = OnItsWay + 1
    BY <1>3, <1>5, <2>1 DEF OnItsWay, One
  <2>3. Settled' = Settled
    BY <1>3, <1>4, EmissionsSame DEF Counters, Settled
  <2> QED
    BY <1>1, <1>4, <2>1, <2>2, <2>3 DEF Balance, Arrivals
<1>8. Balance'
  BY <1>1, <1>3, <1>4, <1>7, AppendsKept, LinesKept, JoinsKept DEF Balance, Counters
<1>9. Closing' /\ Covers'
  BY <1>1, <1>3, <1>4, CoversKept DEF Closing, Counters, HasWal
<1> QED
  BY <1>3, <1>6, <1>8, <1>9, LogKept, FollowsKept DEF WInv

LEMMA ForwardStep ==
  ASSUME WInv, NEW l \in Loops, Forward(l)
  PROVE  WInv'
<1>1. WTypeOK /\ Balance /\ Closing
  BY DEF WInv
<1>2. /\ hand[l] \in Kinds /\ hand' = [hand EXCEPT ![l] = "none"] /\ UNCHANGED stats
      /\ UNCHANGED <<phase, pc, cur, walSeq, liveSeq, log, folded, broken>>
  BY DEF Forward, writer
<1>3. Cardinality(Held)' = Cardinality(Held) - 1
  BY <1>1, <1>2, EmptyHands, HeldMoves, Zenon
<1>4. Closing'
  BY <1>1, <1>2 DEF Closing, Kinds
<1>5. CASE queue' = Append(queue, hand[l]) /\ UNCHANGED cnt
  <2>1. queue' \in Seq(Kinds) /\ Len(queue') = Len(queue) + 1
    BY <1>1, <1>2, <1>5 DEF WTypeOK
  <2>2. WTypeOK'
    BY <1>1, <1>2, <1>5, <2>1 DEF WTypeOK
  <2>3. Arrivals'
    <3>1. /\ cnt["received"] \in Nat /\ cnt["dropped"] \in Nat /\ folded \in Nat /\ OnItsWay \in Nat
          /\ Settled \in Nat /\ Emissions(Sources) \in Nat /\ Len(queue) \in Nat /\ Cardinality(Held) \in Nat
      BY <1>1, Naturals
    <3>2. OnItsWay' = OnItsWay
      BY <1>2, <1>3, <2>1, <3>1 DEF OnItsWay, One
    <3>3. Settled' = Settled
      BY <1>2, <1>5, EmissionsSame DEF Settled
    <3> QED
      BY <1>1, <1>5, <3>1, <3>2, <3>3 DEF Balance, Arrivals
  <2>4. Balance'
    BY <1>1, <1>2, <1>5, <2>3, AppendsKept, LinesKept, JoinsKept DEF Balance
  <2>5. Covers'
    BY <1>1, <1>2, <1>5, CoversKept, SMTT(30), Zenon DEF WTypeOK, Counters, HasWal
  <2> QED
    BY <1>2, <1>4, <2>2, <2>4, <2>5, LogKept, FollowsKept DEF WInv
<1>6. CASE Count("dropped") /\ UNCHANGED queue
  <2>1. /\ cnt' \in [Counters -> Nat] /\ cnt'["dropped"] = cnt["dropped"] + 1
        /\ \A d \in Counters \ {"dropped"} : cnt'[d] = cnt[d]
    BY <1>1, <1>6, Counts DEF Counters
  <2>2. WTypeOK'
    BY <1>1, <1>2, <1>6, <2>1 DEF WTypeOK
  <2>3. Arrivals'
    <3>1. /\ cnt["received"] \in Nat /\ cnt["dropped"] \in Nat /\ folded \in Nat /\ OnItsWay \in Nat
          /\ Settled \in Nat /\ Emissions(Sources) \in Nat /\ Len(queue) \in Nat /\ Cardinality(Held) \in Nat
      BY <1>1, Naturals
    <3>2. OnItsWay' = OnItsWay - 1
      BY <1>2, <1>3, <1>6, <3>1 DEF OnItsWay, One
    <3>3. /\ Emissions(Sources)' = Emissions(Sources) /\ cnt'["received"] = cnt["received"]
          /\ cnt'["dropped"] = cnt["dropped"] + 1 /\ folded' = folded
      BY <1>2, <2>1, EmissionsSame DEF Counters
    <3>4. Settled' = Settled + 1
      BY <3>1, <3>3, SMTT(30), Zenon DEF Settled
    <3> QED
      BY <1>1, <3>1, <3>2, <3>3, <3>4 DEF Balance, Arrivals
  <2>4. Balance'
    BY <1>1, <1>2, <2>1, <2>3, AppendsKept, LinesKept, JoinsKept DEF Balance, Counters
  <2>5. Covers'
    BY <1>2, <2>1, CoversKept DEF Counters, HasWal
  <2> QED
    BY <1>2, <1>4, <2>2, <2>4, <2>5, LogKept, FollowsKept DEF WInv
<1> QED
  BY <1>5, <1>6 DEF Forward

LEMMA StreamErrorStep ==
  ASSUME WInv, NEW l \in Loops, StreamError(l)
  PROVE  WInv'
<1>1. WTypeOK /\ Balance
  BY DEF WInv
<1>2. /\ Count("errors") /\ broken' = broken + 1 /\ UNCHANGED stats
      /\ UNCHANGED <<phase, hand, queue, pc, cur, walSeq, liveSeq, log, folded>>
  BY DEF StreamError, writer
<1>3. /\ cnt' \in [Counters -> Nat] /\ cnt'["errors"] = cnt["errors"] + 1
      /\ \A d \in Counters \ {"errors"} : cnt'[d] = cnt[d]
  BY <1>1, <1>2, Counts DEF Counters
<1>4. WTypeOK' /\ Held' = Held
  BY <1>1, <1>2, <1>3 DEF WTypeOK, Held
<1>5. Lines'
  <2>1. cnt["written"] \in Nat /\ cnt["errors"] \in Nat /\ broken \in Nat /\ Len(log) \in Nat
    BY <1>1, Naturals
  <2>2. Len(log)' = Len(log) /\ cnt'["written"] = cnt["written"]
    BY <1>2, <1>3 DEF Counters
  <2> QED
    BY <1>1, <1>2, <1>3, <2>1, <2>2 DEF Balance, Lines, One
<1>6. Balance'
  BY <1>1, <1>2, <1>3, <1>4, <1>5, ArrivalsKept, AppendsKept, JoinsKept DEF Balance, Counters
<1>7. Covers'
  BY <1>2, <1>3, CoversKept DEF Counters, HasWal
<1> QED
  BY <1>2, <1>4, <1>6, <1>7, LogKept, FollowsKept, ClosingKept DEF WInv

LEMMA LoopReturnsStep ==
  ASSUME WInv, NEW l \in Loops, LoopReturns(l)
  PROVE  WInv'
<1>1. WTypeOK /\ Balance /\ Closing
  BY DEF WInv
<1>2. /\ phase = "stop" /\ hand[l] = "none" /\ hand' = [hand EXCEPT ![l] = "exit"]
      /\ UNCHANGED <<phase, queue, cnt, pc, cur, walSeq, liveSeq, log, folded, broken>>
      /\ UNCHANGED stats
  BY DEF LoopReturns, writer
<1>3. Held' = Held
  BY <1>1, <1>2, EmptyHands, HeldMoves, Zenon
<1>4. WTypeOK' /\ Closing'
  BY <1>1, <1>2 DEF WTypeOK, Closing
<1>5. Balance'
  BY <1>1, <1>2, <1>3, ArrivalsKept, AppendsKept, LinesKept, JoinsKept DEF Balance
<1>6. Covers'
  BY <1>1, <1>2, CoversKept DEF Counters, HasWal, WTypeOK
<1> QED
  BY <1>2, <1>4, <1>5, <1>6, LogKept, FollowsKept DEF WInv

-----------------------------------------------------------------------------
(* writeLoop.                                                              *)

LEMMA FoldStep ==
  ASSUME WInv, Fold
  PROVE  WInv'
<1>1. WTypeOK /\ Balance /\ Closing
  BY DEF WInv
<1>2. /\ pc = "idle" /\ queue # <<>> /\ queue' = Tail(queue) /\ folded' = folded + 1
      /\ UNCHANGED <<phase, hand, pc, cur, walSeq, liveSeq, cnt, log, broken>> /\ UNCHANGED stats
  BY DEF Fold
<1>3. queue' \in Seq(Kinds) /\ Len(queue') = Len(queue) - 1
  BY <1>1, <1>2 DEF WTypeOK
<1>4. WTypeOK' /\ Closing'
  BY <1>1, <1>2, <1>3 DEF WTypeOK, Closing
<1>5. Arrivals'
  <2>1. /\ cnt["received"] \in Nat /\ cnt["dropped"] \in Nat /\ folded \in Nat /\ OnItsWay \in Nat
        /\ Settled \in Nat /\ Emissions(Sources) \in Nat /\ Len(queue) \in Nat /\ Cardinality(Held) \in Nat
    BY <1>1, Naturals
  <2>2. Held' = Held
    BY <1>2 DEF Held
  <2>3. OnItsWay' = OnItsWay - 1
    BY <1>2, <1>3, <2>1, <2>2 DEF OnItsWay, One
  <2>4. Settled' = Settled + 1
    BY <1>2, <2>1, EmissionsSame, SMTT(30), Zenon DEF Settled
  <2> QED
    BY <1>1, <1>2, <2>1, <2>3, <2>4 DEF Balance, Arrivals
<1>6. Balance'
  BY <1>1, <1>2, <1>5, AppendsKept, LinesKept, JoinsKept DEF Balance
<1>7. Covers'
  BY <1>1, <1>2, CoversKept, SMTT(30), Zenon DEF WTypeOK, Counters, HasWal
<1> QED
  BY <1>2, <1>4, <1>6, <1>7, LogKept, FollowsKept DEF WInv

LEMMA TakeStep ==
  ASSUME WInv, Take
  PROVE  WInv'
<1>1. WTypeOK /\ Balance /\ Closing /\ Follows
  BY DEF WInv
<1>2. /\ pc = "idle" /\ queue # <<>> /\ queue' = Tail(queue) /\ cur' = Head(queue)
      /\ Head(queue) # "control" /\ pc' = "number" /\ UNCHANGED stats
      /\ UNCHANGED <<phase, hand, walSeq, liveSeq, cnt, log, folded, broken>>
  BY DEF Take
<1>3. queue' \in Seq(Kinds) /\ Len(queue') = Len(queue) - 1 /\ cur' \in Sources
  BY <1>1, <1>2 DEF WTypeOK, Kinds, Sources
<1>4. WTypeOK' /\ Closing' /\ Follows'
  BY <1>1, <1>2, <1>3 DEF WTypeOK, Closing, Follows, Newest, HasWal, Sources
<1>5. Arrivals'
  <2>1. /\ OnItsWay \in Nat /\ Len(queue) \in Nat /\ Cardinality(Held) \in Nat
    BY <1>1, Naturals
  <2>2. Held' = Held
    BY <1>2 DEF Held
  <2>3. OnItsWay' = OnItsWay
    BY <1>2, <1>3, <2>1, <2>2 DEF OnItsWay, One, Sources
  <2>4. Settled' = Settled
    BY <1>2, EmissionsSame DEF Settled
  <2> QED
    BY <1>1, <1>2, <2>3, <2>4 DEF Balance, Arrivals
<1>6. Lines' /\ Exchanges' /\ Edges'
  BY <1>1, <1>2, <1>3, EmissionsSame DEF Balance, Lines, Exchanges, Edges, One, Sources
<1>7. Balance' /\ Covers'
  BY <1>1, <1>2, <1>5, <1>6, AppendsKept, CoversKept DEF Balance, WTypeOK, Counters, HasWal
<1> QED
  BY <1>2, <1>4, <1>7, LogKept DEF WInv

LEMMA SinkStep ==
  ASSUME WInv, Sink
  PROVE  WInv'
<1>1. WTypeOK /\ Balance /\ Closing /\ Follows
  BY DEF WInv
<1>2. /\ pc = "sink" /\ pc' = AfterSink /\ UNCHANGED stats
      /\ UNCHANGED <<phase, hand, queue, cur, walSeq, liveSeq, log, folded, broken>>
  BY DEF Sink
<1>3. PICK c \in {"written", "errors"} : Count(c)
  BY DEF Sink
<1>4. /\ cnt' \in [Counters -> Nat] /\ cnt'[c] = cnt[c] + 1
      /\ \A d \in Counters \ {c} : cnt'[d] = cnt[d]
  BY <1>1, <1>3, Counts DEF Counters
<1>5. pc' \in {"join", "idle"} /\ (pc' = "join" <=> cur = "exchange")
  BY <1>2 DEF AfterSink
<1>6. WTypeOK' /\ Closing' /\ Follows'
  BY <1>1, <1>2, <1>4, <1>5 DEF WTypeOK, Closing, Follows, Newest, HasWal
<1>7. Arrivals'
  <2>1. /\ Held' = Held /\ OnItsWay' = OnItsWay
    BY <1>2, <1>5 DEF Held, OnItsWay, One
  <2>2. cnt'["received"] = cnt["received"] /\ cnt'["dropped"] = cnt["dropped"]
    BY <1>3, <1>4 DEF Counters
  <2> QED
    BY <1>1, <1>2, <2>1, <2>2, EmissionsSame DEF Balance, Arrivals, Settled
<1>8. Lines'
  <2>1. cnt["written"] \in Nat /\ cnt["errors"] \in Nat /\ broken \in Nat /\ Len(log) \in Nat
    BY <1>1, Naturals
  <2>2. \/ cnt'["written"] = cnt["written"] + 1 /\ cnt'["errors"] = cnt["errors"]
        \/ cnt'["written"] = cnt["written"] /\ cnt'["errors"] = cnt["errors"] + 1
    BY <1>3, <1>4 DEF Counters
  <2>3. broken <= cnt["errors"] /\ cnt["written"] + cnt["errors"] + 1 = Len(log) + broken
    BY <1>1, <1>2 DEF Balance, Lines, One
  <2>4. /\ broken <= cnt'["errors"]
        /\ cnt'["written"] + cnt'["errors"] + 0 = Len(log) + broken
    BY <2>1, <2>2, <2>3, SMTT(30), Zenon
  <2> QED
    BY <1>2, <1>5, <2>4 DEF Lines, One
<1>9. Exchanges' /\ Edges'
  <2>1. cnt'["xnodeJoins"] = cnt["xnodeJoins"] /\ cnt'["xnodeMisses"] = cnt["xnodeMisses"]
    BY <1>3, <1>4 DEF Counters
  <2> QED
    BY <1>1, <1>2, <1>5, <2>1, EmissionsSame DEF Balance, Exchanges, Edges, One
<1>10. Appends' /\ Covers'
  <2>1. cnt'["walAppends"] = cnt["walAppends"] /\ cnt'["walErrors"] = cnt["walErrors"]
        /\ cnt["walAppends"] \in Nat /\ cnt["walErrors"] \in Nat
    BY <1>1, <1>3, <1>4, Naturals, Zenon DEF Counters
  <2>2. HasWal' = HasWal
    BY <1>2 DEF HasWal
  <2> QED
    BY <1>1, <1>2, <1>4, <2>1, <2>2, AppendsKept, CoversKept DEF Balance
<1> QED
  BY <1>2, <1>6, <1>7, <1>8, <1>9, <1>10, LogKept DEF WInv, Balance

LEMMA JoinMissStep ==
  ASSUME WInv, JoinMiss
  PROVE  WInv'
<1>1. WTypeOK /\ Balance /\ Closing /\ Follows
  BY DEF WInv
<1>2. /\ pc = "join" /\ pc' = "idle" /\ Count("xnodeMisses") /\ UNCHANGED stats
      /\ UNCHANGED <<phase, hand, queue, cur, walSeq, liveSeq, log, folded, broken>>
  BY DEF JoinMiss
<1>3. /\ cnt' \in [Counters -> Nat] /\ cnt'["xnodeMisses"] = cnt["xnodeMisses"] + 1
      /\ \A d \in Counters \ {"xnodeMisses"} : cnt'[d] = cnt[d]
  BY <1>1, <1>2, Counts DEF Counters
<1>4. WTypeOK' /\ Closing' /\ Follows'
  BY <1>1, <1>2, <1>3 DEF WTypeOK, Closing, Follows, Newest, HasWal
<1>5. /\ cnt'["received"] = cnt["received"] /\ cnt'["dropped"] = cnt["dropped"]
      /\ cnt'["written"] = cnt["written"] /\ cnt'["errors"] = cnt["errors"]
      /\ cnt'["walAppends"] = cnt["walAppends"] /\ cnt'["walErrors"] = cnt["walErrors"]
      /\ cnt'["xnodeJoins"] = cnt["xnodeJoins"] /\ HasWal' = HasWal
  BY <1>2, <1>3 DEF Counters, HasWal
<1>6. Held' = Held /\ OnItsWay' = OnItsWay /\ Settled' = Settled
  BY <1>2, <1>5, EmissionsSame DEF Held, OnItsWay, One, Settled
<1>7. Arrivals' /\ Lines' /\ Edges'
  BY <1>1, <1>2, <1>5, <1>6, EmissionsSame DEF Balance, Arrivals, Lines, Edges, One
<1>8. Exchanges'
  <2>1. /\ cnt["xnodeJoins"] \in Nat /\ cnt["xnodeMisses"] \in Nat
        /\ cnt["xnodeJoins"] + cnt["xnodeMisses"] + 1 = Emissions({"exchange"})
    BY <1>1, <1>2, Naturals DEF Balance, Exchanges, One
  <2>2. cnt'["xnodeJoins"] + cnt'["xnodeMisses"] + 0 = Emissions({"exchange"})
    BY <1>3, <1>5, <2>1
  <2> QED
    BY <1>2, <2>2, EmissionsSame DEF Exchanges, One
<1>9. Appends' /\ Covers'
  <2>1. cnt["walAppends"] \in Nat /\ cnt["walErrors"] \in Nat
    BY <1>1, Naturals
  <2> QED
    BY <1>1, <1>2, <1>3, <1>5, <2>1, AppendsKept, CoversKept DEF Balance
<1> QED
  BY <1>2, <1>4, <1>7, <1>8, <1>9, LogKept DEF WInv, Balance

LEMMA JoinHitStep ==
  ASSUME WInv, JoinHit
  PROVE  WInv'
<1>1. WTypeOK /\ Balance /\ Closing /\ Follows
  BY DEF WInv
<1>2. /\ pc = "join" /\ pc' \in {"number", "vip"} /\ cur' = "edge" /\ Count("xnodeJoins")
      /\ UNCHANGED <<phase, hand, queue, walSeq, liveSeq, log, folded, broken>> /\ UNCHANGED stats
  BY DEF JoinHit
<1>3. \A d \in Counters \ {"xnodeJoins"} : cnt'[d] = cnt[d]
  BY <1>1, <1>2, Counts DEF Counters
<1>4. cnt' \in [Counters -> Nat] /\ cnt'["xnodeJoins"] = cnt["xnodeJoins"] + 1
  BY <1>1, <1>2, Counts DEF Counters
<1>5. /\ cnt'["received"] = cnt["received"] /\ cnt'["dropped"] = cnt["dropped"]
      /\ cnt'["written"] = cnt["written"] /\ cnt'["errors"] = cnt["errors"]
      /\ cnt'["walAppends"] = cnt["walAppends"] /\ cnt'["walErrors"] = cnt["walErrors"]
      /\ cnt'["xnodeMisses"] = cnt["xnodeMisses"] /\ HasWal' = HasWal
  BY <1>2, <1>3 DEF Counters, HasWal
<1>6. WTypeOK' /\ Closing' /\ Follows'
  <2>1. cur = "exchange" /\ log # <<>> /\ Newest.env = "exchange" /\ Newest' = Newest
    BY <1>1, <1>2 DEF Follows, Newest
  <2>2. Follows'
    BY <1>1, <1>2, <2>1 DEF Follows, HasWal
  <2> QED
    BY <1>1, <1>2, <1>4, <2>2 DEF WTypeOK, Closing
<1>7. Held' = Held /\ OnItsWay' = OnItsWay /\ Settled' = Settled
  BY <1>2, <1>5, EmissionsSame DEF Held, OnItsWay, One, Settled
<1>8. Arrivals' /\ Lines'
  BY <1>1, <1>2, <1>5, <1>7, EmissionsSame DEF Balance, Arrivals, Lines, One
<1>9. Exchanges' /\ Edges'
  <2>1. /\ cnt["xnodeJoins"] \in Nat /\ cnt["xnodeMisses"] \in Nat
        /\ Emissions({"edge"}) \in Nat /\ cnt["xnodeJoins"] = Emissions({"edge"}) + 0
        /\ cnt["xnodeJoins"] + cnt["xnodeMisses"] + 1 = Emissions({"exchange"})
    BY <1>1, <1>2, Naturals DEF Balance, Exchanges, Edges, One
  <2>2. /\ cnt'["xnodeJoins"] + cnt'["xnodeMisses"] + 0 = Emissions({"exchange"})
        /\ cnt'["xnodeJoins"] = Emissions({"edge"}) + 1
    BY <1>4, <1>5, <2>1
  <2> QED
    BY <1>2, <2>2, EmissionsSame DEF Exchanges, Edges, One
<1>10. Appends' /\ Covers'
  <2>1. cnt["walAppends"] \in Nat /\ cnt["walErrors"] \in Nat
    BY <1>1, Naturals
  <2> QED
    BY <1>1, <1>2, <1>4, <1>5, <2>1, AppendsKept, CoversKept, SMTT(30), Zenon DEF Balance
<1> QED
  BY <1>2, <1>6, <1>8, <1>9, <1>10, LogKept DEF WInv, Balance

(* A join through a VIP moves a counter that nothing else depends on.      *)
LEMMA JoinVipStep ==
  ASSUME WInv, JoinVip
  PROVE  WInv'
<1>1. WTypeOK /\ Balance /\ Closing /\ Follows
  BY DEF WInv
<1>2. /\ pc = "vip" /\ pc' = "number" /\ Count("vipJoins") /\ UNCHANGED stats
      /\ UNCHANGED <<phase, hand, queue, cur, walSeq, liveSeq, log, folded, broken>>
  BY DEF JoinVip
<1>3. cnt' \in [Counters -> Nat] /\ \A d \in Counters \ {"vipJoins"} : cnt'[d] = cnt[d]
  BY <1>1, <1>2, Counts DEF Counters
<1>4. cur = "edge"
  BY <1>1, <1>2 DEF Follows
<1>5. WTypeOK' /\ Closing' /\ Follows'
  BY <1>1, <1>2, <1>3, <1>4 DEF WTypeOK, Closing, Follows, Newest, HasWal
<1>6. /\ cnt'["received"] = cnt["received"] /\ cnt'["dropped"] = cnt["dropped"]
      /\ cnt'["written"] = cnt["written"] /\ cnt'["errors"] = cnt["errors"]
      /\ cnt'["walAppends"] = cnt["walAppends"] /\ cnt'["walErrors"] = cnt["walErrors"]
      /\ cnt'["xnodeJoins"] = cnt["xnodeJoins"] /\ cnt'["xnodeMisses"] = cnt["xnodeMisses"]
      /\ HasWal' = HasWal
  BY <1>2, <1>3 DEF Counters, HasWal
<1>7. Held' = Held /\ OnItsWay' = OnItsWay /\ Settled' = Settled
  BY <1>2, <1>4, <1>6, EmissionsSame DEF Held, OnItsWay, One, Settled
<1>8. Arrivals' /\ Lines'
  BY <1>1, <1>2, <1>6, <1>7, EmissionsSame DEF Balance, Arrivals, Lines, One
<1>9. Exchanges' /\ Edges'
  BY <1>1, <1>2, <1>4, <1>6, EmissionsSame DEF Balance, Exchanges, Edges, One
<1>10. Appends' /\ Covers'
  <2>1. cnt["walAppends"] \in Nat /\ cnt["walErrors"] \in Nat
    BY <1>1, Naturals
  <2> QED
    BY <1>1, <1>2, <1>3, <1>6, <2>1, AppendsKept, CoversKept, SMTT(30), Zenon DEF Balance
<1> QED
  BY <1>2, <1>5, <1>8, <1>9, <1>10, LogKept DEF WInv, Balance

(* A new emission is the newest; those before it stay.                     *)
LEMMA LogAppend ==
  ASSUME log \in Seq(Emission), NEW e \in Emission, log' = Append(log, e)
  PROVE  /\ log' \in Seq(Emission) /\ log' # <<>> /\ Len(log)' = Len(log) + 1 /\ Len(log) \in Nat
         /\ DOMAIN log = 1..Len(log) /\ DOMAIN log' = 1..(Len(log) + 1)
         /\ \A i \in 1..Len(log) : log'[i] = log[i]
         /\ log'[Len(log) + 1] = e /\ Newest' = e
<1>1. /\ log' \in Seq(Emission) /\ log' # <<>> /\ Len(log') = Len(log) + 1 /\ Len(log) \in Nat
      /\ \A i \in 1..Len(log) : log'[i] = log[i]
      /\ log'[Len(log) + 1] = e
  OBVIOUS
<1> QED
  BY <1>1 DEF Newest

(* The seq a success takes is the next of the WAL's, or of liveSeq without *)
(* a WAL; after a failure it is the next of liveSeq.                       *)
LEMMA NumberStep ==
  ASSUME WInv, Number
  PROVE  WInv'
<1>1. WTypeOK /\ Balance /\ Closing /\ Follows /\ Ordered /\ EdgeContiguous /\ BroadcastOrdered
  BY DEF WInv
<1>2. /\ pc = "number" /\ pc' = "sink" /\ UNCHANGED stats
      /\ UNCHANGED <<phase, hand, queue, cur, folded, broken>>
  BY DEF Number
<1>3. walSeq \in Nat \cup {NoWal} /\ liveSeq \in Nat /\ cur \in Sources \cup {"edge"}
      /\ log \in Seq(Emission)
  BY <1>1 DEF WTypeOK
<1>4. PICK s \in Nat, failure \in {"no", "write", "encode"} :
        /\ Record(s, failure) /\ liveSeq' = s
        /\ walSeq' \in Nat \cup {NoWal} /\ HasWal' = HasWal
        /\ ~HasWal => failure = "no" /\ s = liveSeq + 1
        /\ HasWal /\ failure = "no" => s = walSeq + 1 /\ walSeq' = walSeq + 1
        /\ failure # "no" => s = liveSeq + 1
        /\ failure = "write" => walSeq' = walSeq + 1
  <2>1. CASE /\ HasWal /\ walSeq' = walSeq + 1 /\ liveSeq' = walSeq + 1
             /\ Record(walSeq + 1, "no")
    BY <1>3, <2>1 DEF HasWal, NoWal
  <2>2. CASE /\ HasWal
             /\ \E failure \in {"write", "encode"} :
                  /\ walSeq' = Spent(failure) /\ liveSeq' = liveSeq + 1
                  /\ Record(liveSeq + 1, failure)
    BY <1>3, <2>2 DEF HasWal, NoWal, Spent
  <2>3. CASE ~HasWal /\ liveSeq' = liveSeq + 1 /\ Record(liveSeq + 1, "no") /\ walSeq' = walSeq
    BY <1>3, <2>3 DEF HasWal, NoWal
  <2> QED
    BY <2>1, <2>2, <2>3 DEF Number
<1> DEFINE e == [seq |-> s, env |-> cur, failure |-> failure]
<1>5. /\ e \in Emission /\ log' = Append(log, e)
      /\ e.seq = s /\ e.env = cur /\ e.failure = failure
  BY <1>3, <1>4 DEF Record, Emission
<1> HIDE DEF e
<1>6. /\ log' \in Seq(Emission) /\ log' # <<>> /\ Len(log)' = Len(log) + 1 /\ Len(log) \in Nat
      /\ DOMAIN log = 1..Len(log) /\ DOMAIN log' = 1..(Len(log) + 1)
      /\ \A i \in 1..Len(log) : log'[i] = log[i]
      /\ log'[Len(log) + 1] = e /\ Newest' = e
  BY <1>3, <1>5, LogAppend, SMTT(30), Zenon
<1>7. /\ cnt' \in [Counters -> Nat]
      /\ cnt'["received"] = cnt["received"] /\ cnt'["dropped"] = cnt["dropped"]
      /\ cnt'["written"] = cnt["written"] /\ cnt'["errors"] = cnt["errors"]
      /\ cnt'["xnodeJoins"] = cnt["xnodeJoins"] /\ cnt'["xnodeMisses"] = cnt["xnodeMisses"]
      /\ \/ /\ cnt'["walAppends"] = cnt["walAppends"] + 1
            /\ cnt'["walErrors"] = cnt["walErrors"]
         \/ /\ cnt'["walAppends"] = cnt["walAppends"]
            /\ cnt'["walErrors"] = cnt["walErrors"] + 1
         \/ ~HasWal /\ cnt' = cnt
  <2>1. CASE Count("walAppends")
    BY <1>1, <2>1, Counts DEF Counters
  <2>2. CASE Count("walErrors")
    BY <1>1, <2>2, Counts DEF Counters
  <2>3. CASE ~HasWal /\ cnt' = cnt
    BY <1>1, <2>3, SMTT(30), Zenon DEF WTypeOK
  <2> QED
    BY <2>1, <2>2, <2>3 DEF Number
<1>8. WTypeOK' /\ Closing'
  BY <1>1, <1>2, <1>4, <1>6, <1>7, SMTT(30), Zenon DEF WTypeOK, Closing
<1>9. /\ Emissions(Sources)' = Emissions(Sources) + One(cur \in Sources)
      /\ Emissions({"exchange"})' = Emissions({"exchange"}) + One(cur \in {"exchange"})
      /\ Emissions({"edge"})' = Emissions({"edge"}) + One(cur \in {"edge"})
  BY <1>3, <1>5, EmissionsAppend, Zenon
<1>10. Arrivals'
  <2>1. /\ cnt["received"] \in Nat /\ cnt["dropped"] \in Nat /\ folded \in Nat /\ OnItsWay \in Nat
        /\ Settled \in Nat /\ Emissions(Sources) \in Nat /\ Len(queue) \in Nat
        /\ Cardinality(Held) \in Nat
    BY <1>1, Naturals
  <2>2. Held' = Held /\ (cur \in Sources <=> cur # "edge")
    BY <1>2, <1>3 DEF Held, Sources
  <2>3. CASE cur = "edge"
    <3>1. OnItsWay' = OnItsWay /\ Emissions(Sources)' = Emissions(Sources)
      BY <1>2, <1>9, <2>1, <2>2, <2>3 DEF OnItsWay, One
    <3>2. Settled' = Settled
      BY <1>2, <1>7, <3>1, SMTT(30), Zenon DEF Settled
    <3> QED
      BY <1>1, <1>7, <3>1, <3>2 DEF Balance, Arrivals
  <2>4. CASE cur # "edge"
    <3>1. OnItsWay' = OnItsWay - 1 /\ Emissions(Sources)' = Emissions(Sources) + 1
      BY <1>2, <1>9, <2>1, <2>2, <2>4, SMTT(30), Zenon DEF OnItsWay, One
    <3>2. cnt'["dropped"] = cnt["dropped"] /\ folded' = folded
      BY <1>2, <1>7
    <3>3. Settled' = Settled + 1
      BY <2>1, <3>1, <3>2, SMTT(30), Zenon DEF Settled
    <3> QED
      BY <1>1, <1>7, <2>1, <3>1, <3>3, SMTT(30), Zenon DEF Balance, Arrivals
  <2> QED
    BY <2>3, <2>4
<1>11. Appends' /\ Lines'
  <2>1. /\ cnt["walAppends"] \in Nat /\ cnt["walErrors"] \in Nat /\ Len(log) \in Nat
        /\ cnt["written"] \in Nat /\ cnt["errors"] \in Nat /\ broken \in Nat
    BY <1>1, Naturals
  <2>2. Appends'
    <3> SUFFICES ASSUME HasWal
                 PROVE  cnt'["walAppends"] + cnt'["walErrors"] = Len(log)'
      BY <1>4 DEF Appends
    <3>1. cnt["walAppends"] + cnt["walErrors"] = Len(log)
      BY <1>1 DEF Balance, Appends
    <3>2. CASE /\ cnt'["walAppends"] = cnt["walAppends"] + 1
               /\ cnt'["walErrors"] = cnt["walErrors"]
      BY <1>6, <2>1, <3>1, <3>2, SMTT(30), Zenon
    <3>3. CASE /\ cnt'["walAppends"] = cnt["walAppends"]
               /\ cnt'["walErrors"] = cnt["walErrors"] + 1
      BY <1>6, <2>1, <3>1, <3>3, SMTT(30), Zenon
    <3> QED
      BY <1>7, <3>2, <3>3
  <2>3. broken <= cnt["errors"] /\ cnt["written"] + cnt["errors"] + 0 = Len(log) + broken
    BY <1>1, <1>2 DEF Balance, Lines, One
  <2>4. cnt'["written"] + cnt'["errors"] + 1 = Len(log)' + broken'
    BY <1>2, <1>6, <1>7, <2>1, <2>3, SMTT(30), Zenon
  <2> QED
    BY <1>2, <1>7, <2>2, <2>3, <2>4 DEF Lines, One
<1>12. Exchanges' /\ Edges'
  <2>1. /\ cnt["xnodeJoins"] \in Nat /\ cnt["xnodeMisses"] \in Nat
        /\ Emissions({"exchange"}) \in Nat /\ Emissions({"edge"}) \in Nat
    BY <1>1, Naturals
  <2>2. cnt["xnodeJoins"] + cnt["xnodeMisses"] + 0 = Emissions({"exchange"})
    BY <1>1, <1>2 DEF Balance, Exchanges, One
  <2>3. cnt["xnodeJoins"] = Emissions({"edge"}) + One(cur = "edge")
    BY <1>1, <1>2, SMTT(30), Zenon DEF Balance, Edges, One
  <2>4. Exchanges'
    BY <1>2, <1>7, <1>9, <2>1, <2>2, SMTT(30), Zenon DEF Exchanges, One
  <2>5. Edges'
    BY <1>2, <1>7, <1>9, <2>1, <2>3, SMTT(30), Zenon DEF Edges, One
  <2> QED
    BY <2>4, <2>5
<1>13. Covers'
  <2>1. /\ cnt["walAppends"] \in Nat /\ cnt["walErrors"] \in Nat
    BY <1>1, Naturals, SMTT(30), Zenon
  <2> QED
    BY <1>2, <1>4, <1>7, <2>1, CoversKept, SMTT(30), Zenon
<1>14. Follows'
  <2>1. HasWal /\ failure = "no" => walSeq' = liveSeq'
    BY <1>4, SMTT(30), Zenon
  <2> QED
    BY <1>2, <1>4, <1>5, <1>6, <2>1, SMTT(30), Zenon DEF Follows
<1>15. Ordered'
  <2> SUFFICES ASSUME \A k \in DOMAIN log' : log'[k].failure # "encode"
               PROVE  /\ \A i \in DOMAIN log' : log'[i].seq <= liveSeq'
                      /\ HasWal' => liveSeq' <= walSeq'
    BY DEF Ordered
  <2>1. /\ \A i \in DOMAIN log : log[i].seq <= liveSeq
        /\ HasWal => liveSeq <= walSeq
    BY <1>1, <1>6, SMTT(30), Zenon DEF Ordered
  <2>2. failure # "encode" /\ \A i \in DOMAIN log : log[i].seq \in Nat
    <3>1. \A i \in DOMAIN log : log[i] \in Emission
      BY <1>3
    <3> QED
      BY <1>5, <1>6, <3>1, SMTT(30), Zenon DEF Emission
  <2>3. HasWal => walSeq \in Nat
    BY <1>3 DEF HasWal
  <2>4. liveSeq < s /\ (HasWal => s <= walSeq')
    BY <1>3, <1>4, <2>1, <2>2, <2>3, SMTT(30), Zenon
  <2> QED
    BY <1>3, <1>4, <1>5, <1>6, <2>1, <2>2, <2>4, SMTT(30), Zenon
<1>16. BroadcastOrdered'
  <2> SUFFICES ASSUME NEW i \in DOMAIN log', NEW j \in DOMAIN log', i < j,
                      \A k \in 1..(j - 1) : log'[k].failure # "encode"
               PROVE  log'[i].seq < log'[j].seq
    BY DEF BroadcastOrdered
  <2>1. CASE j <= Len(log)
    BY <1>1, <1>6, <2>1, SMTT(30), Zenon DEF BroadcastOrdered
  <2>2. CASE j = Len(log) + 1
    <3>1. /\ \A k \in DOMAIN log : log[k].seq <= liveSeq
          /\ HasWal => liveSeq <= walSeq
      BY <1>1, <1>6, <2>2 DEF Ordered
    <3>2. HasWal => walSeq \in Nat
      BY <1>3, SMTT(30), Zenon DEF HasWal
    <3>3. log'[j].seq = s /\ liveSeq < s /\ i \in DOMAIN log /\ log'[i] = log[i]
      BY <1>3, <1>4, <1>5, <1>6, <2>2, <3>1, <3>2, SMTT(30), Zenon
    <3>4. log[i].seq \in Nat
      <4>1. log[i] \in Emission
        BY <1>3, <3>3, SMTT(30), Zenon
      <4> QED
        BY <4>1 DEF Emission
    <3> QED
      BY <1>3, <1>4, <3>1, <3>3, <3>4, SMTT(30), Zenon
  <2> QED
    BY <1>6, <2>1, <2>2, SMTT(30), Zenon
<1>17. EdgeContiguous'
  <2> SUFFICES ASSUME NEW i \in DOMAIN log', log'[i].env = "edge"
               PROVE  /\ i > 1 /\ log'[i - 1].env = "exchange"
                      /\ log'[i - 1].failure = "no" => log'[i].seq = log'[i - 1].seq + 1
    BY DEF EdgeContiguous
  <2>1. CASE i <= Len(log)
    BY <1>1, <1>6, <2>1, SMTT(30), Zenon DEF EdgeContiguous
  <2>2. CASE i = Len(log) + 1
    <3>1. cur = "edge" /\ log'[i].seq = s
      BY <1>5, <1>6, <2>2, SMTT(30), Zenon
    <3>2. /\ log # <<>> /\ Newest.env = "exchange"
          /\ Newest.failure = "no" => Newest.seq = liveSeq /\ (HasWal => walSeq = liveSeq)
      BY <1>1, <1>2, <3>1, SMTT(30), Zenon DEF Follows
    <3>3. Len(log) \in 1..Len(log) /\ log'[i - 1] = Newest
      BY <1>3, <1>6, <2>2, <3>2, SMTT(30), Zenon DEF Newest
    <3>4. Newest.failure = "no" => s = Newest.seq + 1
      BY <1>4, <3>2
    <3> QED
      BY <1>6, <2>2, <3>1, <3>2, <3>3, <3>4, SMTT(30), Zenon
  <2> QED
    BY <1>6, <2>1, <2>2
<1> QED
  BY <1>8, <1>10, <1>11, <1>12, <1>13, <1>14, <1>15, <1>16, <1>17, SMTT(30), Zenon DEF WInv, Balance

-----------------------------------------------------------------------------
(* Stats, and the end of Run.                                              *)

(* What was written is in the WAL's counters by then.                      *)
LEMMA WrittenCovered ==
  ASSUME WTypeOK, Balance, HasWal
  PROVE  cnt["written"] <= cnt["walAppends"] + cnt["walErrors"]
<1>1. /\ cnt["written"] \in Nat /\ cnt["errors"] \in Nat /\ broken \in Nat /\ Len(log) \in Nat
      /\ One(pc = "sink") \in Nat
  BY Naturals DEF One
<1>2. /\ broken <= cnt["errors"]
      /\ cnt["written"] + cnt["errors"] + One(pc = "sink") = Len(log) + broken
  BY DEF Balance, Lines
<1>3. cnt["written"] <= Len(log)
  BY <1>1, <1>2, SMTT(30), Zenon
<1> QED
  BY <1>3 DEF Balance, Appends

LEMMA LoadStep ==
  ASSUME WInv, Load
  PROVE  WInv'
<1>1. WTypeOK /\ Balance /\ Covers
  BY DEF WInv
<1>2. /\ next <= 3 /\ next' = next + 1
      /\ snap' = [c \in DOMAIN snap \cup {Order[next]} |->
                    IF c = Order[next] THEN cnt[c] ELSE snap[c]]
      /\ UNCHANGED <<phase, hand, queue, cnt, pc, cur, walSeq, liveSeq, log, folded, broken>>
  BY SMTT(30), Zenon DEF Load, Order, writer
<1>3. WTypeOK' /\ Held' = Held
  BY <1>1, <1>2, SMTT(30), Zenon DEF WTypeOK, Held
<1>4. Balance'
  BY <1>1, <1>2, <1>3, ArrivalsKept, AppendsKept, LinesKept, JoinsKept, SMTT(30), Zenon DEF Balance
<1>5. Covers'
  <2>1. cnt["written"] \in Nat /\ cnt["walAppends"] \in Nat /\ cnt["walErrors"] \in Nat
    BY <1>1, Naturals, SMTT(30), Zenon
  <2>2. HasWal' = HasWal /\ cnt' = cnt
    BY <1>2 DEF HasWal
  <2>3. Order[1] = "written" /\ Order[2] = "walAppends" /\ Order[3] = "walErrors"
    BY SMTT(30), Zenon DEF Order
  <2>4. CASE next = 1
    <3>1. DOMAIN snap = {}
      BY <1>1, <2>4, SMTT(30), Zenon DEF Covers
    <3>2. DOMAIN snap' = {"written"} /\ snap'["written"] = cnt["written"]
      BY <1>2, <2>3, <2>4, <3>1
    <3>3. {Order[i] : i \in 1..1} = {"written"}
      BY <2>3, SMTT(30), Zenon
    <3> QED
      BY <1>1, <1>2, <2>1, <2>2, <2>4, <3>2, <3>3, WrittenCovered, SMTT(30), Zenon DEF Covers
  <2>5. CASE next = 2
    <3>1. DOMAIN snap = {"written"} /\ snap["written"] \in Nat
      BY <1>1, <2>3, <2>5, SMTT(30), Zenon DEF Covers
    <3>2. /\ DOMAIN snap' = {"written", "walAppends"}
          /\ snap'["written"] = snap["written"] /\ snap'["walAppends"] = cnt["walAppends"]
      BY <1>2, <2>3, <2>5, <3>1
    <3>3. {Order[i] : i \in 1..2} = {"written", "walAppends"}
      BY <2>3, SMTT(30), Zenon
    <3> QED
      BY <1>1, <1>2, <2>1, <2>2, <2>5, <3>1, <3>2, <3>3, SMTT(30), Zenon DEF Covers
  <2>6. CASE next = 3
    <3>1. /\ DOMAIN snap = {"written", "walAppends"}
          /\ snap["written"] \in Nat /\ snap["walAppends"] \in Nat
      BY <1>1, <2>3, <2>6, SMTT(30), Zenon DEF Covers
    <3>2. /\ DOMAIN snap' = {"written", "walAppends", "walErrors"}
          /\ snap'["written"] = snap["written"] /\ snap'["walAppends"] = snap["walAppends"]
          /\ snap'["walErrors"] = cnt["walErrors"]
      BY <1>2, <2>3, <2>6, <3>1
    <3>3. {Order[i] : i \in 1..3} = {"written", "walAppends", "walErrors"}
      BY <2>3
    <3> QED
      BY <1>1, <1>2, <2>1, <2>2, <2>6, <3>1, <3>2, <3>3, SMTT(30), Zenon DEF Covers
  <2>7. next \in 1..4
    BY <1>1 DEF Covers
  <2>8. next = 1 \/ next = 2 \/ next = 3
    BY <1>2, <2>7
  <2> QED
    BY <2>4, <2>5, <2>6, <2>8, SMTT(30), Zenon
<1> QED
  BY <1>2, <1>3, <1>4, <1>5, LogKept, FollowsKept, ClosingKept, SMTT(30), Zenon DEF WInv

(* The steps of Run, and Collect, move nothing the counters are about.     *)
LEMMA RunStep ==
  ASSUME WInv, Collect \/ Cancel \/ CloseChannel \/ WriterReturns \/ UNCHANGED vars
  PROVE  WInv'
<1>1. WTypeOK /\ Balance /\ Closing /\ Covers
  BY DEF WInv
<1>2. UNCHANGED <<hand, queue, cnt, pc, cur, walSeq, liveSeq, log, folded, broken>>
  BY DEF Collect, Cancel, CloseChannel, WriterReturns, vars, writer
<1>3. WTypeOK' /\ Held' = Held
  BY <1>1, <1>2, SMTT(30), Zenon DEF WTypeOK, Held, Collect, Cancel, CloseChannel, WriterReturns, vars
<1>4. Balance'
  BY <1>1, <1>2, <1>3, ArrivalsKept, AppendsKept, LinesKept, JoinsKept, SMTT(30), Zenon DEF Balance
<1>5. Closing'
  BY <1>1, <1>2 DEF Closing, Collect, Cancel, CloseChannel, WriterReturns, vars
<1>6. Covers'
  <2>1. CASE UNCHANGED stats
    BY <1>1, <1>2, <2>1, CoversKept, SMTT(30), Zenon DEF WTypeOK, Counters, HasWal
  <2>2. CASE next' = 1 /\ snap' = None
    <3>1. DOMAIN snap' = {} /\ {Order[i] : i \in 1..0} = {}
      BY <2>2 DEF None
    <3> QED
      BY <2>2, <3>1 DEF Covers
  <2> QED
    BY <2>1, <2>2 DEF Collect, Cancel, CloseChannel, WriterReturns, vars, stats
<1> QED
  BY <1>2, <1>3, <1>4, <1>5, <1>6, LogKept, FollowsKept, SMTT(30), Zenon DEF WInv

-----------------------------------------------------------------------------
LEMMA WStart == Init => WInv
<1> SUFFICES ASSUME Init
             PROVE  WInv
  OBVIOUS
<1>1. WTypeOK
  BY WriterConstants DEF Init, WTypeOK, Sources, Kinds
<1>2. log = <<>> /\ DOMAIN log = {} /\ Len(log) = 0 /\ Len(queue) = 0
  BY DEF Init
<1>3. \A kinds : Emissions(kinds) = 0
  BY <1>2, FS_EmptySet DEF Emissions
<1>4. Cardinality(Held) = 0
  <2>1. Held = {}
    BY DEF Held, Init, Kinds
  <2> QED
    BY <2>1, FS_EmptySet
<1>5. Balance
  <2>1. (\A c \in Counters : cnt[c] = 0) /\ folded = 0 /\ broken = 0 /\ pc = "idle"
    BY DEF Init
  <2>2. /\ cnt["received"] = 0 /\ cnt["dropped"] = 0 /\ cnt["written"] = 0 /\ cnt["errors"] = 0
        /\ cnt["walAppends"] = 0 /\ cnt["walErrors"] = 0
        /\ cnt["xnodeJoins"] = 0 /\ cnt["xnodeMisses"] = 0
    BY <2>1 DEF Counters
  <2>3. Arrivals
    BY <1>2, <1>3, <1>4, <2>1, <2>2, SMTT(30), Zenon DEF Arrivals, Settled, OnItsWay, One
  <2>4. Appends /\ Lines
    BY <1>2, <2>1, <2>2 DEF Appends, Lines, One
  <2>5. Exchanges /\ Edges
    BY <1>3, <2>1, <2>2 DEF Exchanges, Edges, One
  <2> QED
    BY <2>3, <2>4, <2>5 DEF Balance
<1>6. Closing /\ Follows /\ Ordered /\ EdgeContiguous /\ BroadcastOrdered
  <2>1. phase = "run" /\ pc = "idle" /\ liveSeq = 0 /\ walSeq \in {NoWal, Recovered}
    BY DEF Init
  <2>2. Closing /\ Follows
    BY <1>2, <2>1 DEF Closing, Follows
  <2>3. Ordered
    BY <1>2, <2>1, WriterConstants DEF Ordered, HasWal
  <2>4. EdgeContiguous /\ BroadcastOrdered
    BY <1>2 DEF EdgeContiguous, BroadcastOrdered
  <2> QED
    BY <2>2, <2>3, <2>4
<1>7. Covers
  <2>1. DOMAIN snap = {} /\ {Order[i] : i \in 1..0} = {} /\ next = 1
    BY DEF None, Init
  <2> QED
    BY <2>1 DEF Covers
<1> QED
  BY <1>1, <1>5, <1>6, <1>7 DEF WInv

(* Every reachable state satisfies the inductive invariant.                *)
THEOREM WInvariance == Spec => []WInv
<1>1. WInv /\ [Next]_vars => WInv'
  BY ReceiveStep, ForwardStep, StreamErrorStep, LoopReturnsStep, FoldStep, TakeStep, NumberStep,
     SinkStep, JoinMissStep, JoinHitStep, JoinVipStep, LoadStep, RunStep, SMTT(30), Zenon
  DEF Next, StreamLoop
<1> QED
  BY <1>1, WStart, PTL DEF Spec

(* When Run has returned the counters account for every envelope that was  *)
(* received, for every emission and for every exchange.                    *)
THEOREM Balanced == Spec => []CountersBalance
<1>1. WInv => CountersBalance
  <2> SUFFICES ASSUME WInv, phase = "done"
               PROVE  /\ cnt["received"] = cnt["dropped"] + folded + Emissions({"exchange", "plain"})
                      /\ HasWal => cnt["walAppends"] + cnt["walErrors"] = Len(log)
                      /\ cnt["written"] <= Len(log) /\ Len(log) <= cnt["written"] + cnt["errors"]
                      /\ cnt["xnodeJoins"] + cnt["xnodeMisses"] = Emissions({"exchange"})
                      /\ cnt["xnodeJoins"] = Emissions({"edge"})
    BY DEF CountersBalance
  <2>1. WTypeOK /\ Balance /\ pc = "idle" /\ queue = <<>> /\ \A l \in Loops : hand[l] = "exit"
    BY DEF WInv, Closing
  <2>2. Held = {} /\ Cardinality(Held) = 0 /\ Len(queue) = 0
    BY <2>1, EmptyHands, FS_EmptySet, SMTT(30), Zenon DEF Held
  <2>3. /\ cnt["received"] \in Nat /\ cnt["dropped"] \in Nat /\ folded \in Nat
        /\ cnt["written"] \in Nat /\ cnt["errors"] \in Nat /\ broken \in Nat
        /\ cnt["xnodeJoins"] \in Nat /\ cnt["xnodeMisses"] \in Nat /\ Len(log) \in Nat
        /\ Emissions(Sources) \in Nat /\ Emissions({"edge"}) \in Nat /\ Settled \in Nat
    BY <2>1, Naturals
  <2>4. OnItsWay = 0
    BY <2>1, <2>2 DEF OnItsWay, One
  <2>5. cnt["received"] = cnt["dropped"] + folded + Emissions({"exchange", "plain"})
    BY <2>1, <2>3, <2>4 DEF Balance, Arrivals, Settled, Sources
  <2>6. cnt["written"] + cnt["errors"] + 0 = Len(log) + broken /\ broken <= cnt["errors"]
    BY <2>1 DEF Balance, Lines, One
  <2>7. cnt["written"] <= Len(log) /\ Len(log) <= cnt["written"] + cnt["errors"]
    <3> DEFINE w == cnt["written"]
               e == cnt["errors"]
               n == Len(log)
    <3>1. /\ w \in Nat /\ e \in Nat /\ n \in Nat /\ broken \in Nat
          /\ w + e + 0 = n + broken /\ broken <= e
      BY <2>3, <2>6
    <3> HIDE DEF w, e, n
    <3>2. w <= n /\ n <= w + e
      BY <3>1
    <3> QED
      BY <3>2 DEF w, e, n
  <2>8. /\ cnt["xnodeJoins"] + cnt["xnodeMisses"] + 0 = Emissions({"exchange"})
        /\ cnt["xnodeJoins"] = Emissions({"edge"}) + 0
    BY <2>1 DEF Balance, Exchanges, Edges, One
  <2> QED
    BY <2>1, <2>3, <2>5, <2>7, <2>8, SMTT(30), Zenon DEF Balance, Appends
<1> QED
  BY <1>1, WInvariance, PTL

(* An edge follows its exchange at once, under the next seq, unless the    *)
(* append of the exchange failed.                                          *)
THEOREM Contiguous == Spec => []EdgeContiguous
<1>1. WInv => EdgeContiguous
  BY DEF WInv
<1> QED
  BY <1>1, WInvariance, PTL

(* Seqs are broadcast in increasing order until an envelope has no JSON    *)
(* form.                                                                   *)
THEOREM InOrder == Spec => []BroadcastOrdered
<1>1. WInv => BroadcastOrdered
  BY DEF WInv
<1> QED
  BY <1>1, WInvariance, PTL

(* No snapshot of Stats shows a line written that it shows neither as      *)
(* appended nor as a WAL error.                                            *)
THEOREM Covered == Spec => []SnapshotCovers
<1>1. WInv => SnapshotCovers
  BY DEF WInv, Covers, SnapshotCovers, Order
<1> QED
  BY <1>1, WInvariance, PTL
=============================================================================
