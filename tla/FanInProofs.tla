---------------------------- MODULE FanInProofs ----------------------------
(***************************************************************************)
(* Proofs about the fan-in path, for any set of (agent, stream) pairs, any *)
(* queue depth and any number of restarts.                                 *)
(*                                                                         *)
(* CursorAccounted is not inductive.  It needs that a stream goes on from  *)
(* the cursor it was opened with (Abreast), that the file never runs ahead *)
(* of memory (DiskBehind), and that a process that is down or drains has   *)
(* no stream loop left (Quiesced).                                         *)
(***************************************************************************)
EXTENDS FanIn, TLAPS

(* The stream of a pair stands where its cursor says, one past it with an  *)
(* envelope in hand that was not saved, or at the live tail.               *)
Abreast ==
  \A p \in Pairs :
    /\ loop[p] = "recv"  => pos[p] = data[p] \/ (data[p] = 0 /\ pos[p] = since[p])
    /\ loop[p] = "got"   => pos[p] = data[p] + 1 \/ (data[p] = 0 /\ pos[p] = since[p] + 1)
    /\ loop[p] = "saved" => pos[p] = data[p]

DiskBehind == \A p \in Pairs : file[p] <= data[p]

Quiesced ==
  /\ phase \in {"down", "drain"} => \A p \in Pairs : loop[p] = "exit"
  /\ phase = "down" => queue = <<>>

Inv == TypeOK /\ Abreast /\ DiskBehind /\ Quiesced /\ CursorAccounted

-----------------------------------------------------------------------------
(* The merge channel.                                                      *)

LEMMA QueuedAppend ==
  ASSUME queue \in Seq(Item), NEW p \in Pairs, NEW s \in Nat,
         queue' = Append(queue, [pair |-> p, seq |-> s]), NEW q \in Pairs
  PROVE  Queued(q)' = IF q = p THEN Queued(q) \cup {s} ELSE Queued(q)
<1> DEFINE e == [pair |-> p, seq |-> s]
<1>1. /\ Len(queue) \in Nat /\ DOMAIN queue = 1..Len(queue)
      /\ DOMAIN queue' = 1..(Len(queue) + 1)
      /\ \A i \in 1..Len(queue) : queue'[i] = queue[i]
      /\ queue'[Len(queue) + 1] = e
  BY DEF Item
<1>2. Queued(q) \subseteq Queued(q)'
  BY <1>1 DEF Queued
<1>3. q = p => s \in Queued(q)'
  BY <1>1 DEF Queued
<1>4. ASSUME NEW x \in Queued(q)', x \notin Queued(q)
      PROVE  q = p /\ x = s
  <2>1. PICK i \in DOMAIN queue' : queue'[i].pair = q /\ queue'[i].seq = x
    BY <1>4 DEF Queued
  <2>2. i = Len(queue) + 1
    BY <1>1, <1>4, <2>1 DEF Queued
  <2> QED
    BY <1>1, <2>1, <2>2
<1> QED
  BY <1>2, <1>3, <1>4, Zenon

LEMMA QueuedTail ==
  ASSUME queue \in Seq(Item), queue # <<>>, queue' = Tail(queue), NEW q \in Pairs
  PROVE  Queued(q) \subseteq
           Queued(q)' \cup (IF Head(queue).pair = q THEN {Head(queue).seq} ELSE {})
<1>1. /\ Len(queue) \in Nat \ {0} /\ DOMAIN queue = 1..Len(queue)
      /\ DOMAIN queue' = 1..(Len(queue) - 1)
      /\ \A i \in 1..(Len(queue) - 1) : queue'[i] = queue[i + 1]
      /\ Head(queue) = queue[1]
  OBVIOUS
<1>2. SUFFICES ASSUME NEW i \in 1..Len(queue), queue[i].pair = q
               PROVE  \/ queue[i].seq \in Queued(q)'
                      \/ Head(queue).pair = q /\ queue[i].seq = Head(queue).seq
  BY <1>1 DEF Queued
<1>3. CASE i = 1
  BY <1>1, <1>2, <1>3
<1>4. CASE i # 1
  <2>1. i - 1 \in 1..(Len(queue) - 1) /\ queue'[i - 1] = queue[i]
    BY <1>1, <1>4
  <2> QED
    BY <1>1, <1>2, <2>1, Zenon DEF Queued
<1> QED
  BY <1>3, <1>4

-----------------------------------------------------------------------------
(* What accounts for an envelope of a pair.                                *)

Covered(p) == emitted[p] \cup dropped[p] \cup Queued(p) \cup InHand(p) \cup lost[p]

AccountedAt(p) ==
  \A s \in 1..MaxSeq : since[p] < s /\ s <= data[p] => s \in Covered(p)

LEMMA AccountedEach == CursorAccounted <=> \A p \in Pairs : AccountedAt(p)
BY DEF CursorAccounted, AccountedAt, Accounted, Covered

(* An envelope stays accounted for while nothing that accounts for one is  *)
(* forgotten and the cursor does not move on.                              *)
LEMMA StaysAccounted ==
  ASSUME Inv, TypeOK', NEW p \in Pairs,
         Covered(p) \subseteq Covered(p)', since'[p] = since[p], data'[p] <= data[p]
  PROVE  AccountedAt(p)'
<1>1. AccountedAt(p) /\ data[p] \in Nat /\ data'[p] \in Nat
  BY AccountedEach DEF Inv, TypeOK
<1>2. MaxSeq \in Nat /\ MaxSeq' = MaxSeq
  BY FanInConstants
<1> QED
  BY <1>1, <1>2 DEF AccountedAt

(* A step of a stream loop leaves the other pairs alone.                   *)
LEMMA OthersKept ==
  ASSUME Inv, NEW p \in Pairs, NEW q \in Pairs, q # p, StreamLoop(p)
  PROVE  /\ loop'[q] = loop[q] /\ pos'[q] = pos[q] /\ data'[q] = data[q]
         /\ since'[q] = since[q] /\ file'[q] = file[q]
         /\ emitted'[q] = emitted[q] /\ dropped'[q] = dropped[q] /\ lost'[q] = lost[q]
         /\ Queued(q)' = Queued(q) /\ InHand(q)' = InHand(q)
<1>1. TypeOK
  BY DEF Inv
<1>2. /\ loop'[q] = loop[q] /\ pos'[q] = pos[q] /\ data'[q] = data[q]
      /\ since'[q] = since[q] /\ file' = file
      /\ emitted' = emitted /\ dropped'[q] = dropped[q] /\ lost' = lost
  BY <1>1, SMTT(30), Zenon DEF TypeOK, StreamLoop, Attach, AttachFails, Recv, Save, Forward, StreamError,
              Retry, LoopReturns, Goto, agents, cursors, history
<1>3. InHand(q)' = InHand(q)
  BY <1>2 DEF InHand
<1>4. queue' = queue \/ queue' = Append(queue, [pair |-> p, seq |-> pos[p]])
  BY DEF StreamLoop, Attach, AttachFails, Recv, Save, Forward, StreamError,
         Retry, LoopReturns
<1>5. Queued(q)' = Queued(q)
  <2>1. CASE queue' = queue
    BY <2>1 DEF Queued
  <2>2. CASE queue' = Append(queue, [pair |-> p, seq |-> pos[p]])
    BY <1>1, <2>2, QueuedAppend, Zenon DEF TypeOK
  <2> QED
    BY <1>4, <2>1, <2>2
<1> QED
  BY <1>2, <1>3, <1>5

LEMMA LoopTypes ==
  ASSUME TypeOK, NEW p \in Pairs, StreamLoop(p)
  PROVE  TypeOK'
<1>1. /\ produced' = produced /\ phase' = phase /\ lives' = lives /\ file' = file
      /\ emitted' = emitted /\ lost' = lost
  BY DEF StreamLoop, Attach, AttachFails, Recv, Save, Forward, StreamError,
         Retry, LoopReturns, agents, cursors, history
<1>2. loop' \in [Pairs -> {"dial", "recv", "got", "saved", "backoff", "exit"}]
  <2>1. \E x \in {"dial", "recv", "got", "saved", "backoff", "exit"} :
          loop' = [loop EXCEPT ![p] = x]
    BY DEF StreamLoop, Attach, AttachFails, Recv, Save, Forward, StreamError,
           Retry, LoopReturns, Goto
  <2> QED
    BY <2>1 DEF TypeOK
<1>3. pos' \in [Pairs -> Nat] /\ since' \in [Pairs -> Nat]
  <2>1. /\ \/ pos' = pos \/ pos' = [pos EXCEPT ![p] = @ + 1]
           \/ pos' = [pos EXCEPT ![p] = produced[p]] \/ pos' = [pos EXCEPT ![p] = data[p]]
        /\ since' = since \/ since' = [since EXCEPT ![p] = produced[p]]
    BY DEF StreamLoop, Attach, AttachFails, Recv, Save, Forward, StreamError,
           Retry, LoopReturns, agents, history
  <2>2. produced[p] \in Nat /\ data[p] \in Nat /\ pos[p] + 1 \in Nat
    BY DEF TypeOK
  <2> QED
    BY <2>1, <2>2, Zenon DEF TypeOK
<1>4. data' \in [Pairs -> Nat] /\ dirty' \in BOOLEAN
  <2>1. \/ data' = data /\ dirty' = dirty
        \/ data' = [data EXCEPT ![p] = pos[p]] /\ dirty' = TRUE
    BY DEF StreamLoop, Attach, AttachFails, Recv, Save, Forward, StreamError,
           Retry, LoopReturns, cursors
  <2>2. pos[p] \in Nat /\ data \in [Pairs -> Nat] /\ dirty \in BOOLEAN
    BY DEF TypeOK
  <2>3. CASE data' = data /\ dirty' = dirty
    BY <2>2, <2>3
  <2>4. CASE data' = [data EXCEPT ![p] = pos[p]] /\ dirty' = TRUE
    BY <2>2, <2>4
  <2> QED
    BY <2>1, <2>3, <2>4, Zenon
<1>5. dropped' \in [Pairs -> SUBSET Nat]
  <2>1. dropped' = dropped \/ dropped' = [dropped EXCEPT ![p] = @ \cup {pos[p]}]
    BY DEF StreamLoop, Attach, AttachFails, Recv, Save, Forward, StreamError,
           Retry, LoopReturns, history
  <2>2. dropped \in [Pairs -> SUBSET Nat] /\ pos[p] \in Nat
    BY DEF TypeOK
  <2>3. dropped[p] \cup {pos[p]} \in SUBSET Nat
    BY <2>2
  <2> QED
    BY <2>1, <2>2, <2>3
<1>6. queue' \in Seq(Item) /\ Len(queue') <= QueueDepth
  <2>1. CASE queue' = queue
    BY <2>1 DEF TypeOK
  <2>2. CASE queue' # queue
    <3>1. queue' = Append(queue, [pair |-> p, seq |-> pos[p]]) /\ Len(queue) < QueueDepth
      BY <2>2 DEF StreamLoop, Attach, AttachFails, Recv, Save, Forward, StreamError,
                  Retry, LoopReturns
    <3>2. [pair |-> p, seq |-> pos[p]] \in Item
      BY DEF Item, TypeOK
    <3> QED
      BY <3>1, <3>2, FanInConstants DEF TypeOK
  <2> QED
    BY <2>1, <2>2
<1> QED
  BY <1>1, <1>2, <1>3, <1>4, <1>5, <1>6, SMTT(30), Zenon DEF TypeOK

(* A stream loop's step, for its own pair.                                 *)
LEMMA LoopStep ==
  ASSUME Inv, NEW p \in Pairs, StreamLoop(p)
  PROVE  Inv'
<1>1. TypeOK /\ TypeOK'
  BY LoopTypes DEF Inv
<1>2. Up /\ phase' = phase /\ file' = file /\ phase # "drain"
  BY DEF Inv, Quiesced, StreamLoop, Attach, AttachFails, Recv, Save, Forward, StreamError,
         Retry, LoopReturns, Goto, Up, Ctx, cursors
<1>3. Quiesced'
  BY <1>2 DEF Quiesced, Up
<1>4. /\ \A q \in Pairs \ {p} : AccountedAt(q)'
      /\ \A q \in Pairs \ {p} : data'[q] = data[q]
  <2> SUFFICES ASSUME NEW q \in Pairs, q # p
               PROVE  AccountedAt(q)' /\ data'[q] = data[q]
    OBVIOUS
  <2>1. data'[q] = data[q] /\ since'[q] = since[q] /\ Covered(q)' = Covered(q)
    BY OthersKept DEF Covered
  <2>2. data'[q] <= data[q]
    BY <1>1, <2>1 DEF TypeOK
  <2> QED
    BY <1>1, <2>1, <2>2, StaysAccounted
<1>5. DiskBehind'
  <2>1. data' = data \/ (data'[p] = pos[p] /\ ~(pos[p] < data[p]))
    BY <1>1 DEF TypeOK, StreamLoop, Attach, AttachFails, Recv, Save, Forward, StreamError,
                Retry, LoopReturns, cursors
  <2>2. /\ data \in [Pairs -> Nat] /\ file \in [Pairs -> Nat] /\ pos[p] \in Nat
        /\ \A q \in Pairs : file[q] <= data[q]
    BY <1>1, SMTT(30), Zenon DEF TypeOK, Inv, DiskBehind
  <2>3. file'[p] <= data'[p]
    BY <1>2, <2>1, <2>2
  <2> QED
    BY <1>2, <1>4, <2>2, <2>3 DEF DiskBehind
<1>6. Abreast' /\ AccountedAt(p)'
  <2>1. SUFFICES /\ loop'[p] = "recv"  => pos'[p] = data'[p] \/ (data'[p] = 0 /\ pos'[p] = since'[p])
                 /\ loop'[p] = "got"   => (pos'[p] = data'[p] + 1 \/ (data'[p] = 0 /\ pos'[p] = since'[p] + 1))
                 /\ loop'[p] = "saved" => pos'[p] = data'[p]
                 /\ AccountedAt(p)'
    <3>1. ASSUME NEW q \in Pairs, q # p
          PROVE  /\ loop'[q] = loop[q] /\ pos'[q] = pos[q] /\ data'[q] = data[q]
                 /\ since'[q] = since[q]
      BY <3>1, OthersKept
    <3> QED
      BY <3>1, SMTT(30), Zenon DEF Inv, Abreast
  <2>2. /\ loop[p] = "recv"  => pos[p] = data[p] \/ (data[p] = 0 /\ pos[p] = since[p])
        /\ loop[p] = "got"   => pos[p] = data[p] + 1 \/ (data[p] = 0 /\ pos[p] = since[p] + 1)
        /\ loop[p] = "saved" => pos[p] = data[p]
        /\ AccountedAt(p)
    BY AccountedEach DEF Inv, Abreast
  <2>3. /\ loop \in [Pairs -> {"dial", "recv", "got", "saved", "backoff", "exit"}]
        /\ pos \in [Pairs -> Nat] /\ data \in [Pairs -> Nat] /\ since \in [Pairs -> Nat]
        /\ produced \in [Pairs -> Nat] /\ dropped \in [Pairs -> SUBSET Nat]
        /\ data'[p] \in Nat
    BY <1>1, SMTT(30), Zenon DEF TypeOK
  <2>4. CASE Attach(p)
    <3>1. /\ loop[p] = "dial" /\ loop'[p] = "recv" /\ data' = data
          /\ data[p] = 0 => pos'[p] = produced[p] /\ since'[p] = produced[p]
          /\ data[p] # 0 => pos'[p] = data[p] /\ since'[p] = since[p]
      BY <2>3, <2>4 DEF Attach, Goto, cursors
    <3>2. Covered(p) \subseteq Covered(p)'
      BY <2>4, <3>1 DEF Attach, Covered, Queued, InHand
    <3>3. data[p] # 0 => AccountedAt(p)'
      BY <1>1, <2>3, <3>1, <3>2, StaysAccounted
    <3>4. data[p] = 0 => AccountedAt(p)'
      BY <2>3, <3>1 DEF AccountedAt
    <3> QED
      BY <2>1, <3>1, <3>3, <3>4
  <2>5. CASE AttachFails(p) \/ StreamError(p) \/ Retry(p) \/ LoopReturns(p)
    <3>1. /\ loop[p] \notin {"got", "saved"} /\ loop'[p] \in {"dial", "backoff", "exit"}
          /\ data' = data /\ since' = since
      BY <2>3, <2>5 DEF AttachFails, StreamError, Retry, LoopReturns, Goto, cursors, history
    <3>2. Covered(p) \subseteq Covered(p)'
      BY <2>5, <3>1 DEF AttachFails, StreamError, Retry, LoopReturns, Covered, Queued, InHand,
                        history
    <3>3. AccountedAt(p)'
      BY <1>1, <2>3, <3>1, <3>2, StaysAccounted
    <3> QED
      BY <2>1, <3>1, <3>3
  <2>6. CASE Recv(p)
    <3>1. /\ loop[p] = "recv" /\ loop'[p] = "got" /\ pos'[p] = pos[p] + 1
          /\ data' = data /\ since' = since
      BY <2>3, <2>6 DEF Recv, Goto, cursors, history
    <3>2. Covered(p) \subseteq Covered(p)'
      BY <2>6, <3>1 DEF Recv, Covered, Queued, InHand, history
    <3>3. AccountedAt(p)'
      BY <1>1, <2>3, <3>1, <3>2, StaysAccounted
    <3>4. pos'[p] = data'[p] + 1 \/ (data'[p] = 0 /\ pos'[p] = since'[p] + 1)
      BY <2>2, <3>1
    <3> QED
      BY <2>1, <3>1, <3>3, <3>4
  <2>7. CASE Save(p)
    <3>1. /\ loop[p] = "got" /\ loop'[p] = "saved" /\ pos' = pos /\ since' = since
      <4>1. Goto(p, "got", "saved") /\ pos' = pos /\ since' = since
        BY <2>7 DEF Save, history
      <4> QED
        BY <2>3, <4>1 DEF Goto
    <3>2. data'[p] = pos[p]
      <4>1. ~(pos[p] < data[p])
        BY <2>2, <2>3, <3>1
      <4>2. data' = [data EXCEPT ![p] = pos[p]]
        BY <2>7, <4>1 DEF Save
      <4> QED
        BY <2>3, <4>2
    <3>3. Covered(p) \subseteq Covered(p)' /\ pos[p] \in Covered(p)'
      BY <2>7, <3>1 DEF Save, Covered, Queued, InHand, history
    <3>4. ASSUME NEW s \in 1..MaxSeq, since[p] < s, s <= pos[p]
          PROVE  s \in Covered(p)'
      <4>1. s = pos[p] \/ s <= data[p]
        BY <2>2, <2>3, <3>1, <3>4, FanInConstants
      <4> QED
        BY <2>2, <3>3, <3>4, <4>1 DEF AccountedAt
    <3>5. AccountedAt(p)'
      BY <3>1, <3>2, <3>4 DEF AccountedAt
    <3> QED
      BY <2>1, <3>1, <3>2, <3>5
  <2>8. CASE Forward(p)
    <3>1. /\ loop[p] = "saved" /\ loop'[p] = "recv" /\ pos' = pos /\ since' = since
          /\ data' = data
      BY <2>3, <2>8 DEF Forward, Goto, cursors
    <3>2. pos[p] \in dropped'[p] \cup Queued(p)'
      <4>1. CASE queue' = Append(queue, [pair |-> p, seq |-> pos[p]])
        <5>1. queue \in Seq(Item) /\ pos[p] \in Nat
          BY <1>1, <2>3 DEF TypeOK
        <5>2. Queued(p)' = Queued(p) \cup {pos[p]}
          BY <4>1, <5>1, QueuedAppend
        <5> QED
          BY <5>2
      <4>2. CASE dropped' = [dropped EXCEPT ![p] = @ \cup {pos[p]}]
        BY <2>3, <4>2
      <4> QED
        BY <2>8, <4>1, <4>2 DEF Forward
    <3>3. dropped[p] \subseteq dropped'[p] /\ Queued(p) \subseteq Queued(p)'
      <4>1. dropped[p] \subseteq dropped'[p]
        BY <2>3, <2>8 DEF Forward
      <4>2. queue' = queue \/ queue' = Append(queue, [pair |-> p, seq |-> pos[p]])
        BY <2>8 DEF Forward
      <4>3. CASE queue' = queue
        BY <4>1, <4>3 DEF Queued
      <4>4. CASE queue' = Append(queue, [pair |-> p, seq |-> pos[p]])
        BY <1>1, <2>3, <4>1, <4>4, QueuedAppend, Zenon DEF TypeOK
      <4> QED
        BY <4>2, <4>3, <4>4
    <3>4. Covered(p) \subseteq Covered(p)'
      <4>1. emitted' = emitted /\ lost' = lost /\ InHand(p) = {pos[p]}
        BY <2>8, <3>1 DEF Forward, InHand
      <4> QED
        BY <3>2, <3>3, <4>1 DEF Covered
    <3>5. AccountedAt(p)'
      BY <1>1, <2>3, <3>1, <3>4, StaysAccounted
    <3> QED
      BY <2>1, <2>2, <3>1, <3>5
  <2> QED
    BY <2>4, <2>5, <2>6, <2>7, <2>8 DEF StreamLoop
<1>7. CursorAccounted'
  BY <1>4, <1>6 DEF CursorAccounted, AccountedAt, Accounted, Covered
<1> QED
  BY <1>1, <1>3, <1>5, <1>6, <1>7 DEF Inv

-----------------------------------------------------------------------------
(* The other steps.                                                        *)

LEMMA WriteStep ==
  ASSUME Inv, Write
  PROVE  Inv'
<1>1. TypeOK /\ phase # "down" /\ queue # <<>> /\ queue' = Tail(queue)
  BY DEF Inv, Write, Up
<1>2. Head(queue) \in Item /\ queue' \in Seq(Item) /\ Len(queue') <= QueueDepth
  BY <1>1, FanInConstants DEF TypeOK
<1>3. /\ produced' = produced /\ phase' = phase /\ loop' = loop /\ pos' = pos
      /\ data' = data /\ dirty' = dirty /\ file' = file /\ lives' = lives
      /\ dropped' = dropped /\ lost' = lost /\ since' = since
      /\ emitted' = [emitted EXCEPT ![Head(queue).pair] = @ \cup {Head(queue).seq}]
  BY DEF Write, agents, cursors
<1>4. emitted' \in [Pairs -> SUBSET Nat]
  <2>1. emitted \in [Pairs -> SUBSET Nat] /\ Head(queue).pair \in Pairs /\ Head(queue).seq \in Nat
    BY <1>1, <1>2, Zenon DEF TypeOK, Item
  <2>2. emitted[Head(queue).pair] \cup {Head(queue).seq} \in SUBSET Nat
    BY <2>1
  <2> QED
    BY <1>3, <2>1, <2>2
<1>5. TypeOK'
  BY <1>1, <1>2, <1>3, <1>4, SMTT(30), Zenon DEF TypeOK
<1>6. Abreast' /\ DiskBehind' /\ Quiesced'
  BY <1>1, <1>3 DEF Inv, Abreast, DiskBehind, Quiesced
<1>7. ASSUME NEW p \in Pairs
      PROVE  AccountedAt(p)'
  <2>1. emitted[p] \cup (IF Head(queue).pair = p THEN {Head(queue).seq} ELSE {}) \subseteq emitted'[p]
    BY <1>1, <1>3, SMTT(30), Zenon DEF TypeOK
  <2>2. Queued(p) \subseteq Queued(p)' \cup emitted'[p]
    BY <1>1, <2>1, QueuedTail DEF TypeOK
  <2>3. InHand(p)' = InHand(p)
    BY <1>3 DEF InHand
  <2>4. Covered(p) \subseteq Covered(p)'
    BY <1>3, <2>1, <2>2, <2>3 DEF Covered
  <2>5. since'[p] = since[p] /\ data'[p] <= data[p]
    BY <1>1, <1>3 DEF TypeOK
  <2> QED
    BY <1>5, <2>4, <2>5, StaysAccounted
<1>8. CursorAccounted'
  BY <1>7 DEF CursorAccounted, AccountedAt, Accounted, Covered
<1> QED
  BY <1>5, <1>6, <1>8 DEF Inv

(* The steps that touch neither the channel nor what a loop has in hand.   *)
LEMMA QuietStep ==
  ASSUME Inv, TypeOK', Abreast', DiskBehind', Quiesced',
         queue' = queue, emitted' = emitted, dropped' = dropped, lost' = lost,
         since' = since,
         \A p \in Pairs : InHand(p) \subseteq InHand(p)' /\ data'[p] <= data[p]
  PROVE  Inv'
<1>1. ASSUME NEW p \in Pairs
      PROVE  AccountedAt(p)'
  <2>1. Covered(p) \subseteq Covered(p)'
    BY DEF Covered, Queued
  <2> QED
    BY <2>1, StaysAccounted
<1>2. CursorAccounted'
  BY <1>1 DEF CursorAccounted, AccountedAt, Accounted, Covered
<1> QED
  BY <1>2 DEF Inv

LEMMA CrashStep ==
  ASSUME Inv, Crash
  PROVE  Inv'
<1>1. TypeOK
  BY DEF Inv
<1>2. /\ produced' = produced /\ phase' = "down" /\ loop' = [p \in Pairs |-> "exit"]
      /\ pos' = pos /\ data' = data /\ dirty' = dirty /\ file' = file /\ lives' = lives
      /\ queue' = <<>> /\ emitted' = emitted /\ dropped' = dropped /\ since' = since
      /\ lost' = [p \in Pairs |-> lost[p] \cup Queued(p) \cup InHand(p)]
  BY DEF Crash, agents, cursors
<1>3. lost' \in [Pairs -> SUBSET Nat]
  <2>1. ASSUME NEW p \in Pairs
        PROVE  lost[p] \cup Queued(p) \cup InHand(p) \in SUBSET Nat
    <3>1. Queued(p) \subseteq Nat
      <4>1. \A i \in DOMAIN queue : queue[i] \in Item
        BY <1>1 DEF TypeOK
      <4>2. \A e \in Item : e.seq \in Nat
        BY DEF Item
      <4> QED
        BY <4>1, <4>2 DEF Queued
    <3> QED
      BY <1>1, <3>1 DEF TypeOK, InHand
  <2> QED
    BY <1>2, <2>1
<1>4. TypeOK'
  <2>1. queue' \in Seq(Item) /\ Len(queue') <= QueueDepth
    BY <1>2, FanInConstants
  <2>2. loop' \in [Pairs -> {"dial", "recv", "got", "saved", "backoff", "exit"}]
    BY <1>2
  <2> QED
    BY <1>1, <1>2, <1>3, <2>1, <2>2 DEF TypeOK
<1>5. Abreast' /\ DiskBehind' /\ Quiesced'
  BY <1>2 DEF Inv, Abreast, DiskBehind, Quiesced
<1>6. ASSUME NEW p \in Pairs
      PROVE  AccountedAt(p)'
  <2>1. Covered(p) \subseteq Covered(p)'
    BY <1>2 DEF Covered
  <2>2. since'[p] = since[p] /\ data'[p] <= data[p]
    BY <1>1, <1>2 DEF TypeOK
  <2> QED
    BY <1>4, <2>1, <2>2, StaysAccounted
<1>7. CursorAccounted'
  BY <1>6 DEF CursorAccounted, AccountedAt, Accounted, Covered
<1> QED
  BY <1>4, <1>5, <1>7 DEF Inv

LEMMA ProcessStep ==
  ASSUME Inv, Flush \/ Start \/ Cancel \/ CloseChannel \/ Finish
  PROVE  Inv'
<1>1. TypeOK /\ Abreast /\ DiskBehind /\ Quiesced
  BY DEF Inv
<1>2. /\ produced' = produced /\ pos' = pos /\ queue' = queue
      /\ emitted' = emitted /\ dropped' = dropped /\ lost' = lost /\ since' = since
  BY DEF Flush, Start, Cancel, CloseChannel, Finish, agents, history
<1>3. /\ data' = data \/ data' = file
      /\ file' = file \/ file' = data
      /\ data' = data \/ file' = file
      /\ lives' = lives \/ lives' = lives + 1
      /\ phase' \in {"down", "run", "stop", "drain"}
      /\ loop' = loop \/ (phase = "down" /\ loop' = [p \in Pairs |-> "dial"])
      /\ dirty' = dirty \/ dirty' = FALSE
  BY <1>1 DEF TypeOK, Flush, Start, Cancel, CloseChannel, Finish, cursors
<1>4. TypeOK'
  <2>1. loop' \in [Pairs -> {"dial", "recv", "got", "saved", "backoff", "exit"}]
    BY <1>1, <1>3 DEF TypeOK
  <2>2. data' \in [Pairs -> Nat] /\ file' \in [Pairs -> Nat] /\ lives' \in Nat
    BY <1>1, <1>3, SMTT(30), Zenon DEF TypeOK
  <2>3. dirty' \in BOOLEAN
    BY <1>1, <1>3, Zenon DEF TypeOK
  <2> QED
    BY <1>1, <1>2, <1>3, <2>1, <2>2, <2>3, SMTT(30), Zenon DEF TypeOK
<1>5. DiskBehind'
  BY <1>1, <1>3, SMTT(30), Zenon DEF TypeOK, DiskBehind
<1>6. Quiesced'
  <2>1. CASE Flush
    BY <1>1, <2>1 DEF Flush, Quiesced
  <2>2. CASE Start
    BY <2>2 DEF Start, Quiesced
  <2>3. CASE Cancel
    BY <2>3 DEF Cancel, Quiesced
  <2>4. CASE CloseChannel
    BY <2>4 DEF CloseChannel, AllLoopsReturned, Quiesced
  <2>5. CASE Finish
    BY <1>1, <2>5 DEF Finish, Quiesced
  <2> QED
    BY <2>1, <2>2, <2>3, <2>4, <2>5
<1>7. Abreast'
  <2>1. CASE Start
    BY <2>1 DEF Start, Abreast
  <2>2. CASE ~Start
    <3>1. loop' = loop /\ data' = data
      BY <2>2 DEF Flush, Cancel, CloseChannel, Finish, cursors
    <3> QED
      BY <1>1, <1>2, <3>1 DEF Abreast
  <2> QED
    BY <2>1, <2>2
<1>8. ASSUME NEW p \in Pairs
      PROVE  InHand(p) \subseteq InHand(p)' /\ data'[p] <= data[p]
  <2>1. data'[p] <= data[p]
    BY <1>1, <1>3, SMTT(30), Zenon DEF TypeOK, DiskBehind
  <2>2. InHand(p) \subseteq InHand(p)'
    BY <1>1, <1>2, <1>3 DEF InHand, Quiesced
  <2> QED
    BY <2>1, <2>2
<1> QED
  BY <1>2, <1>4, <1>5, <1>6, <1>7, <1>8, QuietStep

LEMMA ProduceStep ==
  ASSUME Inv, NEW p \in Pairs, Produce(p)
  PROVE  Inv'
<1>1. /\ UNCHANGED <<phase, loop, pos, queue, data, dirty, file, lives,
                     emitted, dropped, lost, since>>
      /\ produced' = [produced EXCEPT ![p] = @ + 1]
  BY DEF Produce, cursors, history
<1>2. TypeOK'
  <2>1. produced' \in [Pairs -> Nat]
    BY <1>1 DEF Inv, TypeOK
  <2> QED
    BY <1>1, <2>1 DEF Inv, TypeOK
<1>3. Abreast' /\ DiskBehind' /\ Quiesced'
  BY <1>1 DEF Inv, Abreast, DiskBehind, Quiesced
<1>4. \A q \in Pairs : InHand(q) \subseteq InHand(q)' /\ data'[q] <= data[q]
  BY <1>1 DEF InHand, Inv, TypeOK
<1> QED
  BY <1>1, <1>2, <1>3, <1>4, QuietStep

LEMMA InvStep == Inv /\ [Next]_vars => Inv'
<1> SUFFICES ASSUME Inv, [Next]_vars
             PROVE  Inv'
  OBVIOUS
<1>1. CASE \E p \in Pairs : StreamLoop(p)
  BY <1>1, LoopStep
<1>2. CASE Write
  BY <1>2, WriteStep
<1>3. CASE Flush \/ Start \/ Cancel \/ CloseChannel \/ Finish
  BY <1>3, ProcessStep
<1>4. CASE Crash
  BY <1>4, CrashStep
<1>5. CASE \E p \in Pairs : Produce(p)
  BY <1>5, ProduceStep
<1>6. CASE UNCHANGED vars
  BY <1>6 DEF vars, Inv, TypeOK, Abreast, DiskBehind, Quiesced, CursorAccounted, Accounted,
              Queued, InHand
<1> QED
  BY <1>1, <1>2, <1>3, <1>4, <1>5, <1>6 DEF Next

LEMMA InvStart == Init => Inv
<1> SUFFICES ASSUME Init
             PROVE  Inv
  OBVIOUS
<1>1. TypeOK
  <2>1. queue \in Seq(Item) /\ Len(queue) <= QueueDepth
    BY FanInConstants DEF Init
  <2> QED
    BY <2>1, Zenon DEF Init, TypeOK
<1>2. Abreast /\ DiskBehind /\ Quiesced
  BY DEF Init, Abreast, DiskBehind, Quiesced
<1>3. CursorAccounted
  BY FanInConstants DEF Init, CursorAccounted
<1> QED
  BY <1>1, <1>2, <1>3 DEF Inv

LEMMA Invariance == Spec => []Inv
BY InvStart, InvStep, PTL DEF Spec

-----------------------------------------------------------------------------
(* Every variable of the fan-in path keeps its type, and the merge channel *)
(* its capacity.                                                           *)
THEOREM TypeCorrect == Spec => []TypeOK
<1>1. Inv => TypeOK
  BY DEF Inv
<1> QED
  BY <1>1, Invariance, PTL

(* No reconnect and no restart skips an envelope: every one up to the      *)
(* saved cursor was emitted, is on its way, was counted as dropped, or was *)
(* in the channel or in hand when a process died.                          *)
THEOREM NothingSkipped == Spec => []CursorAccounted
<1>1. Inv => CursorAccounted
  BY DEF Inv
<1> QED
  BY <1>1, Invariance, PTL

(* A process that stopped by itself left no envelope up to the file's      *)
(* cursor unwritten.                                                       *)
THEOREM StopsClean == Spec => []StoppedClean
<1>1. Inv => StoppedClean
  <2> SUFFICES ASSUME Inv, phase = "down", NEW p \in Pairs, NEW s \in 1..MaxSeq,
                      since[p] < s, s <= file[p]
               PROVE  s \in emitted[p] \cup dropped[p] \cup lost[p]
    BY DEF StoppedClean
  <2>1. Queued(p) = {} /\ InHand(p) = {}
    BY DEF Inv, Quiesced, Queued, InHand
  <2>2. s <= data[p]
    BY FanInConstants DEF Inv, TypeOK, DiskBehind
  <2>3. Accounted(p, s) \/ s \in lost[p]
    BY <2>2 DEF Inv, CursorAccounted
  <2> QED
    BY <2>1, <2>3 DEF Accounted
<1> QED
  BY <1>1, Invariance, PTL

(* A pair whose cursor reached the disk is never attached at the live tail *)
(* again: since moves only on an attach without a cursor, and memory is    *)
(* never behind the file.                                                  *)
THEOREM NeverTailAgain == Spec => ResumesFromDisk
<1>1. Inv /\ [Next]_vars => [\A p \in Pairs : file[p] # 0 => since'[p] = since[p]]_vars
  <2> SUFFICES ASSUME Inv, [Next]_vars, NEW p \in Pairs, file[p] # 0
               PROVE  since'[p] = since[p]
    OBVIOUS
  <2>1. data[p] # 0 /\ since \in [Pairs -> Nat]
    BY DEF Inv, TypeOK, DiskBehind
  <2>2. CASE \E q \in Pairs : Attach(q)
    BY <2>1, <2>2, SMTT(30), Zenon DEF Attach
  <2>3. CASE ~(\E q \in Pairs : Attach(q))
    BY <2>3, Zenon DEF Next, vars, StreamLoop, AttachFails, Recv, Save, Forward, StreamError, Retry,
                LoopReturns, Write, Flush, Start, Cancel, CloseChannel, Finish, Crash, Produce,
                history
  <2> QED
    BY <2>2, <2>3
<1> QED
  BY <1>1, Invariance, PTL DEF Spec, ResumesFromDisk
=============================================================================
