------------------------------ MODULE ReExport ------------------------------
(***************************************************************************)
(* The re-export path: the writer goroutine gives an envelope its cluster  *)
(* seq (emitEnvelope: WAL append, then broadcast to the registered         *)
(* subscribers), and each downstream client's Subscribe call registers,    *)
(* replays the WAL above its cursor and then follows its live channel.     *)
(*                                                                         *)
(* Composition: this module adds the writer and the clients to EnvWal.     *)
(* Client c's replay is the ReadFrom call of reader c.  The append and the *)
(* broadcast are two steps, as they hold two different mutexes, so a       *)
(* client may register, snapshot or finish its replay between them.        *)
(***************************************************************************)
EXTENDS EnvWal, EventFilter

CONSTANTS
  Buffer,    \* ReExportServer.SubscriberBuffer: capacity of a live channel
  Requests,  \* the stream and filter a client may ask for
  MaxAhead,  \* bound: how far liveSeq may run ahead of the WAL's seq
  Content    \* the envelopes: Content[s] is the one Append gave, or meant
             \* to give, the seq s; Content[0] has no JSON form

ASSUME ReExportConstants ==
  /\ Buffer \in Nat \ {0} /\ MaxAhead \in Nat
  /\ \A req \in Requests : Request(req)
  /\ \A s \in 0..MaxSeq : Envelope(Content[s])

VARIABLES
  liveSeq,  \* Aggregator.liveSeq
  pend,     \* the liveEnvelope still to be broadcast, NoEnv if none
  sub       \* one Subscribe call per client

rvars == <<vars, liveSeq, pend, sub>>

NoCursor == -1

(* A liveEnvelope: the seq it travels under and the envelope, an index of  *)
(* Content.  The two differ when the WAL did not assign the seq.           *)
Live(s, id) == [seq |-> s, env |-> id]
NoEnv == Live(0, 0)

(* ch and drops are the liveSubscriber, last is lastSentSeq, sent is what  *)
(* the client received in this call, base the seq it attached at.          *)
Off == [pc |-> "off", cursor |-> NoCursor, req |-> NoRequest, ch |-> <<>>,
        drops |-> 0, last |-> 0, sent |-> <<>>, base |-> 0]

(* Fault: a subscriber counts as registered only after its replay.         *)
BugRegistered == {c \in Readers : sub[c].pc = "live"}

Registered == {c \in Readers : sub[c].pc # "off"}

-----------------------------------------------------------------------------
(* emitEnvelope.                                                           *)

(* The WAL assigned the seq.                                               *)
EmitAppend ==
  /\ pend = NoEnv
  /\ AppendStay \/ AppendRotate
  /\ liveSeq' = seq'
  /\ pend' = Live(seq', seq')
  /\ UNCHANGED sub

(* The append failed: fall back to the in-memory counter.                  *)
EmitFallback ==
  /\ pend = NoEnv
  /\ AppendWriteFails \/ AppendRotateFails
  /\ liveSeq' = liveSeq + 1
  /\ pend' = Live(liveSeq + 1, seq')
  /\ UNCHANGED sub

(* The envelope has no JSON form: Append fails without spending a seq, so  *)
(* that the WAL may assign the fallback's seq to the next envelope.        *)
EmitUnencodable ==
  /\ up /\ pend = NoEnv /\ "encode" \in Faults
  /\ liveSeq < seq + MaxAhead
  /\ liveSeq' = liveSeq + 1
  /\ pend' = Live(liveSeq + 1, 0)
  /\ UNCHANGED <<vars, sub>>

(* broadcast: a non-blocking send to every registered subscriber.          *)
Offer(s, x) ==
  IF Len(s.ch) < Buffer THEN [s EXCEPT !.ch = Append(@, x)]
                        ELSE [s EXCEPT !.drops = @ + 1]

Broadcast ==
  /\ up /\ pend # NoEnv
  /\ sub' = [c \in Readers |->
               IF c \in Registered THEN Offer(sub[c], pend) ELSE sub[c]]
  /\ pend' = NoEnv
  /\ UNCHANGED <<vars, liveSeq>>

-----------------------------------------------------------------------------
(* Subscribe.                                                              *)

(* registerSubscriber.  Without a cursor the call goes straight to the     *)
(* live tail and answers for what is broadcast from here on: the record    *)
(* just appended included, if its broadcast is still to come.              *)
Subscribe(c, req, cursor) ==
  /\ up /\ sub[c].pc = "off" /\ rd[c].pc = "idle"
  /\ sub' = [sub EXCEPT ![c] =
       [Off EXCEPT !.pc = IF cursor = NoCursor THEN "live" ELSE "joined",
                   !.cursor = cursor,
                   !.req = req,
                   !.base = IF pend = Live(seq, seq) THEN seq - 1 ELSE seq]]
  /\ UNCHANGED <<vars, liveSeq, pend>>

(* replayWAL: ReadFrom with the client's cursor...                         *)
ReplayStart(c) ==
  /\ sub[c].pc = "joined"
  /\ ReadFrom(c, sub[c].cursor)
  /\ sub' = [sub EXCEPT ![c].pc = "replay",
                        ![c].base = rd'[c].lo]
  /\ UNCHANGED <<liveSeq, pend>>

ReplayScan(c) ==
  /\ sub[c].pc = "replay"
  /\ ReadNextSegment(c) \/ ReadEnd(c) \/ ReadReturn(c)
  /\ UNCHANGED <<liveSeq, pend, sub>>

Wants(s, x) == Selects(s.req, Content[x.env])

Deliver(s, x) == [s EXCEPT !.sent = Append(@, x), !.last = x.seq]

(* The record the replay's callback was called with, if it was.            *)
Replayed(c) ==
  IF Len(rd'[c].out) > Len(rd[c].out)
  THEN LET s == rd'[c].out[Len(rd'[c].out)] IN {Live(s, s)}
  ELSE {}

(* ... whose callback sends the records the client asked for.              *)
ReplaySend(c) ==
  /\ sub[c].pc = "replay"
  /\ ReadRecord(c)
  /\ \/ \E x \in Replayed(c) :
          /\ Wants(sub[c], x)
          /\ sub' = [sub EXCEPT ![c] = Deliver(@, x)]
     \/ /\ \A x \in Replayed(c) : ~Wants(sub[c], x)
        /\ UNCHANGED sub
  /\ UNCHANGED <<liveSeq, pend>>

ReplayDone(c) ==
  /\ sub[c].pc = "replay" /\ rd[c].pc = "ok"
  /\ sub' = [sub EXCEPT ![c].pc = "live"]
  /\ rd' = [rd EXCEPT ![c] = Idle]
  /\ UNCHANGED <<up, memory, disk, now, lives, acked, held, liveSeq, pend>>

(* Fault: no de-duplication against the replay.                            *)
BugDuplicate(s, x) == FALSE

Duplicate(s, x) == x.seq <= s.last

(* The live loop takes one envelope: skip what the replay delivered, skip  *)
(* what the client did not ask for, send the rest.  gRPC refuses a string  *)
(* that is not UTF-8 as protojson does: the send of Content[0] fails, and  *)
(* the call can only return.                                               *)
LiveRecv(c) ==
  /\ sub[c].pc = "live" /\ sub[c].ch # <<>>
  /\ LET x == Head(sub[c].ch)
         s == [sub[c] EXCEPT !.ch = Tail(@)]
     IN  \/ /\ Duplicate(s, x) \/ ~Wants(s, x)
            /\ sub' = [sub EXCEPT ![c] = s]
         \/ /\ ~Duplicate(s, x) /\ Wants(s, x) /\ x.env # 0
            /\ sub' = [sub EXCEPT ![c] = Deliver(s, x)]
  /\ UNCHANGED <<vars, liveSeq, pend>>

(* The call returns: the client went away, a send failed, or the replay    *)
(* reported an error.  unregisterSubscriber drops the channel.             *)
Return(c) ==
  /\ up /\ sub[c].pc # "off"
  /\ sub' = [sub EXCEPT ![c] = Off]
  /\ rd' = [rd EXCEPT ![c] = Idle]
  /\ UNCHANGED <<up, memory, disk, now, lives, acked, held, liveSeq, pend>>

-----------------------------------------------------------------------------
(* The janitor, the clock and the process.  A new process starts with      *)
(* liveSeq 0 and no subscriber.                                            *)

Janitor == (GC \/ Tick) /\ UNCHANGED <<liveSeq, pend, sub>>

Start == Open /\ UNCHANGED <<liveSeq, pend, sub>>

Exit ==
  /\ Close \/ (pend = NoEnv /\ CrashInAppend)
  /\ liveSeq' = 0 /\ pend' = NoEnv
  /\ sub' = [c \in Readers |-> Off]

RInit == Init /\ liveSeq = 0 /\ pend = NoEnv /\ sub = [c \in Readers |-> Off]

Client(c) ==
  \/ \E req \in Requests, cursor \in {NoCursor} \cup 0..MaxSeq : Subscribe(c, req, cursor)
  \/ ReplayStart(c)
  \/ ReplayScan(c)
  \/ ReplaySend(c)
  \/ ReplayDone(c)
  \/ LiveRecv(c)
  \/ Return(c)

RNext ==
  \/ EmitAppend
  \/ EmitFallback
  \/ EmitUnencodable
  \/ Broadcast
  \/ \E c \in Readers : Client(c)
  \/ Janitor
  \/ Start
  \/ Exit

RSpec == RInit /\ [][RNext]_rvars

-----------------------------------------------------------------------------
(* Properties.                                                             *)

LiveEnvelope == [seq : Nat, env : 0..MaxSeq]

Call == [pc : {"off", "joined", "replay", "live"}, cursor : {NoCursor} \cup Nat,
         req : {NoRequest} \cup Requests, ch : Seq(LiveEnvelope), drops : Nat,
         last : Nat, sent : Seq(LiveEnvelope), base : Int]

(* Every variable has its type, and no live channel holds more than the    *)
(* buffer registerSubscriber gave it.                                      *)
RTypeOK ==
  /\ TypeOK
  /\ liveSeq \in Nat /\ pend \in LiveEnvelope
  /\ sub \in [Readers -> Call]
  /\ \A c \in Readers : Len(sub[c].ch) <= Buffer

(* Within one Subscribe call the client sees strictly increasing seqs:     *)
(* nothing twice and nothing out of order, at the hand-over from the       *)
(* replay to the live channel included, even when appends fail and the     *)
(* writer falls back to liveSeq.                                           *)
SentIncreasing ==
  \A c \in Readers : \A i, j \in DOMAIN sub[c].sent :
    i < j => sub[c].sent[i].seq < sub[c].sent[j].seq

(* What a client was sent is what its request asks for, whether it came    *)
(* from the replay or from the live channel, from the WAL's numbering or   *)
(* from the fallback's: the selection is the envelope's, not the seq's.    *)
SentAsked ==
  \A c \in Readers : \A i \in DOMAIN sub[c].sent :
    Asked(sub[c].req, Content[sub[c].sent[i].env])

InFlight(s) == Elems(s.ch) \cup ({pend} \ {NoEnv})

AskedOf(s) == {n \in held : Asked(s.req, Content[n])}

Complete(s) ==
  \A n \in AskedOf(s) : n > s.base =>
    \/ Live(n, n) \in Elems(s.sent)
    \/ n > s.last /\ Live(n, n) \in InFlight(s)
    \/ "encode" \in Faults /\ \E x \in Elems(s.sent) : x.env < n /\ n <= x.seq

(* A client in the live phase whose channel never overflowed has missed    *)
(* nothing: every record of the WAL it asked for above the point it        *)
(* attached at was sent, or is on its way to it and will not be taken for  *)
(* a duplicate; unless an earlier envelope was sent under that seq or a    *)
(* later one, which only envelopes without a JSON form bring about.        *)
HandOverComplete ==
  \A c \in Readers : sub[c].pc = "live" /\ sub[c].drops = 0 => Complete(sub[c])

(* No client is sent an envelope after one it should have had was dropped: *)
(* what the comment on liveSubscriber promises, "on overflow the drop      *)
(* counter advances and re-export closes the stream so the client          *)
(* reconnects with a cursor".                                              *)
NoSilentGap ==
  \A c \in Readers : sub[c].pc = "live" =>
    \A s \in AskedOf(sub[c]) :
      sub[c].base < s /\ s < sub[c].last => Live(s, s) \in Elems(sub[c].sent)
=============================================================================
