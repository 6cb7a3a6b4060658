------------------------------- MODULE EnvWal -------------------------------
(***************************************************************************)
(* The aggregator's write-ahead log (internal/aggregator/envwal).          *)
(*                                                                         *)
(* One caller appends merged envelopes; any number of callers replay them  *)
(* with ReadFrom; a janitor trims old segments.  Append, GC and the        *)
(* snapshot at the start of ReadFrom hold the WAL mutex and are single     *)
(* steps.  The rest of ReadFrom runs without the mutex, so a replay is     *)
(* one step per segment opened and one per record decoded, and appends,    *)
(* rotations and trims interleave with it.                                 *)
(*                                                                         *)
(* Data abstraction.  A record is its seq.  A segment file is the run of   *)
(* records a JSON decoder reaches, plus a flag saying that a fragment of   *)
(* a record follows them: whatever is written behind a fragment cannot be  *)
(* decoded.  Sizes count records.  A file is named by the number in its    *)
(* file name, the seq its first record was expected to get.                *)
(***************************************************************************)
EXTENDS Integers, Sequences, FiniteSets, FiniteSetsExt

CONSTANTS
  Readers,      \* concurrent ReadFrom callers
  SegmentSize,  \* Options.SegmentSize, in records
  MaxBytes,     \* Options.MaxBytes, in records
  TTL,          \* Options.TTL, in clock ticks
  Faults,       \* the I/O failures that may happen, a subset of FaultKinds
  MaxSeq,       \* bound: the seqs that may be assigned
  MaxTime,      \* bound: clock ticks
  MaxLives      \* bound: times the process is started

(* "write": a record's write fails and leaves nothing behind; "torn": it   *)
(* leaves a fragment; "newline": the record is written, its newline is     *)
(* not; "rotate": the next segment cannot be opened; "remove": a trimmed   *)
(* file cannot be unlinked; "encode": an envelope has no JSON form, and    *)
(* Append fails before it touches the WAL (no step here, see ReExport).    *)
FaultKinds == {"write", "torn", "newline", "rotate", "remove", "encode"}

ASSUME WalConstants ==
  /\ SegmentSize \in Nat \ {0}
  /\ MaxBytes \in Nat \ {0}
  /\ TTL \in Nat
  /\ Faults \subseteq FaultKinds
  /\ MaxSeq \in Nat /\ MaxTime \in Nat /\ MaxLives \in Nat

VARIABLES
  up,        \* the process runs and holds the WAL open
  seq,       \* WAL.seq
  segs,      \* WAL.segments: file -> segment, ordered by start
  cur,       \* WAL.cur, as a file
  writable,  \* cur.f # nil
  dir,       \* the files linked in Options.Dir
  files,     \* contents of the linked files and of unlinked ones still open
  now,       \* the wall clock
  rd,        \* the state of each ReadFrom call
  lives,     \* times the process was started
  acked,     \* history: the seqs Append returned, over all restarts
  held       \* history: the seqs this open WAL recovered or acknowledged

memory == <<seq, segs, cur, writable>>
disk   == <<dir, files>>
vars   == <<up, seq, segs, cur, writable, dir, files, now, rd, lives, acked, held>>

Segment == [start : Nat, end : Nat, bytes : Nat, created : Nat]
File    == [good : Seq(Nat), torn : BOOLEAN, size : Nat, mtime : Nat]

Elems(s) == {s[i] : i \in DOMAIN s}

(* The map with no entries.                                                *)
None == [f \in {} |-> f]

-----------------------------------------------------------------------------
(* Segment files.                                                          *)

EmptyFile == [good |-> <<>>, torn |-> FALSE, size |-> 0, mtime |-> now]

(* os.OpenFile(O_CREATE|O_APPEND): an existing file keeps its contents.    *)
Touch(fs, f) ==
  [g \in DOMAIN fs \cup {f} |-> IF g \in DOMAIN fs THEN fs[g] ELSE EmptyFile]

(* Behind a fragment a record only takes up space.                         *)
WriteRecord(f, s) ==
  [files EXCEPT ![f] = [good  |-> IF @.torn THEN @.good ELSE Append(@.good, s),
                        torn  |-> @.torn,
                        size  |-> @.size + 1,
                        mtime |-> now]]

WriteFragment(f) ==
  [files EXCEPT ![f] = [good  |-> @.good,
                        torn  |-> TRUE,
                        size  |-> @.size + 1,
                        mtime |-> now]]

-----------------------------------------------------------------------------
(* openSegment, rotate and Append.                                         *)

FreshSegment(s) ==
  [start |-> s + 1, end |-> s, bytes |-> 0, created |-> now]

AddSegment(S, s) ==
  [f \in DOMAIN S \cup {s + 1} |-> IF f = s + 1 THEN FreshSegment(s) ELSE S[f]]

(* The accounting of a record that reached the current segment.            *)
Account(s) ==
  [segs EXCEPT ![cur] = [start   |-> @.start,
                         end     |-> s,
                         bytes   |-> @.bytes + 1,
                         created |-> @.created]]

CanAppend == up /\ seq < MaxSeq

Acknowledge(s) ==
  /\ acked' = acked \cup {s}
  /\ held' = held \cup {s}

AppendStay ==
  /\ CanAppend /\ writable
  /\ segs[cur].bytes + 1 < SegmentSize
  /\ seq' = seq + 1
  /\ files' = WriteRecord(cur, seq + 1)
  /\ segs' = Account(seq + 1)
  /\ Acknowledge(seq + 1)
  /\ UNCHANGED <<up, cur, writable, dir, now, rd, lives>>

AppendRotate ==
  /\ CanAppend /\ writable
  /\ segs[cur].bytes + 1 >= SegmentSize
  /\ seq' = seq + 1
  /\ files' = Touch(WriteRecord(cur, seq + 1), seq + 2)
  /\ dir' = dir \cup {seq + 2}
  /\ segs' = AddSegment(Account(seq + 1), seq + 1)
  /\ cur' = seq + 2
  /\ Acknowledge(seq + 1)
  /\ UNCHANGED <<up, writable, now, rd, lives>>

(* The record's write fails: the seq is spent, the accounting is not done. *)
(* With no open file (a rotation failed before) every write fails.         *)
AppendWriteFails ==
  /\ CanAppend
  /\ seq' = seq + 1
  /\ \/ /\ writable => "write" \in Faults
        /\ UNCHANGED files
     \/ /\ writable /\ "torn" \in Faults
        /\ files' = WriteFragment(cur)
     \/ /\ writable /\ "newline" \in Faults
        /\ files' = WriteRecord(cur, seq + 1)
  /\ UNCHANGED <<up, segs, cur, writable, dir, now, rd, lives, acked, held>>

(* The record is durable, the next segment cannot be opened: Append        *)
(* returns an error and the current segment is left without a file.        *)
AppendRotateFails ==
  /\ CanAppend /\ writable /\ "rotate" \in Faults
  /\ segs[cur].bytes + 1 >= SegmentSize
  /\ seq' = seq + 1
  /\ files' = WriteRecord(cur, seq + 1)
  /\ segs' = Account(seq + 1)
  /\ writable' = FALSE
  /\ UNCHANGED <<up, cur, dir, now, rd, lives, acked, held>>

-----------------------------------------------------------------------------
(* GC: drop what is past its TTL, then the oldest segments until the rest  *)
(* fits MaxBytes.  The current segment always stays.                       *)

Unexpired == {f \in DOMAIN segs : f = cur \/ now - segs[f].created <= TTL}

NotBefore(F, c) == {f \in F : segs[f].start >= segs[c].start}

Bytes(F) == MapThenSumSet(LAMBDA f : segs[f].bytes, F)

Fits(c) == c = cur \/ Bytes(NotBefore(Unexpired, c)) <= MaxBytes

GC ==
  /\ up
  /\ \E c \in Unexpired :
       /\ Fits(c)
       /\ \A d \in Unexpired : segs[d].start < segs[c].start => ~Fits(d)
       /\ LET kept    == NotBefore(Unexpired, c)
              removed == DOMAIN segs \ kept
          IN  /\ segs' = [f \in kept |-> segs[f]]
              /\ \E stuck \in SUBSET removed :
                   /\ stuck # {} => "remove" \in Faults
                   /\ dir' = dir \ (removed \ stuck)
  /\ UNCHANGED <<up, seq, cur, writable, files, now, rd, lives, acked, held>>

-----------------------------------------------------------------------------
(* ReadFrom.  The result is "ok" (nil), "expired" (ErrCursorExpired) or    *)
(* "err" (anything else).                                                  *)

Idle == [pc |-> "idle", from |-> 0, lo |-> 0, hi |-> 0, views |-> None,
         file |-> 0, pos |-> 0, gap |-> FALSE, out |-> <<>>]

(* A call that failed leaves nothing but its result.                       *)
Failed(result) == [Idle EXCEPT !.pc = result]

Oldest(S, f) == f \in DOMAIN S /\ \A g \in DOMAIN S : S[f].start <= S[g].start

(* Fault: one missing record is not noticed.                               *)
BugExpired(from, oldest) == from > 0 /\ from + 2 < oldest

Expired(from, oldest) == from > 0 /\ from + 1 < oldest

(* The snapshot under the mutex and the expiry check.  lo and hi record    *)
(* the window this call answers for: (lo, hi].                             *)
ReadFrom(r, from) ==
  /\ up /\ rd[r].pc = "idle"
  /\ \E o \in DOMAIN segs :
       /\ Oldest(segs, o)
       /\ rd' = [rd EXCEPT ![r] =
            IF Expired(from, segs[o].start)
            THEN Failed("expired")
            ELSE [Idle EXCEPT
                    !.pc    = "scan",
                    !.from  = from,
                    !.lo    = IF from > 0 THEN from ELSE segs[o].start - 1,
                    !.hi    = seq,
                    !.views = [f \in DOMAIN segs |->
                       [start |-> segs[f].start, end |-> segs[f].end]]]]
  /\ UNCHANGED <<up, memory, disk, now, lives, acked, held>>

WithoutView(v, f) == [g \in DOMAIN v \ {f} |-> v[g]]

(* The next view: already covered by the cursor, reclaimed, or opened.     *)
ReadNextSegment(r) ==
  /\ up /\ rd[r].pc = "scan"
  /\ \E f \in DOMAIN rd[r].views :
       /\ Oldest(rd[r].views, f)
       /\ LET rest == WithoutView(rd[r].views, f) IN
          \/ /\ rd[r].views[f].end <= rd[r].from
             /\ rd' = [rd EXCEPT ![r].views = rest]
          \/ /\ rd[r].views[f].end > rd[r].from
             /\ f \notin dir
             /\ rd' = [rd EXCEPT ![r].views = rest, ![r].gap = TRUE]
          \/ /\ rd[r].views[f].end > rd[r].from
             /\ f \in dir
             /\ rd' = [rd EXCEPT ![r].views = rest, ![r].pc = "read",
                                 ![r].file = f, ![r].pos = 0]
  /\ UNCHANGED <<up, memory, disk, now, lives, acked, held>>

(* Fault: records at or below the cursor are handed to cb, too.            *)
BugReadRecord(r) ==
  /\ up /\ rd[r].pc = "read"
  /\ rd[r].pos < Len(files[rd[r].file].good)
  /\ rd' = [rd EXCEPT ![r].pos = @ + 1,
                      ![r].out = Append(@, files[rd[r].file].good[rd[r].pos + 1])]
  /\ UNCHANGED <<up, memory, disk, now, lives, acked, held>>

(* One record decoded and, if it is above the cursor, handed to cb.        *)
ReadRecord(r) ==
  /\ up /\ rd[r].pc = "read"
  /\ rd[r].pos < Len(files[rd[r].file].good)
  /\ LET d == files[rd[r].file].good[rd[r].pos + 1] IN
     rd' = [rd EXCEPT ![r].pos = @ + 1,
                      ![r].out = IF d <= rd[r].from THEN @ ELSE Append(@, d)]
  /\ UNCHANGED <<up, memory, disk, now, lives, acked, held>>

(* End of file, or the fragment the decoder fails on.                      *)
ReadEnd(r) ==
  /\ up /\ rd[r].pc = "read"
  /\ rd[r].pos = Len(files[rd[r].file].good)
  /\ rd' = [rd EXCEPT ![r] = IF files[rd[r].file].torn
                              THEN Failed("err")
                              ELSE [@ EXCEPT !.pc = "scan", !.file = 0, !.pos = 0]]
  /\ UNCHANGED <<up, memory, disk, now, lives, acked, held>>

(* The callback failed, the file could not be opened for another reason    *)
(* than its absence, or the decoder met a record still being written.      *)
ReadAbort(r) ==
  /\ up /\ rd[r].pc \in {"scan", "read"}
  /\ rd' = [rd EXCEPT ![r] = Failed("err")]
  /\ UNCHANGED <<up, memory, disk, now, lives, acked, held>>

ReadReturn(r) ==
  /\ up /\ rd[r].pc = "scan"
  /\ DOMAIN rd[r].views = {}
  /\ rd' = [rd EXCEPT ![r] = IF @.gap THEN Failed("expired")
                                        ELSE [@ EXCEPT !.pc = "ok"]]
  /\ UNCHANGED <<up, memory, disk, now, lives, acked, held>>

-----------------------------------------------------------------------------
(* Open and the end of the process.                                        *)

(* Fault: a file is listed only from its second record on.                 *)
BugRecovered == {f \in dir : Len(files[f].good) > 1}

(* reload: a file in which nothing decodes is not a segment.               *)
Recovered == {f \in dir : files[f].good # <<>>}

Reload ==
  [f \in Recovered |-> [start   |-> Head(files[f].good),
                        end     |-> files[f].good[Len(files[f].good)],
                        bytes   |-> files[f].size,
                        created |-> files[f].mtime]]

Newest(S, f) == f \in DOMAIN S /\ \A g \in DOMAIN S : S[g].start <= S[f].start

(* Faults: the oldest segment is taken for the last one; the start of the  *)
(* last segment is taken for its end.                                      *)
BugLastSeqOldest(s) ==
  \/ Recovered = {} /\ s = 0
  \/ \E f \in Recovered : Oldest(Reload, f) /\ s = Reload[f].end

BugLastSeqStart(s) ==
  \/ Recovered = {} /\ s = 0
  \/ \E f \in Recovered : Newest(Reload, f) /\ s = Reload[f].start

LastSeq(s) ==
  \/ Recovered = {} /\ s = 0
  \/ \E f \in Recovered : Newest(Reload, f) /\ s = Reload[f].end

Open ==
  /\ ~up
  /\ up' = TRUE
  /\ lives' = lives + 1
  /\ writable' = TRUE
  /\ \E s \in 0..MaxSeq :
       /\ LastSeq(s)
       /\ seq' = s
       /\ segs' = AddSegment(Reload, s)
       /\ cur' = s + 1
       /\ dir' = dir \cup {s + 1}
       /\ files' = Touch([f \in dir |-> files[f]], s + 1)
  /\ held' = UNION {Elems(files[f].good) : f \in dir}
  /\ UNCHANGED <<now, rd, acked>>

(* Close and exit, or a crash: what was in memory is gone.  A crash inside *)
(* Append may leave the record, or a fragment of it, behind.               *)
Forget ==
  /\ lives < MaxLives
  /\ up' = FALSE
  /\ seq' = 0 /\ segs' = None /\ cur' = 0 /\ writable' = FALSE
  /\ rd' = [r \in Readers |-> Idle]
  /\ held' = {}
  /\ UNCHANGED <<dir, now, lives, acked>>

Close == up /\ Forget /\ UNCHANGED files

CrashInAppend ==
  /\ CanAppend /\ writable
  /\ \/ files' = WriteRecord(cur, seq + 1)
     \/ "torn" \in Faults /\ files' = WriteFragment(cur)
  /\ Forget

Tick == now < MaxTime /\ now' = now + 1
        /\ UNCHANGED <<up, memory, disk, rd, lives, acked, held>>

-----------------------------------------------------------------------------
Init ==
  /\ up = FALSE
  /\ seq = 0 /\ segs = None /\ cur = 0 /\ writable = FALSE
  /\ dir = {} /\ files = None
  /\ now = 0 /\ lives = 0
  /\ rd = [r \in Readers |-> Idle]
  /\ acked = {} /\ held = {}

Read(r) ==
  \/ \E from \in 0..MaxSeq : ReadFrom(r, from)
  \/ ReadNextSegment(r)
  \/ ReadRecord(r)
  \/ ReadEnd(r)
  \/ ReadAbort(r)
  \/ ReadReturn(r)

Next ==
  \/ AppendStay
  \/ AppendRotate
  \/ AppendWriteFails
  \/ AppendRotateFails
  \/ GC
  \/ \E r \in Readers : Read(r)
  \/ Open
  \/ Close
  \/ CrashInAppend
  \/ Tick

Spec == Init /\ [][Next]_vars

-----------------------------------------------------------------------------
(* Properties.                                                             *)

View == [start : Nat, end : Nat]

(* What a ReadFrom call may look like; its views are typed in TypeOK.      *)
Reader(v) ==
  [pc : {"idle", "scan", "read", "ok", "expired", "err"},
   from : Nat, lo : Int, hi : Nat, views : {v}, file : Nat, pos : Nat,
   gap : BOOLEAN, out : Seq(Nat)]

(* Every variable has the shape the Go types give it, segment lists and    *)
(* views included.                                                         *)
TypeOK ==
  /\ up \in BOOLEAN /\ writable \in BOOLEAN
  /\ seq \in Nat /\ cur \in Nat /\ now \in Nat /\ lives \in Nat
  /\ DOMAIN segs \subseteq Nat /\ segs \in [DOMAIN segs -> Segment]
  /\ dir \subseteq DOMAIN files
  /\ DOMAIN files \subseteq Nat /\ files \in [DOMAIN files -> File]
  /\ rd = [r \in Readers |-> rd[r]]
  /\ \A r \in Readers :
       /\ rd[r] \in Reader(rd[r].views)
       /\ DOMAIN rd[r].views \subseteq Nat
       /\ rd[r].views \in [DOMAIN rd[r].views -> View]
  /\ acked \subseteq Nat /\ held \subseteq Nat

(* While the WAL is open, the current segment is listed and is the last    *)
(* one, the listed segments cover disjoint seq ranges in order, and none   *)
(* reaches past the seq counter: what the binary decision "endSeq <=       *)
(* fromSeq, skip" and the expiry check of ReadFrom rely on, after any      *)
(* sequence of appends, failures, trims, crashes and reloads.              *)
SegmentsOrdered ==
  up => /\ cur \in DOMAIN segs
        /\ \A f \in DOMAIN segs : segs[f].end <= seq
        /\ \A f, g \in DOMAIN segs : f # g =>
             \/ segs[f].end < segs[g].start /\ segs[f].start < segs[g].start
             \/ segs[g].end < segs[f].start /\ segs[g].start < segs[f].start

(* A replay hands its callback strictly increasing seqs above the cursor,  *)
(* whatever is appended, rotated, trimmed or torn while it runs: the       *)
(* re-export server's de-duplication against its last sent seq needs it.   *)
ReplayOrdered ==
  \A r \in Readers :
    /\ \A i \in DOMAIN rd[r].out : rd[r].out[i] > rd[r].from
    /\ \A i, j \in DOMAIN rd[r].out : i < j => rd[r].out[i] < rd[r].out[j]

(* A ReadFrom that returns nil has delivered every record the open WAL     *)
(* recovered or acknowledged in the window it answers for; a trim that     *)
(* takes one of them away, before or during the replay, is reported as     *)
(* ErrCursorExpired.                                                       *)
ReplayComplete ==
  \A r \in Readers : rd[r].pc = "ok" =>
    \A s \in held : rd[r].lo < s /\ s <= rd[r].hi => s \in Elems(rd[r].out)

(* Append never hands out a seq twice, nor one below an earlier one,       *)
(* across restarts.                                                        *)
SeqNeverReused ==
  [][up /\ up' => \A s \in held' \ held, t \in acked : t < s]_vars

(* Every acknowledged seq at or above the start of the oldest retained     *)
(* segment can be read back from a listed segment, across restarts.        *)
WindowComplete ==
  up => \A s \in acked :
          (\E o \in DOMAIN segs : segs[o].start <= s)
            => \E f \in DOMAIN segs \cap dir : s \in Elems(files[f].good)
=============================================================================
