# A TLA+ model of kloudlens-aggregator

The aggregator subscribes to the event streams of many node agents, merges
them into one stream with cluster-wide sequence numbers, keeps that stream in a
write-ahead log, re-exports it to downstream clients, and joins network events
of one node with the listeners advertised by others.  This directory holds TLA+
modules for the parts of it that keep state, the TLC runs that check them on
small instances, and TLAPS proofs of their safety properties for every instance.

Throughout, "the code" is `src/`, and module comments name the functions they
model.  `PROJECT.json` maps every definition to its source lines.

## The system

| part | source | state | operations |
|---|---|---|---|
| Envelope WAL | `envwal/envwal.go` | seq counter, segment list, current file, files on disk | Append, rotate, GC, ReadFrom, Open/reload, Close |
| Re-export | `reexport.go`, `aggregator.go` (broadcast) | subscriber set, live channels, drop counters, last sent seq | emitEnvelope, registerSubscriber, replayWAL, live loop, unregisterSubscriber, Stats |
| Fan-in | `aggregator.go` (Run, streamLoop, subscribeOnce, writeLoop) | merge channel, one loop per (agent, stream), ctx, wait groups | attach, receive, save cursor, send, write, shutdown |
| Cursor store | `cursorstore.go` | cursor map, dirty, closing, wake channel, file | Load, Save, flusher, Flush, Close, reload |
| Listener registry | `clusterpeers/` | exact and wildcard maps with expiry | Observe, Remove, Join, Sweep, Size |
| Pod and Service indexes | `discovery/podindex.go`, `service.go` | IP to pod, IP to ports, Services, backends | Replace*, Set*, lookups |
| List+watch loops | `discovery/service.go`, `endpointslice.go` | local state, resource version | list, watch, apply/emit, back-off |
| Fleet | `aggregator.go` (reconcile*), `endpointslice.go` (flatten, emit), `main.go` (bridge) | active endpoints, discovery channels | seed, reconcile, start, cancel |
| Filters | `reexport.go` (streamMatches, envelopePassesFilter) | none | which envelopes a request selects |
| Writer and counters | `aggregator.go` (writeLoop, emitEnvelope, joinPeer, Stats), `advertise.go`, `metrics.go` | merge channel, seq counters, atomic counters | fold, number, write, join, Collect |
| Process | `main.go` | what is open, what runs, deferred calls, signal context | start, fail, signal, unwind |

How they interact: discovery decides which stream loops run; a stream loop
saves a cursor and queues an envelope; the one writer goroutine folds
advertises and withdraws into the registry and sends everything else through
emitEnvelope, which appends to the WAL and then broadcasts; each re-export
client registers, replays the WAL and follows the broadcast.  The registry asks
the indexes, which the list+watch loops fill.

What makes it hard: replays run beside appends and trims without the lock;
append and broadcast hold different locks; the cursor is saved before the
envelope it covers is written; files are torn, rotations fail, removes fail and
processes die; messages of pods arrive after their IP has a new owner; three
watches lag independently; shutdown has to stop everything in order, and
a failing step of the start must not leave anything open.
`PROJECT.json` lists these hazards at the lines where they bite.

## The modules

| module | models |
|---|---|
| `EnvWal` | the WAL with its readers, janitor, faults and restarts |
| `EnvWalInv` | the inductive invariant of `EnvWal` |
| `EnvWalProofs` | the TLAPS proofs about `EnvWal` |
| `EventFilter` | the filters, with a reference definition of what a request asks for |
| `ReExport` | `EnvWal` and `EventFilter` composed with the writer and the Subscribe calls |
| `ReExportInv` | the inductive invariant of `ReExport`, on top of the WAL's |
| `ReExportProofs` | the TLAPS proofs about `ReExport` and `EventFilter` |
| `FanIn` | stream loops, merge channel, cursors, shutdown, crash |
| `FanInProofs` | the TLAPS proofs about `FanIn` |
| `Cursors` | what a cursor store promises (abstract) |
| `CursorStore` | `fileCursorStore`, shown to implement `Cursors` |
| `CursorStoreProofs` | the TLAPS proofs about `CursorStore` |
| `Writer` | the writer goroutine: folding, numbering, the sink, peer edges, the counters and Stats |
| `WriterProofs` | the TLAPS proofs about `Writer` |
| `Indexes` | the pod and Service indexes and the three watches that keep them |
| `ListenerRegistry` | `Indexes` composed with the registry in a cluster whose pods come and go |
| `ListenerRegistryProofs` | the TLAPS proofs about `ListenerRegistry` |
| `SnapshotView` | what a list+watch loop promises (abstract) |
| `ListWatch` | the list+watch loop, shown to implement `SnapshotView` |
| `Fleet` | `ListWatch` composed with the discovery channels and reconcileLoop |
| `FleetProofs` | the TLAPS proofs about `ListWatch` and `Fleet` |
| `Subscribers` | the drop accounting of the subscriber set |
| `Process` | `Subscribers` composed with `run` of `main.go` |
| `ProcessProofs` | the TLAPS proofs about `Process` and `Subscribers` |

Each `MC<module>` gives the constants of its module small values; each `.cfg`
is one run.  Operators named `Bug...` are faulty variants of the definition
they precede.  They are part of no specification; replacing the definition by
the variant must make the property break, and `PROJECT.json` says which.

### EnvWal

Append, GC and the snapshot of ReadFrom hold the mutex and are one step each.
The rest of ReadFrom is one step per segment and per record.  A record is its
seq.  A file is the run of records a JSON decoder reaches and a flag for a
fragment behind them, because what is written behind a fragment cannot be
decoded by ReadFrom or reload.  Sizes count records.  An unlinked file keeps
its contents in `files` for a reader that has it open.  `acked` and `held` are
history: all seqs ever returned by Append, and those the open WAL recovered or
acknowledged.  A reader records in `lo` and `hi` the window it answers for.

`ReadAbort` is a reader that fails at any time: its callback failed, the file
could not be opened, or the decoder met a record that Append was still writing
(the file is read without the lock).  `Faults` says which I/O errors may occur.

### EventFilter and ReExport

The reader of client `c` is `c`'s ReadFrom.  emitEnvelope is two steps,
EmitAppend (or EmitFallback, EmitUnencodable) and Broadcast, with `pend` in
between; clients may register or finish their replay there.  An envelope is
named by the seq that the WAL gave it, or tried to give it, and 0 stands for
those that protojson cannot encode, for which Append fails before it spends a
seq.  `Content` says what an envelope carries; a client subscribes with one of
`Requests`.  Both the replay and the live loop select with `EventFilter`, which
follows the type switch of envelopePassesFilter, and `Asked` there is the
reference: which fields an envelope carries, and that every field the request
restricts has an allowed value.  The configuration without a WAL is not
modelled here: it has no replay.

### FanIn and CursorStore

`FanIn` has one loop per (agent, stream) pair, and the cursor store at the
level of `Cursors`: Save is one step, a flush copies everything, a restart
brings the copy back.  `CursorStore` shows that `fileCursorStore` is such a
store: its flusher wakes by ticker or token, checks `closing`, flushes; Run's
own Flush comes first, then Close sets `closing`, closes the channel and waits.
A flush takes effect at the rename, since nothing reads the temporary file.

On disk a cursor is kept under its agent and the stream it names itself;
`Stamp` is that name.  Where it is not the name that was subscribed to, the
cursor comes back under another key.  `Own` are the keys that no such cursor
disturbs, and the properties speak of them; `cursors_file` has an agent that
stamps one of its three streams with another name.

An agent (external) numbers its envelopes, serves a cursor from the next one,
attaches a client without a cursor at the live tail, and rejects a cursor that
it no longer retains.

### Writer

One step per atomic effect of writeLoop, emitEnvelope and joinPeer, so that
Stats, which loads one counter per step, sees every state in between.  An
envelope is its kind: control (an advertise or a withdraw), exchange (it may be
joined) or plain.  What Join answers is any answer, and the WAL is its counter
with the two ways an Append fails: after the seq was spent or before.
`Order` is the order of the loads of Stats, for the counters in which one
emission is counted twice.

### Indexes and ListenerRegistry

Join is an operator over the current state, one operator per function of the
code; Observe, Remove, Sweep, Size and the index updates are actions.  Size is
what every Aggregator.Stats call does to the registry: it reclaims expired
entries, as Sweep does on its ticker.  applySlices
updates two indexes one after the other and is two actions.  A watch keeps its
objects in a local state (`podState`, `epState`), takes one object or all of
them from the cluster, and rebuilds its index from the whole local state, so
that objects of different age are seen together.  Where the code ranges over a
Go map and the last or the first object wins, any may.  A Service has several
ClusterIPs and several named ports; the slice controller (external) writes one
slice for each Service and set of target ports.

The cluster is external: pods start on free IPs, bind, advertise, stop and
withdraw, and their messages wait in `wire` for the writer to fold them, or are
lost.  The apply actions read the cluster's current state, not an older one.
This loses nothing for the properties here: neither folds nor sweeps read the
indexes, so that a state with an old view is reached by applying earlier.

`folded` is history: the binds whose advertise was folded and that no later
message overruled.  A message overrules what has its key: the address of an
exact bind, the pod and port of a wildcard bind.  A pod has one IP at a time.

`Identity` is the namespace and name under which a pod's agent advertises it,
which need not be the ones the index has.  `HasIndex` says whether the cluster
watch is configured, `ResolvesVip` whether Join may ask the Service index
(`--resolve-service-vip`); the Service index is fed in either case.  Where an IP
is placed on a pod without a wildcard bind on the port, Join answers with the
only live wildcard bind on it if that is of a pod of the same name
(soleLiveWildForPod).  `StandsIn` is this case: the properties that say which pod
is named allow it, and `DriftTolerated` asks for what it is there for.

### Subscribers and Process

unregisterSubscriber and Stats are two steps each, split where the code
releases or has not yet taken `subsMu`.  `Process` is `run`: one action per
thing it opens or starts, each with its failure, the deferred calls as a list
that is run last in, first out, SIGTERM before, while and after the signal
context exists, and the goroutines with what makes them return.  The server
accepts calls from serveReExport to GracefulStop; the metrics server is never
stopped, and may fail to start without any consequence.

### ListWatch and Fleet

`ListWatch` is the loop both watchers run; the API server is a growing list of
versions.  It is model-checked as part of `Fleet`.  Bookmarks change nothing and
are not steps.  `Fleet` extends it with flatten, a channel for Publish, Run's
seed of static agents, whose names may repeat, reconcileLoop and one run per
startEndpoint call.  The two buffered channels and the bridge between them are
one FIFO of `ChanCap` elements.  The order in which reconcileFleet starts new
endpoints is that of a Go map, so any.

## The runs

A passing run shows its properties for its bounds; a run that expects a
violation checks one statement of a comment in the code, which TLC refutes.
Type correctness is part of what is proved and in no run of its own.

| run | shows |
|---|---|
| `wal_restart` | seqs are never reused and the retained window has no hole, over crashes, failing writes and two restarts, without fragments and within the TTL |
| `wal_faults` | all faults, trims, a restart and a replay at once: order of the segment list, a replay is ordered, and complete or reported; the inductive invariant |
| `wal_idle_reset` (violation) | all records expired at a restart: numbering starts at 1 again |
| `reexport_handover` | nothing twice, nothing out of order, nothing missed from replay to live, with failing appends, trims and a restart |
| `reexport_overflow` (violation) | after an overflow the stream goes on with a hole |
| `fanin_resume` | the cursor never passes an envelope that was not emitted, queued, counted as dropped, or lost in a crash; a graceful stop leaves nothing behind; a cursor on disk is resumed from; Run returns; a pair with a cursor catches up unless the agent refuses the cursor |
| `cursors_file` | `CursorStore` implements `Cursors`; the file never moves back within one node's numbering; a closed store is on disk exactly, unless its last write failed; Close returns; cursors reach the disk |
| `registry_recycle` | recycled IPs, namesakes, host processes, late and lost messages: no stale hit; no wrong pod, except a namesake that stands in; a sole wildcard bind is found although agent and index disagree on its namespace; an exact bind answers until its address is named again; reclaiming changes no answer |
| `registry_vip` | two Services with lagging slices: a VIP reaches only its backends, on the number they give the port's name; a port is folded only to an IP's sole target port; a wildcard bind stays reachable |
| `fleet_follow` | published views are whole versions and only newer ones; the active map and the loops agree; the fleet follows the slices; Run stops |
| `process_exit` | nothing is closed while it is used, every way out closes everything, a signalled process ends unless a client stays; drops are conserved and never over-reported |
| `writer_counts` | the counters account for every envelope when Run has returned; an edge follows its source under the next seq; broadcast seqs increase; a torn snapshot shows no line without its append |

### Bounds

The bounds are constants named `Max...`; they only limit how far the models
run.

- WAL: six seqs in segments of two and two restarts, or three seqs in segments
  of one with every fault, one reader and one restart: rotation, both trims and
  an empty current segment all happen.  Readers do not affect each other, and
  the proofs cover any number of them.
- Re-export: one client, four seqs, a channel of two, one restart, and a request
  that filters by kind, namespace and severity.  It selects an intent by all
  three, a raw syscall by its category, and a graph edge, which no filter looks
  at; it rejects an intent below its severity.  Clients share no state but the
  broadcast; the proofs cover any number of them, and any requests.
- Fan-in: one pair with four seqs, three processes, a channel of one, an agent
  that retains one envelope.  The proofs of the safety properties cover any
  number of pairs.
- Cursor store: three streams of one agent, one stamped with another name, two
  seqs, two processes.
- Registry: a pod, its namesake in another namespace, of which the agent has a
  third, and a host process taking turns on one IP, with a TTL of one tick, so
  that an IP is recycled while old entries and messages are around, and without
  VIPs, so that what the two runs have of time and of VIPs is put together by
  the proofs only; three pods on two IPs and two Services with overlapping backends,
  named ports that the replicas number differently, a second, headless
  address, and conditions that change, without time.  Both use the indexes: an
  aggregator without Kubernetes discovery (`HasIndex = FALSE`) is in the model
  and in the proofs, and not in a run.
- Fleet: one slice with two agents in three versions that change its ports and
  conditions, a static agent given twice, channels of two, the port 80 dialled.
- Process: four command lines (everything; agents alone; discovery and
  re-export without WAL and metrics; no source of agents), two clients, three
  broadcasts, a channel of one.
- Writer: two stream loops, two envelopes received, each possibly with an edge,
  a channel of one, one stream error, with and without a WAL that resumed at 1.

Deadlock is not checked where the system may come to rest: every agent has
said what it has to say, or the process is down and its starts are used up.

### Fairness

Goroutines that can run do (weak fairness of their steps).  An operation that
is tried again and again and may succeed, succeeds in the end: strong fairness
of a dial to an agent willing to serve, of a receive on a stream that keeps
being re-opened, of a LIST, of a cursor flush.  A watch stream with something to
deliver delivers it or ends.  Nothing forces a fault, a signal or a start, and in
`Process` nothing makes a client leave.  The loops have a back-off and no retry
limit in the code, which is what justifies "again and again".

### Where the code and its comments disagree

Two disagreements are runs (`wal_idle_reset`, `reexport_overflow`);
`PROJECT.json` quotes the comments.  These were seen as counterexamples while
the models were built, and are kept here as a list only: no run repeats them.
Where a property below has an exception, this is where it comes from.

- A fragment left by a failed write hides the records acknowledged behind it
  (`envwal.go:138`; "durably persists every merged envelope",
  `aggregator.go:59`).  `wal_restart` therefore has no such fault.
- The cursor is saved, and may be flushed, before its envelope is written, so a
  crash in between skips the envelope (`aggregator.go:620`; "restarts are
  lossless", `aggregator.go:53`).  `CursorAccounted` bounds the loss.
- A pair that has received nothing has no cursor and attaches at the live tail
  again after a restart (`aggregator.go:600`; same comment).  `ResumesFromDisk`
  says from when on this is over.
- A cursor the agent refuses is supplied on every retry (`aggregator.go:571`;
  "the client should restart from the live tail", `reexport.go:26`).
  `EventuallyHandled` excepts such a pair.
- The first failing append after a restart is broadcast below the WAL's seqs
  (`aggregator.go:443`; "so broadcast ordering holds", `aggregator.go:442`).
- An envelope that protojson cannot encode spends no seq of the WAL but one of
  liveSeq, so that it and the next record are broadcast under the same seq, and
  a client takes the record for a duplicate (`envwal.go:122`; same comment).
  `BroadcastOrdered` and `HandOverComplete` except it.
- A trigger whose append failed has a liveSeq, its edge the WAL's next seq,
  which need not follow it (`aggregator.go:422`).  `EdgeContiguous` asks for an
  append that succeeded.
- Stats is no snapshot: it can show more VIP joins than joins, or more drops
  than received envelopes (`aggregator.go:367`; "the current counter snapshot",
  `aggregator.go:366`).  `SnapshotCovers` is what its order does give.
- A line that cannot be marshalled or written is counted in errors
  (`aggregator.go:455-470`; "per-stream recv errors observed",
  `aggregator.go:105`; "a non-zero rate means an agent is flapping",
  `metrics.go:56`).  `CountersBalance` says that such a line shows there, and no
  more.
- A cursor that names another stream than was asked for comes back under that
  name, where nothing looks for it (`cursorstore.go:115`).
- A late withdraw deletes the exact entry of the IP's next pod
  (`registry.go:249`; "the exact-addr or per-pod wildcard entry the advertise
  created", `registry.go:245`).  `ExactResolvable` is about an address that no
  later message names, so that it does not exclude this.
- Pods of one name in two namespaces are confused by soleLiveWildForPod
  (`registry.go:484`; "without answering for another workload",
  `registry.go:480`; `TestJoinWildcardIdentityMismatch` asks for the tolerance).
  `OwnerAttribution`, `VipReachesBackend` and `WildcardResolvable` except a
  namesake that has the only current wildcard bind on the port.
- A port outside the Service is folded to the endpoint's only Service port
  (`podindex.go:147`; "MUST return ok=false rather than fabricate a mapping",
  `registry.go:133`).
- Where the slices of a Service number a port name differently, the number seen
  last is used for all its backends, in the order of a Go map (`service.go:450`;
  "rather than fabricating a backend the cluster data does not support",
  `service.go:35`).  `VipReachesBackend` allows any backend's number.
- A Service with one port number for two protocols resolves to the first of the
  two names, as ResolveVIP does not look at the protocol.
- With no port configured, a slice that changes its port keeps its endpoint
  names, and the old addresses are dialled on (`aggregator.go:347`; "Each
  emission replaces the active set", `aggregator.go:313`).  `FleetFollows` is
  then about names.
- A static agent given twice is started twice; the first run is in no map and
  ends only with the process (`aggregator.go:290`).  `RunsSupervised` excepts it.
- The first discovery emission cancels the static agents (`aggregator.go:340`;
  "discovery adds to it", `aggregator.go:287`).
- Stats between the two steps of unregisterSubscriber reports a lower total
  (`aggregator.go:232`; "operators see a monotonic total", `aggregator.go:391`).
  `NeverOverReported` is about the other direction only.
- A connected client keeps GracefulStop waiting (`main.go:361`; "until the
  client disconnects or the aggregator shuts down", `reexport.go:58`).
  `EndsUnlessHeld` excepts it.

## The proofs

`EnvWalProofs` proves for every set of readers, every segment size, MaxBytes
and TTL, every set of faults and every bound (the assumptions are
`WalConstants`):

- `TypeCorrect`, `ListOrdered`, `ReplaysOrdered`, `ReplaysComplete`: `TypeOK`,
  `SegmentsOrdered`, `ReplayOrdered` and `ReplayComplete` are invariants;
- `Invariance`: so is `IInv`, from which they follow.

None of the three safety invariants is inductive.  `IInv` adds
- about the files, unlinked ones included: records ascend within a file, and
  the records of two files do not interleave, in seq or in age;
- about the open WAL: the current segment is the last, segments are apart and
  bound the records of their files, and every seq of `held` not older than all
  listed segments is in the range of one whose file has it, decodable or behind
  a fragment;
- about each reader: the views left are in order, what was delivered is below
  what is still to come, and every seq owed is delivered, still in a view, in
  the rest of the open file or behind its fragment, or the gap flag is set.

The last is what carries `ReplayComplete` over a concurrent GC.  There is one
lemma per action and, under it, one step per conjunct the action can disturb;
the frame lemmas for the reader are shared between all actions that write.

`NumbersApart` and `WindowKept` are about restarts and have hypotheses, since
without them the code does not have the property:
- `NoFragments`: no failed write leaves a fragment ("torn" is not in `Faults`);
  records behind one are acknowledged and do not decode;
- `TrimsLeaveOne`: a trim of a WAL with records leaves one.  `wal_idle_reset` is
  the case without it: every record expires, and Open starts at 1 again;
- `NoOrphans`, for `WindowKept` alone: removals succeed.  A file that stays is
  listed again by the next Open, below a hole of those that went.

All three hold in `wal_restart`, which has failing writes, failing rotations,
crashes and trims by size.  Under the first two, no seq was handed out above
the last record on disk (`SeqInv`), so that Open numbers on from there; with the
third, whatever was acknowledged at or above the oldest record is there, on disk
while the process is down and in the segment list while it is up (`WindowInv`).

`FleetProofs` proves that `ListWatch` implements `SnapshotView` (`Publishing`),
with `LInvariance`: from the first successful LIST on (`rv > 0`) the local state
is exactly the version `rv` stands for, `rv` is never below what was published,
and the loop publishes only with `rv > 0`.  The same holds inside `Fleet`
(`FleetPublishes`), where a cancelled emit goes on without publishing.
`Supervised` proves `RunsSupervised` for any slices, static agents, ports and
channel size.  It needs that every set of endpoints on the channel is the
flattening of some version, in which a name stands for one endpoint, and that
the runs of the static agents are the first ones (`FInv`).

`WriterProofs` proves `CountersBalance`, `EdgeContiguous`, `BroadcastOrdered` and
`SnapshotCovers` for any number of stream loops and envelopes and any queue
depth, with or without a WAL.  `CountersBalance` speaks of the end of Run;
`WInv` says for every state before it where an envelope is that no counter has
yet: in a loop's hand, in the channel, or at a step of writeLoop (`Balance`).
The others need what the last emission left in the WAL's counter and in liveSeq
(`Follows`, `Ordered`) and what a Stats in progress has still to load (`Covers`).

`ProcessProofs` proves `OpenWhileUsed` and `ReleasesAll` for every set of command
lines, and `DropsConserved` and `NeverOverReported` for every finite set of
clients and every buffer.  The deferred calls are ordered as the start is, and
include everything asked for that comes before any of them (`Stacked`); open
files, the signal handler, the server and its calls each belong to one
(`Owned`).  The counters are compared with a count of all drops (`DInv`).

`ListenerRegistryProofs` proves the eight properties of the registry's runs for
every set of pods, IPs, Services and binds, any TTL, any conditions, with and
without the indexes (`IndexConstants`, `RegistryConstants`).  `RInv` says that
the maps mirror what the agents said: every entry is that of a bind in `folded`,
with the expiry its advertise gave it, and every bind in `folded` that has not
expired has its entry (`Mirrors`); keys are unique (`Keyed`); the indexes name
only what the watches hold (`ITypeOK`).  Join is then followed path by path.
A wildcard entry that answers for a placed IP is its pod's own or the only live
one on the port (`WildEntry`); since live entries are those of current binds
(`ListeningPods`), the second case is `StandsIn`.  Nothing is assumed of the
pods' names or of what their agents call them.

`ReExportProofs` proves for every set of clients, of requests, every content of
the envelopes, buffer size and set of faults (`WalConstants` and
`ReExportConstants`) that `RTypeOK`, `SentIncreasing`, `SentAsked` and
`HandOverComplete` are invariants (`RTypeCorrect`, `SendsInOrder`, `SendsAsked`,
`HandsOver`), from `RInvariance`: `RInv` is one.  It reuses the lemmas about the
WAL, since every step of the WAL is a step of `EnvWal`.  `RInv` adds to `IInv`
- about the files: between its name and its last record a file has every
  record the open WAL answers for (`Gapless`);
- about the writer: liveSeq and what is pending are not above the WAL's seq
  (without unencodable envelopes), and channels are in the order of emission;
- about a client in its replay: what it was sent is what the replay delivered
  and the request selects, whatever was appended since the snapshot is in the
  channel or pending, and a record above the snapshot that the replay came
  across was not the first of a gap (`Caught`).  Without `Caught`, a replay that
  runs into new records could make the live loop drop others as duplicates.

`FilterMeans` is the lemma that the filters select what is asked for; it needs
what a payload can carry (`Envelope`) and is the only fact about the filters
that the proofs use.

`FanInProofs` proves `TypeOK`, `CursorAccounted`, `StoppedClean` and
`ResumesFromDisk` for every set of pairs, queue depth, retention and number of
restarts (`FanInConstants`).  The strengthening says that an open stream stands
where its cursor is, one past it with an envelope in hand, or at the live tail
(`Abreast`), that the file is never ahead of memory (`DiskBehind`), and that a
process that drains or is down has no stream loop left (`Quiesced`).

`CursorStoreProofs` proves `TypeOK`, `ClosedExact`, `DiskMonotonic` and that
`CursorStore` implements `Cursors` (`Keeping`), for every set of keys, stamps and
nodes (`CursorStoreConstants`, `NilAssumption`).  The strengthening says
which stream a cursor in memory may name (`Stamped`), that the file has one
cursor for a key in `Own` (`Unambiguous`), that a store that is not dirty agrees
with its file (`Clean`), that memory is never behind the file on one node
(`Ahead`), and that the flusher exits only in Close, with nothing unwritten
unless its write failed (`Exited`).

Sums over a set of clients (`DropsOf`) are proved by counting: the sum is the
size of a set with one element for each drop (`SumIsTally`), shown with a least
counterexample, since the library's induction theorems cannot be instantiated.

Only model-checked: the liveness properties `EventuallyOnDisk`, `CloseCompletes`,
`ShutdownCompletes`, `EventuallyHandled`, `FleetFollows`, `RunStops` and
`EndsUnlessHeld`, since fairness and ENABLED are outside what the prover
supports.  Every safety property of a passing run is also a theorem.

## Not modelled

- An index update between two lookups of one Join: Join holds the registry's
  lock throughout and an index's lock for each lookup only, and is one step
  here.  Of the same kind: writeLoop's receive and emitEnvelope are one step in
  `FanIn` (they are several in `Writer`).
- An envelope without a cursor, for which subscribeOnce saves nothing
  (`aggregator.go:620`): the agents modelled put one on every envelope.
- A segment that reload cannot stat or open and therefore skips
  (`envwal.go:337`), and a re-export server whose Serve fails after it started
  (`main.go:356`): it only logs.
- Flag parsing (parseFlags, parseAgents), the text of NDJSON lines and of
  `/stats`, metric descriptors: conversions without state.  The fields that
  PeerEdge copies from the exchange and the listener onto the edge.
- The requests to the API server, their credentials and the JSON decoding of
  objects; slices without the Service label and endpoints that are not pods,
  which the code skips; Services that change while the aggregator runs.
- The re-export without a WAL, which has no replay: its numbering is in
  `Writer`, its channels in `Subscribers`.
- Power failures: no file is synced by the code, and the models crash only the
  process.  TLS, tokens and gRPC connection management.
- A watch stream that is silently dead: the code has no read deadline, and the
  fairness of `Fleet` assumes that it ends in the end.
