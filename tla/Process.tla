------------------------------ MODULE Process ------------------------------
(***************************************************************************)
(* run of the aggregator's main package: what it opens and starts, in      *)
(* which order, how a failure on the way or a signal unwinds it, and what  *)
(* its goroutines and re-export calls still use meanwhile.                 *)
(*                                                                         *)
(* Composition: the re-export clients and the scrapes of Subscribers; here *)
(* the server accepts calls from serveReExport to GracefulStop, envelopes  *)
(* are broadcast while the writer runs, and Stats is called while the      *)
(* metrics server, which nothing stops, is there.                          *)
(***************************************************************************)
EXTENDS Subscribers, Sequences

CONSTANTS
  Configs  \* command lines: sets of the flags given, among FlagNames

FlagNames == {"agents", "k8s", "cursors", "wal", "reexport", "metrics"}

ASSUME ProcessConstants == Configs \subseteq SUBSET FlagNames

VARIABLES
  flags,    \* the command line
  at,       \* the step run is at
  defers,   \* its deferred calls, last one first
  open,     \* of output, cursors and WAL: the ones open
  ctx,      \* "none", "live", "cancelled", "released" (signals kill again)
  go,       \* goroutines that run
  serving   \* the gRPC server accepts calls

vars == <<svars, flags, at, defers, open, ctx, go, serving>>
proc == <<flags, at, defers, open, ctx, go, serving>>

Step(from, to) == at = from /\ at' = to

-----------------------------------------------------------------------------
(* The way up.  A step that fails returns, and the deferred calls run.     *)

Fail(from) ==
  /\ Step(from, "return")
  /\ UNCHANGED <<svars, flags, defers, open, ctx, go, serving>>

NoSource == flags \cap {"agents", "k8s"} = {}

(* Neither agents, none being parsed out of the list given, nor k8s.       *)
FlagsChecked ==
  \/ NoSource /\ Fail("flags")
  \/ /\ ~NoSource /\ Step("flags", "output")
     /\ UNCHANGED <<svars, flags, defers, open, ctx, go, serving>>

(* A resource is opened and its close deferred.                            *)
Acquire(from, r, to) ==
  /\ Step(from, to)
  /\ open' = open \cup {r}
  /\ defers' = <<r>> \o defers
  /\ UNCHANGED <<svars, flags, ctx, go, serving>>

Skip(from, to) ==
  /\ Step(from, to)
  /\ UNCHANGED <<svars, flags, defers, open, ctx, go, serving>>

OpenOutput == Acquire("output", "output", "cursors") \/ Fail("output")

OpenCursors ==
  \/ "cursors" \in flags /\ (Acquire("cursors", "cursors", "wal") \/ Fail("cursors"))
  \/ "cursors" \notin flags /\ Skip("cursors", "wal")

(* Fault: the close of the WAL is not deferred.                            *)
BugOpenWal ==
  \/ /\ "wal" \in flags /\ Step("wal", "signals")
     /\ open' = open \cup {"wal"}
     /\ UNCHANGED <<svars, flags, defers, ctx, go, serving>>
  \/ "wal" \notin flags /\ Skip("wal", "signals")

OpenWal ==
  \/ "wal" \in flags /\ (Acquire("wal", "wal", "signals") \/ Fail("wal"))
  \/ "wal" \notin flags /\ Skip("wal", "signals")

NotifyContext ==
  /\ Step("signals", "discovery")
  /\ ctx' = "live"
  /\ defers' = <<"signals">> \o defers
  /\ UNCHANGED <<svars, flags, open, go, serving>>

Launch(from, G, to) ==
  /\ Step(from, to)
  /\ go' = go \cup G
  /\ UNCHANGED <<svars, flags, defers, open, ctx, serving>>

(* The Service's name is malformed, or the cluster credentials are not     *)
(* there.                                                                  *)
StartDiscovery ==
  \/ "k8s" \in flags /\ (Launch("discovery", {"watch"}, "new") \/ Fail("discovery"))
  \/ "k8s" \notin flags /\ Skip("discovery", "new")

(* New, whose own checks the flags have passed, and the WAL janitor.       *)
NewAggregator ==
  Launch("new", IF "wal" \in flags THEN {"janitor"} ELSE {}, "serve")

ServeReExport ==
  \/ /\ "reexport" \in flags /\ Step("serve", "metrics")
     /\ serving' = TRUE
     /\ defers' = <<"reexport">> \o defers
     /\ UNCHANGED <<svars, flags, open, ctx, go>>
  \/ "reexport" \in flags /\ Fail("serve")
  \/ "reexport" \notin flags /\ Skip("serve", "metrics")

ServeMetrics ==
  Launch("metrics", IF "metrics" \in flags THEN {"metrics"} ELSE {}, "start")

(* Its port is taken: the server logs that and ends, the process goes on.  *)
MetricsFails ==
  /\ "metrics" \in go /\ at \notin {"exit", "killed"}
  /\ go' = go \ {"metrics"}
  /\ UNCHANGED <<svars, flags, at, defers, open, ctx, serving>>

(* Run starts the writer and the stream loops.                             *)
StartRun == Launch("start", {"writer", "loops"}, "run")

-----------------------------------------------------------------------------
(* The way down.                                                           *)

(* SIGTERM.  Once ctx is cancelled, further signals are taken and ignored. *)
Signal ==
  /\ ctx = "live" /\ at \notin {"exit", "killed"}
  /\ ctx' = "cancelled"
  /\ UNCHANGED <<svars, flags, at, defers, open, go, serving>>

(* No handler is installed: the process dies and no deferred call runs.    *)
Killed ==
  /\ ctx \in {"none", "released"} /\ at \notin {"exit", "killed"}
  /\ at' = "killed" /\ go' = {} /\ serving' = FALSE /\ open' = {}
  /\ call' = [c \in Clients |-> "off"]
  /\ UNCHANGED <<ch, drops, acc, sends, scrape, partial, reported, dropped,
                 flags, defers, ctx>>

Cancelled == ctx \in {"cancelled", "released"}

(* The goroutines that watch ctx, in any order; the writer returns when    *)
(* the stream loops have.                                                  *)
GoroutineReturns ==
  /\ at \notin {"exit", "killed"} /\ Cancelled
  /\ \E g \in go \cap {"watch", "janitor", "loops", "writer"} :
       /\ g = "writer" => "loops" \notin go
       /\ go' = go \ {g}
  /\ UNCHANGED <<svars, flags, at, defers, open, ctx, serving>>

RunReturns ==
  /\ Step("run", "return")
  /\ Cancelled /\ go \cap {"loops", "writer"} = {}
  /\ UNCHANGED <<svars, flags, defers, open, ctx, go, serving>>

(* GracefulStop: no new calls, then wait for the active ones.              *)
StopServing ==
  /\ at = "return" /\ serving /\ Head(defers) = "reexport"
  /\ serving' = FALSE
  /\ UNCHANGED <<svars, flags, at, defers, open, ctx, go>>

(* Faults: the calls are cut off while they run; the stop waits for the    *)
(* metrics server, too.                                                    *)
BugDrained == ~serving
BugDrainedAll == ~serving /\ (\A c \in Clients : call[c] = "off") /\ "metrics" \notin go

Drained == ~serving /\ \A c \in Clients : call[c] = "off"

(* The deferred calls, last one first.                                     *)
RunDeferred ==
  /\ at = "return" /\ defers # <<>>
  /\ Head(defers) = "reexport" => Drained
  /\ defers' = Tail(defers)
  /\ open' = open \ {Head(defers)}
  /\ ctx' = IF Head(defers) = "signals" THEN "released" ELSE ctx
  /\ UNCHANGED <<svars, flags, at, go, serving>>

Exit ==
  /\ Step("return", "exit") /\ defers = <<>>
  /\ go' = {}
  /\ UNCHANGED <<svars, flags, defers, open, ctx, serving>>

-----------------------------------------------------------------------------
(* Clients and scrapes.                                                    *)

Client(c) ==
  /\ \/ serving /\ RegisterSubscriber(c)
     \/ Take(c)
     \/ Unregister(c)
     \/ Fold(c)
  /\ UNCHANGED proc

Write == "writer" \in go /\ Broadcast /\ UNCHANGED proc

Scrape == "metrics" \in go /\ (StatsLoad \/ StatsSum) /\ UNCHANGED proc

-----------------------------------------------------------------------------
Init ==
  /\ SInit
  /\ flags \in Configs /\ at = "flags" /\ defers = <<>>
  /\ open = {} /\ ctx = "none" /\ go = {}
  /\ serving = FALSE

Startup ==
  \/ FlagsChecked
  \/ OpenOutput
  \/ OpenCursors
  \/ OpenWal
  \/ NotifyContext
  \/ StartDiscovery
  \/ NewAggregator
  \/ ServeReExport
  \/ ServeMetrics
  \/ StartRun

Shutdown ==
  \/ GoroutineReturns
  \/ RunReturns
  \/ StopServing
  \/ RunDeferred
  \/ Exit

Next ==
  \/ Startup
  \/ MetricsFails
  \/ Signal
  \/ Killed
  \/ Shutdown
  \/ \E c \in Clients : Client(c)
  \/ Write
  \/ Scrape

Spec == Init /\ [][Next]_vars

(* Goroutines that can run do, and a call that ends unregisters.  Nothing  *)
(* makes a client leave, a signal come or a step fail.                     *)
Fairness ==
  /\ WF_vars(Startup) /\ WF_vars(GoroutineReturns)
  /\ WF_vars(RunReturns) /\ WF_vars(StopServing) /\ WF_vars(RunDeferred) /\ WF_vars(Exit)
  /\ \A c \in Clients : WF_vars(Fold(c) /\ UNCHANGED proc)

FairSpec == Spec /\ Fairness

-----------------------------------------------------------------------------
(* Properties.                                                             *)

(* What a goroutine or a call works on.  The janitor and a scrape may call *)
(* a closed WAL, which is safe: GC and LastSeq do not use the open file.   *)
Uses ==
  (IF "writer" \in go THEN {"output", "wal"} ELSE {})
    \cup (IF "loops" \in go THEN {"cursors"} ELSE {})
    \cup (IF Registered # {} THEN {"wal"} ELSE {})

(* The output, the cursor store and the WAL stay open for as long as the   *)
(* writer, a stream loop or a re-export call, which replays the WAL, may   *)
(* use them: on every way out of run, also when a signal comes during the  *)
(* start and when clients are connected before Run starts or after it has  *)
(* returned.                                                               *)
OpenWhileUsed ==
  at # "killed" => Uses \cap (flags \cup {"output"}) \subseteq open

(* On every way out, a failure at any step of the start included, run      *)
(* closes what it had opened, stops the server and releases the signals.   *)
ReleasesAll ==
  at = "exit" => open = {} /\ ~serving /\ ctx \in {"none", "released"} /\ Registered = {}

(* A process that got its signal ends, unless a re-export client stays     *)
(* connected: GracefulStop waits for the calls, and further signals are    *)
(* ignored.                                                                *)
EndsUnlessHeld ==
  <>[](Cancelled /\ Registered = {}) => <>(at \in {"exit", "killed"})
=============================================================================
