--------------------------- MODULE ProcessProofs ---------------------------
(***************************************************************************)
(* Proofs about run and the re-export clients it serves, for every set of  *)
(* command lines, any number of clients and any buffer.                    *)
(*                                                                         *)
(* The deferred calls are what the shutdown rests on.  They form a stack   *)
(* whose order is the order of the start, so that what is on it always     *)
(* includes everything that was opened before any entry of it (Stacked);   *)
(* open files, the signal handler, the server and the calls it has         *)
(* accepted each belong to an entry (Owned).  A call therefore finds the   *)
(* WAL open on every way out, and an empty stack leaves nothing behind.    *)
(*                                                                         *)
(* The drop counters are compared with a ghost count of all drops (DInv).  *)
(* A sum over a changing set of clients is counted as the size of a set,   *)
(* with one element for each drop (Tally), on which the steps act simply.  *)
(***************************************************************************)
EXTENDS Process, FiniteSetTheorems, SequenceTheorems, TLAPS

(* What run defers, in the order it is set up.                             *)
Files    == {"output", "cursors", "wal"}
Deferrable == Files \cup {"signals", "reexport"}

Rank(r) ==
  IF r = "output" THEN 1 ELSE IF r = "cursors" THEN 2 ELSE IF r = "wal" THEN 3
  ELSE IF r = "signals" THEN 4 ELSE 7

Starting == {"flags", "output", "cursors", "wal", "signals", "discovery", "new", "serve",
             "metrics", "start", "run"}

(* How many of the steps of the start are done.                            *)
Stage(s) ==
  IF s = "flags" THEN 0 ELSE IF s = "output" THEN 1 ELSE IF s = "cursors" THEN 2
  ELSE IF s = "wal" THEN 3 ELSE IF s = "signals" THEN 4 ELSE IF s = "discovery" THEN 5
  ELSE IF s = "new" THEN 6 ELSE IF s = "serve" THEN 7 ELSE IF s = "metrics" THEN 8
  ELSE IF s = "start" THEN 9 ELSE 10

Asked == Deferrable \cap (flags \cup {"output", "signals"})

(* What is on a stack, and one whose top ranks highest.                    *)
On(s) == {s[i] : i \in DOMAIN s}

Descends(s) ==
  /\ s \in Seq(Deferrable)
  /\ \A i, j \in DOMAIN s : i < j => Rank(s[j]) < Rank(s[i])

Deferred == On(defers)

Stacked ==
  /\ at \in Starting \cup {"return", "exit", "killed"}
  /\ Descends(defers)
  /\ \A r \in Deferred, q \in Asked : Rank(q) < Rank(r) => q \in Deferred
  /\ at \in Starting => Deferred = {r \in Asked : Rank(r) < Stage(at)}
  /\ at = "exit" => defers = <<>>

Owned ==
  at # "killed" =>
    /\ open = Deferred \cap Files
    /\ "signals" \in Deferred <=> ctx \in {"live", "cancelled"}
    /\ serving \/ (\E c \in Clients : call[c] # "off") => "reexport" \in Deferred
    /\ "writer" \in go \/ "loops" \in go => at = "run"

PTypeOK ==
  /\ call \in [Clients -> {"off", "live", "left"}]
  /\ ctx \in {"none", "live", "cancelled", "released"} /\ serving \in BOOLEAN

PInv == PTypeOK /\ Stacked /\ Owned

-----------------------------------------------------------------------------
(* The stack.                                                              *)

(* Deferring what ranks above everything deferred.                         *)
LEMMA Pushed ==
  ASSUME NEW s, Descends(s), NEW r \in Deferrable, \A q \in On(s) : Rank(q) < Rank(r)
  PROVE  Descends(<<r>> \o s) /\ On(<<r>> \o s) = On(s) \cup {r}
<1>1. /\ s \in Seq(Deferrable) /\ \A i, j \in DOMAIN s : i < j => Rank(s[j]) < Rank(s[i])
      /\ \A i \in DOMAIN s : Rank(s[i]) < Rank(r)
  BY DEF Descends, On
<1> DEFINE t == <<r>> \o s
<1>2. /\ t \in Seq(Deferrable) /\ Len(t) = Len(s) + 1 /\ t[1] = r
      /\ \A i \in 1..Len(s) : t[i + 1] = s[i]
  BY <1>1 DEF Deferrable, Files
<1> HIDE DEF t
<1>3. \A i \in DOMAIN t : i = 1 \/ (i - 1 \in DOMAIN s /\ t[i] = s[i - 1])
  BY <1>1, <1>2
<1>4. Descends(t)
  <2> SUFFICES ASSUME NEW i \in DOMAIN t, NEW j \in DOMAIN t, i < j
               PROVE  Rank(t[j]) < Rank(t[i])
    BY <1>2 DEF Descends
  <2>1. i \in Nat /\ j \in Nat /\ i >= 1 /\ j # 1
    BY <1>2
  <2>2. j - 1 \in DOMAIN s /\ t[j] = s[j - 1]
    BY <1>3, <2>1
  <2>3. CASE i = 1
    BY <1>1, <1>2, <2>2, <2>3
  <2>4. CASE i # 1
    BY <1>1, <1>3, <2>1, <2>2, <2>4
  <2> QED
    BY <2>3, <2>4
<1>5. On(t) = On(s) \cup {r}
  <2>1. \A i \in DOMAIN s : i + 1 \in DOMAIN t /\ t[i + 1] = s[i]
    BY <1>1, <1>2
  <2>2. r \in On(t) /\ On(s) \subseteq On(t)
    BY <1>1, <1>2, <2>1 DEF On
  <2>3. On(t) \subseteq On(s) \cup {r}
    BY <1>2, <1>3 DEF On
  <2> QED
    BY <2>2, <2>3
<1> QED
  BY <1>4, <1>5 DEF t

(* A deferred call that has run takes itself off the stack.                *)
LEMMA Popped ==
  ASSUME NEW s, Descends(s), s # <<>>
  PROVE  /\ Descends(Tail(s)) /\ On(Tail(s)) = On(s) \ {Head(s)} /\ Head(s) \in On(s)
         /\ \A q \in On(Tail(s)) : Rank(q) < Rank(Head(s))
<1>1. s \in Seq(Deferrable) /\ \A i, j \in DOMAIN s : i < j => Rank(s[j]) < Rank(s[i])
  BY DEF Descends
<1> DEFINE t == Tail(s)
<1>2. /\ t \in Seq(Deferrable) /\ Len(t) = Len(s) - 1 /\ Head(s) = s[1] /\ 1 \in DOMAIN s
      /\ \A i \in DOMAIN t : i + 1 \in DOMAIN s /\ t[i] = s[i + 1]
      /\ \A i \in DOMAIN s : i \in Nat
  BY <1>1
<1> HIDE DEF t
<1>3. \A i \in DOMAIN t : i \in Nat /\ i >= 1
  BY <1>2
<1>4. Descends(t)
  BY <1>1, <1>2, <1>3 DEF Descends
<1>5. \A i \in DOMAIN t : Rank(t[i]) < Rank(Head(s))
  BY <1>1, <1>2, <1>3
<1>6. \A q \in On(t) : Rank(q) < Rank(Head(s))
  BY <1>5 DEF On
<1>7. Head(s) \notin On(t)
  <2>1. Rank(Head(s)) \in Nat
    BY DEF Rank
  <2> QED
    BY <1>6, <2>1
<1>8. \A i \in DOMAIN s : i = 1 \/ (i - 1 \in DOMAIN t /\ t[i - 1] = s[i])
  BY <1>1, <1>2
<1>9. On(t) = On(s) \ {Head(s)}
  <2>1. On(t) \subseteq On(s)
    BY <1>2 DEF On
  <2>2. On(s) \subseteq On(t) \cup {Head(s)}
    BY <1>2, <1>8 DEF On
  <2> QED
    BY <1>7, <2>1, <2>2
<1> QED
  BY <1>2, <1>4, <1>6, <1>9 DEF On, t

-----------------------------------------------------------------------------
(* The way up.                                                             *)

(* A step of the start that defers nothing and that no flag asks to.       *)
LEMMA SkipStep ==
  ASSUME PInv, NEW to \in Starting, at \in Starting, at # "run", at' = to,
         UNCHANGED <<call, flags, defers, open, ctx, serving>>,
         \A r \in Asked : Rank(r) < Stage(at) <=> Rank(r) < Stage(to),
         "writer" \in go' \/ "loops" \in go' => "writer" \in go \/ "loops" \in go \/ to = "run"
  PROVE  PInv'
<1>1. PTypeOK'
  BY DEF PInv, PTypeOK
<1>2. Asked' = Asked /\ Deferred' = Deferred /\ to # "exit" /\ to # "killed" /\ at # "killed"
  BY DEF Asked, Deferred, Starting
<1>3. Stacked'
  BY <1>2 DEF PInv, Stacked
<1>4. Owned'
  BY <1>2 DEF PInv, Owned
<1> QED
  BY <1>1, <1>3, <1>4 DEF PInv

(* A step that opens or starts r and defers its end.                       *)
LEMMA DeferStep ==
  ASSUME PInv, NEW to \in Starting, at \in Starting, at # "run", at' = to,
         NEW r \in Asked, Rank(r) = Stage(at), Stage(to) = Stage(at) + 1,
         defers' = <<r>> \o defers, UNCHANGED <<call, flags, go>>,
         open' = open \cup ({r} \cap Files),
         ctx' = IF r = "signals" THEN "live" ELSE ctx,
         serving' \in BOOLEAN, serving' => serving \/ r = "reexport"
  PROVE  PInv'
<1>1. PTypeOK'
  BY DEF PInv, PTypeOK
<1>2. Asked' = Asked /\ to # "exit" /\ to # "killed" /\ at # "killed" /\ r \in Deferrable
  BY DEF Asked, Starting
<1>3. Deferred = {q \in Asked : Rank(q) < Stage(at)}
  BY DEF PInv, Stacked
<1>4. Descends(defers') /\ Deferred' = Deferred \cup {r}
  <2>1. Descends(defers) /\ \A q \in On(defers) : Rank(q) < Rank(r)
    BY <1>3 DEF PInv, Stacked, Deferred
  <2> QED
    BY <1>2, <2>1, Pushed DEF Deferred
<1>5. Deferred' = {q \in Asked : Rank(q) < Stage(to)}
  <2>1. \A q \in Asked : Rank(q) = Rank(r) => q = r
    BY DEF Asked, Deferrable, Files, Rank
  <2>2. \A q : Rank(q) \in Nat /\ Stage(q) \in Nat
    BY DEF Rank, Stage
  <2>3. \A q \in Asked : Rank(q) < Stage(to) <=> Rank(q) < Stage(at) \/ q = r
    BY <2>1, <2>2
  <2> QED
    BY <1>3, <1>4, <2>3
<1>6. \A p \in Deferred', q \in Asked : Rank(q) < Rank(p) => q \in Deferred'
  <2>1. \A q : Rank(q) \in Nat /\ Stage(q) \in Nat
    BY DEF Rank, Stage
  <2> QED
    BY <1>5, <2>1
<1>7. Stacked'
  BY <1>2, <1>4, <1>5, <1>6 DEF Stacked
<1>8. Owned'
  BY <1>2, <1>4, Zenon DEF PInv, PTypeOK, Owned, Files
<1> QED
  BY <1>1, <1>7, <1>8 DEF PInv

(* run returns: a step of the start fails, or Run is over.                 *)
LEMMA ReturnStep ==
  ASSUME PInv, at \in Starting, at' = "return", "writer" \notin go, "loops" \notin go,
         UNCHANGED <<call, flags, defers, open, ctx, go, serving>>
  PROVE  PInv'
<1>1. PTypeOK'
  BY DEF PInv, PTypeOK
<1>2. Asked' = Asked /\ Deferred' = Deferred /\ at # "killed" /\ "return" \notin Starting
  BY DEF Asked, Deferred, Starting
<1>3. Stacked'
  BY <1>2 DEF PInv, Stacked
<1>4. Owned'
  BY <1>2 DEF PInv, Owned
<1> QED
  BY <1>1, <1>3, <1>4 DEF PInv

LEMMA StartupStep ==
  ASSUME PInv, Startup
  PROVE  PInv'
<1>1. ASSUME NEW from \in Starting \ {"run"}, Fail(from)
      PROVE  PInv'
  <2>1. "writer" \notin go /\ "loops" \notin go
    BY <1>1 DEF Fail, Step, PInv, Owned, Starting
  <2> QED
    BY <1>1, <2>1, ReturnStep DEF Fail, Step, svars
<1>2. CASE FlagsChecked
  <2>1. CASE NoSource /\ Fail("flags")
    BY <1>1, <2>1 DEF Starting
  <2>2. CASE ~NoSource /\ Skip("flags", "output")
    <3>1. \A r \in Asked : Rank(r) < Stage("flags") <=> Rank(r) < Stage("output")
      BY DEF Rank, Stage
    <3> QED
      BY <2>2, <3>1, SkipStep DEF Skip, Step, Starting, svars
  <2> QED
    BY <1>2, <2>1, <2>2 DEF FlagsChecked, Skip
<1>3. CASE OpenOutput
  <2>1. CASE Acquire("output", "output", "cursors")
    <3>1. "output" \in Asked /\ Rank("output") = Stage("output") /\ Stage("cursors") = Stage("output") + 1
      BY DEF Asked, Deferrable, Files, Rank, Stage
    <3> QED
      BY <2>1, <3>1, DeferStep, Zenon DEF Acquire, Step, Starting, svars, Files, PInv, PTypeOK
  <2> QED
    BY <1>1, <1>3, <2>1 DEF OpenOutput, Starting
<1>4. CASE OpenCursors
  <2>1. CASE "cursors" \in flags /\ Acquire("cursors", "cursors", "wal")
    <3>1. "cursors" \in Asked /\ Rank("cursors") = Stage("cursors") /\ Stage("wal") = Stage("cursors") + 1
      BY <2>1 DEF Asked, Deferrable, Files, Rank, Stage
    <3> QED
      BY <2>1, <3>1, DeferStep, Zenon DEF Acquire, Step, Starting, svars, Files, PInv, PTypeOK
  <2>2. CASE "cursors" \notin flags /\ Skip("cursors", "wal")
    <3>1. \A r \in Asked : Rank(r) < Stage("cursors") <=> Rank(r) < Stage("wal")
      BY <2>2 DEF Rank, Stage, Asked, Deferrable, Files
    <3> QED
      BY <2>2, <3>1, SkipStep DEF Skip, Step, Starting, svars
  <2> QED
    BY <1>1, <1>4, <2>1, <2>2 DEF OpenCursors, Starting
<1>5. CASE OpenWal
  <2>1. CASE "wal" \in flags /\ Acquire("wal", "wal", "signals")
    <3>1. "wal" \in Asked /\ Rank("wal") = Stage("wal") /\ Stage("signals") = Stage("wal") + 1
      BY <2>1 DEF Asked, Deferrable, Files, Rank, Stage
    <3> QED
      BY <2>1, <3>1, DeferStep, Zenon DEF Acquire, Step, Starting, svars, Files, PInv, PTypeOK
  <2>2. CASE "wal" \notin flags /\ Skip("wal", "signals")
    <3>1. \A r \in Asked : Rank(r) < Stage("wal") <=> Rank(r) < Stage("signals")
      BY <2>2 DEF Rank, Stage, Asked, Deferrable, Files
    <3> QED
      BY <2>2, <3>1, SkipStep DEF Skip, Step, Starting, svars
  <2> QED
    BY <1>1, <1>5, <2>1, <2>2 DEF OpenWal, Starting
<1>6. CASE NotifyContext
  <2>1. "signals" \in Asked /\ Rank("signals") = Stage("signals") /\ Stage("discovery") = Stage("signals") + 1
    BY DEF Asked, Deferrable, Files, Rank, Stage
  <2> QED
    BY <1>6, <2>1, DeferStep DEF NotifyContext, Step, Starting, svars, Files, PInv, PTypeOK
<1>7. CASE StartDiscovery
  <2>1. \A r \in Asked : Rank(r) < Stage("discovery") <=> Rank(r) < Stage("new")
    BY DEF Rank, Stage, Asked, Deferrable, Files
  <2>2. CASE Skip("discovery", "new")
    BY <2>1, <2>2, SkipStep DEF Skip, Step, Starting, svars
  <2>3. CASE Launch("discovery", {"watch"}, "new")
    BY <2>1, <2>3, SkipStep DEF Launch, Step, Starting, svars
  <2> QED
    BY <1>1, <1>7, <2>2, <2>3 DEF StartDiscovery, Starting
<1>8. CASE NewAggregator
  <2>1. \A r \in Asked : Rank(r) < Stage("new") <=> Rank(r) < Stage("serve")
    BY DEF Rank, Stage, Asked, Deferrable, Files
  <2> QED
    BY <1>8, <2>1, SkipStep DEF NewAggregator, Launch, Step, Starting, svars
<1>9. CASE ServeReExport
  <2>1. CASE "reexport" \in flags /\ at = "serve" /\ at' = "metrics" /\ serving' = TRUE
             /\ defers' = <<"reexport">> \o defers /\ UNCHANGED <<svars, flags, open, ctx, go>>
    <3>1. "reexport" \in Asked /\ Rank("reexport") = Stage("serve") /\ Stage("metrics") = Stage("serve") + 1
      BY <2>1 DEF Asked, Deferrable, Files, Rank, Stage
    <3> QED
      BY <2>1, <3>1, DeferStep DEF Starting, svars, Files
  <2>2. CASE "reexport" \notin flags /\ Skip("serve", "metrics")
    <3>1. \A r \in Asked : Rank(r) < Stage("serve") <=> Rank(r) < Stage("metrics")
      BY <2>2 DEF Rank, Stage, Asked, Deferrable, Files
    <3> QED
      BY <2>2, <3>1, SkipStep DEF Skip, Step, Starting, svars
  <2> QED
    BY <1>1, <1>9, <2>1, <2>2, Zenon DEF ServeReExport, Starting, Step
<1>10. CASE ServeMetrics
  <2>1. \A r \in Asked : Rank(r) < Stage("metrics") <=> Rank(r) < Stage("start")
    BY DEF Rank, Stage, Asked, Deferrable, Files
  <2> QED
    BY <1>10, <2>1, SkipStep DEF ServeMetrics, Launch, Step, Starting, svars
<1>11. CASE StartRun
  <2>1. \A r \in Asked : Rank(r) < Stage("start") <=> Rank(r) < Stage("run")
    BY DEF Rank, Stage, Asked, Deferrable, Files
  <2> QED
    BY <1>11, <2>1, SkipStep DEF StartRun, Launch, Step, Starting, svars
<1> QED
  BY <1>2, <1>3, <1>4, <1>5, <1>6, <1>7, <1>8, <1>9, <1>10, <1>11 DEF Startup

-----------------------------------------------------------------------------
(* Beside it, and the way down.                                            *)

(* Steps that leave the stack alone.                                       *)
LEMMA BesideStep ==
  ASSUME PInv, PTypeOK', UNCHANGED <<flags, at, defers, open>>,
         "writer" \in go' \/ "loops" \in go' => "writer" \in go \/ "loops" \in go,
         ctx' = ctx \/ (ctx = "live" /\ ctx' = "cancelled"),
         serving' \/ (\E c \in Clients : call'[c] # "off") =>
           serving \/ (\E c \in Clients : call[c] # "off")
  PROVE  PInv'
<1>1. Asked' = Asked /\ Deferred' = Deferred
  BY DEF Asked, Deferred
<1>2. Stacked'
  BY <1>1 DEF PInv, Stacked
<1>3. Owned'
  BY <1>1 DEF PInv, Owned
<1> QED
  BY <1>2, <1>3 DEF PInv

LEMMA BesideSteps ==
  ASSUME PInv, \/ MetricsFails \/ Signal \/ GoroutineReturns \/ StopServing
               \/ Write \/ Scrape \/ UNCHANGED vars
  PROVE  PInv'
<1>1. call' = call /\ UNCHANGED <<flags, at, defers, open>>
  BY DEF MetricsFails, Signal, GoroutineReturns, StopServing, Write, Scrape, Broadcast, StatsLoad,
         StatsSum, vars, svars, proc
<1>2. PTypeOK'
  BY <1>1, Zenon DEF PInv, PTypeOK, MetricsFails, Signal, GoroutineReturns, StopServing, Write, Scrape,
              vars, proc
<1>3. /\ "writer" \in go' \/ "loops" \in go' => "writer" \in go \/ "loops" \in go
      /\ ctx' = ctx \/ (ctx = "live" /\ ctx' = "cancelled")
      /\ serving' => serving
  BY DEF MetricsFails, Signal, GoroutineReturns, StopServing, Write, Scrape, vars, proc
<1> QED
  BY <1>1, <1>2, <1>3, BesideStep

(* A client's call begins only while the server accepts them.              *)
LEMMA ClientStep ==
  ASSUME PInv, NEW c \in Clients, Client(c)
  PROVE  PInv'
<1>1. UNCHANGED proc /\ call \in [Clients -> {"off", "live", "left"}]
  BY DEF Client, PInv, PTypeOK
<1>2. \/ call' = [call EXCEPT ![c] = "live"] /\ serving
      \/ call' = call
      \/ call' = [call EXCEPT ![c] = "left"] /\ call[c] = "live"
      \/ call' = [call EXCEPT ![c] = "off"]
  BY DEF Client, RegisterSubscriber, Take, Unregister, Fold
<1>3. PTypeOK'
  BY <1>1, <1>2 DEF PInv, PTypeOK, proc
<1>4. (\E d \in Clients : call'[d] # "off") => serving \/ (\E d \in Clients : call[d] # "off")
  BY <1>1, <1>2
<1> QED
  BY <1>1, <1>3, <1>4, BesideStep DEF proc

LEMMA KilledStep ==
  ASSUME PInv, Killed
  PROVE  PInv'
<1>1. Asked' = Asked /\ Deferred' = Deferred /\ at' = "killed" /\ UNCHANGED <<flags, defers, ctx>>
  BY DEF Asked, Deferred, Killed
<1>2. PTypeOK'
  BY Zenon DEF PInv, PTypeOK, Killed
<1>3. Stacked'
  BY <1>1 DEF PInv, Stacked, Starting
<1>4. Owned'
  BY <1>1 DEF Owned
<1> QED
  BY <1>2, <1>3, <1>4 DEF PInv

(* The last one deferred runs first; what it leaves is still complete.     *)
LEMMA DeferredStep ==
  ASSUME PInv, RunDeferred
  PROVE  PInv'
<1>1. /\ at = "return" /\ at' = at /\ defers # <<>> /\ defers' = Tail(defers)
      /\ Head(defers) = "reexport" => Drained
      /\ open' = open \ {Head(defers)} /\ UNCHANGED <<call, flags, go, serving>>
      /\ ctx' = IF Head(defers) = "signals" THEN "released" ELSE ctx
  BY DEF RunDeferred, svars
<1>2. PTypeOK'
  BY <1>1 DEF PInv, PTypeOK
<1>3. /\ Descends(defers)
      /\ \A r \in Deferred, q \in Asked : Rank(q) < Rank(r) => q \in Deferred
  BY DEF PInv, Stacked
<1>4. /\ Descends(defers') /\ Deferred' = Deferred \ {Head(defers)} /\ Head(defers) \in Deferred
      /\ \A r \in Deferred' : Rank(r) < Rank(Head(defers))
  BY <1>1, <1>3, Popped DEF Deferred
<1>5. Asked' = Asked /\ "return" \notin Starting
  BY <1>1 DEF Asked, Starting
<1>6. \A r \in Deferred', q \in Asked : Rank(q) < Rank(r) => q \in Deferred'
  <2> SUFFICES ASSUME NEW r \in Deferred', NEW q \in Asked, Rank(q) < Rank(r)
               PROVE  q \in Deferred'
    OBVIOUS
  <2>1. q \in Deferred /\ Rank(r) < Rank(Head(defers))
    BY <1>3, <1>4
  <2>2. Rank(q) \in Nat /\ Rank(r) \in Nat /\ Rank(Head(defers)) \in Nat
    BY DEF Rank
  <2>3. Rank(q) # Rank(Head(defers))
    BY <2>1, <2>2
  <2> QED
    BY <1>4, <2>1, <2>3
<1>7. Stacked'
  BY <1>1, <1>4, <1>5, <1>6 DEF Stacked
<1>8. Owned'
  BY <1>1, <1>4 DEF PInv, PTypeOK, Owned, Drained, Files
<1> QED
  BY <1>2, <1>7, <1>8 DEF PInv

LEMMA ExitStep ==
  ASSUME PInv, Exit
  PROVE  PInv'
<1>1. /\ at = "return" /\ at' = "exit" /\ defers = <<>> /\ go' = {}
      /\ UNCHANGED <<call, flags, defers, open, ctx, serving>>
  BY DEF Exit, Step, svars
<1>2. PTypeOK' /\ Asked' = Asked /\ Deferred' = Deferred /\ "exit" \notin Starting
  BY <1>1 DEF PInv, PTypeOK, Asked, Deferred, Starting
<1>3. Stacked'
  BY <1>1, <1>2 DEF PInv, Stacked
<1>4. Owned'
  BY <1>1, <1>2 DEF PInv, Owned
<1> QED
  BY <1>2, <1>3, <1>4 DEF PInv

LEMMA PStart == Init => PInv
<1> SUFFICES ASSUME Init
             PROVE  PInv
  OBVIOUS
<1>1. PTypeOK
  BY Zenon DEF Init, SInit, PTypeOK
<1>2. /\ Deferred = {} /\ defers = <<>> /\ at = "flags" /\ open = {} /\ ctx = "none" /\ go = {}
      /\ serving = FALSE /\ \A c \in Clients : call[c] = "off"
  BY DEF Init, SInit, Deferred, On
<1>3. \A r : ~(Rank(r) < Stage("flags"))
  BY DEF Rank, Stage
<1>4. Stacked
  BY <1>2, <1>3 DEF Stacked, Descends, Starting
<1>5. Owned
  BY <1>2 DEF Owned
<1> QED
  BY <1>1, <1>4, <1>5 DEF PInv

(* Every reachable state satisfies the inductive invariant.                *)
THEOREM PInvariance == Spec => []PInv
<1>1. PInv /\ [Next]_vars => PInv'
  <2> SUFFICES ASSUME PInv, [Next]_vars
               PROVE  PInv'
    OBVIOUS
  <2>1. CASE RunReturns
    BY <2>1, ReturnStep DEF RunReturns, Step, Starting, svars
  <2> QED
    BY <2>1, StartupStep, BesideSteps, ClientStep, KilledStep, DeferredStep, ExitStep
       DEF Next, Shutdown
<1> QED
  BY <1>1, PStart, PTL DEF Spec

(* The output, the cursor store and the WAL stay open while the writer, a  *)
(* stream loop or a re-export call may use them, on every way out of run.  *)
THEOREM StaysOpen == Spec => []OpenWhileUsed
<1>1. PInv => OpenWhileUsed
  <2> SUFFICES ASSUME PInv, at # "killed", NEW r \in Uses, r \in flags \cup {"output"}
               PROVE  r \in open
    BY DEF OpenWhileUsed
  <2>1. /\ open = Deferred \cap Files
        /\ serving \/ (\E c \in Clients : call[c] # "off") => "reexport" \in Deferred
        /\ "writer" \in go \/ "loops" \in go => at = "run"
    BY DEF PInv, Owned
  <2>2. r \in Files /\ r \in Asked
    BY DEF Uses, Files, Asked, Deferrable
  <2>3. CASE "writer" \in go \/ "loops" \in go
    <3>1. Deferred = {q \in Asked : Rank(q) < Stage("run")}
      BY <2>1, <2>3 DEF PInv, Stacked, Starting
    <3>2. Rank(r) < Stage("run")
      BY DEF Rank, Stage
    <3> QED
      BY <2>1, <2>2, <3>1, <3>2
  <2>4. CASE r = "wal" /\ Registered # {}
    <3>1. "reexport" \in Deferred
      BY <2>1, <2>4 DEF Registered
    <3>2. Rank("wal") < Rank("reexport")
      BY DEF Rank
    <3> QED
      BY <2>1, <2>2, <2>4, <3>1, <3>2 DEF PInv, Stacked
  <2> QED
    BY <2>3, <2>4 DEF Uses
<1> QED
  BY <1>1, PInvariance, PTL

(* Whatever step of the start failed, and however run ended, when it has   *)
(* returned nothing is open, the server is down and signals are released.  *)
THEOREM Released == Spec => []ReleasesAll
<1>1. PInv => ReleasesAll
  <2> SUFFICES ASSUME PInv, at = "exit"
               PROVE  open = {} /\ ~serving /\ ctx \in {"none", "released"} /\ Registered = {}
    BY DEF ReleasesAll
  <2>1. Deferred = {}
    BY DEF PInv, Stacked, Deferred, On
  <2> QED
    BY <2>1 DEF PInv, PTypeOK, Owned, Registered
<1> QED
  BY <1>1, PInvariance, PTL

-----------------------------------------------------------------------------
(* The drop counters.  A sum of counters is a number of pairs, of a client *)
(* and one of its drops, which turns sums into cardinalities.              *)

Tally(C, d) == UNION {{c} \X (1..d[c]) : c \in C}

LEMMA InTally ==
  ASSUME NEW C, NEW d, NEW x
  PROVE  x \in Tally(C, d) <=> \E c \in C : \E n \in 1..d[c] : x = <<c, n>>
BY DEF Tally

LEMMA Column ==
  ASSUME NEW c, NEW k \in Nat
  PROVE  IsFiniteSet({c} \X (1..k)) /\ Cardinality({c} \X (1..k)) = k
<1>1. IsFiniteSet({c}) /\ Cardinality({c}) = 1
  BY FS_Singleton, Zenon
<1>2. IsFiniteSet(1..k) /\ Cardinality(1..k) = k
  BY FS_Interval
<1>3. /\ IsFiniteSet({c} \X (1..k))
      /\ Cardinality({c} \X (1..k)) = Cardinality({c}) * Cardinality(1..k)
  BY <1>1, <1>2, FS_Product, Zenon
<1> QED
  BY <1>1, <1>2, <1>3

LEMMA TallyFinite ==
  ASSUME NEW C, IsFiniteSet(C), NEW d, \A c \in C : d[c] \in Nat
  PROVE  IsFiniteSet(Tally(C, d)) /\ Cardinality(Tally(C, d)) \in Nat
<1> DEFINE T == {{c} \X (1..d[c]) : c \in C}
           f == [c \in C |-> {c} \X (1..d[c])]
<1>1. f \in Surjection(C, T)
  BY Zenon DEF Surjection
<1>2. IsFiniteSet(T)
  BY <1>1, FS_Surjection
<1>3. \A X \in T : IsFiniteSet(X)
  <2> SUFFICES ASSUME NEW c \in C
               PROVE  IsFiniteSet({c} \X (1..d[c]))
    OBVIOUS
  <2> QED
    BY Column, Zenon
<1>4. IsFiniteSet(UNION T)
  BY <1>2, <1>3, FS_UNION, Zenon
<1> QED
  BY <1>4, FS_CardinalityType DEF Tally

(* A client's drops are one addend.                                        *)
LEMMA TallySplit ==
  ASSUME NEW C, IsFiniteSet(C), NEW d, \A c \in C : d[c] \in Nat, NEW x \in C
  PROVE  Cardinality(Tally(C, d)) = d[x] + Cardinality(Tally(C \ {x}, d))
<1> DEFINE K == {x} \X (1..d[x])
           R == Tally(C \ {x}, d)
<1>1. IsFiniteSet(K) /\ Cardinality(K) = d[x] /\ d[x] \in Nat
  BY Column, Zenon
<1>2. IsFiniteSet(C \ {x})
  BY FS_RemoveElement
<1>3. IsFiniteSet(R) /\ Cardinality(R) \in Nat
  BY <1>2, TallyFinite
<1>4. Tally(C, d) = K \cup R /\ K \cap R = {}
  BY DEF Tally
<1>5. Cardinality(K \cup R) = Cardinality(K) + Cardinality(R) - Cardinality(K \cap R)
  BY <1>1, <1>3, FS_Union, Zenon
<1>6. Cardinality(K \cap R) = 0
  BY <1>4, FS_EmptySet, SMTT(30), Zenon
<1> QED
  BY <1>1, <1>3, <1>4, <1>5, <1>6

(* The fold that Stats computes is that number: both satisfy the fold's    *)
(* recursion, and a smallest set on which they differed would be the empty *)
(* set or not a smallest one.                                              *)
LEMMA SumIsTally ==
  ASSUME NEW C, IsFiniteSet(C), NEW d, \A c \in C : d[c] \in Nat
  PROVE  MapThenSumSet(LAMBDA c : d[c], C) = Cardinality(Tally(C, d))
<1> DEFINE Pick(s) == CHOOSE x \in s : TRUE
           Def(it) == [s \in SUBSET C |-> IF s = {} THEN 0 ELSE d[Pick(s)] + it[s \ {Pick(s)}]]
           g == [s \in SUBSET C |-> Cardinality(Tally(s, d))]
           h == CHOOSE it : it = Def(it)
<1>1. MapThenSumSet(LAMBDA c : d[c], C) = h[C]
  BY DEF MapThenSumSet, MapThenFoldSet
<1>2. g = Def(g)
  <2> SUFFICES ASSUME NEW s \in SUBSET C
               PROVE  g[s] = IF s = {} THEN 0 ELSE d[Pick(s)] + g[s \ {Pick(s)}]
    BY Zenon
  <2>1. CASE s = {}
    <3>1. Tally(s, d) = {}
      BY <2>1 DEF Tally
    <3> QED
      BY <2>1, <3>1, FS_EmptySet
  <2>2. CASE s # {}
    <3>1. Pick(s) \in s
      BY <2>2
    <3>2. IsFiniteSet(s) /\ \A c \in s : d[c] \in Nat
      BY FS_Subset
    <3> HIDE DEF Pick
    <3>3. Cardinality(Tally(s, d)) = d[Pick(s)] + Cardinality(Tally(s \ {Pick(s)}, d))
      BY <3>1, <3>2, TallySplit
    <3> QED
      BY <2>2, <3>3
  <2> QED
    BY <2>1, <2>2
<1> HIDE DEF g, Def
<1>3. h = Def(h)
  BY <1>2
<1> HIDE DEF h
<1>4. \A s \in SUBSET C : h[s] = g[s]
  <2> DEFINE Bad == {s \in SUBSET C : h[s] # g[s]}
  <2> SUFFICES ASSUME Bad # {}
               PROVE  FALSE
    OBVIOUS
  <2>1. IsWellFoundedOn(StrictSubsetOrdering(C), SUBSET C)
    BY FS_StrictSubsetOrderingWellFounded, FS_FiniteSubsetsOfFinite, Zenon
  <2>2. PICK s \in Bad : \A y \in Bad : <<y, s>> \notin StrictSubsetOrdering(C)
    BY <2>1, WFMin, Zenon
  <2>3. h[s] = (IF s = {} THEN 0 ELSE d[Pick(s)] + h[s \ {Pick(s)}])
    BY <1>3 DEF Def
  <2>4. g[s] = (IF s = {} THEN 0 ELSE d[Pick(s)] + g[s \ {Pick(s)}])
    BY <1>2 DEF Def
  <2>5. s # {} /\ Pick(s) \in s
    BY <2>3, <2>4
  <2> HIDE DEF Pick
  <2>6. s \ {Pick(s)} \in SUBSET C /\ <<s \ {Pick(s)}, s>> \in StrictSubsetOrdering(C)
    BY <2>5 DEF StrictSubsetOrdering
  <2>7. h[s \ {Pick(s)}] = g[s \ {Pick(s)}]
    BY <2>2, <2>6, Zenon
  <2> QED
    BY <2>3, <2>4, <2>7
<1> QED
  BY <1>1, <1>4, Zenon DEF g

(* Every client that broadcast finds full adds one pair.                   *)
LEMMA TallyGrows ==
  ASSUME NEW C, IsFiniteSet(C), NEW d, \A c \in C : d[c] \in Nat, NEW F \in SUBSET C,
         NEW e, \A c \in C : e[c] = IF c \in F THEN d[c] + 1 ELSE d[c]
  PROVE  Cardinality(Tally(C, e)) = Cardinality(Tally(C, d)) + Cardinality(F)
<1> DEFINE N == {<<c, d[c] + 1>> : c \in F}
           f == [c \in F |-> <<c, d[c] + 1>>]
<1>1. IsFiniteSet(F) /\ Cardinality(F) \in Nat
  BY FS_Subset, FS_CardinalityType
<1>2. f \in Bijection(F, N)
  BY Zenon DEF Bijection, Injection, Surjection, IsInjective
<1>3. IsFiniteSet(N) /\ Cardinality(N) = Cardinality(F)
  BY <1>1, <1>2, FS_Bijection DEF ExistsBijection
<1>4. IsFiniteSet(Tally(C, d)) /\ Cardinality(Tally(C, d)) \in Nat
  BY TallyFinite
<1>5. Tally(C, d) \cap N = {}
  <2> SUFFICES ASSUME NEW c \in F, <<c, d[c] + 1>> \in Tally(C, d)
               PROVE  FALSE
    OBVIOUS
  <2>1. PICK b \in C : \E n \in 1..d[b] : <<c, d[c] + 1>> = <<b, n>>
    BY InTally
  <2> QED
    BY <2>1
<1>6. Tally(C, e) = Tally(C, d) \cup N
  <2>1. ASSUME NEW x \in Tally(C, e)
        PROVE  x \in Tally(C, d) \cup N
    <3>1. PICK c \in C : \E n \in 1..e[c] : x = <<c, n>>
      BY <2>1, InTally
    <3>2. PICK n \in 1..e[c] : x = <<c, n>>
      BY <3>1
    <3>3. d[c] \in Nat /\ (n \in 1..d[c] \/ (c \in F /\ n = d[c] + 1))
      BY <3>2
    <3> QED
      BY <3>2, <3>3, InTally
  <2>2. ASSUME NEW x \in Tally(C, d)
        PROVE  x \in Tally(C, e)
    <3>1. PICK c \in C : \E n \in 1..d[c] : x = <<c, n>>
      BY <2>2, InTally
    <3>2. PICK n \in 1..d[c] : x = <<c, n>>
      BY <3>1
    <3>3. n \in 1..e[c]
      BY <3>2
    <3> QED
      BY <3>2, <3>3, InTally
  <2>3. ASSUME NEW c \in F
        PROVE  <<c, d[c] + 1>> \in Tally(C, e)
    <3>1. c \in C /\ d[c] + 1 \in 1..e[c]
      BY <2>3
    <3> QED
      BY <3>1, InTally
  <2> QED
    BY <2>1, <2>2, <2>3
<1>7. Cardinality(Tally(C, d) \cup N) =
        Cardinality(Tally(C, d)) + Cardinality(N) - Cardinality(Tally(C, d) \cap N)
  BY <1>3, <1>4, FS_Union
<1>8. Cardinality(Tally(C, d) \cap N) = 0
  BY <1>5, FS_EmptySet
<1> QED
  BY <1>1, <1>3, <1>4, <1>6, <1>7, <1>8

(* The calls whose drops are not in the accumulator yet.                   *)
Calls == {c \in Clients : call[c] # "off"}

(* Conservation; and a scrape in progress has loaded no more than the      *)
(* accumulator holds by now.                                               *)
DInv ==
  /\ drops \in [Clients -> Nat] /\ acc \in Nat /\ dropped \in Nat
  /\ partial \in Nat /\ reported \in Nat
  /\ acc + Cardinality(Tally(Calls, drops)) = dropped
  /\ scrape = "loaded" => partial <= acc
  /\ reported <= dropped

LEMMA Summed ==
  ASSUME DInv, NEW C \in SUBSET Clients
  PROVE  /\ IsFiniteSet(C) /\ DropsOf(C) = Cardinality(Tally(C, drops))
         /\ Cardinality(Tally(C, drops)) \in Nat
<1>1. IsFiniteSet(C) /\ \A c \in C : drops[c] \in Nat
  BY SubscriberConstants, FS_Subset DEF DInv
<1>2. DropsOf(C) = Cardinality(Tally(C, drops))
  BY <1>1, SumIsTally, Zenon DEF DropsOf
<1> QED
  BY <1>1, <1>2, TallyFinite

(* A step that leaves the pairs and the totals alone.                      *)
LEMMA CountersKept ==
  ASSUME DInv, drops' \in [Clients -> Nat], Tally(Calls, drops)' = Tally(Calls, drops),
         UNCHANGED <<acc, dropped, scrape, partial, reported>>
  PROVE  DInv'
BY DEF DInv

LEMMA ClientCounts ==
  ASSUME DInv, PInv, NEW c \in Clients, Client(c)
  PROVE  DInv'
<1>1. call \in [Clients -> {"off", "live", "left"}] /\ drops \in [Clients -> Nat]
  BY DEF PInv, PTypeOK, DInv
<1>2. CASE RegisterSubscriber(c)
  <2>1. /\ call[c] = "off" /\ call' = [call EXCEPT ![c] = "live"]
        /\ drops' = [drops EXCEPT ![c] = 0]
        /\ UNCHANGED <<acc, dropped, scrape, partial, reported>>
    BY <1>2 DEF RegisterSubscriber
  <2>2. Calls' = Calls \cup {c} /\ c \notin Calls
    BY <1>1, <2>1 DEF Calls
  <2>3. /\ drops' \in [Clients -> Nat] /\ drops'[c] = 0
        /\ \A b \in Calls : drops'[b] = drops[b]
    BY <1>1, <2>1, <2>2 DEF Calls
  <2>4. \A x : x \in Tally(Calls', drops') <=> x \in Tally(Calls, drops)
    BY <2>2, <2>3, InTally
  <2>5. Tally(Calls', drops') = Tally(Calls, drops)
    BY <2>4
  <2> QED
    BY <2>1, <2>3, <2>5, CountersKept
<1>3. CASE Take(c) \/ Unregister(c)
  <2>1. /\ UNCHANGED <<drops, acc, dropped, scrape, partial, reported>>
        /\ call' = call \/ (call[c] = "live" /\ call' = [call EXCEPT ![c] = "left"])
    BY <1>3 DEF Take, Unregister
  <2>2. Calls' = Calls
    BY <1>1, <2>1 DEF Calls
  <2> QED
    BY <1>1, <2>1, <2>2, CountersKept
<1>4. CASE Fold(c)
  <2>1. /\ call[c] = "left" /\ call' = [call EXCEPT ![c] = "off"] /\ acc' = acc + drops[c]
        /\ UNCHANGED <<drops, dropped, scrape, partial, reported>>
    BY <1>4 DEF Fold
  <2>2. c \in Calls /\ Calls' = Calls \ {c}
    BY <1>1, <2>1 DEF Calls
  <2>3. IsFiniteSet(Calls) /\ \A b \in Calls : drops[b] \in Nat
    BY <1>1, Summed DEF Calls
  <2>4. Cardinality(Tally(Calls, drops)) = drops[c] + Cardinality(Tally(Calls \ {c}, drops))
    BY <2>2, <2>3, TallySplit
  <2>5. Cardinality(Tally(Calls', drops')) \in Nat /\ drops[c] \in Nat
    BY <1>1, <2>1, <2>2, Summed DEF Calls
  <2> DEFINE k == Cardinality(Tally(Calls', drops'))
             n == drops[c]
  <2>6. /\ acc + (n + k) = dropped /\ k \in Nat /\ n \in Nat /\ acc \in Nat /\ acc' = acc + n
        /\ partial \in Nat /\ (scrape = "loaded" => partial <= acc)
    BY <2>1, <2>2, <2>4, <2>5 DEF DInv
  <2> HIDE DEF k, n
  <2>7. acc' \in Nat /\ acc' + k = dropped /\ (scrape = "loaded" => partial <= acc')
    BY <2>6
  <2> QED
    BY <2>1, <2>7 DEF DInv, k
<1> QED
  BY <1>2, <1>3, <1>4 DEF Client

LEMMA BroadcastCounts ==
  ASSUME DInv, PInv, Broadcast
  PROVE  DInv'
<1>1. /\ drops' = [c \in Clients |-> IF c \in Full THEN drops[c] + 1 ELSE drops[c]]
      /\ dropped' = dropped + Cardinality(Full)
      /\ UNCHANGED <<call, acc, scrape, partial, reported>>
  BY DEF Broadcast
<1>2. drops \in [Clients -> Nat] /\ drops' \in [Clients -> Nat]
  BY <1>1 DEF DInv
<1>3. Full \subseteq Calls /\ Calls \subseteq Clients /\ Calls' = Calls
  BY <1>1 DEF Full, Registered, Calls
<1>4. IsFiniteSet(Calls) /\ \A c \in Calls : drops[c] \in Nat
  BY <1>2, <1>3, Summed
<1>5. \A c \in Calls : drops'[c] = IF c \in Full THEN drops[c] + 1 ELSE drops[c]
  BY <1>1, <1>3
<1>6. Cardinality(Tally(Calls, drops')) = Cardinality(Tally(Calls, drops)) + Cardinality(Full)
  BY <1>3, <1>4, <1>5, TallyGrows
<1>7. Cardinality(Full) \in Nat /\ Cardinality(Tally(Calls, drops)) \in Nat
  BY <1>3, <1>4, FS_Subset, FS_CardinalityType, TallyFinite
<1> DEFINE k == Cardinality(Tally(Calls, drops))
           n == Cardinality(Full)
<1>8. /\ acc + k = dropped /\ k \in Nat /\ n \in Nat /\ acc \in Nat /\ dropped \in Nat
      /\ dropped' = dropped + n /\ reported \in Nat /\ reported <= dropped
  BY <1>1, <1>7 DEF DInv
<1>9. Cardinality(Tally(Calls', drops')) = k + n
  BY <1>3, <1>6
<1> HIDE DEF k, n
<1>10. acc + (k + n) = dropped' /\ dropped' \in Nat /\ reported <= dropped'
  BY <1>8
<1> QED
  BY <1>1, <1>2, <1>9, <1>10 DEF DInv

(* The second term of a scrape is part of what is not accumulated.         *)
LEMMA ScrapeCounts ==
  ASSUME DInv, Scrape
  PROVE  DInv'
<1>1. UNCHANGED <<call, drops, acc, dropped>> /\ Calls' = Calls
  BY DEF Scrape, StatsLoad, StatsSum, Calls
<1>2. CASE StatsLoad
  BY <1>1, <1>2 DEF StatsLoad, Addend, DInv
<1>3. CASE StatsSum
  <2> DEFINE k == DropsOf(Registered)
             n == Cardinality(Tally(Calls, drops))
  <2>1. Registered \subseteq Calls /\ Calls \subseteq Clients
    BY DEF Registered, Calls
  <2>2. k = Cardinality(Tally(Registered, drops)) /\ k \in Nat /\ n \in Nat /\ IsFiniteSet(Calls)
    BY <2>1, Summed
  <2>3. Tally(Registered, drops) \subseteq Tally(Calls, drops)
    BY <2>1 DEF Tally
  <2>4. IsFiniteSet(Tally(Calls, drops))
    BY <2>1, <2>2, TallyFinite DEF DInv
  <2>5. k <= n
    BY <2>2, <2>3, <2>4, FS_Subset
  <2>6. /\ acc + n = dropped /\ partial <= acc /\ partial \in Nat /\ acc \in Nat
        /\ reported' = partial + k /\ partial' = 0 /\ scrape' = "idle"
    BY <1>3 DEF StatsSum, Addend, DInv
  <2> HIDE DEF k, n
  <2>7. reported' \in Nat /\ reported' <= dropped
    BY <2>2, <2>5, <2>6
  <2> QED
    BY <1>1, <2>6, <2>7 DEF DInv
<1> QED
  BY <1>2, <1>3 DEF Scrape

(* A process that a signal kills has no call left: the handler goes in     *)
(* before the first one and out after the last.                            *)
LEMMA KilledCounts ==
  ASSUME DInv, PInv, Killed
  PROVE  DInv'
<1>1. /\ ctx \in {"none", "released"} /\ at # "killed" /\ call' = [c \in Clients |-> "off"]
      /\ UNCHANGED <<drops, acc, scrape, partial, reported, dropped>>
  BY DEF Killed
<1>2. "signals" \notin Deferred
  BY <1>1 DEF PInv, Owned
<1>3. "signals" \in Asked /\ Rank("signals") < Rank("reexport")
  BY DEF Asked, Deferrable, Rank
<1>4. "reexport" \notin Deferred
  BY <1>2, <1>3 DEF PInv, Stacked
<1>5. Calls = {} /\ Calls' = {}
  BY <1>1, <1>4 DEF PInv, Owned, Calls
<1> QED
  BY <1>1, <1>5, CountersKept DEF DInv

LEMMA DStart == Init => DInv
<1> SUFFICES ASSUME Init
             PROVE  DInv
  OBVIOUS
<1>1. Calls = {}
  BY DEF Init, SInit, Calls
<1>2. Tally(Calls, drops) = {}
  BY <1>1 DEF Tally
<1>3. Cardinality(Tally(Calls, drops)) = 0
  BY <1>2, FS_EmptySet
<1> QED
  BY <1>3 DEF Init, SInit, DInv

(* Every reachable state satisfies the invariant of the drop counters.     *)
THEOREM DInvariance == Spec => []DInv
<1>1. PInv /\ DInv /\ [Next]_vars => DInv'
  <2> SUFFICES ASSUME PInv, DInv, [Next]_vars
               PROVE  DInv'
    OBVIOUS
  <2>1. CASE UNCHANGED svars
    <3>1. Calls' = Calls /\ UNCHANGED <<drops, acc, dropped, scrape, partial, reported>>
      BY <2>1 DEF Calls, svars
    <3> QED
      BY <3>1 DEF DInv
  <2>2. CASE Startup \/ MetricsFails \/ Signal \/ Shutdown \/ UNCHANGED vars
    <3>1. UNCHANGED svars
      BY <2>2 DEF Startup, MetricsFails, Signal, Shutdown, vars, FlagsChecked, OpenOutput,
           OpenCursors, OpenWal, NotifyContext, StartDiscovery, NewAggregator, ServeReExport,
           ServeMetrics, StartRun, GoroutineReturns, RunReturns, StopServing, RunDeferred, Exit,
           Acquire, Skip, Launch, Fail
    <3> QED
      BY <2>1, <3>1, SMTT(30), Zenon
  <2> QED
    BY <2>2, ClientCounts, BroadcastCounts, ScrapeCounts, KilledCounts DEF Next, Write
<1> QED
  BY <1>1, DStart, PInvariance, PTL DEF Spec

(* The accumulator and the counters of the calls that have not folded yet  *)
(* add up to every drop there was.                                         *)
THEOREM Conserved == Spec => []DropsConserved
<1>1. DInv => DropsConserved
  <2> SUFFICES ASSUME DInv
               PROVE  acc + DropsOf(Calls) = dropped
    BY DEF DropsConserved, Calls
  <2>1. DropsOf(Calls) = Cardinality(Tally(Calls, drops))
    BY Summed DEF Calls
  <2> QED
    BY <2>1 DEF DInv
<1> QED
  BY <1>1, DInvariance, PTL

(* Stats never reports more drops than there were.                         *)
THEOREM NotOverReported == Spec => []NeverOverReported
<1>1. DInv => NeverOverReported
  BY DEF DInv, NeverOverReported
<1> QED
  BY <1>1, DInvariance, PTL
=============================================================================
