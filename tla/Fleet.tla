------------------------------- MODULE Fleet -------------------------------
(***************************************************************************)
(* The agent fleet: the EndpointSlices of the agent Service, followed by   *)
(* EndpointSliceWatcher (ListWatch with a channel send for Publish), the   *)
(* bridge in startK8sDiscovery, and the aggregator's reconcileLoop, which  *)
(* starts and cancels the stream loops of each endpoint.                   *)
(*                                                                         *)
(* Composition: ListWatch is the watcher; Objects are slice names, a       *)
(* value is the slice's ports and endpoints.  The two buffered channels    *)
(* and the bridge between them are one FIFO.  A run stands for the stream  *)
(* loops of one startEndpoint call: they share a context and return once   *)
(* it is cancelled.                                                        *)
(***************************************************************************)
EXTENDS ListWatch, FiniteSets

CONSTANTS
  TargetPort,  \* EndpointSliceWatcher.TargetPort, 0 for the first port
  Static,      \* Config.Agents: a sequence of endpoints, names may repeat
  ChanCap      \* emissions the two channels and the bridge hold

SeqElems(s) == {s[i] : i \in DOMAIN s}

ASSUME FleetConstants ==
  /\ ChanCap \in Nat \ {0} /\ TargetPort \in Nat
  /\ IsFiniteSet(Objects) /\ \A v \in Values : IsFiniteSet(v.endpoints)
  /\ Static \in Seq(SeqElems(Static))

VARIABLES
  chan,    \* Config.Discovery: endpoint sets on their way
  phase,   \* Run: "seed", "reconcile", "wait" (agentWg.Wait), "done"
  active,  \* the active map: a set of run numbers
  runs     \* every startEndpoint call so far

fvars == <<lvars, chan, phase, active, runs>>
fleet == <<chan, phase, active, runs>>

-----------------------------------------------------------------------------
(* flatten.                                                                *)

(* The port dialled on a slice, 0 for none.                                *)
PickPort(s) ==
  IF TargetPort = 0 /\ s.ports # <<>> THEN s.ports[1]
  ELSE IF TargetPort \in SeqElems(s.ports) THEN TargetPort
  ELSE 0

(* An unset condition is the string "unset".                               *)
EndpointReady(ep) ==
  \/ ep.ready = "true"
  \/ ep.ready = "unset" /\ ep.terminating # "true"

Flatten(st) ==
  UNION {{[name |-> <<o, ep.addr>>, addr |-> ep.addr, port |-> PickPort(st[o])] :
             ep \in {e \in st[o].endpoints : EndpointReady(e)}} :
         o \in {p \in Objects : st[p] # Absent /\ PickPort(st[p]) # 0}}

(* emit blocks while the channels are full.                                *)
Emit ==
  /\ Publish
  /\ Len(chan) < ChanCap
  /\ chan' = Append(chan, Flatten(state))
  /\ UNCHANGED <<phase, active, runs>>

(* emit with ctx cancelled sends nothing.                                  *)
EmitCancelled ==
  /\ ~ctx
  /\ Goto("listed", "watch") \/ Goto("changed", "stream")
  /\ UNCHANGED <<hist, ctx, rv, state, shown, view, fleet>>

-----------------------------------------------------------------------------
(* Run, reconcileLoop and reconcileFleet.                                  *)

Run(ep) == [ep |-> ep, cancelled |-> FALSE, returned |-> FALSE]

(* startEndpoint for each of a sequence of endpoints: a run, and its entry *)
(* in the active map, where a name has one entry.                          *)
StartAll(R, A, eps) ==
  LET all == R \o [i \in DOMAIN eps |-> Run(eps[i])]
      new == (Len(R) + 1)..Len(all)
      Again(i) == \E j \in new : j > i /\ all[j].ep.name = all[i].ep.name
  IN  /\ runs' = all
      /\ active' = {i \in A \cup new : ~Again(i)}

Seed ==
  /\ phase = "seed" /\ phase' = "reconcile"
  /\ StartAll(runs, active, Static)
  /\ UNCHANGED <<lvars, chan>>

Named(A, name) == {i \in A : runs[i].ep.name = name}

(* Fault: departed endpoints are not cancelled.                            *)
BugDeparted(eps) == {}

Departed(eps) ==
  {i \in active : \A ep \in eps : ep.name # runs[i].ep.name}

(* Fault: an endpoint that is already active is started again.             *)
BugArrived(eps) == eps

Arrived(eps) == {ep \in eps : Named(active, ep.name) = {}}

Cancelled(A) ==
  [i \in DOMAIN runs |-> IF i \in A THEN [runs[i] EXCEPT !.cancelled = TRUE] ELSE runs[i]]

(* The new endpoints are started in the order of a Go map: any.            *)
Orders(S) == {f \in [1..Cardinality(S) -> S] : SeqElems(f) = S}

ReconcileFleet(eps) ==
  \E order \in Orders(Arrived(eps)) :
    StartAll(Cancelled(Departed(eps)), active \ Departed(eps), order)

Reconcile ==
  /\ phase = "reconcile" /\ chan # <<>>
  /\ ReconcileFleet(Head(chan))
  /\ chan' = Tail(chan)
  /\ UNCHANGED <<lvars, phase>>

(* ctx is done: the loop stops reading discovery, Run waits for the loops. *)
StopReconciling ==
  /\ phase = "reconcile" /\ ~ctx
  /\ phase' = "wait"
  /\ UNCHANGED <<lvars, chan, active, runs>>

(* Fault: the runs' contexts are not derived from Run's.                   *)
BugLoopsReturn ==
  /\ \E i \in DOMAIN runs :
       /\ ~runs[i].returned /\ runs[i].cancelled
       /\ runs' = [runs EXCEPT ![i].returned = TRUE]
  /\ UNCHANGED <<lvars, chan, phase, active>>

(* The stream loops of a run return once its context is cancelled.         *)
LoopsReturn ==
  /\ \E i \in DOMAIN runs :
       /\ ~runs[i].returned /\ (runs[i].cancelled \/ ~ctx)
       /\ runs' = [runs EXCEPT ![i].returned = TRUE]
  /\ UNCHANGED <<lvars, chan, phase, active>>

RunReturns ==
  /\ phase = "wait"
  /\ \A i \in DOMAIN runs : runs[i].returned
  /\ phase' = "done"
  /\ UNCHANGED <<lvars, chan, active, runs>>

-----------------------------------------------------------------------------
FInit == LInit /\ chan = <<>> /\ phase = "seed" /\ active = {} /\ runs = <<>>

Watcher == (Quiet \/ Change \/ Cancel) /\ UNCHANGED fleet

FNext ==
  \/ Watcher
  \/ Emit
  \/ EmitCancelled
  \/ Seed
  \/ Reconcile
  \/ StopReconciling
  \/ LoopsReturn
  \/ RunReturns

FSpec == FInit /\ [][FNext]_fvars

(* The goroutines run; a LIST that is repeated succeeds in the end; a      *)
(* stream with something to deliver delivers it, or ends.  Nothing forces  *)
(* errors, a signal, or the end of a quiet stream.                         *)
FFairness ==
  /\ SF_fvars(List /\ UNCHANGED fleet)
  /\ WF_fvars((List \/ ListFails \/ Returns) /\ UNCHANGED fleet)
  /\ WF_fvars((WatchOpens \/ WatchFails \/ Retry) /\ UNCHANGED fleet)
  /\ WF_fvars(rv < Len(hist) /\ (Event \/ StreamEnds \/ StreamFails) /\ UNCHANGED fleet)
  /\ WF_fvars(Emit \/ EmitCancelled)
  /\ WF_fvars(Seed) /\ WF_fvars(Reconcile) /\ WF_fvars(StopReconciling)
  /\ WF_fvars(LoopsReturn) /\ WF_fvars(RunReturns)

FFairSpec == FSpec /\ FFairness

-----------------------------------------------------------------------------
(* Properties.                                                             *)

(* A static agent whose name is given again further on.                    *)
Shadowed(i) ==
  i \in DOMAIN Static /\ \E j \in DOMAIN Static : j > i /\ Static[j].name = Static[i].name

(* The active map and the goroutines agree: a run that was not cancelled   *)
(* is the one the map holds under its name, so that no endpoint is         *)
(* subscribed to twice and none that left keeps its streams, however fast  *)
(* it leaves and comes back.  Only a static agent that was given twice     *)
(* escapes: its first run has lost its entry and ends with the process.    *)
RunsSupervised ==
  \A i \in DOMAIN runs :
    /\ i \in active <=> ~runs[i].cancelled /\ ~Shadowed(i)
    /\ i \in active => Named(active, runs[i].ep.name) = {i}

Wanted(st) == {e.name : e \in Flatten(st)}

(* Once the slices stop changing, the running endpoints are the ready ones *)
(* of the Service, whatever the API connection did meanwhile and whichever *)
(* static agents there were: by name, and by address when the port to dial *)
(* is given.  With the first port of a slice, a name outlives a port.      *)
FleetFollows ==
  <>[](\/ ~ctx
       \/ /\ {runs[i].ep.name : i \in active} = Wanted(Current)
          /\ TargetPort # 0 => {runs[i].ep : i \in active} = Flatten(Current))

(* Run returns once ctx is cancelled, whatever the watcher was doing.      *)
RunStops == ~ctx ~> phase = "done"
=============================================================================
