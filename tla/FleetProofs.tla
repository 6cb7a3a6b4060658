---------------------------- MODULE FleetProofs ----------------------------
(***************************************************************************)
(* Proofs about the watchers' loop and the agent fleet it feeds, for any   *)
(* resource, any number of versions, any slices and any static agents.     *)
(*                                                                         *)
(* ListWatch implements SnapshotView, alone and inside the fleet.  The     *)
(* fleet supervises its runs: what keeps the active map and the goroutines *)
(* together is that the endpoint sets on the channel are each the          *)
(* flattening of one version, in which a name stands for one endpoint.     *)
(***************************************************************************)
EXTENDS Fleet, FiniteSetTheorems, SequenceTheorems, TLAPS

(* The inductive invariant: the local state is the version rv stands for,  *)
(* which is no older than the published one.  Before the first LIST, rv is *)
(* 0 and the loop is not where it could publish.                           *)
LInv ==
  /\ LTypeOK
  /\ shown <= rv
  /\ rv > 0 => state = hist[rv]
  /\ pc \in {"listed", "watch", "stream", "changed"} => rv > 0

(* One step of the loop or of the API server keeps the invariant.          *)
LEMMA LStep == LInv /\ [LNext]_lvars => LInv'
<1> SUFFICES ASSUME LInv, [LNext]_lvars
             PROVE  LInv'
  OBVIOUS
<1> USE DEF LInv, LTypeOK
<1>1. Current \in Version
  BY DEF Current
<1>2. CASE List
  <2>1. hist' = hist /\ ctx' = ctx /\ shown' = shown /\ view' = view
        /\ state' = hist[Len(hist)] /\ rv' = Len(hist) /\ pc' = "listed"
    BY <1>2 DEF List, Goto, Current
  <2> QED
    BY <2>1, <1>1 DEF Current
<1>3. CASE Event
  <2>1. PICK o \in Objects :
          /\ hist[rv + 1] = [hist[rv] EXCEPT ![o] = hist[rv + 1][o]]
          /\ state' = [state EXCEPT ![o] = hist[rv + 1][o]]
    BY <1>3, Zenon DEF Event
  <2>2. rv > 0 /\ rv < Len(hist) /\ rv' = rv + 1 /\ pc' = "changed"
        /\ hist' = hist /\ ctx' = ctx /\ shown' = shown /\ view' = view
    BY <1>3 DEF Event, Goto
  <2>3. state' = hist[rv + 1]
    BY <2>1, <2>2, Zenon
  <2>4. hist[rv + 1] \in Version
    BY <2>2
  <2> QED
    BY <2>2, <2>3, <2>4
<1>4. CASE Publish
  BY <1>4 DEF Publish, Goto
<1>5. CASE ListFails \/ WatchOpens \/ WatchFails \/ StreamEnds \/ StreamFails
           \/ Retry \/ Returns
  BY <1>5 DEF ListFails, WatchOpens, WatchFails, StreamEnds, StreamFails,
              Retry, Returns, Goto
<1>6. CASE Change
  <2>1. PICK o \in Objects, v \in Values \cup {Absent} :
          hist' = Append(hist, [Current EXCEPT ![o] = v])
    BY <1>6, Zenon DEF Change
  <2> DEFINE new == [Current EXCEPT ![o] = v]
  <2>2. new \in Version
    BY <1>1 DEF Version
  <2>3. ctx' = ctx /\ pc' = pc /\ rv' = rv /\ state' = state
        /\ shown' = shown /\ view' = view
    BY <1>6 DEF Change
  <2> HIDE DEF new
  <2>4. hist' = Append(hist, new)
    BY <2>1 DEF new
  <2>5. hist' \in Seq(Version) /\ Len(hist') = Len(hist) + 1
        /\ \A i \in 1..Len(hist) : hist'[i] = hist[i]
    BY <2>2, <2>4
  <2> QED
    BY <2>3, <2>5
<1>7. CASE Cancel
  BY <1>7, Zenon DEF Cancel
<1>8. CASE UNCHANGED lvars
  BY <1>8 DEF lvars
<1> QED
  BY <1>2, <1>3, <1>4, <1>5, <1>6, <1>7, <1>8 DEF LNext, Quiet

(* The loop starts in a state that satisfies the invariant.                *)
LEMMA LStart == LInit => LInv
<1> SUFFICES ASSUME LInit
             PROVE  LInv
  OBVIOUS
<1>1. PICK v \in Version : hist = <<v>>
  BY DEF LInit
<1>2. hist \in Seq(Version) /\ Len(hist) = 1
  BY <1>1
<1>3. Empty \in Version
  BY DEF Empty, Version
<1> QED
  BY <1>2, <1>3 DEF LInit, LInv, LTypeOK

(* Every reachable state of the loop satisfies the invariant.              *)
THEOREM LInvariance == LSpec => []LInv
BY LStart, LStep, PTL DEF LSpec

(* Every variable of the list+watch loop keeps its type.                   *)
THEOREM LTypeCorrect == LSpec => []LTypeOK
<1>1. LInv => LTypeOK
  BY DEF LInv
<1> QED
  BY <1>1, LInvariance, PTL

(* A step of the loop is, for the consumer, the next version or nothing.   *)
LEMMA LViewStep ==
  ASSUME LInv, [LNext]_lvars
  PROVE  [Abstract!Change \/ Abstract!Advance]_<<hist, shown, view>>
<1>1. CASE Publish
  <2>1. rv > 0 /\ rv \in shown..Len(hist) /\ state = hist[rv]
    BY <1>1 DEF Publish, Goto, LInv, LTypeOK
  <2>2. shown' = rv /\ view' = state /\ hist' = hist
    BY <1>1 DEF Publish
  <2> QED
    BY <2>1, <2>2 DEF Abstract!Advance
<1>2. CASE Change
  BY <1>2, Zenon DEF Change, Current, Abstract!Change
<1>3. CASE Quiet
  BY <1>3 DEF Quiet, List, ListFails, WatchOpens, WatchFails, Event, StreamEnds,
              StreamFails, Retry, Returns
<1>4. CASE Cancel
  BY <1>4 DEF Cancel
<1>5. CASE UNCHANGED lvars
  BY <1>5 DEF lvars
<1> QED
  BY <1>1, <1>2, <1>3, <1>4, <1>5 DEF LNext

(* The watchers' loop implements the abstract view: what it publishes is   *)
(* always a whole version, never older than the one before, whatever LIST, *)
(* watch and stream do.                                                    *)
THEOREM Publishing == LSpec => PublishesSnapshots
<1>1. LInit => Abstract!Start
  BY DEF LInit, Version, Empty, Abstract!Start, Abstract!Version, Abstract!Empty
<1>2. LInv /\ [LNext]_lvars
      => [Abstract!Change \/ Abstract!Advance]_<<hist, shown, view>>
  BY LViewStep
<1> QED
  BY <1>1, <1>2, LInvariance, PTL DEF LSpec, PublishesSnapshots, Abstract!Views

-----------------------------------------------------------------------------
(* flatten.                                                                *)

ReadyOf(x) == {e \in x.endpoints : EndpointReady(e)}

Dialled(o, x, e) == [name |-> <<o, e.addr>>, addr |-> e.addr, port |-> PickPort(x)]

(* An endpoint of a version is one of a slice, and known by its name.      *)
LEMMA Flattened ==
  ASSUME NEW v \in Version
  PROVE  /\ \A d \in Flatten(v) : \E o \in Objects : \E e \in ReadyOf(v[o]) : d = Dialled(o, v[o], e)
         /\ \A d, e \in Flatten(v) : d.name = e.name => d = e
<1>1. \A d \in Flatten(v) : \E o \in Objects : \E e \in ReadyOf(v[o]) : d = Dialled(o, v[o], e)
  BY DEF Flatten, ReadyOf, Dialled
<1>2. ASSUME NEW d \in Flatten(v), NEW e \in Flatten(v), d.name = e.name
      PROVE  d = e
  <2>1. PICK o \in Objects : \E x \in ReadyOf(v[o]) : d = Dialled(o, v[o], x)
    BY <1>1
  <2>2. PICK x \in ReadyOf(v[o]) : d = Dialled(o, v[o], x)
    BY <2>1
  <2>3. PICK p \in Objects : \E y \in ReadyOf(v[p]) : e = Dialled(p, v[p], y)
    BY <1>1
  <2>4. PICK y \in ReadyOf(v[p]) : e = Dialled(p, v[p], y)
    BY <2>3
  <2>5. o = p /\ x.addr = y.addr
    BY <1>2, <2>2, <2>4 DEF Dialled
  <2> QED
    BY <2>2, <2>4, <2>5 DEF Dialled
<1> QED
  BY <1>1, <1>2

LEMMA FlattenFinite ==
  ASSUME NEW v \in Version
  PROVE  IsFiniteSet(Flatten(v))
<1> DEFINE P == {p \in Objects : v[p] # Absent /\ PickPort(v[p]) # 0}
           All(o) == {[name |-> <<o, ep.addr>>, addr |-> ep.addr, port |-> PickPort(v[o])] :
                        ep \in {e \in v[o].endpoints : EndpointReady(e)}}
           U == {All(o) : o \in P}
           f == [o \in P |-> All(o)]
<1>1. IsFiniteSet(P)
  BY FleetConstants, FS_Subset
<1>2. f \in Surjection(P, U)
  BY DEF Surjection
<1>3. IsFiniteSet(U)
  BY <1>1, <1>2, FS_Surjection
<1>4. ASSUME NEW o \in P
      PROVE  IsFiniteSet(All(o))
  <2> DEFINE E == {e \in v[o].endpoints : EndpointReady(e)}
             g == [ep \in E |-> [name |-> <<o, ep.addr>>, addr |-> ep.addr, port |-> PickPort(v[o])]]
  <2>1. v[o] \in Values
    BY DEF Version
  <2>2. IsFiniteSet(E)
    BY <2>1, FleetConstants, FS_Subset
  <2>3. g \in Surjection(E, All(o))
    BY Zenon DEF Surjection
  <2> QED
    BY <2>2, <2>3, FS_Surjection
<1>5. \A X \in U : IsFiniteSet(X)
  BY <1>4
<1>6. IsFiniteSet(UNION U)
  BY <1>3, <1>5, FS_UNION, Zenon
<1> QED
  BY <1>6 DEF Flatten

-----------------------------------------------------------------------------
(* The fleet.                                                              *)

Sets      == {Flatten(v) : v \in Version}
Endpoints == SeqElems(Static) \cup UNION Sets
RunSet    == [ep : Endpoints, cancelled : BOOLEAN, returned : BOOLEAN]

FTypeOK ==
  /\ chan \in Seq(Sets) /\ phase \in {"seed", "reconcile", "wait", "done"}
  /\ runs \in Seq(RunSet) /\ active \subseteq DOMAIN runs

FInv ==
  /\ LInv /\ FTypeOK
  /\ phase = "seed" => runs = <<>>
  /\ phase # "seed" => Len(runs) >= Len(Static)
  /\ RunsSupervised

(* The steps of the watcher keep its invariant inside the fleet; one that  *)
(* is cancelled at emit goes on without publishing.                        *)
LEMMA FLoopStep == LInv /\ [FNext]_fvars => LInv'
<1> SUFFICES ASSUME LInv, [FNext]_fvars
             PROVE  LInv'
  OBVIOUS
<1>1. CASE Watcher \/ Emit
  BY <1>1, LStep DEF Watcher, Emit, LNext
<1>2. CASE EmitCancelled
  BY <1>2 DEF EmitCancelled, Goto, LInv, LTypeOK
<1>3. CASE UNCHANGED lvars
  BY <1>3, LStep
<1> QED
  BY <1>1, <1>2, <1>3 DEF FNext, Seed, Reconcile, StopReconciling, LoopsReturn, RunReturns, fvars

(* startEndpoint for each of eps, after the runs R.                        *)
LEMMA StartedAll ==
  ASSUME NEW R \in Seq(RunSet), NEW A \in SUBSET DOMAIN R, NEW eps \in Seq(Endpoints),
         StartAll(R, A, eps)
  PROVE  /\ runs' \in Seq(RunSet) /\ Len(runs') = Len(R) + Len(eps)
         /\ \A i \in DOMAIN R : i \in DOMAIN runs' /\ runs'[i] = R[i]
         /\ \A i \in DOMAIN eps : Len(R) + i \in DOMAIN runs' /\ runs'[Len(R) + i] = Run(eps[i])
         /\ \A i \in DOMAIN runs' \ DOMAIN R : i - Len(R) \in DOMAIN eps
         /\ active' = {i \in A \cup (DOMAIN runs' \ DOMAIN R) :
                         \A j \in DOMAIN runs' \ DOMAIN R :
                           j > i => runs'[j].ep.name # runs'[i].ep.name}
<1> DEFINE new == [i \in DOMAIN eps |-> Run(eps[i])]
<1>1. new \in Seq(RunSet) /\ Len(new) = Len(eps) /\ DOMAIN new = DOMAIN eps
  <2>1. \A i \in DOMAIN eps : Run(eps[i]) \in RunSet
    BY DEF Run, RunSet
  <2>2. new \in [1..Len(eps) -> RunSet]
    BY <2>1
  <2> HIDE DEF new
  <2> QED
    BY <2>2
<1>2. runs' = R \o new
  BY DEF StartAll
<1>3. \A i \in DOMAIN eps : new[i] = Run(eps[i])
  OBVIOUS
<1> HIDE DEF new
<1>4. /\ runs' \in Seq(RunSet) /\ Len(runs') = Len(R) + Len(eps)
      /\ \A i \in DOMAIN R : i \in DOMAIN runs' /\ runs'[i] = R[i]
      /\ \A i \in DOMAIN eps : Len(R) + i \in DOMAIN runs' /\ runs'[Len(R) + i] = new[i]
      /\ \A i \in DOMAIN runs' \ DOMAIN R : i - Len(R) \in DOMAIN eps
  <2>1. runs' \in Seq(RunSet) /\ Len(runs') = Len(R) + Len(eps)
    <3>1. Len(R \o new) = Len(R) + Len(new) /\ R \o new \in Seq(RunSet)
      BY <1>1, ConcatProperties, Zenon
    <3> QED
      BY <1>1, <1>2, <3>1
  <2>2. \A i \in 1..Len(R) + Len(eps) :
          runs'[i] = IF i <= Len(R) THEN R[i] ELSE new[i - Len(R)]
    BY <1>1, <1>2
  <2>3. Len(R) \in Nat /\ Len(eps) \in Nat /\ DOMAIN R = 1..Len(R) /\ DOMAIN eps = 1..Len(eps)
        /\ DOMAIN runs' = 1..Len(R) + Len(eps)
    BY <2>1
  <2>4. \A i \in DOMAIN R : i \in DOMAIN runs' /\ runs'[i] = R[i]
    BY <2>2, <2>3
  <2>5. ASSUME NEW i \in DOMAIN eps
        PROVE  Len(R) + i \in DOMAIN runs' /\ runs'[Len(R) + i] = new[i]
    <3>1. Len(R) + i \in 1..Len(R) + Len(eps) /\ ~(Len(R) + i <= Len(R)) /\ (Len(R) + i) - Len(R) = i
      BY <2>3
    <3> QED
      BY <2>2, <2>3, <3>1
  <2>6. \A i \in DOMAIN runs' \ DOMAIN R : i - Len(R) \in DOMAIN eps
    BY <2>3
  <2> QED
    BY <2>1, <2>4, <2>5, <2>6
<1>5. DOMAIN runs' \ DOMAIN R = (Len(R) + 1)..Len(runs')
  BY <1>4
<1>6. active' = {i \in A \cup ((Len(R) + 1)..Len(runs')) :
                   ~\E j \in (Len(R) + 1)..Len(runs') :
                      j > i /\ runs'[j].ep.name = runs'[i].ep.name}
  BY DEF StartAll
<1> QED
  BY <1>3, <1>4, <1>5, <1>6, Zenon

LEMMA SeedStep ==
  ASSUME FInv, LInv', Seed
  PROVE  FInv'
<1>1. /\ phase = "seed" /\ phase' = "reconcile" /\ chan' = chan /\ runs = <<>> /\ active = {}
      /\ StartAll(<<>>, {}, Static)
  <2>1. /\ phase = "seed" /\ phase' = "reconcile" /\ chan' = chan
        /\ StartAll(runs, active, Static)
    BY DEF Seed
  <2>2. runs = <<>> /\ active = {}
    BY <2>1 DEF FInv, FTypeOK
  <2> QED
    BY <2>1, <2>2
<1>2. Static \in Seq(Endpoints) /\ <<>> \in Seq(RunSet) /\ DOMAIN <<>> = {} /\ Len(<<>>) = 0
  BY FleetConstants DEF Endpoints
<1>3. /\ runs' \in Seq(RunSet) /\ Len(runs') = Len(Static) /\ DOMAIN runs' = DOMAIN Static
      /\ \A i \in DOMAIN Static : runs'[i] = Run(Static[i])
      /\ active' = {i \in DOMAIN runs' : \A j \in DOMAIN runs' :
                      j > i => runs'[j].ep.name # runs'[i].ep.name}
  <2> DEFINE R == <<>>
             A == {}
  <2>1. R \in Seq(RunSet) /\ A \in SUBSET DOMAIN R /\ A = {} /\ DOMAIN R = {} /\ Len(R) = 0
    BY <1>2
  <2>2. StartAll(R, A, Static)
    BY <1>1
  <2> HIDE DEF R, A
  <2>3. /\ runs' \in Seq(RunSet) /\ Len(runs') = Len(R) + Len(Static)
        /\ \A i \in DOMAIN R : i \in DOMAIN runs' /\ runs'[i] = R[i]
        /\ \A i \in DOMAIN Static : Len(R) + i \in DOMAIN runs' /\ runs'[Len(R) + i] = Run(Static[i])
        /\ \A i \in DOMAIN runs' \ DOMAIN R : i - Len(R) \in DOMAIN Static
        /\ active' = {i \in A \cup (DOMAIN runs' \ DOMAIN R) :
                        \A j \in DOMAIN runs' \ DOMAIN R :
                          j > i => runs'[j].ep.name # runs'[i].ep.name}
    <3>1. Static \in Seq(Endpoints) /\ R \in Seq(RunSet) /\ A \in SUBSET DOMAIN R
      BY <1>2, <2>1
    <3> QED
      BY <2>2, <3>1, StartedAll, Zenon
  <2>4. \A i \in DOMAIN Static : i \in Nat /\ Len(R) + i = i
    BY <2>1, FleetConstants
  <2>5. Len(runs') = Len(Static) /\ DOMAIN runs' = DOMAIN Static
    BY <2>1, <2>3, FleetConstants
  <2> QED
    BY <2>1, <2>3, <2>4, <2>5
<1>4. \A i \in DOMAIN Static : runs'[i].ep = Static[i] /\ runs'[i].cancelled = FALSE
  BY <1>3 DEF Run
<1>5. \A i \in DOMAIN Static : i \in active' <=> ~Shadowed(i)
  BY <1>3, <1>4 DEF Shadowed
<1>6. ASSUME NEW i \in active', NEW j \in active', runs'[i].ep.name = runs'[j].ep.name
      PROVE  i = j
  <2>1. i \in Nat /\ j \in Nat
    BY <1>3
  <2> QED
    BY <1>3, <1>6, <2>1
<1>7. RunsSupervised'
  BY <1>3, <1>4, <1>5, <1>6 DEF RunsSupervised, Named
<1> QED
  BY <1>1, <1>3, <1>7 DEF FInv, FTypeOK

(* A list of a finite set that holds all its elements holds each once.     *)
LEMMA EachOnce ==
  ASSUME NEW S, IsFiniteSet(S), NEW f \in Orders(S)
  PROVE  /\ f \in Seq(S) /\ SeqElems(f) = S
         /\ \A i, j \in DOMAIN f : f[i] = f[j] => i = j
<1>1. f \in [1..Cardinality(S) -> S] /\ SeqElems(f) = S /\ Cardinality(S) \in Nat
  BY FS_CardinalityType DEF Orders
<1>2. f \in Surjection(1..Cardinality(S), S)
  BY <1>1 DEF Surjection, SeqElems
<1>3. IsFiniteSet(1..Cardinality(S)) /\ Cardinality(1..Cardinality(S)) = Cardinality(S)
  BY <1>1, FS_Interval
<1>4. f \in Injection(1..Cardinality(S), S)
  BY <1>2, <1>3, FS_SurjSameCardinalityImpliesInj
<1>5. \A i, j \in DOMAIN f : f[i] = f[j] => i = j
  BY <1>1, <1>4 DEF Injection, IsInjective
<1>6. f \in Seq(S)
  BY <1>1
<1> QED
  BY <1>1, <1>5, <1>6

LEMMA ReconcileStep ==
  ASSUME FInv, LInv', Reconcile
  PROVE  FInv'
<1>1. PICK eps \in Sets : /\ eps = Head(chan) /\ ReconcileFleet(eps)
                          /\ phase = "reconcile" /\ phase' = phase /\ chan' = Tail(chan)
                          /\ chan' \in Seq(Sets)
  BY DEF Reconcile, FInv, FTypeOK
<1>2. PICK v \in Version : eps = Flatten(v)
  BY DEF Sets
<1>3. IsFiniteSet(eps) /\ \A d, e \in eps : d.name = e.name => d = e
  BY <1>2, Flattened, FlattenFinite
<1> DEFINE D == Departed(eps)
           N == Arrived(eps)
           R == Cancelled(D)
           A == active \ D
<1>4. N \subseteq eps /\ IsFiniteSet(N) /\ \A d \in N : \A i \in active : runs[i].ep.name # d.name
  <2>1. N \subseteq eps /\ \A d \in N : \A i \in active : runs[i].ep.name # d.name
    BY DEF Arrived, Named
  <2> QED
    BY <1>3, <2>1, FS_Subset
<1>5. PICK order \in Orders(N) : StartAll(R, A, order)
  BY <1>1 DEF ReconcileFleet
<1>6. /\ order \in Seq(N) /\ SeqElems(order) = N
      /\ \A i, j \in DOMAIN order : order[i] = order[j] => i = j
  BY <1>4, EachOnce
<1>7. runs \in Seq(RunSet) /\ active \subseteq DOMAIN runs /\ Len(runs) >= Len(Static)
  BY <1>1 DEF FInv, FTypeOK
<1>8. /\ R \in Seq(RunSet) /\ Len(R) = Len(runs) /\ DOMAIN R = DOMAIN runs
      /\ \A i \in DOMAIN runs : /\ R[i].ep = runs[i].ep
                                /\ R[i].cancelled = (runs[i].cancelled \/ i \in D)
  <2>1. \A i \in DOMAIN runs : runs[i] \in RunSet
    BY <1>7
  <2>2. \A i \in DOMAIN runs :
          /\ [runs[i] EXCEPT !.cancelled = TRUE] \in RunSet
          /\ [runs[i] EXCEPT !.cancelled = TRUE].ep = runs[i].ep
          /\ [runs[i] EXCEPT !.cancelled = TRUE].cancelled = TRUE
          /\ runs[i].cancelled \in BOOLEAN
    BY <2>1, Zenon DEF RunSet
  <2>3. DOMAIN R = DOMAIN runs /\ \A i \in DOMAIN runs :
          R[i] = IF i \in D THEN [runs[i] EXCEPT !.cancelled = TRUE] ELSE runs[i]
    BY DEF Cancelled
  <2> HIDE DEF R, D
  <2>4. \A i \in DOMAIN runs : R[i] \in RunSet
    BY <2>1, <2>2, <2>3
  <2>5. R \in [1..Len(runs) -> RunSet]
    BY <1>7, <2>3, <2>4 DEF R, Cancelled
  <2>6. R \in Seq(RunSet) /\ Len(R) = Len(runs)
    BY <1>7, <2>5
  <2> QED
    BY <2>2, <2>3, <2>6, Zenon
<1>9. order \in Seq(Endpoints) /\ A \in SUBSET DOMAIN R
  BY <1>4, <1>6, <1>7, <1>8 DEF Endpoints
<1> HIDE DEF R, A, D, N
<1> DEFINE New == DOMAIN runs' \ DOMAIN R
<1>10. /\ runs' \in Seq(RunSet) /\ Len(runs') = Len(R) + Len(order)
       /\ \A i \in DOMAIN R : i \in DOMAIN runs' /\ runs'[i] = R[i]
       /\ \A i \in DOMAIN order : Len(R) + i \in DOMAIN runs' /\ runs'[Len(R) + i] = Run(order[i])
       /\ \A i \in New : i - Len(R) \in DOMAIN order
       /\ active' = {i \in A \cup New : \A j \in New : j > i => runs'[j].ep.name # runs'[i].ep.name}
  BY <1>5, <1>8, <1>9, StartedAll, Zenon
<1>11. \A i \in New : /\ i \in Nat /\ i > Len(Static) /\ i - Len(R) \in DOMAIN order
                      /\ runs'[i].ep = order[i - Len(R)] /\ runs'[i].cancelled = FALSE
  <2> SUFFICES ASSUME NEW i \in New
               PROVE  /\ i \in Nat /\ i > Len(Static) /\ i - Len(R) \in DOMAIN order
                      /\ runs'[i].ep = order[i - Len(R)] /\ runs'[i].cancelled = FALSE
    BY Zenon
  <2>1. i \in Nat /\ i > Len(R) /\ i > Len(Static)
    BY <1>7, <1>8, <1>10, FleetConstants, SMTT(30), Zenon
  <2>2. i - Len(R) \in DOMAIN order /\ Len(R) + (i - Len(R)) = i
    BY <1>8, <1>10, <2>1
  <2>3. runs'[i] = Run(order[i - Len(R)])
    BY <1>10, <2>2
  <2> QED
    BY <2>1, <2>2, <2>3 DEF Run
<1>12. \A i \in New : runs'[i].ep \in N
  BY <1>6, <1>11
<1>13. \A i \in A, j \in New : runs'[j].ep.name # runs'[i].ep.name
  <2> SUFFICES ASSUME NEW i \in A, NEW j \in New
               PROVE  runs'[j].ep.name # runs'[i].ep.name
    OBVIOUS
  <2>1. i \in active /\ i \in DOMAIN runs
    BY <1>7 DEF A
  <2>2. runs'[i].ep = runs[i].ep
    BY <1>8, <1>10, <2>1
  <2>3. runs'[j].ep \in N
    BY <1>12
  <2> QED
    BY <1>4, <2>1, <2>2, <2>3
<1>14. \A i, j \in New : runs'[j].ep.name = runs'[i].ep.name => i = j
  <2> SUFFICES ASSUME NEW i \in New, NEW j \in New, runs'[j].ep.name = runs'[i].ep.name
               PROVE  i = j
    OBVIOUS
  <2>1. runs'[j].ep = runs'[i].ep
    BY <1>3, <1>4, <1>12
  <2>2. i - Len(R) = j - Len(R)
    BY <1>6, <1>11, <2>1
  <2> QED
    BY <1>8, <1>11, <2>2
<1>15. active' = A \cup New
  <2>1. \A i, j \in New : ~(j > i) \/ runs'[j].ep.name # runs'[i].ep.name
    BY <1>11, <1>14
  <2> QED
    BY <1>10, <1>13, <2>1
<1>16. RunsSupervised'
  <2>1. ASSUME NEW i \in DOMAIN runs
        PROVE  i \in active' <=> ~runs'[i].cancelled /\ ~Shadowed(i)
    <3>1. i \in active' <=> i \in active /\ i \notin D
      BY <1>8, <1>15 DEF A
    <3>2. i \in active <=> ~runs[i].cancelled /\ ~Shadowed(i)
      BY DEF FInv, RunsSupervised
    <3>3. runs'[i].cancelled = (runs[i].cancelled \/ i \in D)
      BY <1>8, <1>10
    <3> QED
      BY <3>1, <3>2, <3>3, Zenon
  <2>2. ASSUME NEW i \in New
        PROVE  i \in active' /\ ~runs'[i].cancelled /\ ~Shadowed(i)
    BY <1>11, <1>15, FleetConstants DEF Shadowed
  <2>3. \A i, j \in A : runs'[i].ep.name = runs'[j].ep.name => i = j
    <3> SUFFICES ASSUME NEW i \in A, NEW j \in A, runs'[i].ep.name = runs'[j].ep.name
                 PROVE  i = j
      OBVIOUS
    <3>1. i \in active /\ j \in active /\ runs[i].ep.name = runs[j].ep.name
      BY <1>7, <1>8, <1>10 DEF A
    <3> QED
      BY <1>7, <3>1 DEF FInv, RunsSupervised, Named
  <2>4. \A i, j \in active' : runs'[i].ep.name = runs'[j].ep.name => i = j
    BY <1>13, <1>14, <1>15, <2>3
  <2>5. \A i \in DOMAIN runs' : i \in DOMAIN runs \/ i \in New
    BY <1>8
  <2> QED
    BY <2>1, <2>2, <2>4, <2>5 DEF RunsSupervised, Named
<1>17. active' \subseteq DOMAIN runs' /\ Len(runs') >= Len(Static)
  BY <1>6, <1>7, <1>8, <1>10, <1>15, FleetConstants DEF A
<1> QED
  BY <1>1, <1>10, <1>16, <1>17 DEF FInv, FTypeOK

LEMMA LoopsReturnStep ==
  ASSUME FInv, LInv', LoopsReturn
  PROVE  FInv'
<1>1. PICK i \in DOMAIN runs : /\ runs' = [runs EXCEPT ![i].returned = TRUE]
                               /\ UNCHANGED <<chan, phase, active>>
  BY Zenon DEF LoopsReturn
<1>2. runs \in Seq(RunSet)
  BY DEF FInv, FTypeOK
<1>3. /\ runs' \in Seq(RunSet) /\ Len(runs') = Len(runs) /\ DOMAIN runs' = DOMAIN runs
      /\ \A j \in DOMAIN runs : runs'[j].ep = runs[j].ep /\ runs'[j].cancelled = runs[j].cancelled
  <2>1. \A j \in DOMAIN runs : runs[j] \in RunSet
    BY <1>2
  <2>2. [runs[i] EXCEPT !.returned = TRUE] \in RunSet
    BY <2>1, Zenon DEF RunSet
  <2>3. runs' \in [1..Len(runs) -> RunSet]
    BY <1>1, <1>2, <2>1, <2>2
  <2>4. runs' \in Seq(RunSet) /\ Len(runs') = Len(runs) /\ DOMAIN runs' = DOMAIN runs
    BY <1>2, <2>3
  <2>5. \A j \in DOMAIN runs :
          runs'[j] = IF j = i THEN [runs[i] EXCEPT !.returned = TRUE] ELSE runs[j]
    BY <1>1
  <2>6. /\ [runs[i] EXCEPT !.returned = TRUE].ep = runs[i].ep
        /\ [runs[i] EXCEPT !.returned = TRUE].cancelled = runs[i].cancelled
    BY <2>1 DEF RunSet
  <2> QED
    BY <2>4, <2>5, <2>6, Zenon
<1>4. RunsSupervised'
  BY <1>1, <1>3 DEF FInv, FTypeOK, RunsSupervised, Named
<1> QED
  BY <1>1, <1>3, <1>4 DEF FInv, FTypeOK

(* The watcher puts the endpoints of a version on the channel.             *)
LEMMA EmitStep ==
  ASSUME FInv, LInv', Emit
  PROVE  FInv'
<1>1. chan' = Append(chan, Flatten(state)) /\ UNCHANGED <<phase, active, runs>>
  BY DEF Emit
<1>2. state \in Version
  BY DEF FInv, LInv, LTypeOK
<1>3. chan' \in Seq(Sets)
  BY <1>1, <1>2 DEF FInv, FTypeOK, Sets
<1> QED
  BY <1>1, <1>3 DEF FInv, FTypeOK, RunsSupervised, Named

LEMMA FStep == FInv /\ [FNext]_fvars => FInv'
<1> SUFFICES ASSUME FInv, [FNext]_fvars
             PROVE  FInv'
  OBVIOUS
<1>1. LInv'
  BY FLoopStep DEF FInv
<1>2. CASE Watcher \/ EmitCancelled \/ StopReconciling \/ RunReturns \/ UNCHANGED fvars
  <2>1. /\ UNCHANGED <<chan, active, runs>>
        /\ phase' = phase \/ (phase # "seed" /\ phase' \in {"wait", "done"})
    BY <1>2 DEF Watcher, EmitCancelled, StopReconciling, RunReturns, fvars, fleet
  <2> QED
    BY <1>1, <2>1 DEF FInv, FTypeOK, RunsSupervised, Named
<1> QED
  BY <1>1, <1>2, EmitStep, SeedStep, ReconcileStep, LoopsReturnStep DEF FNext

LEMMA FStart == FInit => FInv
BY LStart DEF FInit, FInv, FTypeOK, RunsSupervised

(* Every reachable state of the fleet satisfies the inductive invariant.   *)
THEOREM FInvariance == FSpec => []FInv
BY FStart, FStep, PTL DEF FSpec

(* The active map and the goroutines agree, however fast endpoints leave   *)
(* and come back: a run that was not cancelled is the one the map holds    *)
(* under its name, except for a static agent that was given twice.         *)
THEOREM Supervised == FSpec => []RunsSupervised
<1>1. FInv => RunsSupervised
  BY DEF FInv
<1> QED
  BY <1>1, FInvariance, PTL

(* Inside the fleet, where emit may block or be cancelled, the watcher     *)
(* still publishes whole versions in order.                                *)
THEOREM FleetPublishes == FSpec => PublishesSnapshots
<1>1. FInit => Abstract!Start
  BY DEF FInit, LInit, Version, Empty, Abstract!Start, Abstract!Version, Abstract!Empty
<1>2. FInv /\ [FNext]_fvars
      => [Abstract!Change \/ Abstract!Advance]_<<hist, shown, view>>
  <2> SUFFICES ASSUME FInv, [FNext]_fvars
               PROVE  [Abstract!Change \/ Abstract!Advance]_<<hist, shown, view>>
    OBVIOUS
  <2>1. CASE Watcher \/ Emit
    BY <2>1, LViewStep DEF Watcher, Emit, LNext, FInv
  <2>2. CASE UNCHANGED <<hist, shown, view>>
    BY <2>2
  <2> QED
    BY <2>1, <2>2 DEF FNext, EmitCancelled, Seed, Reconcile, StopReconciling, LoopsReturn,
                      RunReturns, fvars, lvars
<1> QED
  BY <1>1, <1>2, FInvariance, PTL DEF FSpec, PublishesSnapshots, Abstract!Views
=============================================================================
