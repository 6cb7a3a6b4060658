------------------------------ MODULE Indexes ------------------------------
(***************************************************************************)
(* The pod and Service indexes (PodEndpointIndex, ServiceIndex) and the    *)
(* three watches of ServiceWatcher that keep them from the cluster's       *)
(* state.                                                                  *)
(*                                                                         *)
(* Each watch folds one object at a time, or all of them after a LIST,     *)
(* into its own local state and rebuilds its part of an index from the     *)
(* whole of it, so that objects which lag behind others are seen together. *)
(* Two of the rebuilds range over a Go map: where two objects disagree,    *)
(* any of them may win.                                                    *)
(*                                                                         *)
(* Data abstraction.  A pod is a record of its namespace and name.  A map  *)
(* is a function or a set of entries.  Objects the API server does not     *)
(* produce (no name, no JSON) are left out, as are slices without the      *)
(* Service label and endpoints that are not pods.                          *)
(***************************************************************************)
EXTENDS Integers, Sequences, FiniteSets, Functions

CONSTANTS
  Pods,        \* [ns, name] of every pod that may run
  Host,        \* what runs in no pod, or in the host's network
  NoPod,       \* no pod
  IPs,         \* pod IPs, naturals above 0
  None,        \* the ClusterIP of a headless Service
  Services,    \* name -> [clusterIPs, ports, selects]
  TargetPort,  \* pod -> port name -> the number the pod gives it
  Conditions,  \* the pods' conditions: pod -> [ready, terminating] functions
  HasIndex,    \* the cluster watch is configured (resolver, podLoc)
  PodsServed,  \* the API server answers the pod watch
  Running,     \* IP -> pod, as the cluster may be when the aggregator starts
  MaxStarts    \* bound: pod starts

Names == DOMAIN Services
Vips  == (UNION {Services[s].clusterIPs : s \in Names}) \ {None}

ASSUME IndexConstants ==
  /\ NoPod \notin Pods /\ HasIndex \in BOOLEAN /\ MaxStarts \in Nat /\ PodsServed \in BOOLEAN
  /\ IPs \subseteq Nat \ {0} /\ Vips \cap IPs = {}
  /\ Running \subseteq [IPs -> Pods \cup {NoPod}]
  /\ \A s \in Names : Services[s].selects \subseteq Pods \ {Host}
  /\ \A s \in Names : \A p \in Services[s].selects :
       /\ p \in DOMAIN TargetPort
       /\ \A x \in Range(Services[s].ports) : x.name \in DOMAIN TargetPort[p]
  /\ \A s, t \in Names : s # t =>
       (Services[s].clusterIPs \cap Services[t].clusterIPs) \subseteq {None}

VARIABLES
  owner,     \* cluster: the pod an IP belongs to
  starts,    \* cluster: pod starts so far
  podState,  \* the pod watch's state: [ip, pod] of running pods
  epState,   \* the EndpointSlice watch's state: a set of slices
  byIP,      \* PodEndpointIndex.byIP
  podIP,     \* PodEndpointIndex.podIP
  ports,     \* PodEndpointIndex.ports
  services,  \* ServiceIndex.services: [vip, svc] entries
  slices,    \* ServiceIndex.slices: name -> group
  applying   \* applySlices between its two index updates: {} or {groups}

podIndex == <<podState, byIP, podIP, ports>>
svcIndex == <<epState, services, slices, applying>>
ivars == <<owner, starts, podIndex, svcIndex>>

-----------------------------------------------------------------------------
(* Lookups.                                                                *)

PodForIP(ip) ==
  IF ip \notin IPs THEN NoPod ELSE IF byIP[ip] # NoPod THEN byIP[ip] ELSE podIP[ip]

(* Fault: an IP with several target ports folds to any of them.            *)
BugResolvePodAddr(a) ==
  LET known == IF a.ip \in IPs THEN ports[a.ip] ELSE {}
  IN  IF a.port \in known THEN {a} ELSE {[ip |-> a.ip, port |-> p] : p \in known}

(* The address itself when it is an endpoint; an endpoint IP with a single *)
(* target port folds to that port.                                         *)
ResolvePodAddr(a) ==
  LET known == IF a.ip \in IPs THEN ports[a.ip] ELSE {}
  IN  IF a.port \in known THEN {a}
      ELSE {[ip |-> a.ip, port |-> p] : p \in {q \in known : known = {q}}}

(* The name of the first port of the Service with that number.             *)
PortName(s, port) ==
  LET at == {i \in DOMAIN Services[s].ports : Services[s].ports[i].port = port}
  IN  {Services[s].ports[i].name : i \in {j \in at : \A k \in at : j <= k}}

(* Fault: the port's name is not looked at.                                *)
BugBackends(s, port) ==
  IF s \notin DOMAIN slices \/ PortName(s, port) = {} THEN {}
  ELSE UNION {{[ip |-> ip, port |-> slices[s].ports[n]] : ip \in slices[s].ips} :
              n \in DOMAIN slices[s].ports}

Backends(s, port) ==
  IF s \notin DOMAIN slices THEN {}
  ELSE UNION {{[ip |-> ip, port |-> slices[s].ports[n]] : ip \in slices[s].ips} :
              n \in PortName(s, port) \cap DOMAIN slices[s].ports}

ResolveVIP(a) ==
  UNION {Backends(e.svc, a.port) : e \in {x \in services : x.vip = a.ip}}

-----------------------------------------------------------------------------
(* The cluster (external): pods, and the slices its controller writes, one *)
(* for each Service and set of target ports.                               *)

IPsOf(p) == {ip \in IPs : owner[ip] = p}

SliceKey ==
  [s \in Names |-> [p \in Services[s].selects |->
     [svc |-> s,
      ports |-> {[name |-> x.name, port |-> TargetPort[p][x.name]] :
                   x \in Range(Services[s].ports)}]]]

SliceKeys == UNION {{SliceKey[s][p] : p \in Services[s].selects} : s \in Names}

Covered(k) ==
  {ip \in IPs : owner[ip] \in Services[k.svc].selects /\ SliceKey[k.svc][owner[ip]] = k}

Slice(k, cond) ==
  [key |-> k, endpoints |-> {[ip |-> ip, pod |-> owner[ip], cond |-> cond[owner[ip]]] : ip \in Covered(k)}]

Acquire(p) ==
  /\ starts < MaxStarts /\ IPsOf(p) = {}
  /\ \E ip \in IPs : owner[ip] = NoPod /\ owner' = [owner EXCEPT ![ip] = p]
  /\ starts' = starts + 1
  /\ UNCHANGED <<podIndex, svcIndex>>

Release(p, ip) ==
  /\ owner' = [owner EXCEPT ![ip] = NoPod]
  /\ UNCHANGED <<starts, podIndex, svcIndex>>

-----------------------------------------------------------------------------
(* The watches.                                                            *)

(* What a LIST or an event brings: everything, or one object.              *)
Delivered(keys) == {keys} \cup {{k} : k \in keys}

(* A headless Service has no VIP to resolve.                               *)
ClusterIPsOf(s) == Services[s].clusterIPs \ {None}

(* Services without a port are skipped.                                    *)
ApplyServices ==
  /\ HasIndex
  /\ services' = UNION {{[vip |-> v, svc |-> s] : v \in ClusterIPsOf(s)} :
                        s \in {n \in Names : Services[n].ports # <<>>}}
  /\ UNCHANGED <<owner, starts, podIndex, epState, slices, applying>>

(* A pod for each IP, out of those that S lists with it.                   *)
Placements(S) ==
  LET at == [ip \in IPs |-> {e.pod : e \in {x \in S : x.ip = ip}}]
  IN  {f \in [IPs -> {e.pod : e \in S} \cup {NoPod}] :
         \A ip \in IPs : IF at[ip] = {} THEN f[ip] = NoPod ELSE f[ip] \in at[ip]}

(* applyPods and ReplacePodIdentities; pods of the host network are        *)
(* skipped.                                                                *)
ApplyPods ==
  /\ HasIndex /\ PodsServed
  /\ \E P \in Delivered(Pods \ {Host}) :
       podState' = {e \in podState : e.pod \notin P} \cup
                   {[ip |-> ip, pod |-> owner[ip]] : ip \in {i \in IPs : owner[i] \in P}}
  /\ podIP' \in Placements(podState')
  /\ UNCHANGED <<owner, starts, byIP, ports, svcIndex>>

(* sliceEndpointReady; an unset condition is the string "unset".           *)
SliceEndpointReady(c) ==
  \/ c.ready = "true"
  \/ c.ready = "unset" /\ c.terminating # "true"

ReadyEndpoints(o) == {e \in o.endpoints : SliceEndpointReady(e.cond)}

Numbers(o) == {x.port : x \in o.key.ports}

(* The slices of one Service put together.  Where they give a port name    *)
(* different numbers, the one seen last stays.                             *)
Groups(S) ==
  LET Of(s)    == {o \in S : o.key.svc = s}
      Pairs(s) == UNION {o.key.ports : o \in Of(s)}
      Maps(s)  == {f \in [{x.name : x \in Pairs(s)} -> {x.port : x \in Pairs(s)}] :
                     \A n \in DOMAIN f : [name |-> n, port |-> f[n]] \in Pairs(s)}
      Group(s) == [ports : Maps(s),
                   ips : {{e.ip : e \in UNION {ReadyEndpoints(o) : o \in Of(s)}}}]
      Present  == {o.key.svc : o \in S}
  IN  {G \in [Present -> UNION {Group(s) : s \in Present}] :
         \A s \in Present : G[s] \in Group(s)}

(* Replace(podEntriesFromSlices): for the pod of an IP the slice seen      *)
(* first decides, its ports are those of all of them.                      *)
Replace(S) ==
  LET ready == UNION {ReadyEndpoints(o) : o \in S}
  IN  /\ byIP' \in Placements(ready)
      /\ ports' = [ip \in IPs |->
           UNION {Numbers(o) : o \in {x \in S : \E e \in ReadyEndpoints(x) : e.ip = ip}}]

(* applySlices computes the groups, updates the pod index first...         *)
ApplySlices ==
  /\ HasIndex /\ applying = {}
  /\ \E K \in Delivered(SliceKeys), cond \in Conditions :
       epState' = {o \in epState : o.key \notin K} \cup
                  {Slice(k, cond) : k \in {x \in K : Covered(x) # {}}}
  /\ Replace(epState')
  /\ \E G \in Groups(epState') : applying' = {G}
  /\ UNCHANGED <<owner, starts, podState, podIP, services, slices>>

(* ... and then the Service index, from the same state.                    *)
SetSlices ==
  /\ \E G \in applying : slices' = G
  /\ applying' = {}
  /\ UNCHANGED <<owner, starts, podIndex, epState, services>>

Watches == ApplyServices \/ ApplyPods \/ ApplySlices \/ SetSlices

(* The aggregator starts in a cluster where pods may run already.          *)
IInit ==
  /\ owner \in Running
  /\ starts = 0
  /\ podState = {} /\ epState = {}
  /\ byIP = [ip \in IPs |-> NoPod] /\ podIP = [ip \in IPs |-> NoPod]
  /\ ports = [ip \in IPs |-> {}]
  /\ services = {} /\ slices = [s \in {} |-> {}] /\ applying = {}
=============================================================================
