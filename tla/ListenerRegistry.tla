-------------------------- MODULE ListenerRegistry --------------------------
(***************************************************************************)
(* The cluster listener registry (internal/aggregator/clusterpeers) joined *)
(* with the pod and Service indexes (Indexes).                             *)
(*                                                                         *)
(* Pods come and go and reuse IPs; their agents advertise and withdraw     *)
(* binds over streams that delay and may lose messages; the watches        *)
(* refresh the indexes, each on its own; the janitor and every Stats call  *)
(* sweep.  Join is an operator on one state.  The code holds the registry  *)
(* lock for the whole of it and an index lock for each lookup only.        *)
(*                                                                         *)
(* Data abstraction.  What a listener says of process and image is the     *)
(* Workload of its pod.  Attributes that no decision reads (pid,           *)
(* container, image, node) are left out.  An optional result is a set of   *)
(* at most one element.                                                    *)
(***************************************************************************)
EXTENDS Indexes

CONSTANTS
  Identity,    \* pod -> [ns, name] as its agent has it, which may not be the index's
  Workload,    \* identity -> process and image
  ResolvesVip, \* --resolve-service-vip
  Binds,       \* [port, wild]: the sockets a pod may bind
  TTL,         \* entry lifetime; also the sweep interval
  Lossy,       \* a message may be lost on its way
  MaxWire,     \* bound: messages on their way per pod
  MaxTime      \* bound: clock ticks

ASSUME RegistryConstants ==
  /\ Binds \subseteq [port : Nat, wild : BOOLEAN]
  /\ Lossy \in BOOLEAN /\ TTL \in Nat \ {0} /\ MaxTime \in Nat
  /\ ResolvesVip \in BOOLEAN /\ ResolvesVip => HasIndex
  /\ DOMAIN Identity = Pods /\ NoPod \notin Range(Identity)

VARIABLES
  binds,     \* cluster: the sockets each pod has bound
  wire,      \* per pod: messages its agent sent, not folded yet
  exact,     \* Registry.exact: entries keyed by ip and port
  wild,      \* Registry.wild: entries keyed by port and pod
  now,       \* the clock
  sweepAt,   \* when the sweep ticker fires next
  folded     \* history: binds folded and not withdrawn, with their time

registry == <<exact, wild>>
vars == <<ivars, binds, wire, registry, now, sweepAt, folded>>

ServicePorts == UNION {{x.port : x \in Range(Services[s].ports)} : s \in Names}
TargetPorts  ==
  UNION {{TargetPort[p][n] : n \in DOMAIN TargetPort[p]} : p \in DOMAIN TargetPort}
Ports == {b.port : b \in Binds} \cup ServicePorts \cup TargetPorts
Addr  == [ip : IPs \cup Vips, port : Ports]
Entry == [ip : IPs, port : Ports, pod : Range(Identity), expires : Nat]

-----------------------------------------------------------------------------
(* Join.                                                                   *)

(* Fault: an entry still answers at its expiry.                            *)
BugLive(l) == l.expires >= now

Live(l) == l.expires > now

(* Fault: the pod index is not asked.                                      *)
BugStillOwns(l, ip) == TRUE

(* Fault: an IP the pod index does not know rejects, too.                  *)
BugStillOwnsPlaced(l, ip) == ~HasIndex \/ l.pod = Host \/ PodForIP(ip) = l.pod

(* Only a positive disagreement of the pod index rejects.                  *)
StillOwns(l, ip) ==
  ~HasIndex \/ l.pod = Host \/ PodForIP(ip) \in {NoPod, l.pod}

LiveExact(a) ==
  {l \in exact : l.ip = a.ip /\ l.port = a.port /\ Live(l) /\ StillOwns(l, a.ip)}

SoleLiveWild(port) ==
  LET live == {l \in wild : l.port = port /\ Live(l)}
  IN  {l \in live : live = {l}}

(* Fault: the namespaces have to agree, too.                               *)
BugSoleLiveWildForPod(port, p) == {l \in SoleLiveWild(port) : l.pod = p}

SoleLiveWildForPod(port, p) == {l \in SoleLiveWild(port) : l.pod.name = p.name}

LiveWildPod(port, p) == {l \in wild : l.port = port /\ l.pod = p /\ Live(l)}

LiveWild(a) ==
  IF HasIndex
  THEN LET p == PodForIP(a.ip) IN
       IF p = NoPod THEN {}
       ELSE IF LiveWildPod(a.port, p) # {} THEN LiveWildPod(a.port, p)
       ELSE SoleLiveWildForPod(a.port, p)
  ELSE SoleLiveWild(a.port)

Bound(a) == IF LiveExact(a) # {} THEN LiveExact(a) ELSE LiveWild(a)

(* The live listeners behind a VIP must agree on process and image; the    *)
(* lowest backend IP represents them.                                      *)
ResolveBackends(backends) ==
  LET live == {b \in backends : Bound(b) # {}}
      All  == UNION {Bound(b) : b \in live}
      rep  == {b \in live : \A c \in live : b.ip <= c.ip}
  IN  IF \E l, m \in All : Workload[l.pod] # Workload[m.pod] THEN {}
      ELSE UNION {Bound(b) : b \in rep}

Hit(how, L) == {[how |-> how, pod |-> l.pod, port |-> l.port] : l \in L}

(* The first path that answers wins.                                       *)
Join(a) ==
  LET direct   == Hit("direct", LiveExact(a))
      slice    == Hit("endpointslice", UNION {Bound(b) : b \in ResolvePodAddr(a)})
      vip      == Hit("service-vip", ResolveBackends(ResolveVIP(a)))
      wildcard == Hit("wildcard", LiveWild(a))
  IN  IF direct # {} THEN direct
      ELSE IF HasIndex /\ slice # {} THEN slice
      ELSE IF ResolvesVip /\ vip # {} THEN vip
      ELSE wildcard

-----------------------------------------------------------------------------
(* Observe and Remove, for the next message of a pod's agent.              *)

(* Fault: one wildcard entry per port.                                     *)
BugReplaced(T, m) ==
  {l \in T : l.port = m.port /\ (m.wild \/ l.ip = m.ip)}

Replaced(T, m) ==
  {l \in T : l.port = m.port /\ IF m.wild THEN l.pod = m.pod ELSE l.ip = m.ip}

Advertised(m) == [ip |-> m.ip, port |-> m.port, pod |-> m.pod, expires |-> now + TTL]

Observe(m) ==
  IF m.wild
  THEN wild' = (wild \ Replaced(wild, m)) \cup {Advertised(m)} /\ UNCHANGED exact
  ELSE exact' = (exact \ Replaced(exact, m)) \cup {Advertised(m)} /\ UNCHANGED wild

Remove(m) ==
  IF m.wild
  THEN wild' = wild \ Replaced(wild, m) /\ UNCHANGED exact
  ELSE exact' = exact \ Replaced(exact, m) /\ UNCHANGED wild

(* An exact entry has no pod in its key: the address is whoever's message  *)
(* was folded last.  A wildcard bind is its pod's, at whichever IP the pod *)
(* had: a restart may move it while the withdraw of the old one is lost.   *)
Overrules(m, f) ==
  /\ f.port = m.port
  /\ \/ ~m.wild /\ ~f.wild /\ f.ip = m.ip
     \/ m.wild /\ f.wild /\ f.pod = m.pod

Forgotten(m) == {f \in folded : ~Overrules(m, f)}

FoldAdvertise(p) ==
  /\ wire[p] # <<>> /\ Head(wire[p]).kind = "advertise"
  /\ LET m == Head(wire[p]) IN
     /\ Observe(m)
     /\ folded' = Forgotten(m) \cup
          {[pod |-> m.pod, ip |-> m.ip, port |-> m.port, wild |-> m.wild, at |-> now]}
  /\ wire' = [wire EXCEPT ![p] = Tail(@)]
  /\ UNCHANGED <<ivars, binds, now, sweepAt>>

FoldWithdraw(p) ==
  /\ wire[p] # <<>> /\ Head(wire[p]).kind = "withdraw"
  /\ LET m == Head(wire[p]) IN Remove(m) /\ folded' = Forgotten(m)
  /\ wire' = [wire EXCEPT ![p] = Tail(@)]
  /\ UNCHANGED <<ivars, binds, now, sweepAt>>

(* Fault: entries go a tick early.                                         *)
BugExpired(T) == {l \in T : l.expires <= now + 1}

Expired(T) == {l \in T : ~Live(l)}

(* Registry.Stats: every expired entry goes.                               *)
Reclaim == exact' = exact \ Expired(exact) /\ wild' = wild \ Expired(wild)

(* On the ticker...                                                        *)
Sweep ==
  /\ now = sweepAt
  /\ Reclaim
  /\ sweepAt' = now + TTL
  /\ UNCHANGED <<ivars, binds, wire, now, folded>>

(* ... and whenever Aggregator.Stats asks for the registry's size.         *)
Size ==
  /\ Reclaim
  /\ UNCHANGED <<ivars, binds, wire, now, sweepAt, folded>>

-----------------------------------------------------------------------------
(* The cluster (external): pods, their sockets and their agents.           *)

Message(kind, p, ip, b) ==
  [kind |-> kind, pod |-> Identity[p], ip |-> ip, port |-> b.port, wild |-> b.wild]

PodStart(p) ==
  /\ Acquire(p)
  /\ UNCHANGED <<binds, wire, registry, now, sweepAt, folded>>

(* A new bind, or the periodic advertise of an old one.                    *)
Advertise(p) ==
  /\ Len(wire[p]) < MaxWire
  /\ \E b \in Binds, ip \in IPsOf(p) :
       /\ binds' = [binds EXCEPT ![p] = @ \cup {b}]
       /\ wire' = [wire EXCEPT ![p] = Append(@, Message("advertise", p, ip, b))]
  /\ UNCHANGED <<ivars, registry, now, sweepAt, folded>>

(* The elements of a finite set, each once, in some order.                 *)
Listed(S) == CHOOSE f \in [1..Cardinality(S) -> S] : Range(f) = S

(* The pod exits; its agent withdraws the binds.                           *)
PodStop(p) ==
  /\ \E ip \in IPsOf(p) :
       /\ Release(p, ip)
       /\ wire' = [wire EXCEPT ![p] = @ \o
            Listed({Message("withdraw", p, ip, b) : b \in binds[p]})]
  /\ binds' = [binds EXCEPT ![p] = {}]
  /\ UNCHANGED <<registry, now, sweepAt, folded>>

Lose(p) ==
  /\ Lossy /\ wire[p] # <<>>
  /\ wire' = [wire EXCEPT ![p] = Tail(@)]
  /\ UNCHANGED <<ivars, binds, registry, now, sweepAt, folded>>

(* The sweep ticker is not late by a whole tick.                           *)
Tick ==
  /\ now < MaxTime /\ now < sweepAt
  /\ now' = now + 1
  /\ UNCHANGED <<ivars, binds, wire, registry, sweepAt, folded>>

-----------------------------------------------------------------------------
Init ==
  /\ IInit
  /\ binds = [p \in Pods |-> {}] /\ wire = [p \in Pods |-> <<>>]
  /\ exact = {} /\ wild = {}
  /\ now = 0 /\ sweepAt = TTL
  /\ folded = {}

Watch == Watches /\ UNCHANGED <<binds, wire, registry, now, sweepAt, folded>>

Next ==
  \/ \E p \in Pods :
       \/ FoldAdvertise(p)
       \/ FoldWithdraw(p)
       \/ PodStart(p)
       \/ Advertise(p)
       \/ PodStop(p)
       \/ Lose(p)
  \/ Sweep
  \/ Size
  \/ Watch
  \/ Tick

Spec == Init /\ [][Next]_vars

-----------------------------------------------------------------------------
(* Properties.                                                             *)

(* A hit names a listener whose advertise was folded less than a TTL ago   *)
(* and that its own pod has not withdrawn since, on whatever path the hit  *)
(* was found: neither an expired nor a retired listener resolves.          *)
HitsAreCurrent ==
  \A a \in Addr : \A h \in Join(a) :
    \E f \in folded : f.pod = h.pod /\ f.port = h.port /\ now < f.at + TTL

Current(f) == f \in folded /\ now < f.at + TTL

(* The identities with a current wildcard bind on a port.                  *)
Wildcards(port) == {f.pod : f \in {g \in folded : g.wild /\ g.port = port /\ Current(g)}}

(* h names a pod of the same name as p, maybe in another namespace, which  *)
(* has the only current wildcard bind on the port.  The code cannot tell   *)
(* it from p under a namespace that agent and index disagree on.           *)
StandsIn(h, p) == h.pod.name = p.name /\ Wildcards(h.port) = {h.pod}

(* A connect to a pod IP that the index places on the pod that owns it is  *)
(* attributed to that pod or to a host process, recycled IPs and shared    *)
(* wildcard ports included.  The one exception is what soleLiveWildForPod  *)
(* is for: a pod of the same name may stand in for the owner while no      *)
(* other pod, the owner included, has a current wildcard bind on the port. *)
OwnerAttribution ==
  \A a \in Addr : a.ip \in IPs /\ owner[a.ip] # NoPod /\ PodForIP(a.ip) = owner[a.ip] =>
    \A h \in Join(a) : h.pod \in {owner[a.ip], Host} \/ StandsIn(h, owner[a.ip])

(* Agent and index may disagree on the namespace of a pod: its wildcard    *)
(* listener still answers a connect to its IP as long as it has the only   *)
(* current wildcard bind on the port, whatever messages of others and      *)
(* updates of the indexes came in between ("the sole live wildcard         *)
(* listener on the port must still join rather than miss").  Only an exact *)
(* entry of a host process comes before it.                                *)
DriftTolerated ==
  \A f \in folded :
    /\ f.wild /\ Current(f) /\ HasIndex /\ PodForIP(f.ip) # NoPod
    /\ PodForIP(f.ip).name = f.pod.name /\ Wildcards(f.port) = {f.pod}
    => \E h \in Join([ip |-> f.ip, port |-> f.port]) :
         h.pod = Host \/ h.pod.name = f.pod.name

Chosen(s) == {ip \in IPs : owner[ip] \in Services[s].selects}

Numbered(s, port) == {TargetPort[owner[ip]][n] : ip \in Chosen(s), n \in PortName(s, port)}

(* ServiceIndex has the backends of a Service as they are: all are ready,  *)
(* and the group is one that their slices give.                            *)
Fresh(s) ==
  /\ HasIndex /\ s \in DOMAIN slices /\ slices[s].ips = Chosen(s)
  /\ \A n \in DOMAIN slices[s].ports :
       slices[s].ports[n] \in {TargetPort[owner[ip]][n] : ip \in Chosen(s)}
  /\ \A ip \in Chosen(s) : PodForIP(ip) = owner[ip]

(* While the indexes have the backends of a Service as they are, a connect *)
(* to its VIP resolves to a pod it selects, on the number that the pod     *)
(* gives to the port's name, or to a host process's exact entry on such an *)
(* address; other Services and their lagging slices change nothing.  Where *)
(* the backends give the name different numbers, another backend's number  *)
(* may answer: one of them stands for the group.  A pod of the same name   *)
(* may stand in for a backend (see OwnerAttribution).                      *)
VipReachesBackend ==
  \A s \in Names : Fresh(s) =>
    \A vip \in ClusterIPsOf(s), p \in Ports : \A h \in Join([ip |-> vip, port |-> p]) :
      /\ h.pod = Host \/ \E q \in Services[s].selects : h.pod = q \/ StandsIn(h, q)
      /\ h.port \in Numbered(s, p)

(* A connect to a pod IP is attributed to a listener on another port only  *)
(* when the slices give that IP this one target port, for every Service it *)
(* is behind: with two of them the port is not guessed.                    *)
FoldsToSolePort ==
  \A a \in Addr : a.ip \in IPs => \A h \in Join(a) :
    \/ h.port = a.port
    \/ UNION {Numbers(o) : o \in {x \in epState : \E e \in ReadyEndpoints(x) : e.ip = a.ip}}
         = {h.port}

Placed(f) == HasIndex /\ PodForIP(f.ip) = f.pod

(* A wildcard listener that was advertised less than a TTL ago and not     *)
(* withdrawn answers a connect to its pod's placed IP, whatever other pods *)
(* on the port advertise or withdraw, and however late.  Only an exact     *)
(* entry of a host process comes before it, for which no index vouches,    *)
(* or, where slices fold the port to another one, a pod of the same name.  *)
WildcardResolvable ==
  \A f \in folded : f.wild /\ Current(f) /\ Placed(f) =>
    \E h \in Join([ip |-> f.ip, port |-> f.port]) :
      h.pod \in {f.pod, Host} \/ (h.port # f.port /\ StandsIn(h, f.pod))

(* An exact listener that was advertised less than a TTL ago, and whose    *)
(* address no message has named since, answers a connect to it unless the  *)
(* pod index places the IP on another pod.  The messages of other pods on  *)
(* other addresses, their wildcard binds and the sweep take nothing away.  *)
ExactResolvable ==
  \A f \in folded : ~f.wild /\ Current(f) /\ PodForIP(f.ip) \in {NoPod, f.pod} =>
    \E h \in Join([ip |-> f.ip, port |-> f.port]) : h.how = "direct" /\ h.pod = f.pod

(* Reclaiming expired entries changes no answer of Join, on the ticker or  *)
(* in the middle of a scrape: what lets Join skip expired entries under    *)
(* the shared lock and leave them to Sweep.                                *)
SweepInvisible ==
  [][Sweep \/ Size => \A a \in Addr : Join(a)' = Join(a)]_vars
=============================================================================
