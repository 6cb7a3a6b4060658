----------------------- MODULE ListenerRegistryProofs -----------------------
(***************************************************************************)
(* Proofs about the listener registry joined with the pod and Service      *)
(* indexes, for every set of pods, IPs, Services and binds, any TTL and    *)
(* any loss and delay of messages.                                         *)
(*                                                                         *)
(* The registry is compared with what the agents said (folded): an entry   *)
(* always stands for a bind that was folded and not taken back, with the   *)
(* expiry that its advertise gave it, and a bind that has not expired      *)
(* always has its entry (Mirrors).  The indexes are compared with the      *)
(* watches' own states (ITypeOK).  Join is then followed path by path.     *)
(***************************************************************************)
EXTENDS ListenerRegistry, FiniteSetTheorems, SequenceTheorems, TLAPS

MsgSet  ==
  [kind : {"advertise", "withdraw"}, pod : Range(Identity), ip : IPs, port : Ports, wild : BOOLEAN]
FoldSet == [pod : Range(Identity), ip : IPs, port : Ports, wild : BOOLEAN, at : Nat]

(* The target ports that the slices in epState give to an IP.              *)
Given(ip) ==
  UNION {Numbers(o) : o \in {x \in epState : \E e \in ReadyEndpoints(x) : e.ip = ip}}

IsSlice(o) ==
  /\ o.key \in SliceKeys
  /\ \A e \in o.endpoints : e.ip \in IPs /\ e.pod \in Pods

IsGroups(G) == DOMAIN G \subseteq Names

ITypeOK ==
  /\ owner \in [IPs -> Pods \cup {NoPod}]
  /\ podState \subseteq [ip : IPs, pod : Pods]
  /\ \A o \in epState : IsSlice(o)
  /\ byIP \in [IPs -> Pods \cup {NoPod}] /\ podIP \in [IPs -> Pods \cup {NoPod}]
  /\ ports = [ip \in IPs |-> Given(ip)]
  /\ \A e \in services : e.svc \in Names /\ e.vip \in ClusterIPsOf(e.svc)
  /\ IsGroups(slices) /\ (applying = {} \/ \E G : applying = {G} /\ IsGroups(G))
  /\ ~HasIndex => \A ip \in IPs : byIP[ip] = NoPod /\ podIP[ip] = NoPod

RTypeOK ==
  /\ binds \in [Pods -> SUBSET Binds] /\ \A p \in Pods : IsFiniteSet(binds[p])
  /\ wire \in [Pods -> Seq(MsgSet)]
  /\ exact \subseteq Entry /\ wild \subseteq Entry
  /\ now \in Nat /\ folded \subseteq FoldSet

Keyed ==
  /\ \A l, m \in exact : l.ip = m.ip /\ l.port = m.port => l = m
  /\ \A l, m \in wild : l.pod = m.pod /\ l.port = m.port => l = m

EntryOf(f) == [ip |-> f.ip, port |-> f.port, pod |-> f.pod, expires |-> f.at + TTL]

Mirrors ==
  /\ \A l \in exact : \E f \in folded : ~f.wild /\ l = EntryOf(f)
  /\ \A l \in wild : \E f \in folded : f.wild /\ l = EntryOf(f)
  /\ \A f \in folded : now < f.at + TTL => EntryOf(f) \in (IF f.wild THEN wild ELSE exact)

RInv == ITypeOK /\ RTypeOK /\ Keyed /\ Mirrors

-----------------------------------------------------------------------------
(* The indexes.                                                            *)

LEMMA SliceKeyTyped ==
  ASSUME NEW k \in SliceKeys
  PROVE  k.svc \in Names /\ {x.port : x \in k.ports} \subseteq Ports
<1>1. PICK s \in Names : \E p \in Services[s].selects : k = SliceKey[s][p]
  BY DEF SliceKeys
<1>2. PICK p \in Services[s].selects : k = SliceKey[s][p]
  BY <1>1
<1> DEFINE P == Range(Services[s].ports)
           Q == {[name |-> x.name, port |-> TargetPort[p][x.name]] : x \in P}
<1>3. k = [svc |-> s, ports |-> Q]
  BY <1>2 DEF SliceKey
<1>4. p \in DOMAIN TargetPort /\ \A x \in P : x.name \in DOMAIN TargetPort[p]
  BY IndexConstants
<1> HIDE DEF P
<1>5. \A x \in P : TargetPort[p][x.name] \in Ports
  <2> DEFINE T(q) == {TargetPort[q][n] : n \in DOMAIN TargetPort[q]}
  <2>1. \A x \in P : TargetPort[p][x.name] \in T(p)
    BY <1>4
  <2> HIDE DEF T
  <2>2. T(p) \in {T(q) : q \in DOMAIN TargetPort}
    BY <1>4
  <2>3. UNION {T(q) : q \in DOMAIN TargetPort} = TargetPorts
    BY DEF TargetPorts, T
  <2>4. TargetPorts \subseteq Ports
    BY DEF Ports
  <2> QED
    BY <2>1, <2>2, <2>3, <2>4
<1>6. \A y \in Q : y.port \in Ports
  BY <1>5
<1> QED
  BY <1>3, <1>6

LEMMA PlacementTyped ==
  ASSUME NEW S, \A e \in S : e.pod \in Pods, NEW f \in Placements(S)
  PROVE  f \in [IPs -> Pods \cup {NoPod}]
<1>1. f \in [IPs -> {e.pod : e \in S} \cup {NoPod}]
  BY DEF Placements
<1>2. {e.pod : e \in S} \cup {NoPod} \subseteq Pods \cup {NoPod}
  OBVIOUS
<1> QED
  BY <1>1, <1>2

LEMMA GroupsTyped ==
  ASSUME NEW S, \A o \in S : IsSlice(o), NEW G \in Groups(S)
  PROVE  IsGroups(G)
<1>1. DOMAIN G = {o.key.svc : o \in S}
  BY DEF Groups
<1>2. \A o \in S : o.key.svc \in Names
  BY SliceKeyTyped DEF IsSlice
<1> QED
  BY <1>1, <1>2, SMTT(30), Zenon DEF IsGroups

LEMMA AcquireStep ==
  ASSUME ITypeOK, NEW p \in Pods, Acquire(p)
  PROVE  ITypeOK'
<1>1. PICK ip \in IPs : owner' = [owner EXCEPT ![ip] = p]
  BY Zenon DEF Acquire
<1>2. owner' \in [IPs -> Pods \cup {NoPod}]
  BY <1>1 DEF ITypeOK
<1>3. UNCHANGED <<podIndex, svcIndex>>
  BY DEF Acquire
<1> QED
  BY <1>2, <1>3 DEF ITypeOK, Given, podIndex, svcIndex

LEMMA ReleaseStep ==
  ASSUME ITypeOK, NEW p \in Pods, NEW ip \in IPs, Release(p, ip)
  PROVE  ITypeOK'
<1>1. owner' \in [IPs -> Pods \cup {NoPod}]
  BY DEF ITypeOK, Release
<1>2. UNCHANGED <<podIndex, svcIndex>>
  BY DEF Release
<1> QED
  BY <1>1, <1>2 DEF ITypeOK, Given, podIndex, svcIndex

LEMMA ApplyServicesStep ==
  ASSUME ITypeOK, ApplyServices
  PROVE  ITypeOK'
<1>1. services' = UNION {{[vip |-> v, svc |-> s] : v \in ClusterIPsOf(s)} :
                         s \in {n \in Names : Services[n].ports # <<>>}}
  BY DEF ApplyServices
<1>2. \A e \in services' : e.svc \in Names /\ e.vip \in ClusterIPsOf(e.svc)
  BY <1>1
<1>3. UNCHANGED <<owner, podIndex, epState, slices, applying>>
  BY DEF ApplyServices
<1> QED
  BY <1>2, <1>3 DEF ITypeOK, Given, podIndex

LEMMA ApplyPodsStep ==
  ASSUME ITypeOK, ApplyPods
  PROVE  ITypeOK'
<1>1. PICK P \in Delivered(Pods \ {Host}) :
        podState' = {e \in podState : e.pod \notin P} \cup
                    {[ip |-> ip, pod |-> owner[ip]] : ip \in {i \in IPs : owner[i] \in P}}
  BY DEF ApplyPods
<1>2. P \subseteq Pods
  BY DEF Delivered
<1>3. podState' \subseteq [ip : IPs, pod : Pods]
  BY <1>1, <1>2 DEF ITypeOK
<1>4. podIP' \in Placements(podState')
  BY DEF ApplyPods
<1>5. podIP' \in [IPs -> Pods \cup {NoPod}]
  <2>1. \A e \in podState' : e.pod \in Pods
    BY <1>3
  <2> QED
    BY <1>4, <2>1, PlacementTyped, SMTT(30), Zenon
<1>6. HasIndex /\ UNCHANGED <<owner, byIP, ports, svcIndex>>
  BY DEF ApplyPods
<1> QED
  BY <1>3, <1>5, <1>6 DEF ITypeOK, Given, svcIndex

LEMMA ApplySlicesStep ==
  ASSUME ITypeOK, ApplySlices
  PROVE  ITypeOK'
<1>1. PICK K \in Delivered(SliceKeys) : \E cond \in Conditions :
        epState' = {o \in epState : o.key \notin K} \cup
                   {Slice(k, cond) : k \in {x \in K : Covered(x) # {}}}
  BY DEF ApplySlices
<1>2. PICK cond \in Conditions :
        epState' = {o \in epState : o.key \notin K} \cup
                   {Slice(k, cond) : k \in {x \in K : Covered(x) # {}}}
  BY <1>1
<1>3. K \subseteq SliceKeys
  BY DEF Delivered
<1>4. ASSUME NEW k \in K
      PROVE  IsSlice(Slice(k, cond))
  <2>1. \A ip \in Covered(k) : ip \in IPs /\ owner[ip] \in Pods
    BY <1>3, SliceKeyTyped, IndexConstants DEF Covered
  <2> QED
    BY <1>3, <2>1, SMTT(30), Zenon DEF IsSlice, Slice
<1>5. \A o \in epState' : IsSlice(o)
  BY <1>2, <1>4 DEF ITypeOK
<1> DEFINE ready == UNION {ReadyEndpoints(o) : o \in epState'}
<1>6. byIP' \in Placements(ready) /\ ports' = [ip \in IPs |-> Given(ip)']
  BY DEF ApplySlices, Replace, Given
<1>7. \A e \in ready : e.pod \in Pods
  BY <1>5 DEF ReadyEndpoints, IsSlice
<1>8. byIP' \in [IPs -> Pods \cup {NoPod}]
  BY <1>6, <1>7, PlacementTyped
<1>9. PICK G \in Groups(epState') : applying' = {G}
  BY Zenon DEF ApplySlices
<1>10. IsGroups(G)
  BY <1>5, <1>9, GroupsTyped
<1>11. HasIndex /\ UNCHANGED <<owner, podState, podIP, services, slices>>
  BY DEF ApplySlices
<1> QED
  BY <1>5, <1>6, <1>8, <1>9, <1>10, <1>11, SMTT(30), Zenon DEF ITypeOK

LEMMA SetSlicesStep ==
  ASSUME ITypeOK, SetSlices
  PROVE  ITypeOK'
<1>1. PICK G \in applying : slices' = G /\ applying' = {}
  BY DEF SetSlices
<1>2. IsGroups(slices')
  BY <1>1 DEF ITypeOK
<1>3. UNCHANGED <<owner, podIndex, epState, services>>
  BY DEF SetSlices
<1> QED
  BY <1>1, <1>2, <1>3 DEF ITypeOK, Given, podIndex

-----------------------------------------------------------------------------
(* The registry.                                                           *)

LEMMA Fields ==
  ASSUME NEW f
  PROVE  /\ EntryOf(f).ip = f.ip /\ EntryOf(f).port = f.port
         /\ EntryOf(f).pod = f.pod /\ EntryOf(f).expires = f.at + TTL
BY DEF EntryOf

LEMMA NextMessage ==
  ASSUME RTypeOK, NEW p \in Pods, wire[p] # <<>>, wire' = [wire EXCEPT ![p] = Tail(@)]
  PROVE  Head(wire[p]) \in MsgSet /\ wire' \in [Pods -> Seq(MsgSet)]
<1>1. wire[p] \in Seq(MsgSet) /\ wire \in [Pods -> Seq(MsgSet)]
  BY DEF RTypeOK
<1>2. Head(wire[p]) \in MsgSet /\ Tail(wire[p]) \in Seq(MsgSet)
  BY <1>1
<1> QED
  BY <1>1, <1>2

(* The registry part of the invariant, which a fold changes.               *)
Kept == exact \subseteq Entry /\ wild \subseteq Entry /\ folded \subseteq FoldSet /\ Keyed /\ Mirrors

LEMMA ObserveStep ==
  ASSUME Kept, now \in Nat, NEW m \in MsgSet, Observe(m), now' = now,
         folded' = Forgotten(m) \cup
           {[pod |-> m.pod, ip |-> m.ip, port |-> m.port, wild |-> m.wild, at |-> now]}
  PROVE  Kept'
<1> DEFINE n == [pod |-> m.pod, ip |-> m.ip, port |-> m.port, wild |-> m.wild, at |-> now]
<1>1. /\ n \in FoldSet /\ n.pod = m.pod /\ n.ip = m.ip /\ n.port = m.port /\ n.wild = m.wild
      /\ n.at = now /\ EntryOf(n) = Advertised(m) /\ Advertised(m) \in Entry
  BY RegistryConstants DEF MsgSet, FoldSet, EntryOf, Advertised, Entry
<1>2. folded' = Forgotten(m) \cup {n}
  OBVIOUS
<1> HIDE DEF n
<1>3. /\ EntryOf(n).ip = m.ip /\ EntryOf(n).port = m.port /\ EntryOf(n).pod = m.pod
  BY <1>1, Fields
<1>4. folded' \subseteq FoldSet
  BY <1>1, <1>2 DEF Kept, Forgotten
<1>5. m.wild \in BOOLEAN
  BY DEF MsgSet
<1>6. CASE m.wild
  <2>1. wild' = (wild \ Replaced(wild, m)) \cup {EntryOf(n)} /\ exact' = exact
    BY <1>1, <1>6, SMTT(30), Zenon DEF Observe
  <2>2. \A l \in wild : l \in Replaced(wild, m) <=> l.port = m.port /\ l.pod = m.pod
    BY <1>6 DEF Replaced
  <2>3. \A f \in folded : f \in Forgotten(m) <=> ~(f.wild /\ f.port = m.port /\ f.pod = m.pod)
    BY <1>6 DEF Forgotten, Overrules
  <2>4. exact' \subseteq Entry /\ wild' \subseteq Entry
    BY <1>1, <2>1, SMTT(30), Zenon DEF Kept
  <2>5. Keyed'
    BY <1>3, <2>1, <2>2, SMTT(30), Zenon DEF Kept, Keyed
  <2>6. \A l \in exact' : \E f \in folded' : ~f.wild /\ l = EntryOf(f)
    BY <1>2, <2>1, <2>3 DEF Kept, Mirrors
  <2>7. \A l \in wild' : \E f \in folded' : f.wild /\ l = EntryOf(f)
    <3> SUFFICES ASSUME NEW l \in wild', l # EntryOf(n)
                 PROVE  \E f \in folded' : f.wild /\ l = EntryOf(f)
      BY <1>1, <1>2, <1>6, Zenon
    <3>1. l \in wild /\ ~(l.port = m.port /\ l.pod = m.pod)
      BY <2>1, <2>2, SMTT(30), Zenon
    <3>2. PICK f \in folded : f.wild /\ l = EntryOf(f)
      BY <3>1, SMTT(30), Zenon DEF Kept, Mirrors
    <3>3. f \in Forgotten(m)
      BY <2>3, <3>1, <3>2, Fields, SMTT(30), Zenon
    <3> QED
      BY <1>2, <3>2, <3>3
  <2>8. ASSUME NEW f \in folded', now < f.at + TTL
        PROVE  EntryOf(f) \in (IF f.wild THEN wild' ELSE exact')
    <3>1. CASE f = n
      BY <1>1, <1>6, <2>1, <3>1, Zenon
    <3>2. CASE f # n
      <4>1. f \in folded /\ ~(f.wild /\ f.port = m.port /\ f.pod = m.pod)
        BY <1>2, <2>3, <3>2, SMTT(30), Zenon DEF Forgotten
      <4>2. EntryOf(f) \in (IF f.wild THEN wild ELSE exact)
        BY <2>8, <4>1, SMTT(30), Zenon DEF Kept, Mirrors
      <4> QED
        BY <2>1, <2>2, <4>1, <4>2, Fields, SMTT(30), Zenon
    <3> QED
      BY <3>1, <3>2
  <2> QED
    BY <1>4, <2>4, <2>5, <2>6, <2>7, <2>8, SMTT(30), Zenon DEF Kept, Mirrors
<1>7. CASE ~m.wild
  <2>1. exact' = (exact \ Replaced(exact, m)) \cup {EntryOf(n)} /\ wild' = wild
    BY <1>1, <1>7, SMTT(30), Zenon DEF Observe
  <2>2. \A l \in exact : l \in Replaced(exact, m) <=> l.port = m.port /\ l.ip = m.ip
    BY <1>7 DEF Replaced
  <2>3. \A f \in folded : f \in Forgotten(m) <=> ~(~f.wild /\ f.port = m.port /\ f.ip = m.ip)
    BY <1>7, SMTT(30), Zenon DEF Forgotten, Overrules
  <2>4. exact' \subseteq Entry /\ wild' \subseteq Entry
    BY <1>1, <2>1, SMTT(30), Zenon DEF Kept
  <2>5. Keyed'
    BY <1>3, <2>1, <2>2, SMTT(30), Zenon DEF Kept, Keyed
  <2>6. \A l \in wild' : \E f \in folded' : f.wild /\ l = EntryOf(f)
    BY <1>2, <2>1, <2>3 DEF Kept, Mirrors
  <2>7. \A l \in exact' : \E f \in folded' : ~f.wild /\ l = EntryOf(f)
    <3> SUFFICES ASSUME NEW l \in exact', l # EntryOf(n)
                 PROVE  \E f \in folded' : ~f.wild /\ l = EntryOf(f)
      BY <1>1, <1>2, <1>7, SMTT(30), Zenon
    <3>1. l \in exact /\ ~(l.port = m.port /\ l.ip = m.ip)
      BY <2>1, <2>2
    <3>2. PICK f \in folded : ~f.wild /\ l = EntryOf(f)
      BY <3>1, SMTT(30), Zenon DEF Kept, Mirrors
    <3>3. f \in Forgotten(m)
      BY <2>3, <3>1, <3>2, Fields, SMTT(30), Zenon
    <3> QED
      BY <1>2, <3>2, <3>3, SMTT(30), Zenon
  <2>8. ASSUME NEW f \in folded', now < f.at + TTL
        PROVE  EntryOf(f) \in (IF f.wild THEN wild' ELSE exact')
    <3>1. CASE f = n
      BY <1>1, <1>7, <2>1, <3>1, SMTT(30), Zenon
    <3>2. CASE f # n
      <4>1. f \in folded /\ ~(~f.wild /\ f.port = m.port /\ f.ip = m.ip)
        BY <1>2, <2>3, <3>2, SMTT(30), Zenon DEF Forgotten
      <4>2. EntryOf(f) \in (IF f.wild THEN wild ELSE exact)
        BY <2>8, <4>1 DEF Kept, Mirrors
      <4> QED
        BY <2>1, <2>2, <4>1, <4>2, Fields, SMTT(30), Zenon
    <3> QED
      BY <3>1, <3>2
  <2> QED
    BY <1>4, <2>4, <2>5, <2>6, <2>7, <2>8, SMTT(30), Zenon DEF Kept, Mirrors
<1> QED
  BY <1>5, <1>6, <1>7, SMTT(30), Zenon

LEMMA RemoveStep ==
  ASSUME Kept, NEW m \in MsgSet, Remove(m), now' = now, folded' = Forgotten(m)
  PROVE  Kept'
<1>1. folded' \subseteq folded /\ m.wild \in BOOLEAN
  BY DEF Forgotten, MsgSet
<1>2. CASE m.wild
  <2>1. wild' = wild \ Replaced(wild, m) /\ exact' = exact
    BY <1>2 DEF Remove
  <2>2. \A l \in wild : l \in Replaced(wild, m) <=> l.port = m.port /\ l.pod = m.pod
    BY <1>2 DEF Replaced
  <2>3. \A f \in folded : f \in folded' <=> ~(f.wild /\ f.port = m.port /\ f.pod = m.pod)
    BY <1>2 DEF Forgotten, Overrules
  <2>4. Keyed' /\ exact' \subseteq Entry /\ wild' \subseteq Entry
    BY <2>1 DEF Kept, Keyed
  <2>5. \A l \in exact' : \E f \in folded' : ~f.wild /\ l = EntryOf(f)
    BY <2>1, <2>3, SMTT(30), Zenon DEF Kept, Mirrors
  <2>6. \A l \in wild' : \E f \in folded' : f.wild /\ l = EntryOf(f)
    <3> SUFFICES ASSUME NEW l \in wild'
                 PROVE  \E f \in folded' : f.wild /\ l = EntryOf(f)
      OBVIOUS
    <3>1. PICK f \in folded : f.wild /\ l = EntryOf(f)
      BY <2>1 DEF Kept, Mirrors
    <3> QED
      BY <2>1, <2>2, <2>3, <3>1, Fields
  <2>7. ASSUME NEW f \in folded', now < f.at + TTL
        PROVE  EntryOf(f) \in (IF f.wild THEN wild' ELSE exact')
    <3>1. EntryOf(f) \in (IF f.wild THEN wild ELSE exact)
      BY <1>1, <2>7 DEF Kept, Mirrors
    <3> QED
      BY <1>1, <2>1, <2>2, <2>3, <3>1, Fields, SMTT(30), Zenon
  <2> QED
    BY <1>1, <2>4, <2>5, <2>6, <2>7 DEF Kept, Mirrors
<1>3. CASE ~m.wild
  <2>1. exact' = exact \ Replaced(exact, m) /\ wild' = wild
    BY <1>3 DEF Remove
  <2>2. \A l \in exact : l \in Replaced(exact, m) <=> l.port = m.port /\ l.ip = m.ip
    BY <1>3 DEF Replaced
  <2>3. \A f \in folded : f \in folded' <=> ~(~f.wild /\ f.port = m.port /\ f.ip = m.ip)
    BY <1>3 DEF Forgotten, Overrules
  <2>4. Keyed' /\ exact' \subseteq Entry /\ wild' \subseteq Entry
    BY <2>1 DEF Kept, Keyed
  <2>5. \A l \in wild' : \E f \in folded' : f.wild /\ l = EntryOf(f)
    BY <2>1, <2>3, SMTT(30), Zenon DEF Kept, Mirrors
  <2>6. \A l \in exact' : \E f \in folded' : ~f.wild /\ l = EntryOf(f)
    <3> SUFFICES ASSUME NEW l \in exact'
                 PROVE  \E f \in folded' : ~f.wild /\ l = EntryOf(f)
      OBVIOUS
    <3>1. PICK f \in folded : ~f.wild /\ l = EntryOf(f)
      BY <2>1 DEF Kept, Mirrors
    <3> QED
      BY <2>1, <2>2, <2>3, <3>1, Fields
  <2>7. ASSUME NEW f \in folded', now < f.at + TTL
        PROVE  EntryOf(f) \in (IF f.wild THEN wild' ELSE exact')
    <3>1. EntryOf(f) \in (IF f.wild THEN wild ELSE exact)
      BY <1>1, <2>7 DEF Kept, Mirrors
    <3> QED
      BY <1>1, <2>1, <2>2, <2>3, <3>1, Fields, SMTT(30), Zenon
  <2> QED
    BY <1>1, <2>4, <2>5, <2>6, <2>7 DEF Kept, Mirrors
<1> QED
  BY <1>1, <1>2, <1>3

(* Only entries whose bind has expired are reclaimed.                      *)
LEMMA ReclaimStep ==
  ASSUME Kept, Reclaim, UNCHANGED <<now, folded>>, now \in Nat
  PROVE  Kept'
<1>1. /\ exact' = exact \ Expired(exact) /\ wild' = wild \ Expired(wild)
      /\ now' = now /\ folded' = folded
  BY DEF Reclaim
<1>2. \A T : Expired(T) = {l \in T : ~(l.expires > now)}
  BY DEF Expired, Live
<1>3. Keyed' /\ exact' \subseteq Entry /\ wild' \subseteq Entry
  BY <1>1 DEF Kept, Keyed
<1>4. ASSUME NEW f \in folded, now < f.at + TTL
      PROVE  EntryOf(f) \in (IF f.wild THEN wild' ELSE exact')
  <2>1. EntryOf(f) \in (IF f.wild THEN wild ELSE exact)
    BY <1>4 DEF Kept, Mirrors
  <2>2. f.at \in Nat /\ TTL \in Nat
    BY RegistryConstants DEF Kept, FoldSet
  <2>3. EntryOf(f).expires > now
    BY <1>4, <2>2, Fields, SMTT(30), Zenon
  <2> QED
    BY <1>1, <1>2, <2>1, <2>3
<1> QED
  BY <1>1, <1>3, <1>4 DEF Kept, Mirrors

(* Time only lets binds expire.                                            *)
LEMMA TickStep ==
  ASSUME Kept, Tick, now \in Nat
  PROVE  Kept' /\ now' \in Nat
<1>1. now' = now + 1 /\ UNCHANGED <<exact, wild, folded>>
  BY DEF Tick, registry
<1>2. ASSUME NEW f \in folded, now' < f.at + TTL
      PROVE  now < f.at + TTL
  <2>1. f.at \in Nat /\ TTL \in Nat
    BY RegistryConstants DEF Kept, FoldSet
  <2> QED
    BY <1>1, <1>2, <2>1
<1> QED
  BY <1>1, <1>2 DEF Kept, Mirrors, Keyed

-----------------------------------------------------------------------------
(* The inductive invariant.                                                *)

Sent ==
  /\ binds \in [Pods -> SUBSET Binds] /\ \A p \in Pods : IsFiniteSet(binds[p])
  /\ wire \in [Pods -> Seq(MsgSet)]

LEMMA Parts == RInv <=> ITypeOK /\ Sent /\ Kept /\ now \in Nat
BY DEF RInv, RTypeOK, Sent, Kept

LEMMA IndexesKept ==
  ASSUME ITypeOK, UNCHANGED ivars
  PROVE  ITypeOK'
BY DEF ITypeOK, Given, ivars, podIndex, svcIndex

LEMMA RegistryKept ==
  ASSUME Kept, UNCHANGED <<exact, wild, folded, now>>
  PROVE  Kept'
BY DEF Kept, Keyed, Mirrors

LEMMA MessageTyped ==
  ASSUME NEW kind \in {"advertise", "withdraw"}, NEW p \in Pods, NEW ip \in IPs, NEW b \in Binds
  PROVE  Message(kind, p, ip, b) \in MsgSet
<1>1. b.port \in Ports /\ b.wild \in BOOLEAN
  BY RegistryConstants DEF Ports
<1>2. Identity[p] \in Range(Identity)
  BY RegistryConstants DEF Range
<1> QED
  BY <1>1, <1>2 DEF Message, MsgSet

LEMMA AdvertiseStep ==
  ASSUME Sent, NEW p \in Pods, Advertise(p)
  PROVE  Sent'
<1>1. PICK b \in Binds, ip \in IPsOf(p) :
        /\ binds' = [binds EXCEPT ![p] = @ \cup {b}]
        /\ wire' = [wire EXCEPT ![p] = Append(@, Message("advertise", p, ip, b))]
  BY Zenon DEF Advertise
<1>2. Message("advertise", p, ip, b) \in MsgSet
  BY MessageTyped DEF IPsOf
<1>3. wire' \in [Pods -> Seq(MsgSet)]
  <2>1. Append(wire[p], Message("advertise", p, ip, b)) \in Seq(MsgSet)
    BY <1>2 DEF Sent
  <2> QED
    BY <1>1, <2>1 DEF Sent
<1>4. IsFiniteSet(binds[p] \cup {b})
  BY FS_AddElement, Zenon DEF Sent
<1>5. binds' \in [Pods -> SUBSET Binds] /\ \A q \in Pods : IsFiniteSet(binds'[q])
  BY <1>1, <1>4 DEF Sent
<1> QED
  BY <1>3, <1>5 DEF Sent

Withdrawals(p, ip, B) == {Message("withdraw", p, ip, b) : b \in B}

LEMMA WithdrawalsFinite ==
  ASSUME NEW B, IsFiniteSet(B), NEW p, NEW ip
  PROVE  IsFiniteSet(Withdrawals(p, ip, B))
<1> DEFINE T == Withdrawals(p, ip, B)
           f == [b \in B |-> Message("withdraw", p, ip, b)]
<1>1. f \in Surjection(B, T)
  BY DEF Surjection, Withdrawals
<1> HIDE DEF T, f
<1>2. IsFiniteSet(T)
  BY <1>1, FS_Surjection
<1> QED
  BY <1>2 DEF T

(* A finite set can be listed.                                             *)
LEMMA ListedOnce ==
  ASSUME NEW S, IsFiniteSet(S)
  PROVE  /\ Cardinality(S) \in Nat /\ Listed(S) \in [1..Cardinality(S) -> S]
         /\ Range(Listed(S)) = S
<1>1. PICK n \in Nat : ExistsBijection(1..n, S)
  BY FS_NatBijection
<1>2. Cardinality(S) = n
  BY <1>1, FS_CountingElements
<1>3. PICK f \in Bijection(1..n, S) : TRUE
  BY <1>1 DEF ExistsBijection
<1>4. f \in [1..n -> S] /\ Range(f) = S
  BY <1>3 DEF Bijection, Surjection, Range
<1>5. \E g \in [1..Cardinality(S) -> S] : Range(g) = S
  BY <1>2, <1>4
<1> QED
  BY <1>2, <1>5 DEF Listed

LEMMA PodStopStep ==
  ASSUME Sent, NEW p \in Pods, NEW ip \in IPs,
         wire' = [wire EXCEPT ![p] = @ \o Listed({Message("withdraw", p, ip, b) : b \in binds[p]})],
         binds' = [binds EXCEPT ![p] = {}]
  PROVE  Sent'
<1> DEFINE T == {Message("withdraw", p, ip, b) : b \in binds[p]}
<1>1. T \subseteq MsgSet
  <2>1. binds[p] \subseteq Binds
    BY DEF Sent
  <2> QED
    BY <2>1, MessageTyped
<1>2. IsFiniteSet(T)
  <2>1. IsFiniteSet(binds[p])
    BY Zenon DEF Sent
  <2>2. IsFiniteSet(Withdrawals(p, ip, binds[p]))
    BY <2>1, WithdrawalsFinite, Zenon
  <2> QED
    BY <2>2, Zenon DEF Withdrawals
<1>3. wire' = [wire EXCEPT ![p] = @ \o Listed(T)]
  OBVIOUS
<1> HIDE DEF T
<1>4. Cardinality(T) \in Nat /\ Listed(T) \in [1..Cardinality(T) -> T]
  BY <1>2, ListedOnce
<1>5. Listed(T) \in Seq(MsgSet)
  BY <1>1, <1>4
<1>6. wire[p] \in Seq(MsgSet)
  BY DEF Sent
<1>7. wire[p] \o Listed(T) \in Seq(MsgSet)
  BY <1>5, <1>6, ConcatProperties
<1>8. wire' \in [Pods -> Seq(MsgSet)]
  BY <1>3, <1>7, Zenon DEF Sent
<1>9. binds' \in [Pods -> SUBSET Binds] /\ \A q \in Pods : IsFiniteSet(binds'[q])
  BY FS_EmptySet DEF Sent
<1> QED
  BY <1>8, <1>9 DEF Sent

LEMMA PodSteps ==
  ASSUME RInv, NEW p \in Pods,
         \/ FoldAdvertise(p) \/ FoldWithdraw(p) \/ PodStart(p)
         \/ Advertise(p) \/ PodStop(p) \/ Lose(p)
  PROVE  RInv'
<1>1. ITypeOK /\ Sent /\ Kept /\ now \in Nat
  BY Parts
<1>2. CASE FoldAdvertise(p)
  <2>1. /\ wire[p] # <<>> /\ wire' = [wire EXCEPT ![p] = Tail(@)]
        /\ UNCHANGED ivars /\ UNCHANGED <<binds, now>>
    BY <1>2, SMTT(30), Zenon DEF FoldAdvertise
  <2>2. PICK m : /\ m = Head(wire[p]) /\ Observe(m)
                 /\ folded' = Forgotten(m) \cup
                      {[pod |-> m.pod, ip |-> m.ip, port |-> m.port, wild |-> m.wild, at |-> now]}
    BY <1>2 DEF FoldAdvertise
  <2>3. m \in MsgSet /\ wire' \in [Pods -> Seq(MsgSet)]
    BY <2>1, <2>2, NextMessage, Zenon DEF RInv
  <2>4. Kept'
    BY <1>1, <2>1, <2>2, <2>3, ObserveStep, SMTT(30), Zenon
  <2>5. ITypeOK'
    BY <1>1, <2>1, IndexesKept
  <2>6. Sent' /\ now' \in Nat
    BY <1>1, <2>1, <2>3, SMTT(30), Zenon DEF Sent
  <2> QED
    BY <2>4, <2>5, <2>6, SMTT(30), Zenon DEF RInv, RTypeOK, Sent, Kept
<1>3. CASE FoldWithdraw(p)
  <2>1. /\ wire[p] # <<>> /\ wire' = [wire EXCEPT ![p] = Tail(@)]
        /\ UNCHANGED ivars /\ UNCHANGED <<binds, now>>
    BY <1>3 DEF FoldWithdraw
  <2>2. PICK m : m = Head(wire[p]) /\ Remove(m) /\ folded' = Forgotten(m)
    BY <1>3 DEF FoldWithdraw
  <2>3. m \in MsgSet /\ wire' \in [Pods -> Seq(MsgSet)]
    BY <2>1, <2>2, NextMessage, Zenon DEF RInv
  <2>4. Kept'
    BY <1>1, <2>1, <2>2, <2>3, RemoveStep, SMTT(30), Zenon
  <2>5. ITypeOK'
    BY <1>1, <2>1, IndexesKept
  <2>6. Sent' /\ now' \in Nat
    BY <1>1, <2>1, <2>3 DEF Sent
  <2> QED
    BY <2>4, <2>5, <2>6 DEF RInv, RTypeOK, Sent, Kept
<1>4. CASE PodStart(p)
  <2>1. Acquire(p) /\ UNCHANGED <<binds, wire, exact, wild, now, folded>>
    BY <1>4 DEF PodStart, registry
  <2>2. ITypeOK'
    BY <1>1, <2>1, AcquireStep
  <2>3. Kept'
    BY <1>1, <2>1, RegistryKept, SMTT(30), Zenon
  <2>4. Sent' /\ now' \in Nat
    BY <1>1, <2>1, SMTT(30), Zenon DEF Sent
  <2> QED
    BY <2>2, <2>3, <2>4, SMTT(30), Zenon DEF RInv, RTypeOK, Sent, Kept
<1>5. CASE Advertise(p)
  <2>1. UNCHANGED ivars /\ UNCHANGED <<exact, wild, now, folded>>
    BY <1>5 DEF Advertise, registry
  <2>2. ITypeOK'
    BY <1>1, <2>1, IndexesKept
  <2>3. Kept'
    BY <1>1, <2>1, RegistryKept
  <2>4. Sent' /\ now' \in Nat
    BY <1>1, <1>5, <2>1, AdvertiseStep, SMTT(30), Zenon
  <2> QED
    BY <2>2, <2>3, <2>4 DEF RInv, RTypeOK, Sent, Kept
<1>6. CASE PodStop(p)
  <2>1. PICK ip \in IPsOf(p) :
          /\ Release(p, ip)
          /\ wire' = [wire EXCEPT ![p] = @ \o
               Listed({Message("withdraw", p, ip, b) : b \in binds[p]})]
    BY <1>6, Zenon DEF PodStop
  <2>2. binds' = [binds EXCEPT ![p] = {}] /\ UNCHANGED <<exact, wild, now, folded>>
    BY <1>6 DEF PodStop, registry
  <2>3. ip \in IPs
    BY DEF IPsOf
  <2>4. ITypeOK'
    BY <1>1, <2>1, <2>3, ReleaseStep
  <2>5. Kept'
    BY <1>1, <2>2, RegistryKept
  <2>6. Sent' /\ now' \in Nat
    BY <1>1, <2>1, <2>2, <2>3, PodStopStep, Zenon
  <2> QED
    BY <2>4, <2>5, <2>6 DEF RInv, RTypeOK, Sent, Kept
<1>7. CASE Lose(p)
  <2>1. /\ wire[p] # <<>> /\ wire' = [wire EXCEPT ![p] = Tail(@)]
        /\ UNCHANGED ivars /\ UNCHANGED <<binds, exact, wild, now, folded>>
    BY <1>7 DEF Lose, registry
  <2>2. wire' \in [Pods -> Seq(MsgSet)]
    BY <2>1, NextMessage, Zenon DEF RInv
  <2>3. Kept'
    BY <1>1, <2>1, RegistryKept, SMTT(30), Zenon
  <2>4. ITypeOK'
    BY <1>1, <2>1, IndexesKept, SMTT(30), Zenon
  <2>5. Sent' /\ now' \in Nat
    BY <1>1, <2>1, <2>2 DEF Sent
  <2> QED
    BY <2>3, <2>4, <2>5 DEF RInv, RTypeOK, Sent, Kept
<1> QED
  BY <1>2, <1>3, <1>4, <1>5, <1>6, <1>7, SMTT(30), Zenon

LEMMA RStep == RInv /\ [Next]_vars => RInv'
<1> SUFFICES ASSUME RInv, [Next]_vars
             PROVE  RInv'
  OBVIOUS
<1>1. ITypeOK /\ Sent /\ Kept /\ now \in Nat
  BY Parts
<1>2. CASE Sweep \/ Size
  <2>1. Reclaim /\ UNCHANGED ivars /\ UNCHANGED <<binds, wire, now, folded>>
    BY <1>2 DEF Sweep, Size
  <2>2. ITypeOK' /\ Kept'
    BY <1>1, <2>1, IndexesKept, ReclaimStep, SMTT(30), Zenon
  <2>3. Sent' /\ now' \in Nat
    BY <1>1, <2>1, SMTT(30), Zenon DEF Sent
  <2> QED
    BY <2>2, <2>3 DEF RInv, RTypeOK, Sent, Kept
<1>3. CASE Watch
  <2>1. UNCHANGED <<binds, wire, exact, wild, now, folded>>
    BY <1>3 DEF Watch, registry
  <2>2. ITypeOK'
    BY <1>1, <1>3, ApplyServicesStep, ApplyPodsStep, ApplySlicesStep, SetSlicesStep, SMTT(30), Zenon
       DEF Watch, Watches
  <2>3. Kept'
    BY <1>1, <2>1, RegistryKept, SMTT(30), Zenon
  <2>4. Sent' /\ now' \in Nat
    BY <1>1, <2>1, SMTT(30), Zenon DEF Sent
  <2> QED
    BY <2>2, <2>3, <2>4, SMTT(30), Zenon DEF RInv, RTypeOK, Sent, Kept
<1>4. CASE Tick
  <2>1. UNCHANGED ivars /\ UNCHANGED <<binds, wire>>
    BY <1>4 DEF Tick
  <2>2. ITypeOK' /\ Kept' /\ now' \in Nat
    BY <1>1, <1>4, <2>1, IndexesKept, TickStep, SMTT(30), Zenon
  <2>3. Sent'
    BY <1>1, <2>1, SMTT(30), Zenon DEF Sent
  <2> QED
    BY <2>2, <2>3 DEF RInv, RTypeOK, Sent, Kept
<1>5. CASE UNCHANGED vars
  <2>1. UNCHANGED ivars /\ UNCHANGED <<binds, wire, exact, wild, now, folded>>
    BY <1>5 DEF vars, registry
  <2>2. ITypeOK' /\ Kept'
    BY <1>1, <2>1, IndexesKept, RegistryKept, SMTT(30), Zenon
  <2>3. Sent' /\ now' \in Nat
    BY <1>1, <2>1 DEF Sent
  <2> QED
    BY <2>2, <2>3 DEF RInv, RTypeOK, Sent, Kept
<1> QED
  BY <1>2, <1>3, <1>4, <1>5, PodSteps, SMTT(30), Zenon DEF Next

LEMMA RStart == Init => RInv
<1> SUFFICES ASSUME Init
             PROVE  RInv
  BY SMTT(30), Zenon
<1>1. ITypeOK
  <2>1. owner \in [IPs -> Pods \cup {NoPod}]
    BY IndexConstants DEF Init, IInit
  <2>2. \A ip \in IPs : Given(ip) = {}
    BY DEF Init, IInit, Given
  <2>3. ports = [ip \in IPs |-> Given(ip)]
    BY <2>2 DEF Init, IInit
  <2> QED
    BY <2>1, <2>3, SMTT(30), Zenon DEF Init, IInit, ITypeOK, IsGroups
<1>2. Sent
  BY FS_EmptySet DEF Init, Sent
<1>3. Kept /\ now \in Nat
  BY DEF Init, Kept, Keyed, Mirrors
<1> QED
  BY <1>1, <1>2, <1>3, Parts, SMTT(30), Zenon

(* Every reachable state satisfies the inductive invariant: the registry   *)
(* holds exactly the binds that the agents advertised and did not take     *)
(* back, save for expired ones, and the indexes are built from what the    *)
(* watches hold.                                                           *)
THEOREM RInvariance == Spec => []RInv
BY RStart, RStep, PTL DEF Spec

-----------------------------------------------------------------------------
(* Join, path by path.                                                     *)

Direct(a)   == Hit("direct", LiveExact(a))
ViaSlice(a) ==
  IF HasIndex THEN Hit("endpointslice", UNION {Bound(b) : b \in ResolvePodAddr(a)}) ELSE {}
ViaVip(a)   == IF ResolvesVip THEN Hit("service-vip", ResolveBackends(ResolveVIP(a))) ELSE {}
ViaWild(a)  == Hit("wildcard", LiveWild(a))

(* The first path that answers is the answer.                              *)
LEMMA FirstPath ==
  ASSUME NEW a
  PROVE  /\ Join(a) \subseteq Direct(a) \cup ViaSlice(a) \cup ViaVip(a) \cup ViaWild(a)
         /\ Direct(a) # {} => Join(a) = Direct(a)
         /\ Join(a) = {} => ViaWild(a) = {}
<1>1. Join(a) = IF Direct(a) # {} THEN Direct(a)
                ELSE IF HasIndex /\ ViaSlice(a) # {} THEN ViaSlice(a)
                ELSE IF ResolvesVip /\ ViaVip(a) # {} THEN ViaVip(a)
                ELSE ViaWild(a)
  BY Zenon DEF Join, Direct, ViaSlice, ViaVip, ViaWild
<1> QED
  BY <1>1, SMTT(30), Zenon

(* The addresses whose listeners a connect to a may be attributed to.      *)
Reached(a) == {a} \cup (IF HasIndex THEN ResolvePodAddr(a) \cup ResolveVIP(a) ELSE {})

LEMMA HitEntry ==
  ASSUME NEW a, NEW h \in Join(a)
  PROVE  \E b \in Reached(a) : \E l \in LiveExact(b) \cup LiveWild(b) :
           h.pod = l.pod /\ h.port = l.port
<1>1. \A b : Bound(b) \subseteq LiveExact(b) \cup LiveWild(b)
  BY SMTT(30), Zenon DEF Bound
<1>2. \A how, L : \A g \in Hit(how, L) : \E l \in L : g.pod = l.pod /\ g.port = l.port
  BY DEF Hit
<1>3. h \in Direct(a) \/ h \in ViaSlice(a) \/ h \in ViaVip(a) \/ h \in ViaWild(a)
  BY FirstPath, SMTT(30), Zenon
<1>4. CASE h \in Direct(a) \/ h \in ViaWild(a)
  BY <1>2, <1>4, SMTT(30), Zenon DEF Direct, ViaWild, Reached
<1>5. CASE h \in ViaSlice(a)
  <2>1. HasIndex /\ h \in Hit("endpointslice", UNION {Bound(b) : b \in ResolvePodAddr(a)})
    BY <1>5, SMTT(30), Zenon DEF ViaSlice
  <2>2. PICK l \in UNION {Bound(b) : b \in ResolvePodAddr(a)} : h.pod = l.pod /\ h.port = l.port
    BY <1>2, <2>1
  <2>3. PICK b \in ResolvePodAddr(a) : l \in Bound(b)
    BY <2>2, SMTT(30), Zenon
  <2> QED
    BY <1>1, <2>1, <2>2, <2>3, SMTT(30), Zenon DEF Reached
<1>6. CASE h \in ViaVip(a)
  <2>1. HasIndex /\ h \in Hit("service-vip", ResolveBackends(ResolveVIP(a)))
    BY <1>6, RegistryConstants, SMTT(30), Zenon DEF ViaVip
  <2>2. PICK l \in ResolveBackends(ResolveVIP(a)) : h.pod = l.pod /\ h.port = l.port
    BY <1>2, <2>1, SMTT(30), Zenon
  <2>3. \A B : ResolveBackends(B) \subseteq UNION {Bound(b) : b \in B}
    BY DEF ResolveBackends
  <2>4. PICK b \in ResolveVIP(a) : l \in Bound(b)
    BY <2>2, <2>3, SMTT(30), Zenon
  <2> QED
    BY <1>1, <2>1, <2>2, <2>4, SMTT(30), Zenon DEF Reached
<1> QED
  BY <1>3, <1>4, <1>5, <1>6, SMTT(30), Zenon

(* The live wildcard entries on a port.                                    *)
Listening(port) == {l \in wild : l.port = port /\ Live(l)}

(* With an index, the entry is the pod's own, or the port's only one.      *)
LEMMA WildEntry ==
  ASSUME NEW b, NEW l \in LiveWild(b)
  PROVE  /\ l \in wild /\ l.port = b.port /\ Live(l)
         /\ HasIndex =>
              /\ PodForIP(b.ip) # NoPod
              /\ \/ l.pod = PodForIP(b.ip)
                 \/ l.pod.name = PodForIP(b.ip).name /\ Listening(b.port) = {l}
<1>1. \A port : \A x \in SoleLiveWild(port) : x \in Listening(port) /\ Listening(port) = {x}
  BY SMTT(30), Zenon DEF SoleLiveWild, Listening
<1>2. \A port, p : \A x \in SoleLiveWildForPod(port, p) :
        x \in Listening(port) /\ Listening(port) = {x} /\ x.pod.name = p.name
  BY <1>1 DEF SoleLiveWildForPod
<1>3. \A port, p : \A x \in LiveWildPod(port, p) : x \in Listening(port) /\ x.pod = p
  BY SMTT(30), Zenon DEF LiveWildPod, Listening
<1>4. \A port : \A x \in Listening(port) : x \in wild /\ x.port = port /\ Live(x)
  BY DEF Listening
<1>5. CASE HasIndex
  <2>1. /\ PodForIP(b.ip) # NoPod
        /\ \/ l \in LiveWildPod(b.port, PodForIP(b.ip))
           \/ l \in SoleLiveWildForPod(b.port, PodForIP(b.ip))
    BY <1>5, SMTT(30), Zenon DEF LiveWild
  <2> QED
    BY <1>2, <1>3, <1>4, <2>1, SMTT(30), Zenon
<1>6. CASE ~HasIndex
  <2>1. l \in SoleLiveWild(b.port)
    BY <1>6, SMTT(30), Zenon DEF LiveWild
  <2> QED
    BY <1>1, <1>4, <1>6, <2>1, SMTT(30), Zenon
<1> QED
  BY <1>5, <1>6

LEMMA ExactEntry ==
  ASSUME NEW b, NEW l \in LiveExact(b)
  PROVE  /\ l \in exact /\ l.ip = b.ip /\ l.port = b.port /\ Live(l)
         /\ HasIndex => l.pod = Host \/ PodForIP(b.ip) \in {NoPod, l.pod}
BY SMTT(30), Zenon DEF LiveExact, StillOwns

LEMMA CurrentHits == RInv => HitsAreCurrent
<1> SUFFICES ASSUME RInv, NEW a \in Addr, NEW h \in Join(a)
             PROVE  \E f \in folded : f.pod = h.pod /\ f.port = h.port /\ now < f.at + TTL
  BY SMTT(30), Zenon DEF HitsAreCurrent
<1>1. PICK b \in Reached(a) : \E l \in LiveExact(b) \cup LiveWild(b) :
        h.pod = l.pod /\ h.port = l.port
  BY HitEntry, SMTT(30), Zenon
<1>2. PICK l \in LiveExact(b) \cup LiveWild(b) : h.pod = l.pod /\ h.port = l.port
  BY <1>1, SMTT(30), Zenon
<1>3. (l \in exact \/ l \in wild) /\ Live(l)
  BY <1>2, ExactEntry, WildEntry, SMTT(30), Zenon
<1>4. PICK f \in folded : l = EntryOf(f)
  BY <1>3, SMTT(30), Zenon DEF RInv, Mirrors
<1>5. f.at \in Nat /\ TTL \in Nat /\ now \in Nat
  BY RegistryConstants, SMTT(30), Zenon DEF RInv, RTypeOK, FoldSet
<1>6. f.at + TTL > now
  BY <1>3, <1>4, Fields, SMTT(30), Zenon DEF Live
<1> QED
  BY <1>2, <1>4, <1>5, <1>6, Fields, SMTT(30), Zenon

(* A connect resolves only to a listener that was advertised less than a   *)
(* TTL ago and that its pod has not withdrawn since, on every path of      *)
(* Join, whatever was lost or delayed and however stale the indexes are.   *)
THEOREM NoRetiredHit == Spec => []HitsAreCurrent
BY RInvariance, CurrentHits, PTL

(* From a pod IP only addresses of that IP are reached, and another port   *)
(* only where the slices give the IP that one.                             *)
LEMMA PodAddress ==
  ASSUME RInv, NEW a, a.ip \in IPs, NEW b \in Reached(a)
  PROVE  b.ip = a.ip /\ (b.port = a.port \/ Given(a.ip) = {b.port})
<1>1. ports[a.ip] = Given(a.ip)
  BY DEF RInv, ITypeOK
<1>2. ResolveVIP(a) = {}
  <2>1. \A e \in services : e.vip # a.ip
    <3>1. \A e \in services : e.vip \in Vips
      BY Zenon DEF RInv, ITypeOK, ClusterIPsOf, Vips
    <3> QED
      BY <3>1, IndexConstants, SMTT(30), Zenon
  <2> QED
    BY <2>1, SMTT(30), Zenon DEF ResolveVIP
<1>3. ASSUME NEW c \in ResolvePodAddr(a)
      PROVE  c = a \/ \E q : c = [ip |-> a.ip, port |-> q] /\ Given(a.ip) = {q}
  BY <1>1, <1>3 DEF ResolvePodAddr
<1>4. b = a \/ b \in ResolvePodAddr(a)
  BY <1>2 DEF Reached
<1> QED
  BY <1>3, <1>4, SMTT(30), Zenon

(* A connect to a pod IP is attributed to a listener on another port only  *)
(* when the slices give the IP that one target port.                       *)
THEOREM PortNotGuessed == Spec => []FoldsToSolePort
<1>1. RInv => FoldsToSolePort
  <2> SUFFICES ASSUME RInv, NEW a \in Addr, a.ip \in IPs, NEW h \in Join(a)
               PROVE  h.port = a.port \/ Given(a.ip) = {h.port}
    BY DEF FoldsToSolePort, Given
  <2>1. PICK b \in Reached(a) : \E l \in LiveExact(b) \cup LiveWild(b) :
          h.pod = l.pod /\ h.port = l.port
    BY HitEntry, SMTT(30), Zenon
  <2>2. h.port = b.port
    BY <2>1, ExactEntry, WildEntry, SMTT(30), Zenon
  <2> QED
    BY <2>2, PodAddress, SMTT(30), Zenon
<1> QED
  BY <1>1, RInvariance, PTL

(* An exact listener that was advertised less than a TTL ago, and whose    *)
(* address no message has named since, answers a connect to it unless the  *)
(* pod index places the IP on another pod.                                 *)
THEOREM ExactAnswers == Spec => []ExactResolvable
<1>1. RInv => ExactResolvable
  <2> SUFFICES ASSUME RInv, NEW f \in folded, ~f.wild, Current(f),
                      PodForIP(f.ip) \in {NoPod, f.pod}
               PROVE  \E h \in Join([ip |-> f.ip, port |-> f.port]) :
                        h.how = "direct" /\ h.pod = f.pod
    BY DEF ExactResolvable
  <2> DEFINE a == [ip |-> f.ip, port |-> f.port]
             l == EntryOf(f)
             h == [how |-> "direct", pod |-> l.pod, port |-> l.port]
  <2>1. l \in exact
    BY DEF RInv, Mirrors, Current
  <2>2. f.at \in Nat /\ TTL \in Nat /\ now \in Nat
    BY RegistryConstants, SMTT(30), Zenon DEF RInv, RTypeOK, FoldSet
  <2>3. Live(l)
    BY <2>2, Fields, SMTT(30), Zenon DEF Live, Current
  <2>4. l \in LiveExact(a)
    BY <2>1, <2>3, Fields, SMTT(30), Zenon DEF LiveExact, StillOwns
  <2>5. h \in Direct(a)
    BY <2>4, SMTT(30), Zenon DEF Direct, Hit
  <2>6. h \in Join(a)
    BY <2>5, FirstPath, SMTT(30), Zenon
  <2>7. h.how = "direct" /\ h.pod = f.pod
    BY Fields
  <2> QED
    BY <2>6, <2>7, SMTT(30), Zenon
<1> QED
  BY <1>1, RInvariance, PTL

-----------------------------------------------------------------------------
(* Which pod a hit names.                                                  *)

LEMMA Clock ==
  ASSUME RInv, NEW f \in folded
  PROVE  Live(EntryOf(f)) <=> Current(f)
<1>1. f.at \in Nat /\ TTL \in Nat /\ now \in Nat
  BY RegistryConstants, SMTT(30), Zenon DEF RInv, RTypeOK, FoldSet
<1> QED
  BY <1>1, Fields, SMTT(30), Zenon DEF Live, Current

(* A current wildcard bind has a live entry.                               *)
LEMMA HasEntry ==
  ASSUME RInv, NEW f \in folded, f.wild, Current(f)
  PROVE  EntryOf(f) \in Listening(f.port)
<1>1. EntryOf(f) \in wild
  BY DEF RInv, Mirrors, Current
<1> QED
  BY <1>1, Clock, Fields, Zenon DEF Listening

(* The live entries on a port are those of the current wildcard binds.     *)
LEMMA ListeningPods ==
  ASSUME RInv, NEW port
  PROVE  Wildcards(port) = {l.pod : l \in Listening(port)}
<1>1. ASSUME NEW f \in folded, f.wild, f.port = port, Current(f)
      PROVE  \E l \in Listening(port) : l.pod = f.pod
  BY <1>1, HasEntry, Fields, Zenon
<1>2. ASSUME NEW l \in Listening(port)
      PROVE  \E f \in folded : f.wild /\ f.port = port /\ Current(f) /\ f.pod = l.pod
  <2>1. l \in wild /\ l.port = port /\ Live(l)
    BY <1>2 DEF Listening
  <2>2. PICK f \in folded : f.wild /\ l = EntryOf(f)
    BY <2>1 DEF RInv, Mirrors
  <2> QED
    BY <2>1, <2>2, Clock, Fields, Zenon
<1> QED
  BY <1>1, <1>2, SMTT(30), Zenon DEF Wildcards

(* A listener that answers for an address of a placed IP is of that IP's   *)
(* pod or of the host, or stands in for the pod.                           *)
LEMMA ListenerOfPod ==
  ASSUME RInv, HasIndex, NEW b, PodForIP(b.ip) # NoPod,
         NEW l \in LiveExact(b) \cup LiveWild(b),
         NEW h, h.pod = l.pod, h.port = l.port
  PROVE  h.pod = PodForIP(b.ip) \/ h.pod = Host \/ StandsIn(h, PodForIP(b.ip))
<1>1. CASE l \in LiveExact(b)
  BY <1>1, ExactEntry, SMTT(30), Zenon
<1>2. CASE l \in LiveWild(b)
  <2>1. /\ l.port = b.port
        /\ \/ l.pod = PodForIP(b.ip)
           \/ l.pod.name = PodForIP(b.ip).name /\ Listening(b.port) = {l}
    BY <1>2, WildEntry, SMTT(30), Zenon
  <2>2. ASSUME Listening(b.port) = {l}
        PROVE  Wildcards(b.port) = {l.pod}
    BY <2>2, ListeningPods, SMTT(30), Zenon
  <2> QED
    BY <2>1, <2>2, Zenon DEF StandsIn
<1> QED
  BY <1>1, <1>2, SMTT(30), Zenon

LEMMA Attributed ==
  ASSUME RInv, NEW a, a.ip \in IPs, PodForIP(a.ip) # NoPod, NEW h \in Join(a)
  PROVE  h.pod = PodForIP(a.ip) \/ h.pod = Host \/ StandsIn(h, PodForIP(a.ip))
<1>1. HasIndex
  BY IndexConstants, Zenon DEF PodForIP, RInv, ITypeOK
<1>2. PICK b \in Reached(a) : \E l \in LiveExact(b) \cup LiveWild(b) :
        h.pod = l.pod /\ h.port = l.port
  BY HitEntry, SMTT(30), Zenon
<1>3. b.ip = a.ip
  BY PodAddress
<1> QED
  BY <1>1, <1>2, <1>3, ListenerOfPod, SMTT(30), Zenon

(* A connect to a pod IP that the index places on its owner is attributed  *)
(* to the owner or to a host process; only the sole current wildcard bind  *)
(* on the port, of a pod with the owner's name, may stand in.              *)
THEOREM Attribution == Spec => []OwnerAttribution
<1>1. RInv => OwnerAttribution
  BY Attributed, SMTT(30), Zenon DEF OwnerAttribution
<1> QED
  BY <1>1, RInvariance, PTL

(* Where a wildcard entry is found, Join answers, too.                     *)
LEMMA WildAnswers ==
  ASSUME NEW a, LiveWild(a) # {}
  PROVE  \E h \in Join(a) : TRUE
<1>1. ViaWild(a) # {}
  BY Zenon DEF ViaWild, Hit
<1> QED
  BY <1>1, FirstPath, SMTT(30), Zenon

(* A wildcard listener that was advertised less than a TTL ago and not     *)
(* withdrawn answers a connect to its pod's placed IP.  A host process's   *)
(* exact entry comes before it, or a pod that stands in on a folded port.  *)
THEOREM WildcardAnswers == Spec => []WildcardResolvable
<1>1. RInv => WildcardResolvable
  <2> SUFFICES ASSUME RInv, NEW f \in folded, f.wild, Current(f), Placed(f)
               PROVE  \E h \in Join([ip |-> f.ip, port |-> f.port]) :
                        h.pod \in {f.pod, Host} \/ (h.port # f.port /\ StandsIn(h, f.pod))
    BY DEF WildcardResolvable
  <2> DEFINE a == [ip |-> f.ip, port |-> f.port]
             l == EntryOf(f)
  <2>1. /\ a.ip = f.ip /\ a.port = f.port /\ f.ip \in IPs /\ f.pod \in Range(Identity)
        /\ HasIndex /\ PodForIP(f.ip) = f.pod
    BY SMTT(30), Zenon DEF RInv, RTypeOK, FoldSet, Placed
  <2>2. f.pod # NoPod
    BY <2>1, RegistryConstants, Zenon
  <2>3. l \in Listening(f.port) /\ l.pod = f.pod
    BY HasEntry, Fields, Zenon
  <2> HIDE DEF l, a
  <2>4. l \in LiveWildPod(f.port, f.pod)
    BY <2>3, SMTT(30), Zenon DEF LiveWildPod, Listening
  <2>5. LiveWild(a) # {}
    BY <2>1, <2>2, <2>4 DEF LiveWild
  <2>6. PICK h \in Join(a) : TRUE
    BY <2>5, WildAnswers, SMTT(30), Zenon
  <2>7. h.pod = f.pod \/ h.pod = Host \/ StandsIn(h, f.pod)
    BY <2>1, <2>2, Attributed, SMTT(30), Zenon
  <2>8. ASSUME StandsIn(h, f.pod), h.port = f.port
        PROVE  h.pod = f.pod
    <3>1. Wildcards(f.port) = {h.pod}
      BY <2>8, Zenon DEF StandsIn
    <3>2. f.pod \in Wildcards(f.port)
      BY <2>3, ListeningPods, SMTT(30), Zenon
    <3> QED
      BY <3>1, <3>2, Zenon
  <2>9. h.pod \in {f.pod, Host} \/ (h.port # f.port /\ StandsIn(h, f.pod))
    BY <2>7, <2>8, Zenon
  <2> QED
    BY <2>6, <2>9, Zenon DEF a
<1> QED
  BY <1>1, RInvariance, PTL

(* The sole current wildcard listener on a port answers a connect to its   *)
(* IP, placed on a pod of its name, although agent and index have the pod  *)
(* in different namespaces.                                                *)
THEOREM DriftAnswers == Spec => []DriftTolerated
<1>1. RInv => DriftTolerated
  <2> SUFFICES ASSUME RInv, NEW f \in folded, f.wild, Current(f), HasIndex,
                      PodForIP(f.ip) # NoPod, PodForIP(f.ip).name = f.pod.name,
                      Wildcards(f.port) = {f.pod}
               PROVE  \E h \in Join([ip |-> f.ip, port |-> f.port]) :
                        h.pod = Host \/ h.pod.name = f.pod.name
    BY Zenon DEF DriftTolerated
  <2> DEFINE a == [ip |-> f.ip, port |-> f.port]
             l == EntryOf(f)
  <2>1. a.ip = f.ip /\ a.port = f.port /\ f.ip \in IPs
    BY SMTT(30), Zenon DEF RInv, RTypeOK, FoldSet
  <2>2. l \in Listening(f.port) /\ l.pod = f.pod
    BY HasEntry, Fields, Zenon
  <2> HIDE DEF l, a
  <2>3. Listening(f.port) = {l}
    <3>1. \A m \in Listening(f.port) : m.pod \in Wildcards(f.port)
      BY ListeningPods, SMTT(30), Zenon
    <3>2. \A m \in Listening(f.port) : m.pod = l.pod /\ m.port = l.port /\ m \in wild /\ l \in wild
      BY <2>2, <3>1, SMTT(30), Zenon DEF Listening
    <3> QED
      BY <2>2, <3>2, SMTT(30), Zenon DEF RInv, Keyed
  <2>4. l \in SoleLiveWild(f.port)
    BY <2>2, <2>3, SMTT(30), Zenon DEF SoleLiveWild, Listening
  <2>5. l \in SoleLiveWildForPod(f.port, PodForIP(f.ip))
    BY <2>2, <2>4, SMTT(30), Zenon DEF SoleLiveWildForPod
  <2>6. LiveWild(a) # {}
    BY <2>1, <2>5, SMTT(30), Zenon DEF LiveWild
  <2>7. PICK h \in Join(a) : TRUE
    BY <2>6, WildAnswers, SMTT(30), Zenon
  <2>8. h.pod = PodForIP(f.ip) \/ h.pod = Host \/ StandsIn(h, PodForIP(f.ip))
    BY <2>1, Attributed, SMTT(30), Zenon
  <2>9. h.pod = Host \/ h.pod.name = f.pod.name
    BY <2>8, Zenon DEF StandsIn
  <2> QED
    BY <2>7, <2>9, Zenon DEF a
<1> QED
  BY <1>1, RInvariance, PTL

LEMMA VipOutside ==
  ASSUME NEW s \in Names, NEW vip \in ClusterIPsOf(s)
  PROVE  vip \in Vips /\ vip \notin IPs
BY IndexConstants, SMTT(30), Zenon DEF ClusterIPsOf, Vips

LEMMA VipOfOne ==
  ASSUME NEW s \in Names, NEW t \in Names, NEW vip,
         vip \in ClusterIPsOf(s), vip \in ClusterIPsOf(t)
  PROVE  s = t
BY IndexConstants, SMTT(30), Zenon DEF ClusterIPsOf

LEMMA FreshBackends ==
  ASSUME NEW s, Fresh(s), NEW port, NEW b \in Backends(s, port)
  PROVE  /\ b.ip \in Chosen(s) /\ PodForIP(b.ip) = owner[b.ip] /\ b.port \in Numbered(s, port)
<1>1. PICK n \in PortName(s, port) \cap DOMAIN slices[s].ports :
        b \in {[ip |-> ip, port |-> slices[s].ports[n]] : ip \in slices[s].ips}
  BY SMTT(30), Zenon DEF Backends
<1>2. b.ip \in slices[s].ips /\ b.port = slices[s].ports[n]
  BY <1>1, SMTT(30), Zenon
<1>3. b.ip \in Chosen(s) /\ PodForIP(b.ip) = owner[b.ip]
  BY <1>2, SMTT(30), Zenon DEF Fresh
<1>4. n \in PortName(s, port) /\ n \in DOMAIN slices[s].ports
  BY <1>1
<1>5. PICK ip \in Chosen(s) : slices[s].ports[n] = TargetPort[owner[ip]][n]
  BY <1>4, ZenonT(30) DEF Fresh
<1>6. b.port \in Numbered(s, port)
  BY <1>2, <1>4, <1>5 DEF Numbered
<1> QED
  BY <1>3, <1>6, SMTT(30), Zenon

(* From the VIP of a Service only backends of that Service are reached.    *)
LEMMA VipAddress ==
  ASSUME RInv, NEW s \in Names, Fresh(s), NEW vip \in ClusterIPsOf(s), NEW port \in Ports,
         NEW a, a = [ip |-> vip, port |-> port],
         NEW b \in Reached(a), LiveExact(b) \cup LiveWild(b) # {}
  PROVE  /\ b.ip \in Chosen(s) /\ PodForIP(b.ip) = owner[b.ip] /\ b.port \in Numbered(s, port)
<1>1. a.ip = vip /\ a.port = port /\ HasIndex
  BY Zenon DEF Fresh
<1>2. vip \notin IPs
  BY VipOutside, ZenonT(30)
<1>3. ResolvePodAddr(a) = {}
  BY <1>1, <1>2 DEF ResolvePodAddr
<1>4. LiveExact(a) = {} /\ LiveWild(a) = {}
  <2>1. \A l \in LiveExact(a) : FALSE
    BY <1>1, <1>2, ExactEntry DEF RInv, RTypeOK, Entry
  <2>2. PodForIP(vip) = NoPod
    BY <1>2, ZenonT(30) DEF PodForIP
  <2>3. \A l \in LiveWild(a) : FALSE
    BY <1>1, <2>2, WildEntry, Zenon
  <2> QED
    BY <2>1, <2>3, Zenon
<1>5. b \in ResolveVIP(a)
  BY <1>3, <1>4 DEF Reached
<1>6. PICK e \in services : e.vip = vip /\ b \in Backends(e.svc, port)
  BY <1>1, <1>5, Zenon DEF ResolveVIP
<1>7. e.svc \in Names /\ vip \in ClusterIPsOf(e.svc)
  BY <1>6, Zenon DEF RInv, ITypeOK
<1>8. e.svc = s
  BY <1>7, VipOfOne, Zenon
<1>9. b \in Backends(s, port)
  BY <1>6, <1>8, Zenon
<1> QED
  BY <1>9, FreshBackends, Zenon

(* While the indexes have the backends of a Service as they are, a connect *)
(* to its VIP resolves to a pod it selects on a number that a backend      *)
(* gives to the port's name, or to a host process on such an address; only *)
(* a pod of a backend's name may stand in for it.                          *)
THEOREM VipReaches == Spec => []VipReachesBackend
<1>1. RInv => VipReachesBackend
  <2> SUFFICES ASSUME RInv, NEW s \in Names, Fresh(s), NEW vip \in ClusterIPsOf(s),
                      NEW port \in Ports, NEW h \in Join([ip |-> vip, port |-> port])
               PROVE  /\ h.pod = Host \/ \E q \in Services[s].selects : h.pod = q \/ StandsIn(h, q)
                      /\ h.port \in Numbered(s, port)
    BY ZenonT(30) DEF VipReachesBackend
  <2> DEFINE a == [ip |-> vip, port |-> port]
  <2>1. PICK b \in Reached(a) : \E l \in LiveExact(b) \cup LiveWild(b) :
          h.pod = l.pod /\ h.port = l.port
    BY HitEntry, SMTT(30), Zenon
  <2>2. PICK l \in LiveExact(b) \cup LiveWild(b) : h.pod = l.pod /\ h.port = l.port
    BY <2>1
  <2>3. b.ip \in Chosen(s) /\ PodForIP(b.ip) = owner[b.ip] /\ b.port \in Numbered(s, port)
    BY <2>2, VipAddress, ZenonT(30)
  <2>4. owner[b.ip] \in Services[s].selects /\ owner[b.ip] # NoPod
    BY <2>3, IndexConstants, ZenonT(30) DEF Chosen
  <2>5. h.pod = owner[b.ip] \/ h.pod = Host \/ StandsIn(h, owner[b.ip])
    BY <2>2, <2>3, <2>4, ListenerOfPod, ZenonT(30) DEF Fresh
  <2>6. l.port = b.port
    BY ExactEntry, WildEntry, Zenon
  <2> QED
    BY <2>2, <2>3, <2>4, <2>5, <2>6, ZenonT(30)
<1> QED
  BY <1>1, RInvariance, PTL

-----------------------------------------------------------------------------
(* Sweep.                                                                  *)

LEMMA SweptTables ==
  ASSUME Reclaim, UNCHANGED <<ivars, now>>
  PROVE  /\ \A a : LiveExact(a)' = LiveExact(a)
         /\ \A a : LiveWild(a)' = LiveWild(a)
<1>1. /\ exact' = exact \ Expired(exact) /\ wild' = wild \ Expired(wild) /\ now' = now
      /\ byIP' = byIP /\ podIP' = podIP
  BY DEF Reclaim, ivars, podIndex
<1>2. \A l : Live(l)' <=> Live(l)
  BY <1>1 DEF Live
<1>3. \A ip : PodForIP(ip)' = PodForIP(ip)
  BY <1>1 DEF PodForIP
<1>4. \A l, ip : StillOwns(l, ip)' <=> StillOwns(l, ip)
  BY <1>3 DEF StillOwns
<1>5. \A l : Live(l) => (l \in exact' <=> l \in exact) /\ (l \in wild' <=> l \in wild)
  BY <1>1, SMTT(30), Zenon DEF Expired
<1>6. \A a : LiveExact(a)' = LiveExact(a)
  BY <1>2, <1>4, <1>5, SMTT(30), Zenon DEF LiveExact
<1>7. \A port : SoleLiveWild(port)' = SoleLiveWild(port)
  <2> TAKE port
  <2> DEFINE live == {l \in wild : l.port = port /\ Live(l)}
  <2>1. live' = live
    BY <1>2, <1>5, SMTT(30), Zenon
  <2> QED
    BY <2>1 DEF SoleLiveWild
<1>8. \A port, p : SoleLiveWildForPod(port, p)' = SoleLiveWildForPod(port, p)
  BY <1>7 DEF SoleLiveWildForPod
<1>9. \A port, p : LiveWildPod(port, p)' = LiveWildPod(port, p)
  BY <1>2, <1>5, SMTT(30), Zenon DEF LiveWildPod
<1>10. \A a : LiveWild(a)' = LiveWild(a)
  BY <1>3, <1>7, <1>8, <1>9, SMTT(30), Zenon DEF LiveWild
<1> QED
  BY <1>6, <1>10, SMTT(30), Zenon

LEMMA SweptJoin ==
  ASSUME Reclaim, UNCHANGED <<ivars, now>>, NEW a
  PROVE  Join(a)' = Join(a)
<1>1. /\ \A b : LiveExact(b)' = LiveExact(b)
      /\ \A b : LiveWild(b)' = LiveWild(b)
  BY SweptTables
<1>2. UNCHANGED <<ports, services, slices>>
  BY DEF ivars, podIndex, svcIndex
<1>3. \A b : Bound(b)' = Bound(b)
  BY <1>1, SMTT(30), Zenon DEF Bound
<1>4. ResolvePodAddr(a)' = ResolvePodAddr(a)
  BY <1>2, SMTT(30), Zenon DEF ResolvePodAddr
<1>5. \A s, port : Backends(s, port)' = Backends(s, port)
  BY <1>2, SMTT(30), Zenon DEF Backends
<1>6. ResolveVIP(a)' = ResolveVIP(a)
  BY <1>2, <1>5, SMTT(30), Zenon DEF ResolveVIP
<1>7. \A B : ResolveBackends(B)' = ResolveBackends(B)
  <2> TAKE B
  <2> DEFINE live == {b \in B : Bound(b) # {}}
             All  == UNION {Bound(b) : b \in live}
             rep  == {b \in live : \A c \in live : b.ip <= c.ip}
  <2>1. live' = live
    BY <1>3
  <2> HIDE DEF live
  <2>2. All' = All
    BY <1>3, <2>1
  <2>3. rep' = rep
    BY <2>1
  <2> HIDE DEF rep
  <2>4. (UNION {Bound(b) : b \in rep})' = UNION {Bound(b) : b \in rep}
    BY <1>3, <2>3, SMTT(30), Zenon
  <2> HIDE DEF All
  <2>5. ResolveBackends(B) =
          IF \E l, m \in All : Workload[l.pod] # Workload[m.pod] THEN {}
          ELSE UNION {Bound(b) : b \in rep}
    BY SMTT(30), Zenon DEF ResolveBackends, All, live, rep
  <2>6. ResolveBackends(B)' =
          IF \E l, m \in All' : Workload[l.pod] # Workload[m.pod] THEN {}
          ELSE (UNION {Bound(b) : b \in rep})'
    BY DEF ResolveBackends, All, live, rep
  <2> QED
    BY <2>2, <2>4, <2>5, <2>6, SMTT(30), Zenon
<1>8. /\ Hit("direct", LiveExact(a))' = Hit("direct", LiveExact(a))
      /\ Hit("wildcard", LiveWild(a))' = Hit("wildcard", LiveWild(a))
      /\ Hit("service-vip", ResolveBackends(ResolveVIP(a)))'
           = Hit("service-vip", ResolveBackends(ResolveVIP(a)))
  BY <1>1, <1>6, <1>7, Zenon DEF Hit
<1>9. Hit("endpointslice", UNION {Bound(b) : b \in ResolvePodAddr(a)})'
        = Hit("endpointslice", UNION {Bound(b) : b \in ResolvePodAddr(a)})
  BY <1>3, <1>4, Zenon DEF Hit
<1> QED
  BY <1>8, <1>9, Zenon DEF Join

(* Reclaiming expired entries changes no answer of Join.                   *)
THEOREM SweepUnseen == Spec => SweepInvisible
<1>1. Sweep \/ Size => Reclaim /\ UNCHANGED <<ivars, now>>
  BY DEF Sweep, Size
<1>2. [Next]_vars => [Sweep \/ Size => \A a \in Addr : Join(a)' = Join(a)]_vars
  BY <1>1, SweptJoin, Zenon
<1> QED
  BY <1>2, PTL DEF Spec, SweepInvisible
=============================================================================
