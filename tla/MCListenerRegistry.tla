------------------------- MODULE MCListenerRegistry -------------------------
(* Small instances of ListenerRegistry.  One has replicas of a workload, a *)
(* pod of another one and two Services, one of them with a headless        *)
(* address; the other a pod, its namesake in another namespace, of which   *)
(* the agent has a third, and a host process.                              *)
EXTENDS ListenerRegistry

CONSTANT none

PodA  == [ns |-> "shop", name |-> "web"]
PodB  == [ns |-> "shop", name |-> "api"]
PodC  == [ns |-> "shop", name |-> "web-2"]
PodN  == [ns |-> "lab", name |-> "web"]
Drift == [ns |-> "lab-old", name |-> "web"]
HostProc == [ns |-> "", name |-> ""]

Three    == {PodA, PodB, PodC}
WithHost == {PodA, PodN, HostProc}

Agreed  == [p \in Three |-> p]
Drifted == [p \in WithHost |-> IF p = PodN THEN Drift ELSE p]

Workloads ==
  [p \in {PodA, PodB, PodC, Drift, HostProc} |-> IF p \in {PodB, Drift} THEN "v" ELSE "w"]

Port(port, name) == [port |-> port, name |-> name]

(* web selects the replicas, adm A and B, under another port name.         *)
Web == [clusterIPs |-> {10}, ports |-> <<Port(90, "http")>>, selects |-> {PodA, PodC}]
Adm == [clusterIPs |-> {11, 0}, ports |-> <<Port(90, "adm"), Port(90, "http")>>,
        selects |-> {PodA, PodB}]
Solo == [clusterIPs |-> {0}, ports |-> <<Port(80, "http")>>, selects |-> {PodA}]

OneService  == [s \in {"web"} |-> Solo]
TwoServices == [s \in {"web", "adm"} |-> IF s = "web" THEN Web ELSE Adm]

(* The replicas number http differently.                                   *)
Target == [p \in Three |-> [n \in {"http", "adm"} |->
             IF n = "adm" \/ p = PodC THEN 81 ELSE 80]]

SoloTarget == [p \in {PodA} |-> [n \in {"http"} |-> 80]]

Replicas == {<<PodA, PodC>>}
Single   == {<<PodN>>, <<HostProc>>}

Ready     == [ready |-> "true", terminating |-> "unset"]
Leaving   == [ready |-> "unset", terminating |-> "true"]
AllReady  == {[p \in Three |-> Ready]}
COrNot    == AllReady \cup {[p \in Three |-> IF p = PodC THEN Leaving ELSE Ready]}

BindWild80  == {[port |-> 80, wild |-> TRUE]}
BindBoth80  == {[port |-> 80, wild |-> TRUE], [port |-> 80, wild |-> FALSE]}
=============================================================================
