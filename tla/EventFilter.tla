---------------------------- MODULE EventFilter ----------------------------
(***************************************************************************)
(* Which envelopes a Subscribe request selects: streamMatches and          *)
(* envelopePassesFilter of reexport.go, the same for the replay and for    *)
(* the live tail.                                                          *)
(*                                                                         *)
(* An envelope is [type, kind, category, ns, pod, severity].  A field its  *)
(* payload does not carry is Unset (NoSeverity for the severity); ns and   *)
(* pod are Unset when the payload has no meta.  kind is the syscall name   *)
(* of a raw syscall, category the other name it can be asked for by.  A    *)
(* request is [stream, filter]; the lists of a filter are sets, an empty   *)
(* one is not set, and a filter that is absent sets nothing.               *)
(***************************************************************************)
EXTENDS Integers

Unset      == "unset"
NoSeverity == -1

Streams == {"intent", "deviation", "graph_edge", "lifecycle", "audit"}

NoFilter == [kinds |-> {}, namespaces |-> {}, pods |-> {}, min |-> 0]
NoRequest == [stream |-> Unset, filter |-> NoFilter]

StreamMatches(want, env) ==
  \/ want = Unset
  \/ env.type \in Streams /\ want = env.type

Allows(list, x) == list = {} \/ x \in list

HasMeta(env) == env.ns # Unset

MetaPasses(env, f) ==
  HasMeta(env) => Allows(f.namespaces, env.ns) /\ Allows(f.pods, env.pod)

(* Fault: the minimum is not looked at.                                    *)
BugSeverityPasses(env, f) == TRUE

SeverityPasses(env, f) == f.min = 0 \/ env.severity >= f.min

EnvelopePassesFilter(env, f) ==
  CASE env.type = "intent" ->
         Allows(f.kinds, env.kind) /\ MetaPasses(env, f) /\ SeverityPasses(env, f)
    [] env.type = "deviation" ->
         Allows(f.kinds, env.kind) /\ MetaPasses(env, f)
    [] env.type = "raw_syscall" ->
         /\ Allows(f.kinds, env.kind) \/ env.category \in f.kinds
         /\ MetaPasses(env, f) /\ SeverityPasses(env, f)
    [] OTHER -> TRUE

Selects(req, env) ==
  StreamMatches(req.stream, env) /\ EnvelopePassesFilter(env, req.filter)

-----------------------------------------------------------------------------
(* What a payload carries: an intent one name, a raw syscall two, a        *)
(* deviation no severity, any other nothing the filter asks about.         *)
Envelope(env) ==
  /\ env.ns = Unset <=> env.pod = Unset
  /\ env.type \in {"intent", "deviation", "raw_syscall"} => env.kind # Unset
  /\ env.category # Unset <=> env.type = "raw_syscall"
  /\ IF env.type \in {"intent", "raw_syscall"} THEN env.severity \in Nat
                                              ELSE env.severity = NoSeverity
  /\ env.type \notin {"intent", "deviation", "raw_syscall"} =>
       env.kind = Unset /\ env.ns = Unset

Request(req) ==
  /\ Unset \notin req.filter.kinds \cup req.filter.namespaces \cup req.filter.pods
  /\ req.filter.min \in Nat

(* The reference: a request is a conjunction of constraints, and each one  *)
(* that is set holds of the names the envelope carries for it; one the     *)
(* payload says nothing about does not constrain it.                       *)

(* The names an envelope can be asked for by, per list of the filter.      *)
Names(env, list) ==
  CASE list = "kinds"      -> {env.kind, env.category}
    [] list = "namespaces" -> {env.ns}
    [] list = "pods"       -> {env.pod}

Carried(env, list) == Names(env, list) \ {Unset}

Asked(req, env) ==
  /\ req.stream # Unset => env.type = req.stream /\ req.stream \in Streams
  /\ \A list \in {"kinds", "namespaces", "pods"} :
       req.filter[list] = {} \/ Carried(env, list) = {}
         \/ Carried(env, list) \cap req.filter[list] # {}
  /\ env.severity # NoSeverity => env.severity >= req.filter.min
=============================================================================
