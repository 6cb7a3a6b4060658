----------------------------- MODULE MCReExport -----------------------------
(* Small instances of ReExport.                                            *)
EXTENDS ReExport, TLC

CONSTANTS c1, c2

Env(type, kind, category, ns, severity) ==
  [type |-> type, kind |-> kind, category |-> category,
   ns |-> ns, pod |-> IF ns = Unset THEN Unset ELSE "pod", severity |-> severity]

(* An intent, a raw syscall that only its category and its missing meta    *)
(* let through, an intent below the minimum, a graph edge; 0 is one that   *)
(* cannot be encoded.                                                      *)
Envelopes ==
  0 :> Env("intent", "net", Unset, "prod", 2)
  @@ 1 :> Env("intent", "net", Unset, "prod", 2)
  @@ 2 :> Env("raw_syscall", "connect", "net", Unset, 3)
  @@ 3 :> Env("intent", "net", Unset, "prod", 1)
  @@ 4 :> Env("graph_edge", Unset, Unset, Unset, NoSeverity)

Severe == [stream |-> Unset,
           filter |-> [kinds |-> {"net"}, namespaces |-> {"prod"}, pods |-> {}, min |-> 2]]

Filtered   == {Severe}
Everything == {NoRequest}
=============================================================================
