----------------------------- MODULE MCProcess -----------------------------
(* A small instance of Process.                                            *)
EXTENDS Process

CONSTANTS c1, c2

(* Everything; agents alone; discovery and re-export without a WAL or      *)
(* metrics; no source of agents at all.                                    *)
CommandLines ==
  {FlagNames, {"agents"}, {"k8s", "reexport"}, {"wal"}}
=============================================================================
