----------------------------- MODULE ListWatch -----------------------------
(***************************************************************************)
(* The list+watch loop that EndpointSliceWatcher.loop and                  *)
(* ServiceWatcher.watchLoop run against the Kubernetes API server: LIST    *)
(* the resource and replace the local state, publish it, WATCH from the    *)
(* listed version, fold every event and publish again; on an error back    *)
(* off and start over.                                                     *)
(*                                                                         *)
(* The API server is external: it numbers the versions of the resource,    *)
(* each differing from the last in one object, answers a LIST with the     *)
(* current version, and streams the later changes in order until the       *)
(* stream ends.  BOOKMARK and unknown events change nothing and are not    *)
(* steps.                                                                  *)
(***************************************************************************)
EXTENDS Integers, Sequences

CONSTANTS
  Objects,     \* keys of the watched resource
  Values,      \* what an object may hold
  Absent,      \* the object does not exist
  MaxVersions  \* bound: versions of the resource

ASSUME ListWatchConstants == MaxVersions \in Nat /\ Absent \notin Values

VARIABLES
  hist,   \* API server: the versions of the resource so far
  ctx,    \* ctx.Err() == nil
  pc,     \* where the loop is
  rv,     \* resourceVersion the local state stands at
  state,  \* the local state map
  shown,  \* version last published, 0 before the first
  view    \* what was last published: the argument of apply or emit

lvars == <<hist, ctx, pc, rv, state, shown, view>>

Version == [Objects -> Values \cup {Absent}]
Empty   == [o \in Objects |-> Absent]
Current == hist[Len(hist)]

Goto(from, to) == pc = from /\ pc' = to

-----------------------------------------------------------------------------
(* Fault: objects deleted while disconnected linger.                       *)
BugList ==
  /\ ctx /\ Goto("list", "listed")
  /\ state' = [o \in Objects |-> IF Current[o] = Absent THEN state[o] ELSE Current[o]]
  /\ rv' = Len(hist)
  /\ UNCHANGED <<hist, ctx, shown, view>>

(* LIST replaces the state wholesale.                                      *)
List ==
  /\ ctx /\ Goto("list", "listed")
  /\ state' = Current
  /\ rv' = Len(hist)
  /\ UNCHANGED <<hist, ctx, shown, view>>

(* A failed LIST is noticed before the state is touched.                   *)
ListFails ==
  /\ Goto("list", "backoff")
  /\ UNCHANGED <<hist, ctx, rv, state, shown, view>>

(* apply(state) or emit(state), after a LIST and after every event.        *)
Publish ==
  /\ Goto("listed", "watch") \/ Goto("changed", "stream")
  /\ shown' = rv
  /\ view' = state
  /\ UNCHANGED <<hist, ctx, rv, state>>

WatchOpens ==
  /\ ctx /\ Goto("watch", "stream")
  /\ UNCHANGED <<hist, ctx, rv, state, shown, view>>

WatchFails ==
  /\ Goto("watch", "backoff")
  /\ UNCHANGED <<hist, ctx, rv, state, shown, view>>

(* ADDED, MODIFIED or DELETED: the event carries the one object changed.   *)
Event ==
  /\ ctx /\ Goto("stream", "changed")
  /\ rv < Len(hist)
  /\ \E o \in Objects :
       /\ hist[rv + 1] = [hist[rv] EXCEPT ![o] = hist[rv + 1][o]]
       /\ state' = [state EXCEPT ![o] = hist[rv + 1][o]]
  /\ rv' = rv + 1
  /\ UNCHANGED <<hist, ctx, shown, view>>

(* The server closes the stream, or ctx is cancelled: no error, no back-   *)
(* off, a new LIST.                                                        *)
StreamEnds ==
  /\ Goto("stream", "list")
  /\ UNCHANGED <<hist, ctx, rv, state, shown, view>>

(* An ERROR event (an expired version among them), a line that does not    *)
(* parse, a broken connection.                                             *)
StreamFails ==
  /\ Goto("stream", "backoff")
  /\ UNCHANGED <<hist, ctx, rv, state, shown, view>>

Retry ==
  /\ Goto("backoff", "list")
  /\ UNCHANGED <<hist, ctx, rv, state, shown, view>>

Returns ==
  /\ ~ctx /\ Goto("list", "exit")
  /\ UNCHANGED <<hist, ctx, rv, state, shown, view>>

-----------------------------------------------------------------------------
Change ==
  /\ Len(hist) < MaxVersions
  /\ \E o \in Objects, v \in Values \cup {Absent} :
       /\ v # Current[o]
       /\ hist' = Append(hist, [Current EXCEPT ![o] = v])
  /\ UNCHANGED <<ctx, pc, rv, state, shown, view>>

Cancel ==
  /\ ctx /\ ctx' = FALSE
  /\ UNCHANGED <<hist, pc, rv, state, shown, view>>

LInit ==
  /\ hist \in {<<v>> : v \in Version}
  /\ ctx = TRUE /\ pc = "list"
  /\ rv = 0 /\ state = Empty
  /\ shown = 0 /\ view = Empty

(* A step of the loop that publishes nothing.                              *)
Quiet ==
  \/ List
  \/ ListFails
  \/ WatchOpens
  \/ WatchFails
  \/ Event
  \/ StreamEnds
  \/ StreamFails
  \/ Retry
  \/ Returns

LNext == Quiet \/ Publish \/ Change \/ Cancel

LSpec == LInit /\ [][LNext]_lvars

-----------------------------------------------------------------------------
(* Properties.                                                             *)

(* Every variable has its type.                                            *)
LTypeOK ==
  /\ hist \in Seq(Version) /\ Len(hist) > 0
  /\ ctx \in BOOLEAN
  /\ pc \in {"list", "listed", "watch", "stream", "changed", "backoff", "exit"}
  /\ rv \in 0..Len(hist) /\ shown \in 0..Len(hist)
  /\ state \in Version /\ view \in Version

Abstract == INSTANCE SnapshotView

(* The loop publishes only whole versions of the resource, and never one   *)
(* older than the last: an index or a fleet never goes back in time and    *)
(* never mixes two versions, across reconnects, failed LISTs and events.   *)
PublishesSnapshots == Abstract!Views
=============================================================================
