---------------------------- MODULE Subscribers ----------------------------
(***************************************************************************)
(* The set of downstream re-export clients as the operator sees it: the    *)
(* drop counters behind Stats().SubscriberDropped while clients come and   *)
(* go.  When calls are accepted and envelopes broadcast is up to Process,  *)
(* which composes this module with run.                                    *)
(*                                                                         *)
(* unregisterSubscriber takes the client out of the set under the lock and *)
(* folds its drops into the accumulator after it; Stats reads the          *)
(* accumulator before it takes the lock.  Each is two steps here.  What    *)
(* is sent to whom is the subject of ReExport; an envelope is only a place *)
(* in a channel.                                                           *)
(***************************************************************************)
EXTENDS Integers, FiniteSetsExt

CONSTANTS
  Clients,   \* downstream clients
  Buffer,    \* ReExportServer.SubscriberBuffer
  MaxSends   \* bound: envelopes broadcast

ASSUME SubscriberConstants ==
  IsFiniteSet(Clients) /\ Buffer \in Nat \ {0} /\ MaxSends \in Nat

VARIABLES
  call,      \* per client: "off", "live" (registered), "left" (deleted)
  ch,        \* per client: envelopes in its channel
  drops,     \* per client: liveSubscriber.drops
  acc,       \* Aggregator.subsDropped
  sends,     \* envelopes broadcast so far
  scrape,    \* Stats(): "idle" or "loaded"
  partial,   \* its running total
  reported,  \* what the last Stats() returned
  dropped    \* history: every drop so far

svars == <<call, ch, drops, acc, sends, scrape, partial, reported, dropped>>

Registered == {c \in Clients : call[c] = "live"}

-----------------------------------------------------------------------------
RegisterSubscriber(c) ==
  /\ call[c] = "off"
  /\ call' = [call EXCEPT ![c] = "live"]
  /\ ch' = [ch EXCEPT ![c] = 0]
  /\ drops' = [drops EXCEPT ![c] = 0]
  /\ UNCHANGED <<acc, sends, scrape, partial, reported, dropped>>

Full == {c \in Registered : ch[c] = Buffer}

Broadcast ==
  /\ sends < MaxSends
  /\ sends' = sends + 1
  /\ ch' = [c \in Clients |-> IF c \in Registered \ Full THEN ch[c] + 1 ELSE ch[c]]
  /\ drops' = [c \in Clients |-> IF c \in Full THEN drops[c] + 1 ELSE drops[c]]
  /\ dropped' = dropped + Cardinality(Full)
  /\ UNCHANGED <<call, acc, scrape, partial, reported>>

Take(c) ==
  /\ call[c] = "live" /\ ch[c] > 0
  /\ ch' = [ch EXCEPT ![c] = @ - 1]
  /\ UNCHANGED <<call, drops, acc, sends, scrape, partial, reported, dropped>>

(* The client goes away or a send to it fails: the call returns and        *)
(* unregisterSubscriber runs.  Nothing else ends a call.                   *)
Unregister(c) ==
  /\ call[c] = "live"
  /\ call' = [call EXCEPT ![c] = "left"]
  /\ UNCHANGED <<ch, drops, acc, sends, scrape, partial, reported, dropped>>

(* Fault: the drops of a client go with it.                                *)
BugFold(c) ==
  /\ call[c] = "left"
  /\ call' = [call EXCEPT ![c] = "off"]
  /\ UNCHANGED <<ch, drops, acc, sends, scrape, partial, reported, dropped>>

Fold(c) ==
  /\ call[c] = "left"
  /\ acc' = acc + drops[c]
  /\ call' = [call EXCEPT ![c] = "off"]
  /\ UNCHANGED <<ch, drops, sends, scrape, partial, reported, dropped>>

-----------------------------------------------------------------------------
(* Stats.                                                                  *)

DropsOf(C) == MapThenSumSet(LAMBDA c : drops[c], C)

(* Fault: the live counters are summed before the accumulator is read.     *)
BugAddend(k) == IF k = 1 THEN DropsOf(Registered) ELSE acc

(* The two terms of the total, in the order they are read.                 *)
Addend(k) == IF k = 1 THEN acc ELSE DropsOf(Registered)

StatsLoad ==
  /\ scrape = "idle" /\ scrape' = "loaded"
  /\ partial' = Addend(1)
  /\ UNCHANGED <<call, ch, drops, acc, sends, reported, dropped>>

StatsSum ==
  /\ scrape = "loaded" /\ scrape' = "idle"
  /\ reported' = partial + Addend(2)
  /\ partial' = 0
  /\ UNCHANGED <<call, ch, drops, acc, sends, dropped>>

-----------------------------------------------------------------------------
SInit ==
  /\ call = [c \in Clients |-> "off"]
  /\ ch = [c \in Clients |-> 0] /\ drops = [c \in Clients |-> 0]
  /\ acc = 0 /\ sends = 0 /\ dropped = 0
  /\ scrape = "idle" /\ partial = 0 /\ reported = 0

-----------------------------------------------------------------------------
(* Properties.                                                             *)

(* No drop is lost and none is counted twice while clients come and go:    *)
(* the accumulator and the counters of the calls that have not folded yet  *)
(* add up to every drop there was.                                         *)
DropsConserved ==
  acc + DropsOf({c \in Clients : call[c] # "off"}) = dropped

(* Stats never reports more drops than there were, also when clients leave *)
(* between its two reads.                                                  *)
NeverOverReported == reported <= dropped
=============================================================================
