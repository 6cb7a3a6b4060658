---------------------------- MODULE ReExportInv ----------------------------
(***************************************************************************)
(* The inductive invariant behind the safety properties of ReExport, on    *)
(* top of the one of EnvWal.                                               *)
(*                                                                         *)
(* HandOverComplete rests on what the replay and the live channel know of  *)
(* each other.  A record appended before the snapshot is the replay's      *)
(* (EnvWal proves it delivers them).  A later one is in the channel, and   *)
(* the replay may come across it, too: then it has come across every       *)
(* record in between (Caught), as a file has no holes (Gapless), so that   *)
(* no record is dropped as a duplicate of one that was never sent.         *)
(***************************************************************************)
EXTENDS ReExport, EnvWalInv

(* The records of the file f come after those of any earlier file, and so  *)
(* does its name.                                                          *)
FilesNamed ==
  \A f, g \in DOMAIN files : f # g =>
    \A i \in DOMAIN files[g].good, k \in DOMAIN files[f].good :
      files[g].good[i] < files[f].good[k] => files[g].good[i] < f

(* Between its name and its last record a file has every record the WAL    *)
(* answers for.                                                            *)
Gapless ==
  \A s \in held, f \in DOMAIN files : \A k \in DOMAIN files[f].good :
    f <= s /\ s <= files[f].good[k] => s \in Elems(files[f].good)

WalInv ==
  /\ IInv
  /\ FilesNamed
  /\ Gapless /\ 0 \notin held
  /\ seq <= MaxSeq

(* What was emitted so far.                                                *)
Emitted(x) == x.env <= seq /\ ("encode" \notin Faults => x.seq <= seq)

(* x was emitted before y, where y travels under the WAL's seq.            *)
Before(x, y) ==
  y.env = y.seq => x.env < y.seq /\ ("encode" \notin Faults => x.seq < y.seq)

WriterInv ==
  /\ "encode" \notin Faults => liveSeq <= seq
  /\ Emitted(pend)
  /\ ~up => pend = NoEnv /\ liveSeq = 0

ChannelInv(s) ==
  /\ \A i \in DOMAIN s.ch : Emitted(s.ch[i])
  /\ \A i, j \in DOMAIN s.ch : i < j => Before(s.ch[i], s.ch[j])
  /\ pend # NoEnv => \A i \in DOMAIN s.ch : Before(s.ch[i], pend)

SentInv(s) ==
  /\ \A i \in DOMAIN s.sent : Emitted(s.sent[i]) /\ Asked(s.req, Content[s.sent[i].env])
  /\ \A i, j \in DOMAIN s.sent : i < j => s.sent[i].seq < s.sent[j].seq
  /\ s.last = IF s.sent = <<>> THEN 0 ELSE s.sent[Len(s.sent)].seq

(* The replay comes across the records above its snapshot without a gap.   *)
Caught(x) ==
  /\ \A f \in DOMAIN x.views : f <= x.hi + 1 /\ x.views[f].end <= x.hi
  /\ x.pc = "read" =>
       /\ x.file <= x.hi + 1 /\ x.from < x.hi
       /\ \A k \in DOMAIN files[x.file].good : k <= x.pos =>
            files[x.file].good[k] <= x.from \/ files[x.file].good[k] \in Elems(x.out)
  /\ \A s \in held : x.hi < s =>
       \A i \in DOMAIN x.out : s <= x.out[i] => s \in Elems(x.out)

(* A replay in progress, or done: its records are the client's, and what   *)
(* was appended since its snapshot is in the channel.                      *)
ReplayInv(s, x) ==
  /\ s.base = x.lo
  /\ Caught(x)
  /\ \A i \in DOMAIN s.sent : s.sent[i].seq \in Elems(x.out)
  /\ \A n \in Elems(x.out) :
       Asked(s.req, Content[n]) => Live(n, n) \in Elems(s.sent)
  /\ s.drops = 0 => \A n \in held : x.hi < n => Live(n, n) \in InFlight(s)

(* A Subscribe call s and its ReadFrom x.                                  *)
ClientInv(s, x) ==
  /\ ChannelInv(s)
  /\ SentInv(s)
  /\ s.pc # "replay" => x.pc = "idle"
  /\ s.pc = "off" => s = Off
  /\ s.pc # "off" => up /\ s.req \in Requests
  /\ s.pc = "joined" => s.sent = <<>> /\ s.cursor \in 0..MaxSeq
  /\ s.pc = "replay" /\ x.pc \in {"scan", "read", "ok"} => ReplayInv(s, x)
  /\ s.pc = "live" /\ s.drops = 0 => Complete(s)

RInv ==
  /\ RTypeOK
  /\ WalInv
  /\ WriterInv
  /\ \A c \in Readers : ClientInv(sub[c], rd[c])
=============================================================================
