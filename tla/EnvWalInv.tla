----------------------------- MODULE EnvWalInv -----------------------------
(***************************************************************************)
(* The inductive invariant behind the safety properties of EnvWal: what    *)
(* the segment files, the in-memory segment list and a replay in progress  *)
(* know about each other in every reachable state.                         *)
(***************************************************************************)
EXTENDS EnvWal

(* The segment files.  Records are numbered upwards within a file, from    *)
(* the number in its name on; two files never interleave; a file with      *)
(* later records was not modified earlier.  The last one makes creation    *)
(* times monotone after a reload, which takes them from the mtimes.        *)
FilesOrdered ==
  \A f \in DOMAIN files :
    /\ f >= 1
    /\ files[f].mtime <= now
    /\ \A i \in DOMAIN files[f].good : files[f].good[i] >= f
    /\ \A i, j \in DOMAIN files[f].good : i < j => files[f].good[i] < files[f].good[j]

FilesApart ==
  \A f, g \in DOMAIN files : f # g =>
    \/ \A i \in DOMAIN files[f].good, j \in DOMAIN files[g].good :
         files[f].good[i] < files[g].good[j] /\ files[f].mtime <= files[g].mtime
    \/ \A i \in DOMAIN files[f].good, j \in DOMAIN files[g].good :
         files[g].good[j] < files[f].good[i] /\ files[g].mtime <= files[f].mtime

(* The current segment.                                                    *)
CurLast ==
  /\ cur \in DOMAIN segs
  /\ DOMAIN segs \subseteq dir
  /\ segs[cur].start = cur /\ 1 <= cur /\ cur <= seq + 1
  /\ \A f \in DOMAIN segs :
       /\ f <= segs[f].start
       /\ segs[f].end <= seq
       /\ segs[f].created <= now
       /\ f # cur => segs[f].end < cur /\ segs[f].start < cur

(* The segment list is ordered by seq and by age.                          *)
SegsApart ==
  \A f, g \in DOMAIN segs : f # g =>
    \/ /\ segs[f].end < segs[g].start /\ segs[f].start < segs[g].start
       /\ segs[f].created <= segs[g].created
    \/ /\ segs[g].end < segs[f].start /\ segs[g].start < segs[f].start
       /\ segs[g].created <= segs[f].created

(* The accounting bounds what the files hold.                              *)
SegsCoverFiles ==
  \A f \in DOMAIN segs : \A i \in DOMAIN files[f].good :
    /\ segs[f].start <= files[f].good[i]
    /\ f # cur => files[f].good[i] <= segs[f].end

FilesBelowSeq ==
  \A f \in DOMAIN files : \A i \in DOMAIN files[f].good :
    /\ files[f].good[i] <= seq
    /\ f # cur => files[f].good[i] < cur

(* A record is behind the fragment of its file, or can be decoded.         *)
Has(f, s) == s \in Elems(files[f].good) \/ files[f].torn

(* Every record this open WAL answers for is in the segment whose range    *)
(* covers it, unless it is older than every listed segment: trims take a   *)
(* prefix.                                                                 *)
HeldListed ==
  \A s \in held :
    /\ s <= seq
    /\ \A o \in DOMAIN segs : segs[o].start <= s =>
         \E f \in DOMAIN segs :
           segs[f].start <= s /\ s <= segs[f].end /\ Has(f, s)

MemoryInv ==
  up => CurLast /\ SegsApart /\ SegsCoverFiles /\ FilesBelowSeq /\ HeldListed

(* A replay.  Its views are ordered and only the last can be the segment   *)
(* that still grows; the open file comes before them.                      *)
ViewsOrdered(v) ==
  /\ DOMAIN v \subseteq DOMAIN files
  /\ \A f \in DOMAIN v :
       /\ f <= seq + 1 /\ v[f].start <= seq + 1
       /\ \A i \in DOMAIN files[f].good : v[f].start <= files[f].good[i]
  /\ \A f, g \in DOMAIN v : f # g =>
       /\ v[f].start # v[g].start
       /\ v[f].start < v[g].start =>
            f # cur /\ \A i \in DOMAIN files[f].good : files[f].good[i] < v[g].start

FileOpen(x) ==
  /\ x.file \in DOMAIN files /\ x.file <= seq + 1
  /\ x.pos <= Len(files[x.file].good)
  /\ \A g \in DOMAIN x.views :
       /\ x.file # cur
       /\ \A i \in DOMAIN files[x.file].good : files[x.file].good[i] < x.views[g].start
  /\ \A i \in DOMAIN x.out, k \in DOMAIN files[x.file].good :
       k > x.pos => x.out[i] < files[x.file].good[k]

OutOrdered(x) ==
  /\ \A i \in DOMAIN x.out :
       /\ x.from < x.out[i] /\ x.out[i] <= seq
       /\ \A g \in DOMAIN x.views : x.out[i] < x.views[g].start
  /\ \A i, j \in DOMAIN x.out : i < j => x.out[i] < x.out[j]

(* What the call owes and has not delivered is still ahead of it, lost     *)
(* with a trimmed segment (gap), or behind a fragment.                     *)
Owed(x, s) ==
  \/ s \in Elems(x.out)
  \/ x.gap
  \/ \E f \in DOMAIN x.views : s <= x.views[f].end /\ Has(f, s)
  \/ /\ x.pc = "read"
     /\ \/ files[x.file].torn
        \/ \E k \in DOMAIN files[x.file].good : k > x.pos /\ files[x.file].good[k] = s

Replaying(x) ==
  /\ up
  /\ x.from <= x.lo /\ x.hi <= seq
  /\ ViewsOrdered(x.views)
  /\ OutOrdered(x)
  /\ x.pc = "read" => FileOpen(x)
  /\ \A s \in held : x.lo < s /\ s <= x.hi => Owed(x, s)

ReaderInv(x) ==
  \/ x.pc \in {"idle", "expired", "err"} /\ x.out = <<>> /\ (x.pc # "idle" => up)
  \/ x.pc \in {"scan", "read"} /\ Replaying(x)
  \/ x.pc = "ok" /\ Replaying(x) /\ DOMAIN x.views = {} /\ ~x.gap

(* The conjunction: implied by Init, preserved by every step.              *)
IInv ==
  /\ TypeOK
  /\ FilesOrdered
  /\ FilesApart
  /\ MemoryInv
  /\ \A r \in Readers : ReaderInv(rd[r])
=============================================================================
