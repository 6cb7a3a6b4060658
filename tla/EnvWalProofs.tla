---------------------------- MODULE EnvWalProofs ----------------------------
(***************************************************************************)
(* Theorems about EnvWal, for every value of its constants: IInv is an     *)
(* inductive invariant, and the safety properties follow from it.  First   *)
(* Append: the files it writes, the segment list it accounts and rotates,  *)
(* and the replays that run beside it.  Then GC, the clock, Close, crashes *)
(* and Open, the steps of ReadFrom, and the theorems.                      *)
(***************************************************************************)
EXTENDS EnvWalInv, TLAPS

USE DEF None

-----------------------------------------------------------------------------
(* Type correctness, step by step.                                         *)

Appends == AppendStay \/ AppendRotate \/ AppendWriteFails \/ AppendRotateFails

(* Writing to a file keeps the files typed.                                *)
LEMMA WriteTyped ==
  ASSUME TypeOK, NEW f, NEW s \in Nat
  PROVE  /\ WriteRecord(f, s) \in [DOMAIN files -> File]
         /\ DOMAIN WriteRecord(f, s) = DOMAIN files
         /\ WriteFragment(f) \in [DOMAIN files -> File]
         /\ DOMAIN WriteFragment(f) = DOMAIN files
<1>1. ASSUME f \in DOMAIN files
      PROVE  /\ files[f].good \in Seq(Nat) /\ files[f].torn \in BOOLEAN
             /\ files[f].size \in Nat
             /\ files[f] \in File
  BY <1>1, Zenon DEF TypeOK, File
<1>2. now \in Nat /\ files \in [DOMAIN files -> File]
  BY DEF TypeOK
<1>3. /\ WriteRecord(f, s) \in [DOMAIN files -> File]
      /\ DOMAIN WriteRecord(f, s) = DOMAIN files
  <2>1. ASSUME f \in DOMAIN files
        PROVE  [good  |-> IF files[f].torn THEN files[f].good ELSE Append(files[f].good, s),
                torn  |-> files[f].torn,
                size  |-> files[f].size + 1,
                mtime |-> now] \in File
    BY <1>1, <1>2, <2>1 DEF File
  <2> QED
    BY <1>2, <2>1, Zenon DEF WriteRecord
<1>4. /\ WriteFragment(f) \in [DOMAIN files -> File]
      /\ DOMAIN WriteFragment(f) = DOMAIN files
  <2>1. ASSUME f \in DOMAIN files
        PROVE  [good  |-> files[f].good,
                torn  |-> TRUE,
                size  |-> files[f].size + 1,
                mtime |-> now] \in File
    BY <1>1, <1>2, <2>1 DEF File
  <2> QED
    BY <1>2, <2>1, Zenon DEF WriteFragment
<1> QED
  BY <1>3, <1>4

(* Creating or opening a segment file keeps the files typed.               *)
LEMMA TouchTyped ==
  ASSUME now \in Nat, NEW D, NEW fs \in [D -> File], NEW f
  PROVE  /\ Touch(fs, f) \in [D \cup {f} -> File]
         /\ DOMAIN Touch(fs, f) = D \cup {f}
  BY DEF Touch, EmptyFile, File

(* The accounting keeps the segment list typed.                            *)
LEMMA AccountTyped ==
  ASSUME TypeOK, NEW s \in Nat
  PROVE  /\ Account(s) \in [DOMAIN segs -> Segment]
         /\ DOMAIN Account(s) = DOMAIN segs
<1>1. segs \in [DOMAIN segs -> Segment]
  BY DEF TypeOK
<1>2. ASSUME cur \in DOMAIN segs
      PROVE  [start |-> segs[cur].start, end |-> s, bytes |-> segs[cur].bytes + 1,
              created |-> segs[cur].created] \in Segment
  <2>1. segs[cur] \in Segment
    BY <1>1, <1>2
  <2> QED
    BY <2>1 DEF Segment
<1> QED
  BY <1>1, <1>2, Zenon DEF Account

(* Opening a segment keeps the segment list typed.                         *)
LEMMA AddTyped ==
  ASSUME now \in Nat, NEW D, NEW S \in [D -> Segment], NEW s \in Nat
  PROVE  /\ AddSegment(S, s) \in [D \cup {s + 1} -> Segment]
         /\ DOMAIN AddSegment(S, s) = D \cup {s + 1}
  BY DEF AddSegment, FreshSegment, Segment

-----------------------------------------------------------------------------
(* What an append does to the files, whatever its outcome: at most one     *)
(* record, the next seq, goes to the end of the current file, and at most  *)
(* one empty file appears.                                                 *)
Wrote ==
  /\ DOMAIN files \subseteq DOMAIN files'
  /\ \A f \in DOMAIN files' \ DOMAIN files :
       f = seq + 2 /\ files'[f].good = <<>> /\ files'[f].mtime = now
  /\ \A f \in DOMAIN files : f # cur => files'[f] = files[f]
  /\ files'[cur] = files[cur] \/ files'[cur].mtime = now
  /\ files[cur].torn => files'[cur].torn
  /\ \A i \in DOMAIN files[cur].good :
       i \in DOMAIN files'[cur].good /\ files'[cur].good[i] = files[cur].good[i]
  /\ \A i \in DOMAIN files'[cur].good : i \notin DOMAIN files[cur].good =>
       i = Len(files[cur].good) + 1 /\ files'[cur].good[i] = seq + 1

(* The three kinds of write, without and with a new segment file.          *)
LEMMA WriteIsWrote ==
  ASSUME TypeOK, cur \in DOMAIN files,
         \/ files' = files
         \/ files' = WriteRecord(cur, seq + 1)
         \/ files' = WriteFragment(cur)
  PROVE  Wrote /\ DOMAIN files' = DOMAIN files /\ files' \in [DOMAIN files' -> File]
<1> DEFINE G == files[cur].good
<1>1. /\ seq \in Nat /\ now \in Nat /\ G \in Seq(Nat)
      /\ files \in [DOMAIN files -> File]
  BY DEF TypeOK, File
<1>2. CASE files' = files
  BY <1>1, <1>2, Zenon DEF Wrote
<1>3. CASE files' = WriteRecord(cur, seq + 1)
  <2>1. files' \in [DOMAIN files -> File] /\ DOMAIN files' = DOMAIN files
    BY <1>1, <1>3, WriteTyped
  <2>2. files'[cur] = [good  |-> IF files[cur].torn THEN G ELSE Append(G, seq + 1),
                       torn  |-> files[cur].torn,
                       size  |-> files[cur].size + 1,
                       mtime |-> now]
    BY <1>3 DEF WriteRecord
  <2>3. \A f \in DOMAIN files : f # cur => files'[f] = files[f]
    BY <1>3 DEF WriteRecord
  <2>4. /\ \A i \in DOMAIN G : i \in DOMAIN files'[cur].good /\ files'[cur].good[i] = G[i]
        /\ \A i \in DOMAIN files'[cur].good : i \notin DOMAIN G =>
             i = Len(G) + 1 /\ files'[cur].good[i] = seq + 1
    <3> HIDE DEF G
    <3> QED
      BY <1>1, <2>2, SMTT(30), Zenon
  <2> QED
    BY <2>1, <2>2, <2>3, <2>4 DEF Wrote
<1>4. CASE files' = WriteFragment(cur)
  <2>1. files' \in [DOMAIN files -> File] /\ DOMAIN files' = DOMAIN files
    BY <1>1, <1>4, WriteTyped, Zenon
  <2>2. files'[cur] = [good  |-> G, torn  |-> TRUE, size  |-> files[cur].size + 1,
                       mtime |-> now]
    BY <1>4 DEF WriteFragment
  <2>3. \A f \in DOMAIN files : f # cur => files'[f] = files[f]
    BY <1>4 DEF WriteFragment
  <2> QED
    BY <2>1, <2>2, <2>3 DEF Wrote
<1> QED
  BY <1>2, <1>3, <1>4

(* A write followed by a rotation: the files are those of the write, and   *)
(* the next segment's file is linked, empty unless it existed before.      *)
LEMMA WriteAndRotate ==
  ASSUME TypeOK, cur \in DOMAIN files,
         files' = Touch(WriteRecord(cur, seq + 1), seq + 2)
  PROVE  /\ Wrote
         /\ DOMAIN files' = DOMAIN files \cup {seq + 2}
         /\ files' \in [DOMAIN files' -> File]
<1> DEFINE W == WriteRecord(cur, seq + 1)
           G == files[cur].good
<1>1. /\ seq \in Nat /\ now \in Nat /\ G \in Seq(Nat)
      /\ files \in [DOMAIN files -> File]
  BY Zenon DEF TypeOK, File
<1>2. W \in [DOMAIN files -> File] /\ DOMAIN W = DOMAIN files
  BY <1>1, WriteTyped
<1>3. files' \in [DOMAIN files \cup {seq + 2} -> File]
  BY <1>1, <1>2, TouchTyped, Zenon
<1>4. \A f \in DOMAIN files : files'[f] = W[f]
  BY <1>2, <1>3 DEF Touch
<1>5. \A f \in DOMAIN files' \ DOMAIN files :
        f = seq + 2 /\ files'[f].good = <<>> /\ files'[f].mtime = now
  BY <1>2, <1>3 DEF Touch, EmptyFile
<1>6. W[cur] = [good  |-> IF files[cur].torn THEN G ELSE Append(G, seq + 1),
                torn  |-> files[cur].torn,
                size  |-> files[cur].size + 1,
                mtime |-> now]
  BY DEF WriteRecord
<1>7. \A f \in DOMAIN files : f # cur => W[f] = files[f]
  BY DEF WriteRecord
<1>8. /\ \A i \in DOMAIN G : i \in DOMAIN W[cur].good /\ W[cur].good[i] = G[i]
      /\ \A i \in DOMAIN W[cur].good : i \notin DOMAIN G =>
             i = Len(G) + 1 /\ W[cur].good[i] = seq + 1
  <2> HIDE DEF G, W
  <2> QED
    BY <1>1, <1>6, SMTT(30), Zenon
<1> HIDE DEF W
<1> QED
  BY <1>3, <1>4, <1>5, <1>6, <1>7, <1>8, SMTT(30), Zenon DEF Wrote

(* Types of the parts of the state, for citing.                            *)
LEMMA Types ==
  ASSUME TypeOK
  PROVE  /\ seq \in Nat /\ cur \in Nat /\ now \in Nat
         /\ \A f \in DOMAIN files :
              /\ f \in Nat /\ files[f].mtime \in Nat
              /\ files[f].good \in Seq(Nat) /\ files[f].torn \in BOOLEAN
              /\ DOMAIN files[f].good = 1..Len(files[f].good)
              /\ Len(files[f].good) \in Nat
              /\ \A i \in DOMAIN files[f].good : files[f].good[i] \in Nat
         /\ \A f \in DOMAIN segs :
              /\ f \in Nat /\ segs[f].start \in Nat /\ segs[f].end \in Nat
              /\ segs[f].created \in Nat
         /\ \A s \in held : s \in Nat
<1>1. /\ seq \in Nat /\ cur \in Nat /\ now \in Nat
      /\ \A s \in held : s \in Nat
  BY DEF TypeOK
<1>2. ASSUME NEW f \in DOMAIN files
      PROVE  /\ f \in Nat /\ files[f].mtime \in Nat
             /\ files[f].good \in Seq(Nat) /\ files[f].torn \in BOOLEAN
             /\ DOMAIN files[f].good = 1..Len(files[f].good)
             /\ Len(files[f].good) \in Nat
             /\ \A i \in DOMAIN files[f].good : files[f].good[i] \in Nat
  <2>1. f \in Nat /\ files[f] \in File
    BY DEF TypeOK
  <2> QED
    BY <2>1 DEF File
<1>3. ASSUME NEW f \in DOMAIN segs
      PROVE  /\ f \in Nat /\ segs[f].start \in Nat /\ segs[f].end \in Nat
             /\ segs[f].created \in Nat
  <2>1. f \in Nat /\ segs[f] \in Segment
    BY DEF TypeOK
  <2> QED
    BY <2>1 DEF Segment
<1> QED
  BY <1>1, <1>2, <1>3

(* The shapes TypeOK gives the variables, for the state after a step.      *)
LEMMA TypesNext ==
  ASSUME TypeOK'
  PROVE  /\ seq' \in Nat /\ cur' \in Nat /\ now' \in Nat
         /\ \A f \in DOMAIN files' :
              /\ f \in Nat /\ files'[f].mtime \in Nat
              /\ files'[f].good \in Seq(Nat) /\ files'[f].torn \in BOOLEAN
              /\ DOMAIN files'[f].good = 1..Len(files'[f].good)
              /\ Len(files'[f].good) \in Nat
              /\ \A i \in DOMAIN files'[f].good :
                   i \in Nat /\ files'[f].good[i] \in Nat
         /\ \A f \in DOMAIN segs' :
              /\ f \in Nat /\ segs'[f].start \in Nat /\ segs'[f].end \in Nat
              /\ segs'[f].created \in Nat
         /\ \A s \in held' : s \in Nat
<1>1. /\ seq' \in Nat /\ cur' \in Nat /\ now' \in Nat
      /\ \A s \in held' : s \in Nat
  BY DEF TypeOK
<1>2. ASSUME NEW f \in DOMAIN files'
      PROVE  /\ f \in Nat /\ files'[f].mtime \in Nat
             /\ files'[f].good \in Seq(Nat) /\ files'[f].torn \in BOOLEAN
             /\ DOMAIN files'[f].good = 1..Len(files'[f].good)
             /\ Len(files'[f].good) \in Nat
             /\ \A i \in DOMAIN files'[f].good :
                  i \in Nat /\ files'[f].good[i] \in Nat
  <2>1. f \in Nat /\ files'[f] \in File
    BY DEF TypeOK
  <2> QED
    BY <2>1 DEF File
<1>3. ASSUME NEW f \in DOMAIN segs'
      PROVE  /\ f \in Nat /\ segs'[f].start \in Nat /\ segs'[f].end \in Nat
             /\ segs'[f].created \in Nat
  <2>1. f \in Nat /\ segs'[f] \in Segment
    BY DEF TypeOK
  <2> QED
    BY <2>1 DEF Segment
<1> QED
  BY <1>1, <1>2, <1>3

(* An append keeps the files ordered and apart.                            *)
LEMMA WroteDisk ==
  ASSUME TypeOK, TypeOK', FilesOrdered, FilesApart, CurLast, FilesBelowSeq,
         Wrote, cur \in DOMAIN files, now' = now
  PROVE  FilesOrdered' /\ FilesApart'
<1>1. FilesOrdered'
  <2> SUFFICES ASSUME NEW f \in DOMAIN files'
               PROVE  /\ f >= 1
                      /\ files'[f].mtime <= now
                      /\ \A i \in DOMAIN files'[f].good : files'[f].good[i] >= f
                      /\ \A i, j \in DOMAIN files'[f].good :
                           i < j => files'[f].good[i] < files'[f].good[j]
    BY DEF FilesOrdered
  <2>1. CASE f \notin DOMAIN files
    BY <2>1, Types DEF Wrote
  <2>2. CASE f \in DOMAIN files /\ f # cur
    BY <2>2, Types DEF Wrote, FilesOrdered
  <2>3. CASE f = cur
    <3>1. f >= 1 /\ files'[f].mtime <= now
      BY <2>3, Types DEF Wrote, FilesOrdered
    <3>2. \A i \in DOMAIN files'[f].good : files'[f].good[i] >= f
      BY <2>3, Types DEF Wrote, FilesOrdered, CurLast
    <3>3. \A i, j \in DOMAIN files'[f].good :
            i < j => files'[f].good[i] < files'[f].good[j]
      <4> TAKE i, j \in DOMAIN files'[f].good
      <4> HAVE i < j
      <4>1. i \in Nat /\ j \in Nat
        BY TypesNext
      <4>2. i \in DOMAIN files[f].good
        <5>1. DOMAIN files'[f].good = 1..Len(files'[f].good)
          BY TypesNext
        <5>2. /\ DOMAIN files[f].good = 1..Len(files[f].good)
              /\ Len(files[f].good) \in Nat
          BY <2>3, Types
        <5>3. j \in DOMAIN files[f].good \/ j = Len(files[f].good) + 1
          BY <2>3 DEF Wrote
        <5> QED
          BY <4>1, <5>1, <5>2, <5>3
      <4>3. files'[f].good[i] = files[f].good[i]
        BY <2>3, <4>2 DEF Wrote
      <4>4. CASE j \in DOMAIN files[f].good
        <5>1. files'[f].good[j] = files[f].good[j]
          BY <2>3, <4>4 DEF Wrote
        <5> QED
          BY <2>3, <4>2, <4>3, <4>4, <5>1, Zenon DEF FilesOrdered
      <4>5. CASE j \notin DOMAIN files[f].good
        <5>1. files'[f].good[j] = seq + 1
          BY <2>3, <4>5 DEF Wrote
        <5>2. files[f].good[i] <= seq /\ files[f].good[i] \in Nat /\ seq \in Nat
          BY <2>3, <4>2, Types, Zenon DEF FilesBelowSeq
        <5> QED
          BY <4>3, <5>1, <5>2
      <4> QED
        BY <4>4, <4>5
    <3> QED
      BY <3>1, <3>2, <3>3
  <2> QED
    BY <2>1, <2>2, <2>3, Zenon
<1>2. FilesApart'
  <2> SUFFICES ASSUME NEW f \in DOMAIN files', NEW g \in DOMAIN files', f # g
               PROVE
    \/ \A i \in DOMAIN files'[f].good, j \in DOMAIN files'[g].good :
         files'[f].good[i] < files'[g].good[j] /\ files'[f].mtime <= files'[g].mtime
    \/ \A i \in DOMAIN files'[f].good, j \in DOMAIN files'[g].good :
         files'[g].good[j] < files'[f].good[i] /\ files'[g].mtime <= files'[f].mtime
    BY Zenon DEF FilesApart
  <2>1. CASE f \notin DOMAIN files \/ g \notin DOMAIN files
    BY <2>1 DEF Wrote
  <2>2. CASE f \in DOMAIN files /\ g \in DOMAIN files /\ f # cur /\ g # cur
    BY <2>2 DEF Wrote, FilesApart
  <2>3. ASSUME NEW h \in DOMAIN files, h # cur,
               files'[cur] = files[cur] \/ files'[cur].mtime = now
        PROVE  \A i \in DOMAIN files'[h].good, j \in DOMAIN files'[cur].good :
                 /\ files'[h].good[i] < files'[cur].good[j]
                 /\ files'[h].mtime <= files'[cur].mtime
    <3> TAKE i \in DOMAIN files'[h].good, j \in DOMAIN files'[cur].good
    <3>1. files'[h] = files[h] /\ files[h].good[i] < cur
      BY <2>3, Types, Zenon DEF Wrote, FilesBelowSeq
    <3>2. files'[cur].good[j] >= cur
      BY <1>1, Zenon DEF FilesOrdered, Wrote
    <3>3. files[h].mtime <= files'[cur].mtime
      <4>1. CASE files'[cur].mtime = now
        BY <4>1, <2>3 DEF FilesOrdered
      <4>2. CASE files'[cur] = files[cur]
        <5>1. files[cur].good[j] >= cur
          BY <3>2, <4>2
        <5>2. i \in DOMAIN files[h].good /\ j \in DOMAIN files[cur].good
          BY <3>1, <4>2
        <5>n. /\ files[h].good[i] \in Nat /\ files[cur].good[j] \in Nat
              /\ cur \in Nat
          BY <2>3, <5>2, Types, SMTT(30), Zenon
        <5>3. ~(files[cur].good[j] < files[h].good[i])
          BY <3>1, <5>1, <5>n
        <5>4. files[h].mtime <= files[cur].mtime
          BY <2>3, <5>2, <5>3, Zenon DEF FilesApart
        <5> QED
          BY <4>2, <5>4
      <4> QED
        BY <2>3, <4>1, <4>2, Zenon
    <3>4. files[h].good[i] \in Nat /\ files'[cur].good[j] \in Nat
      BY <2>3, <3>1, Types, TypesNext, Zenon DEF Wrote
    <3> QED
      BY <3>1, <3>2, <3>3, <3>4, Types, SMTT(30), Zenon
  <2>4. CASE f \in DOMAIN files /\ g = cur
    BY <2>3, <2>4, Zenon DEF Wrote
  <2>5. CASE g \in DOMAIN files /\ f = cur
    BY <2>3, <2>5, Zenon DEF Wrote
  <2> QED
    BY <2>1, <2>2, <2>4, <2>5, Zenon
<1> QED
  BY <1>1, <1>2

-----------------------------------------------------------------------------
(* Appends that leave the current segment in place.                        *)

(* The accounting moves the end of the current segment and nothing else.   *)
LEMMA AccountEffect ==
  ASSUME TypeOK, segs' = segs \/ segs' = Account(seq + 1)
  PROVE  /\ DOMAIN segs' = DOMAIN segs
         /\ \A f \in DOMAIN segs :
              /\ segs'[f].start = segs[f].start
              /\ segs'[f].created = segs[f].created
              /\ f # cur => segs'[f] = segs[f]
              /\ segs'[f].end = segs[f].end \/ (f = cur /\ segs'[f].end = seq + 1)
  BY DEF TypeOK, Account

(* An append that does not rotate keeps what the segment list and the      *)
(* files know about each other (Append, accounting branch).                *)
LEMMA StayMemory ==
  ASSUME TypeOK, TypeOK', FilesOrdered, up, MemoryInv,
         Wrote, seq' = seq + 1, cur' = cur, dir' = dir, now' = now,
         segs' = segs \/ segs' = Account(seq + 1),
         \A s \in held' : s \in held \/ (/\ s = seq + 1
                                         /\ segs' = Account(seq + 1)
                                         /\ s \in Elems(files'[cur].good) \/ files'[cur].torn)
  PROVE  MemoryInv'
<1>0. CurLast /\ SegsApart /\ SegsCoverFiles /\ FilesBelowSeq /\ HeldListed
  BY DEF MemoryInv
<1>a. DOMAIN segs \subseteq DOMAIN files /\ cur \in DOMAIN files
  BY <1>0, Zenon DEF TypeOK, CurLast
<1>1. CurLast'
  BY <1>0, AccountEffect, Types, SMTT(30), Zenon DEF CurLast
<1>2. SegsApart'
  <2> SUFFICES ASSUME NEW f \in DOMAIN segs, NEW g \in DOMAIN segs, f # g
               PROVE
    \/ /\ segs'[f].end < segs'[g].start /\ segs'[f].start < segs'[g].start
       /\ segs'[f].created <= segs'[g].created
    \/ /\ segs'[g].end < segs'[f].start /\ segs'[g].start < segs'[f].start
       /\ segs'[g].created <= segs'[f].created
    BY AccountEffect, Zenon DEF SegsApart
  <2>1. CASE f # cur /\ g # cur
    BY <1>0, <2>1, AccountEffect, Zenon DEF SegsApart
  <2>2. CASE f = cur
    <3>1. segs[g].end < segs[f].start /\ segs[g].start < segs[f].start
      BY <1>0, <2>2, Zenon DEF CurLast
    <3>2. segs[g].created <= segs[f].created
      BY <1>0, <3>1, Types, TypesNext, SMTT(30), Zenon DEF SegsApart
    <3> QED
      BY <2>2, <3>1, <3>2, AccountEffect, Zenon
  <2>3. CASE g = cur
    <3>1. segs[f].end < segs[g].start /\ segs[f].start < segs[g].start
      BY <1>0, <2>3, Zenon DEF CurLast
    <3>2. segs[f].created <= segs[g].created
      BY <1>0, <3>1, Types, SMTT(30), Zenon DEF SegsApart
    <3> QED
      BY <2>3, <3>1, <3>2, AccountEffect, Zenon
  <2> QED
    BY <2>1, <2>2, <2>3, Zenon
<1>3. SegsCoverFiles'
  <2> SUFFICES ASSUME NEW f \in DOMAIN segs, NEW i \in DOMAIN files'[f].good
               PROVE  /\ segs'[f].start <= files'[f].good[i]
                      /\ f # cur => files'[f].good[i] <= segs'[f].end
    BY AccountEffect DEF SegsCoverFiles
  <2>1. CASE f # cur
    <3>1. files'[f] = files[f]
      BY <1>a, <2>1, Zenon DEF Wrote
    <3> QED
      BY <1>0, <2>1, <3>1, AccountEffect, Zenon DEF SegsCoverFiles
  <2>2. CASE f = cur
    <3>1. segs[cur].start = cur /\ cur <= seq + 1
      BY <1>0 DEF CurLast
    <3>2. files'[cur].good[i] >= cur
      BY <1>0, <1>a, <2>2, <3>1, Zenon DEF Wrote, FilesOrdered
    <3> QED
      BY <2>2, <3>1, <3>2, AccountEffect
  <2> QED
    BY <2>1, <2>2, Zenon
<1>4. FilesBelowSeq'
  <2> SUFFICES ASSUME NEW f \in DOMAIN files', NEW i \in DOMAIN files'[f].good
               PROVE  /\ files'[f].good[i] <= seq + 1
                      /\ f # cur => files'[f].good[i] < cur
    BY Zenon DEF FilesBelowSeq
  <2>1. CASE f \notin DOMAIN files
    BY <2>1 DEF Wrote
  <2>2. CASE f \in DOMAIN files /\ f # cur
    <3>1. files'[f] = files[f]
      BY <2>2, Zenon DEF Wrote
    <3>2. files[f].good[i] <= seq /\ files[f].good[i] < cur
      BY <1>0, <2>2, <3>1, Zenon DEF FilesBelowSeq
    <3> QED
      BY <2>2, <3>1, <3>2, Types, SMTT(30), Zenon
  <2>3. CASE f = cur
    <3>1. CASE i \in DOMAIN files[cur].good
      <4>1. files'[cur].good[i] = files[cur].good[i] /\ files[cur].good[i] <= seq
        BY <1>0, <1>a, <3>1, Zenon DEF Wrote, FilesBelowSeq
      <4> QED
        BY <1>a, <2>3, <3>1, <4>1, Types
    <3>2. CASE i \notin DOMAIN files[cur].good
      BY <2>3, <3>2 DEF Wrote
    <3> QED
      BY <3>1, <3>2, Zenon
  <2> QED
    BY <2>1, <2>2, <2>3, Zenon
<1>5. ASSUME NEW f \in DOMAIN segs, NEW s, Has(f, s)
      PROVE  Has(f, s)'
  BY <1>a, <1>5 DEF Has, Elems, Wrote
<1>6. HeldListed'
  <2> SUFFICES ASSUME NEW s \in held'
               PROVE  /\ s <= seq + 1
                      /\ \A o \in DOMAIN segs : segs'[o].start <= s =>
                           \E f \in DOMAIN segs :
                             segs'[f].start <= s /\ s <= segs'[f].end /\ Has(f, s)'
    BY AccountEffect, Zenon DEF HeldListed
  <2>1. CASE s \in held
    <3>1. s <= seq
      BY <1>0, <2>1 DEF HeldListed
    <3>2. ASSUME NEW o \in DOMAIN segs, segs'[o].start <= s
          PROVE  \E f \in DOMAIN segs :
                   segs'[f].start <= s /\ s <= segs'[f].end /\ Has(f, s)'
      <4>1. segs[o].start <= s
        BY <3>2, AccountEffect
      <4>2. PICK f \in DOMAIN segs : segs[f].start <= s /\ s <= segs[f].end /\ Has(f, s)
        BY <1>0, <2>1, <4>1 DEF HeldListed
      <4>3. segs'[f].start = segs[f].start /\ segs[f].end <= segs'[f].end
        BY <1>0, AccountEffect, Types, SMTT(30), Zenon DEF CurLast
      <4>4. s <= segs'[f].end
        BY <2>1, <4>2, <4>3, AccountEffect, Types, SMTT(30), Zenon
      <4> QED
        BY <1>5, <4>2, <4>3, <4>4, Zenon
    <3> QED
      BY <2>1, <3>1, <3>2, Types
  <2>2. CASE s \notin held
    <3>1. /\ s = seq + 1 /\ segs' = Account(seq + 1)
          /\ s \in Elems(files'[cur].good) \/ files'[cur].torn
      BY <2>2
    <3>2. cur \in DOMAIN segs /\ segs'[cur].start <= s
      BY <1>0, <3>1, AccountEffect DEF CurLast
    <3>3. segs'[cur].end = seq + 1
      <4>1. segs'[cur] = [start |-> segs[cur].start, end |-> seq + 1,
                          bytes |-> segs[cur].bytes + 1, created |-> segs[cur].created]
        BY <3>1, <3>2, Zenon DEF Account, TypeOK
      <4> QED
        BY <4>1, Types
    <3>4. s <= seq + 1 /\ s <= segs'[cur].end
      BY <3>1, <3>3
    <3>5. \E f \in DOMAIN segs : segs'[f].start <= s /\ s <= segs'[f].end /\ Has(f, s)'
      BY <3>1, <3>2, <3>4, Zenon DEF Has
    <3> QED
      BY <3>4, <3>5, Zenon
  <2> QED
    BY <2>1, <2>2
<1> QED
  BY <1>1, <1>2, <1>3, <1>4, <1>6, Zenon DEF MemoryInv

(* Appends that open the next segment.                                     *)
LEMMA RotateEffect ==
  ASSUME TypeOK, CurLast, segs' = AddSegment(Account(seq + 1), seq + 1)
  PROVE  /\ DOMAIN segs' = DOMAIN segs \cup {seq + 2}
         /\ seq + 2 \notin DOMAIN segs
         /\ segs'[seq + 2] = [start |-> seq + 2, end |-> seq + 1, bytes |-> 0,
                              created |-> now]
         /\ \A f \in DOMAIN segs :
              /\ segs'[f].start = segs[f].start
              /\ segs'[f].created = segs[f].created
              /\ f # cur => segs'[f] = segs[f]
         /\ segs'[cur].end = seq + 1
<1>1. \A f \in DOMAIN segs : f <= seq + 1
  BY Types, SMTT(30), Zenon DEF CurLast
<1>2. seq + 2 \notin DOMAIN segs /\ seq \in Nat /\ seq + 1 + 1 = seq + 2
  BY <1>1, Types
<1>3. DOMAIN Account(seq + 1) = DOMAIN segs
  BY <1>2, AccountTyped
<1>4. /\ DOMAIN segs' = DOMAIN segs \cup {seq + 2}
      /\ segs'[seq + 2] = [start |-> seq + 2, end |-> seq + 1, bytes |-> 0,
                           created |-> now]
      /\ \A f \in DOMAIN segs : segs'[f] = Account(seq + 1)[f]
  BY <1>2, <1>3, Zenon DEF AddSegment, FreshSegment
<1>5. /\ \A f \in DOMAIN segs : f # cur => Account(seq + 1)[f] = segs[f]
      /\ Account(seq + 1)[cur] =
           [start |-> segs[cur].start, end |-> seq + 1,
            bytes |-> segs[cur].bytes + 1, created |-> segs[cur].created]
  BY Zenon DEF Account, CurLast, TypeOK
<1> HIDE DEF Account
<1> QED
  BY <1>2, <1>4, <1>5, SMTT(30), Zenon DEF CurLast

(* The same for an append that rotates to a new segment.                   *)
LEMMA RotateMemory ==
  ASSUME TypeOK, TypeOK', FilesOrdered, up, MemoryInv,
         Wrote, seq' = seq + 1, cur' = seq + 2, dir' = dir \cup {seq + 2}, now' = now,
         segs' = AddSegment(Account(seq + 1), seq + 1),
         \A s \in held' : s \in held \/ (/\ s = seq + 1
                                         /\ s \in Elems(files'[cur].good) \/ files'[cur].torn)
  PROVE  MemoryInv'
<1>0. CurLast /\ SegsApart /\ SegsCoverFiles /\ FilesBelowSeq /\ HeldListed
  BY DEF MemoryInv
<1>a. /\ DOMAIN segs \subseteq DOMAIN files /\ cur \in DOMAIN files
      /\ cur # seq + 2 /\ cur \in DOMAIN segs
  BY <1>0, RotateEffect, Zenon DEF TypeOK, CurLast
<1>b. /\ DOMAIN segs' = DOMAIN segs \cup {seq + 2}
      /\ segs'[seq + 2].start = seq + 2 /\ segs'[seq + 2].end = seq + 1
      /\ segs'[seq + 2].created = now
      /\ \A f \in DOMAIN segs :
           /\ f # seq + 2
           /\ segs'[f].start = segs[f].start
           /\ segs'[f].created = segs[f].created
           /\ f # cur => segs'[f] = segs[f]
      /\ segs'[cur].end = seq + 1
  BY <1>0, RotateEffect, SMTT(30), Zenon
<1>1. CurLast'
  <2>1. \A f \in DOMAIN segs : f <= segs[f].start /\ segs[f].start <= seq + 1
                               /\ segs[f].end <= seq /\ segs[f].created <= now
    BY <1>0, Types, SMTT(30), Zenon DEF CurLast
  <2>2. \A f \in DOMAIN segs : segs'[f].end <= seq + 1
    BY <1>b, <2>1, Types, SMTT(30), Zenon
  <2>3. \A f \in DOMAIN segs : segs'[f].start < seq + 2 /\ f <= segs'[f].start
                               /\ segs'[f].created <= now
    BY <1>b, <2>1, Types, SMTT(30), Zenon
  <2>4. \A f \in DOMAIN segs' : f \in DOMAIN segs \/ f = seq + 2
    BY <1>b, Zenon
  <2>5. \A f \in DOMAIN segs' :
          /\ f <= segs'[f].start /\ segs'[f].end <= seq'
          /\ segs'[f].created <= now'
          /\ f # cur' => segs'[f].end < cur' /\ segs'[f].start < cur'
    <3> TAKE f \in DOMAIN segs'
    <3>1. CASE f \in DOMAIN segs
      BY <2>2, <2>3, <3>1, Types, TypesNext, SMTT(30), Zenon
    <3>2. CASE f = seq + 2
      BY <1>b, <3>2, Types, SMTT(30), Zenon
    <3> QED
      BY <2>4, <3>1, <3>2, Zenon
  <2>6. DOMAIN segs' \subseteq dir'
    BY <1>0, <1>b, Zenon DEF CurLast
  <2>7. cur' \in DOMAIN segs' /\ segs'[cur'].start = cur' /\ 1 <= cur' /\ cur' <= seq' + 1
    BY <1>b, Types, SMTT(30), Zenon
  <2> QED
    BY <2>5, <2>6, <2>7, Zenon DEF CurLast
<1>2. SegsApart'
  <2> SUFFICES ASSUME NEW f \in DOMAIN segs', NEW g \in DOMAIN segs', f # g
               PROVE
    \/ /\ segs'[f].end < segs'[g].start /\ segs'[f].start < segs'[g].start
       /\ segs'[f].created <= segs'[g].created
    \/ /\ segs'[g].end < segs'[f].start /\ segs'[g].start < segs'[f].start
       /\ segs'[g].created <= segs'[f].created
    BY Zenon DEF SegsApart
  <2>1. CASE f = seq + 2
    BY <1>1, <1>b, <2>1, SMTT(30), Zenon DEF CurLast
  <2>2. CASE g = seq + 2
    BY <1>1, <1>b, <2>2, SMTT(30), Zenon DEF CurLast
  <2>3. CASE f \in DOMAIN segs /\ g \in DOMAIN segs /\ f # cur /\ g # cur
    BY <1>0, <1>b, <2>3, Zenon DEF SegsApart
  <2>4. CASE f \in DOMAIN segs /\ g = cur
    <3>1. segs[f].end < segs[g].start /\ segs[f].start < segs[g].start
      BY <1>0, <2>4, Zenon DEF CurLast
    <3>2. segs[f].created <= segs[g].created
      BY <1>0, <1>a, <2>4, <3>1, Types, SMTT(30), Zenon DEF SegsApart
    <3> QED
      BY <1>a, <1>b, <2>4, <3>1, <3>2, Zenon
  <2>5. CASE g \in DOMAIN segs /\ f = cur
    <3>1. segs[g].end < segs[f].start /\ segs[g].start < segs[f].start
      BY <1>0, <2>5, Zenon DEF CurLast
    <3>2. segs[g].created <= segs[f].created
      BY <1>0, <1>a, <2>5, <3>1, Types, SMTT(30), Zenon DEF SegsApart
    <3> QED
      BY <1>a, <1>b, <2>5, <3>1, <3>2, Zenon
  <2> QED
    BY <1>b, <2>1, <2>2, <2>3, <2>4, <2>5, Zenon
<1>3. FilesBelowSeq'
  <2> SUFFICES ASSUME NEW f \in DOMAIN files', NEW i \in DOMAIN files'[f].good
               PROVE  files'[f].good[i] <= seq + 1
    BY Types, TypesNext, SMTT(30), Zenon DEF FilesBelowSeq
  <2>1. CASE f \notin DOMAIN files
    BY <2>1 DEF Wrote
  <2>2. CASE f \in DOMAIN files /\ f # cur
    <3>1. files'[f] = files[f]
      BY <2>2, Zenon DEF Wrote
    <3>2. files[f].good[i] <= seq
      BY <1>0, <2>2, <3>1, Zenon DEF FilesBelowSeq
    <3> QED
      BY <2>2, <3>1, <3>2, Types, SMTT(30), Zenon
  <2>3. CASE f = cur
    <3>1. CASE i \in DOMAIN files[cur].good
      <4>1. files'[cur].good[i] = files[cur].good[i] /\ files[cur].good[i] <= seq
        BY <1>0, <1>a, <3>1, Zenon DEF Wrote, FilesBelowSeq
      <4> QED
        BY <1>a, <2>3, <3>1, <4>1, Types, SMTT(30), Zenon
    <3>2. CASE i \notin DOMAIN files[cur].good
      BY <2>3, <3>2 DEF Wrote
    <3> QED
      BY <3>1, <3>2, Zenon
  <2> QED
    BY <2>1, <2>2, <2>3, Zenon
<1>4. SegsCoverFiles'
  <2> SUFFICES ASSUME NEW f \in DOMAIN segs', NEW i \in DOMAIN files'[f].good
               PROVE  /\ segs'[f].start <= files'[f].good[i]
                      /\ f # seq + 2 => files'[f].good[i] <= segs'[f].end
    BY Zenon DEF SegsCoverFiles
  <2>1. CASE f = seq + 2
    <3>1. CASE f \in DOMAIN files
      <4>1. files'[f] = files[f]
        BY <1>a, <2>1, <3>1, Zenon DEF Wrote
      <4>2. files[f].good[i] <= seq /\ files[f].good[i] >= f
        BY <1>0, <3>1, <4>1, Zenon DEF FilesBelowSeq, FilesOrdered
      <4> QED
        BY <2>1, <3>1, <4>1, <4>2, Types, SMTT(30), Zenon
    <3>2. CASE f \notin DOMAIN files
      <4>1. f \in DOMAIN files'
        BY <1>1, Zenon DEF CurLast, TypeOK
      <4> QED
        BY <3>2, <4>1, SMTT(30), Zenon DEF Wrote
    <3> QED
      BY <3>1, <3>2, Zenon
  <2>2. CASE f \in DOMAIN segs /\ f # cur
    <3>1. files'[f] = files[f]
      BY <1>a, <2>2, Zenon DEF Wrote
    <3> QED
      BY <1>0, <1>b, <2>2, <3>1, Zenon DEF SegsCoverFiles
  <2>3. CASE f = cur
    <3>1. segs[cur].start = cur /\ cur <= seq + 1
      BY <1>0, Zenon DEF CurLast
    <3>2. files'[cur].good[i] >= cur
      BY <1>0, <1>a, <2>3, <3>1, Zenon DEF Wrote, FilesOrdered
    <3>3. files'[cur].good[i] <= seq + 1
      BY <1>3, <1>a, <2>3, Zenon DEF FilesBelowSeq, Wrote
    <3> QED
      BY <1>a, <1>b, <2>3, <3>1, <3>2, <3>3, SMTT(30), Zenon
  <2> QED
    BY <1>b, <2>1, <2>2, <2>3, Zenon
<1>5. ASSUME NEW f \in DOMAIN segs, NEW s, Has(f, s)
      PROVE  s \in Elems(files'[f].good) \/ files'[f].torn
  <2>1. CASE f # cur
    <3>1. files'[f] = files[f]
      BY <1>a, <2>1, Zenon DEF Wrote
    <3> QED
      BY <1>5, <3>1, Zenon DEF Has
  <2>2. CASE f = cur
    BY <1>5, <2>2, Zenon DEF Has, Elems, Wrote
  <2> QED
    BY <2>1, <2>2, Zenon
<1>6. HeldListed'
  <2> SUFFICES ASSUME NEW s \in held'
               PROVE  /\ s <= seq + 1
                      /\ \A o \in DOMAIN segs' : segs'[o].start <= s =>
                           \E f \in DOMAIN segs' :
                             /\ segs'[f].start <= s /\ s <= segs'[f].end
                             /\ s \in Elems(files'[f].good) \/ files'[f].torn
    BY Zenon DEF HeldListed, Has
  <2>1. CASE s \in held
    <3>1. s <= seq
      BY <1>0, <2>1, Zenon DEF HeldListed
    <3>2. ASSUME NEW o \in DOMAIN segs', segs'[o].start <= s
          PROVE  \E f \in DOMAIN segs' :
                   /\ segs'[f].start <= s /\ s <= segs'[f].end
                   /\ s \in Elems(files'[f].good) \/ files'[f].torn
      <4>1. o \in DOMAIN segs /\ segs[o].start <= s
        BY <1>b, <2>1, <3>1, <3>2, Types, SMTT(30), Zenon
      <4>2. PICK f \in DOMAIN segs : segs[f].start <= s /\ s <= segs[f].end /\ Has(f, s)
        BY <1>0, <2>1, <4>1, Zenon DEF HeldListed
      <4>3. segs'[f].start = segs[f].start /\ segs[f].end <= segs'[f].end
        BY <1>0, <1>b, Types, SMTT(30), Zenon DEF CurLast
      <4>4. s <= segs'[f].end /\ f \in DOMAIN segs'
        BY <1>b, <2>1, <4>2, <4>3, Types, SMTT(30), Zenon
      <4> QED
        BY <1>5, <4>2, <4>3, <4>4, Zenon
    <3> QED
      BY <2>1, <3>1, <3>2, Types, SMTT(30), Zenon
  <2>2. CASE s \notin held
    <3>1. s = seq + 1 /\ (s \in Elems(files'[cur].good) \/ files'[cur].torn)
      BY <2>2
    <3>2. /\ cur \in DOMAIN segs' /\ segs'[cur].start <= s
          /\ s <= segs'[cur].end /\ s <= seq + 1
      BY <1>0, <1>a, <1>b, <3>1, SMTT(30), Zenon DEF CurLast
    <3> QED
      BY <3>1, <3>2, Zenon
  <2> QED
    BY <2>1, <2>2, Zenon
<1> QED
  BY <1>1, <1>2, <1>3, <1>4, <1>6, Zenon DEF MemoryInv

-----------------------------------------------------------------------------
(* A replay while records are appended.                                    *)

(* The fields of a ReadFrom call have the types Reader gives them.         *)
LEMMA ReaderTypes ==
  ASSUME TypeOK, NEW r \in Readers
  PROVE  /\ rd[r].from \in Nat /\ rd[r].lo \in Int /\ rd[r].hi \in Nat
         /\ rd[r].file \in Nat /\ rd[r].pos \in Nat /\ rd[r].gap \in BOOLEAN
         /\ rd[r].out \in Seq(Nat)
         /\ DOMAIN rd[r].out = 1..Len(rd[r].out) /\ Len(rd[r].out) \in Nat
         /\ \A i \in DOMAIN rd[r].out : rd[r].out[i] \in Nat
         /\ \A f \in DOMAIN rd[r].views :
              f \in Nat /\ rd[r].views[f].start \in Nat /\ rd[r].views[f].end \in Nat
<1>1. /\ rd[r] \in Reader(rd[r].views)
      /\ DOMAIN rd[r].views \subseteq Nat
      /\ rd[r].views \in [DOMAIN rd[r].views -> View]
  BY DEF TypeOK
<1>2. /\ rd[r].from \in Nat /\ rd[r].lo \in Int /\ rd[r].hi \in Nat
      /\ rd[r].file \in Nat /\ rd[r].pos \in Nat /\ rd[r].gap \in BOOLEAN
      /\ rd[r].out \in Seq(Nat)
  BY <1>1, Zenon DEF Reader
<1>3. \A f \in DOMAIN rd[r].views :
        f \in Nat /\ rd[r].views[f].start \in Nat /\ rd[r].views[f].end \in Nat
  BY <1>1, Zenon DEF View
<1> QED
  BY <1>2, <1>3, SMTT(30), Zenon

(* An interval 1..m that lies within 1..n is no longer than it.            *)
LEMMA IntervalLength ==
  ASSUME NEW m \in Nat, NEW n \in Nat, \A i \in 1..m : i \in 1..n
  PROVE  m <= n
<1>1. CASE m = 0
  BY <1>1
<1>2. CASE m # 0
  <2>1. m \in 1..m
    BY <1>2
  <2> QED
    BY <2>1
<1> QED
  BY <1>1, <1>2

(* No write shortens a file.                                               *)
LEMMA WroteLonger ==
  ASSUME TypeOK, TypeOK', Wrote, NEW f \in DOMAIN files, NEW n \in Nat,
         n <= Len(files[f].good)
  PROVE  n <= Len(files'[f].good)
<1>1. /\ Len(files[f].good) \in Nat /\ DOMAIN files[f].good = 1..Len(files[f].good)
  BY Types
<1>2. f \in DOMAIN files'
  BY Zenon DEF Wrote
<1>3. /\ Len(files'[f].good) \in Nat /\ DOMAIN files'[f].good = 1..Len(files'[f].good)
  BY <1>2, TypesNext, Zenon
<1>4. \A i \in 1..Len(files[f].good) : i \in 1..Len(files'[f].good)
  BY <1>1, <1>3, Zenon DEF Wrote
<1>5. Len(files[f].good) <= Len(files'[f].good)
  BY <1>1, <1>3, <1>4, IntervalLength, Zenon
<1> QED
  BY <1>1, <1>3, <1>5

(* A record written behind a replay in progress does not disturb it: it    *)
(* is above everything the replay has delivered or still owes.             *)
LEMMA WroteReader ==
  ASSUME TypeOK, TypeOK', up, up', CurLast, FilesBelowSeq, Wrote,
         seq' = seq + 1, cur' = cur \/ cur' = seq + 2, rd' = rd,
         \A s \in held' : s \in held \/ s = seq + 1,
         NEW r \in Readers, ReaderInv(rd[r])
  PROVE  ReaderInv(rd[r])'
<1> DEFINE x == rd[r]
           v == rd[r].views
<1>t. seq \in Nat /\ cur \in Nat
  BY Types
<1>r. /\ x.from \in Nat /\ x.lo \in Int /\ x.hi \in Nat /\ x.pos \in Nat /\ x.file \in Nat
      /\ \A i \in DOMAIN x.out : x.out[i] \in Nat
      /\ \A f \in DOMAIN v : f \in Nat /\ v[f].start \in Nat /\ v[f].end \in Nat
  BY ReaderTypes, SMTT(30), Zenon
<1>a. cur \in DOMAIN files /\ cur <= seq + 1
  BY Zenon DEF CurLast, TypeOK
<1>1. CASE x.pc \in {"idle", "expired", "err"} /\ x.out = <<>>
  BY <1>1, Zenon DEF ReaderInv
<1>2. ASSUME Replaying(x)
      PROVE  Replaying(x)'
  <2>0. /\ x.from <= x.lo /\ x.hi <= seq
        /\ ViewsOrdered(v) /\ OutOrdered(x)
        /\ x.pc = "read" => FileOpen(x)
        /\ \A s \in held : x.lo < s /\ s <= x.hi => Owed(x, s)
    BY <1>2, Zenon DEF Replaying
  <2>1. ASSUME NEW f \in DOMAIN files, f # cur
        PROVE  files'[f] = files[f]
    BY <2>1, Zenon DEF Wrote
  <2>2. ViewsOrdered(v)'
    <3>1. DOMAIN v \subseteq DOMAIN files'
      BY <2>0, Zenon DEF ViewsOrdered, Wrote
    <3>2. ASSUME NEW f \in DOMAIN v
          PROVE  /\ f <= seq + 2 /\ v[f].start <= seq + 2 /\ f # seq + 2
                 /\ \A i \in DOMAIN files'[f].good : v[f].start <= files'[f].good[i]
      <4>1. f <= seq + 1 /\ v[f].start <= seq + 1 /\ f \in DOMAIN files
        BY <2>0, Zenon DEF ViewsOrdered
      <4>2. \A i \in DOMAIN files[f].good : v[f].start <= files[f].good[i]
        BY <2>0, Zenon DEF ViewsOrdered
      <4>3. \A i \in DOMAIN files'[f].good : v[f].start <= files'[f].good[i]
        <5>1. CASE f # cur
          BY <2>1, <4>1, <4>2, <5>1, Zenon
        <5>2. CASE f = cur
          BY <4>1, <4>2, <5>2, SMTT(30), Zenon DEF Wrote
        <5> QED
          BY <5>1, <5>2, Zenon
      <4> QED
        BY <1>r, <1>t, <4>1, <4>3
    <3>3. ASSUME NEW f \in DOMAIN v, NEW g \in DOMAIN v, f # g
          PROVE  /\ v[f].start # v[g].start
                 /\ v[f].start < v[g].start =>
                      /\ f # cur'
                      /\ \A i \in DOMAIN files'[f].good : files'[f].good[i] < v[g].start
      <4>1. /\ v[f].start # v[g].start
            /\ v[f].start < v[g].start =>
                 f # cur /\ \A i \in DOMAIN files[f].good : files[f].good[i] < v[g].start
        BY <2>0, <3>3, Zenon DEF ViewsOrdered
      <4>2. f # seq + 2 /\ f \in DOMAIN files
        BY <3>2, <2>0, Zenon DEF ViewsOrdered
      <4> QED
        BY <2>1, <4>1, <4>2, Zenon
    <3> QED
      BY <3>1, <3>2, <3>3, Types, SMTT(30), Zenon DEF ViewsOrdered
  <2>3. OutOrdered(x)'
    <3>1. \A i \in DOMAIN x.out : x.out[i] <= seq + 1
      BY <1>r, <1>t, <2>0 DEF OutOrdered
    <3> QED
      BY <2>0, <3>1, Zenon DEF OutOrdered
  <2>4. ASSUME x.pc = "read"
        PROVE  FileOpen(x)'
    <3> DEFINE F == x.file
    <3>0. /\ F \in DOMAIN files /\ F <= seq + 1
          /\ x.pos <= Len(files[F].good)
          /\ \A g \in DOMAIN v :
               /\ F # cur
               /\ \A i \in DOMAIN files[F].good : files[F].good[i] < v[g].start
          /\ \A i \in DOMAIN x.out, k \in DOMAIN files[F].good :
               k > x.pos => x.out[i] < files[F].good[k]
      BY <2>0, <2>4, Zenon DEF FileOpen
    <3>b. F # seq + 2 /\ F <= seq' + 1
      <4>1. F <= seq + 1 /\ F \in Nat
        BY <1>r, <3>0, Zenon
      <4> QED
        BY <1>t, <4>1
    <3>1. F \in DOMAIN files' /\ F <= seq' + 1
      BY <3>0, <3>b, Zenon DEF Wrote
    <3>2. x.pos <= Len(files'[F].good)
      BY <3>0, WroteLonger, ReaderTypes, SMTT(30), Zenon
    <3>3. ASSUME NEW g \in DOMAIN v
          PROVE  /\ F # cur'
                 /\ \A i \in DOMAIN files'[F].good : files'[F].good[i] < v[g].start
      BY <2>1, <3>0, <3>b, Zenon
    <3>4. ASSUME NEW i \in DOMAIN x.out, NEW k \in DOMAIN files'[F].good, k > x.pos
          PROVE  x.out[i] < files'[F].good[k]
      <4>1. CASE k \in DOMAIN files[F].good
        <5>1. files'[F].good[k] = files[F].good[k]
          BY <2>1, <3>0, <4>1, Zenon DEF Wrote
        <5> QED
          BY <3>0, <3>4, <4>1, <5>1, Zenon
      <4>2. CASE k \notin DOMAIN files[F].good
        <5>1. F = cur
          BY <2>1, <3>0, <4>2, Zenon
        <5>2. files'[F].good[k] = seq + 1
          BY <4>2, <5>1, Zenon DEF Wrote
        <5>3. x.out[i] <= seq /\ x.out[i] \in Nat
          BY <1>r, <2>0, Zenon DEF OutOrdered
        <5> QED
          BY <1>t, <5>2, <5>3
      <4> QED
        BY <4>1, <4>2, Zenon
    <3> QED
      BY <3>1, <3>2, <3>3, <3>4, Zenon DEF FileOpen
  <2>5. ASSUME NEW s \in held', x.lo < s, s <= x.hi
        PROVE  Owed(x, s)'
    <3>1. s \in held
      <4>1. s # seq + 1
        BY <1>r, <1>t, <2>0, <2>5
      <4> QED
        BY <2>5, <4>1, Zenon
    <3>2. Owed(x, s)
      BY <2>0, <2>5, <3>1, Zenon
    <3>3. ASSUME NEW f \in DOMAIN files, Has(f, s)
          PROVE  s \in Elems(files'[f].good) \/ files'[f].torn
      <4>1. CASE f # cur
        BY <2>1, <3>3, <4>1, Zenon DEF Has
      <4>2. CASE f = cur
        BY <3>3, <4>2, SMTT(30), Zenon DEF Has, Elems, Wrote
      <4> QED
        BY <4>1, <4>2, Zenon
    <3>4. CASE s \in Elems(x.out) \/ x.gap
      BY <3>4, Zenon DEF Owed
    <3>5. CASE \E f \in DOMAIN v : s <= v[f].end /\ Has(f, s)
      <4>1. PICK f \in DOMAIN v : s <= v[f].end /\ Has(f, s)
        BY <3>5, Zenon
      <4>2. f \in DOMAIN files
        BY <2>0, Zenon DEF ViewsOrdered
      <4> QED
        BY <3>3, <4>1, <4>2, Zenon DEF Owed, Has
    <3>6. CASE /\ x.pc = "read"
               /\ \/ files[x.file].torn
                  \/ \E k \in DOMAIN files[x.file].good :
                       k > x.pos /\ files[x.file].good[k] = s
      <4>1. x.file \in DOMAIN files
        BY <2>0, <3>6, Zenon DEF FileOpen
      <4>2. \/ files'[x.file].torn
            \/ \E k \in DOMAIN files'[x.file].good :
                 k > x.pos /\ files'[x.file].good[k] = s
        <5>1. CASE x.file # cur
          BY <2>1, <3>6, <4>1, <5>1, Zenon
        <5>2. CASE x.file = cur
          BY <3>6, <4>1, <5>2, Zenon DEF Wrote
        <5> QED
          BY <5>1, <5>2, Zenon
      <4> QED
        BY <3>6, <4>2, Zenon DEF Owed
    <3> QED
      BY <3>2, <3>4, <3>5, <3>6, Zenon DEF Owed
  <2>6. x.from <= x.lo /\ x.hi <= seq + 1
    BY <1>r, <1>t, <2>0
  <2> QED
    BY <2>2, <2>3, <2>4, <2>5, <2>6, Zenon DEF Replaying
<1> QED
  BY <1>1, <1>2, Zenon DEF ReaderInv

-----------------------------------------------------------------------------
(* The append actions.                                                     *)

(* The record of a successful append is in its file, unless a fragment is. *)
LEMMA RecordWritten ==
  ASSUME TypeOK, cur \in DOMAIN files
  PROVE  \/ seq + 1 \in Elems(WriteRecord(cur, seq + 1)[cur].good)
         \/ WriteRecord(cur, seq + 1)[cur].torn
<1> DEFINE G == files[cur].good
<1>1. G \in Seq(Nat) /\ seq + 1 \in Nat
  BY Types, SMTT(30), Zenon
<1>2. WriteRecord(cur, seq + 1)[cur] =
        [good  |-> IF files[cur].torn THEN G ELSE Append(G, seq + 1),
         torn  |-> files[cur].torn,
         size  |-> files[cur].size + 1,
         mtime |-> now]
  BY Zenon DEF WriteRecord
<1>3. seq + 1 \in Elems(Append(G, seq + 1))
  <2> HIDE DEF G
  <2>1. /\ Len(G) + 1 \in DOMAIN Append(G, seq + 1)
        /\ Append(G, seq + 1)[Len(G) + 1] = seq + 1
    BY <1>1
  <2> QED
    BY <2>1 DEF Elems
<1>4. CASE ~files[cur].torn
  <2>1. WriteRecord(cur, seq + 1)[cur].good = Append(G, seq + 1)
    BY <1>2, <1>4, SMTT(30), Zenon
  <2> QED
    BY <1>3, <2>1, Zenon
<1>5. CASE files[cur].torn
  BY <1>2, <1>5, SMTT(30), Zenon
<1> QED
  BY <1>4, <1>5, Zenon

(* Every outcome of Append preserves the inductive invariant.              *)
LEMMA AppendStep ==
  ASSUME IInv, Appends
  PROVE  IInv'
<1>0. /\ TypeOK /\ FilesOrdered /\ FilesApart /\ MemoryInv
      /\ \A r \in Readers : ReaderInv(rd[r])
  BY DEF IInv
<1>1. up /\ up' = up /\ now' = now /\ rd' = rd /\ lives' = lives /\ seq' = seq + 1
  BY Zenon DEF Appends, AppendStay, AppendRotate, AppendWriteFails, AppendRotateFails, CanAppend
<1>2. /\ CurLast /\ SegsApart /\ SegsCoverFiles /\ FilesBelowSeq /\ HeldListed
      /\ cur \in DOMAIN files /\ cur \in DOMAIN segs
      /\ seq \in Nat /\ seq + 1 \in Nat /\ cur \in Nat /\ now \in Nat
  BY <1>0, <1>1, Types, SMTT(30), Zenon DEF MemoryInv, CurLast, TypeOK
<1>3. acked' \subseteq Nat /\ held' \subseteq Nat
  BY <1>0, <1>2, Zenon DEF TypeOK, Appends, AppendStay, AppendRotate, AppendWriteFails,
                    AppendRotateFails, Acknowledge
<1>4. ASSUME Wrote, TypeOK', MemoryInv', cur' = cur \/ cur' = seq + 2,
             \A s \in held' : s \in held \/ s = seq + 1
      PROVE  IInv'
  <2>1. FilesOrdered' /\ FilesApart'
    BY <1>0, <1>1, <1>2, <1>4, WroteDisk, Zenon
  <2>2. \A r \in Readers : ReaderInv(rd[r])'
    BY <1>0, <1>1, <1>2, <1>4, WroteReader, Zenon
  <2> QED
    BY <1>4, <2>1, <2>2, Zenon DEF IInv
<1>5. CASE AppendStay
  <2>1. /\ files' = WriteRecord(cur, seq + 1) /\ segs' = Account(seq + 1)
        /\ held' = held \cup {seq + 1} /\ cur' = cur /\ dir' = dir /\ writable' = writable
    BY <1>5, Zenon DEF AppendStay, Acknowledge
  <2>2. Wrote /\ DOMAIN files' = DOMAIN files /\ files' \in [DOMAIN files' -> File]
    BY <1>0, <1>2, <2>1, WriteIsWrote, Zenon
  <2>3. segs' \in [DOMAIN segs' -> Segment] /\ DOMAIN segs' = DOMAIN segs
    BY <1>0, <1>2, <2>1, AccountTyped, Zenon
  <2>4. TypeOK'
    BY <1>0, <1>1, <1>2, <1>3, <2>1, <2>2, <2>3, Zenon DEF TypeOK
  <2>5. seq + 1 \in Elems(files'[cur].good) \/ files'[cur].torn
    BY <1>0, <1>2, <2>1, RecordWritten, Zenon
  <2>6. MemoryInv'
    BY <1>0, <1>1, <2>1, <2>2, <2>4, <2>5, StayMemory, Zenon
  <2> QED
    BY <1>4, <2>1, <2>2, <2>4, <2>6
<1>6. CASE AppendRotate
  <2>1. /\ files' = Touch(WriteRecord(cur, seq + 1), seq + 2)
        /\ segs' = AddSegment(Account(seq + 1), seq + 1)
        /\ held' = held \cup {seq + 1} /\ cur' = seq + 2 /\ dir' = dir \cup {seq + 2}
        /\ writable' = writable
    BY <1>6, Zenon DEF AppendRotate, Acknowledge
  <2>2. /\ Wrote /\ DOMAIN files' = DOMAIN files \cup {seq + 2}
        /\ files' \in [DOMAIN files' -> File]
    BY <1>0, <1>2, <2>1, WriteAndRotate, Zenon
  <2>3. /\ segs' \in [DOMAIN segs' -> Segment]
        /\ DOMAIN segs' = DOMAIN segs \cup {seq + 1 + 1}
    <3>1. Account(seq + 1) \in [DOMAIN segs -> Segment]
      BY <1>0, <1>2, AccountTyped
    <3>2. seq + 1 \in Nat /\ now \in Nat
      BY <1>2, Types
    <3> QED
      BY <1>1, <2>1, <3>1, <3>2, AddTyped, ZenonT(30)
  <2>4. TypeOK'
    <3>1. seq + 1 + 1 \in Nat /\ seq + 2 \in Nat
      BY <1>2
    <3> QED
      BY <1>0, <1>1, <1>2, <1>3, <2>1, <2>2, <2>3, <3>1, Zenon DEF TypeOK
  <2>5. seq + 1 \in Elems(files'[cur].good) \/ files'[cur].torn
    <3>1. DOMAIN WriteRecord(cur, seq + 1) = DOMAIN files
      BY <1>0, <1>2, WriteTyped, Zenon
    <3>2. files'[cur] = WriteRecord(cur, seq + 1)[cur]
      BY <1>2, <2>1, <3>1, Zenon DEF Touch
    <3> QED
      BY <1>0, <1>2, <3>2, RecordWritten, Zenon
  <2>6. MemoryInv'
    BY <1>0, <1>1, <2>1, <2>2, <2>4, <2>5, RotateMemory, Zenon
  <2> QED
    BY <1>4, <2>1, <2>2, <2>4, <2>6, Zenon
<1>7. CASE AppendWriteFails
  <2>1. /\ \/ files' = files
           \/ files' = WriteRecord(cur, seq + 1)
           \/ files' = WriteFragment(cur)
        /\ segs' = segs /\ held' = held /\ cur' = cur /\ dir' = dir /\ writable' = writable
    BY <1>7, Zenon DEF AppendWriteFails
  <2>2. Wrote /\ DOMAIN files' = DOMAIN files /\ files' \in [DOMAIN files' -> File]
    BY <1>0, <1>2, <2>1, WriteIsWrote, Zenon
  <2>4. TypeOK'
    BY <1>0, <1>1, <1>2, <1>3, <2>1, <2>2, Zenon DEF TypeOK
  <2>6. MemoryInv'
    BY <1>0, <1>1, <2>1, <2>2, <2>4, StayMemory, Zenon
  <2> QED
    BY <1>4, <2>1, <2>2, <2>4, <2>6, Zenon
<1>8. CASE AppendRotateFails
  <2>1. /\ files' = WriteRecord(cur, seq + 1) /\ segs' = Account(seq + 1)
        /\ held' = held /\ cur' = cur /\ dir' = dir /\ writable' = FALSE
    BY <1>8, Zenon DEF AppendRotateFails
  <2>2. Wrote /\ DOMAIN files' = DOMAIN files /\ files' \in [DOMAIN files' -> File]
    BY <1>0, <1>2, <2>1, WriteIsWrote, Zenon
  <2>3. segs' \in [DOMAIN segs' -> Segment] /\ DOMAIN segs' = DOMAIN segs
    BY <1>0, <1>2, <2>1, AccountTyped, Zenon
  <2>4. TypeOK'
    BY <1>0, <1>1, <1>2, <1>3, <2>1, <2>2, <2>3, Zenon DEF TypeOK
  <2>6. MemoryInv'
    BY <1>0, <1>1, <2>1, <2>2, <2>4, StayMemory, Zenon
  <2> QED
    BY <1>4, <2>1, <2>2, <2>4, <2>6, Zenon
<1> QED
  BY <1>5, <1>6, <1>7, <1>8, Zenon DEF Appends

(* A replay does not notice a step that changes nothing it reads.          *)
LEMMA ReaderFrame ==
  ASSUME NEW r \in Readers, rd'[r] = rd[r], ReaderInv(rd[r]),
         files' = files, cur' = cur, seq' = seq, held' = held, up' = up
  PROVE  ReaderInv(rd[r])'
<1>1. CASE rd[r].pc \in {"idle", "expired", "err"} /\ rd[r].out = <<>>
  BY <1>1, Zenon DEF ReaderInv
<1>2. ASSUME Replaying(rd[r])
      PROVE  Replaying(rd[r])'
  <2>1. ViewsOrdered(rd[r].views)' /\ OutOrdered(rd[r])'
    BY <1>2, Zenon DEF Replaying, ViewsOrdered, OutOrdered
  <2>2. rd[r].pc = "read" => FileOpen(rd[r])'
    BY <1>2, Zenon DEF Replaying, FileOpen
  <2>3. \A s \in held : Owed(rd[r], s) => Owed(rd[r], s)'
    BY Zenon DEF Owed, Has
  <2> QED
    BY <1>2, <2>1, <2>2, <2>3, Zenon DEF Replaying
<1> QED
  BY <1>1, <1>2, Zenon DEF ReaderInv

-----------------------------------------------------------------------------
(* Steps that leave the records alone.                                     *)

(* A trim takes a prefix of the segment list: by age because creation      *)
(* times grow along the list, by size by definition.                       *)
LEMMA GCStep ==
  ASSUME IInv, GC
  PROVE  IInv'
<1>0. /\ TypeOK /\ FilesOrdered /\ FilesApart /\ MemoryInv
      /\ \A r \in Readers : ReaderInv(rd[r])
  BY DEF IInv
<1>1. /\ up /\ up' = up /\ seq' = seq /\ cur' = cur /\ writable' = writable
      /\ files' = files /\ now' = now /\ rd' = rd /\ lives' = lives
      /\ acked' = acked /\ held' = held
  BY DEF GC
<1>2. CurLast /\ SegsApart /\ SegsCoverFiles /\ FilesBelowSeq /\ HeldListed
  BY <1>0, <1>1 DEF MemoryInv
<1>3. PICK c \in Unexpired :
        LET kept    == NotBefore(Unexpired, c)
            removed == DOMAIN segs \ kept
        IN  /\ segs' = [f \in kept |-> segs[f]]
            /\ \E stuck \in SUBSET removed : dir' = dir \ (removed \ stuck)
  BY DEF GC
<1> DEFINE kept == NotBefore(Unexpired, c)
<1>4. /\ kept \subseteq DOMAIN segs
      /\ DOMAIN segs' = kept
      /\ \A f \in kept : segs'[f] = segs[f]
      /\ dir' \subseteq dir /\ \A f \in kept : f \in dir => f \in dir'
  BY <1>3, Zenon DEF NotBefore, Unexpired
<1>5. c \in DOMAIN segs /\ cur \in DOMAIN segs
  BY <1>2 DEF Unexpired, CurLast
<1>6. cur \in kept
  <2>1. segs[c].start <= segs[cur].start
    BY <1>0, <1>2, <1>5, Types DEF CurLast
  <2> QED
    BY <1>0, <1>5, <2>1 DEF NotBefore, Unexpired
<1>7. TypeOK'
  <2>1. segs' \in [DOMAIN segs' -> Segment] /\ DOMAIN segs' \subseteq Nat
    BY <1>0, <1>3, <1>4 DEF TypeOK
  <2> HIDE DEF kept
  <2> QED
    BY <1>0, <1>1, <1>4, <2>1 DEF TypeOK
<1>8. CurLast'
  <2> HIDE DEF kept
  <2> QED
    BY <1>1, <1>2, <1>4, <1>6, SMTT(30), Zenon DEF CurLast
<1>9. SegsApart' /\ SegsCoverFiles' /\ FilesBelowSeq'
  <2> HIDE DEF kept
  <2> QED
    BY <1>1, <1>2, <1>4 DEF SegsApart, SegsCoverFiles, FilesBelowSeq
<1>10. HeldListed'
  <2> SUFFICES ASSUME NEW s \in held
               PROVE  /\ s <= seq
                      /\ \A o \in kept : segs[o].start <= s =>
                           \E f \in kept :
                             segs[f].start <= s /\ s <= segs[f].end /\ Has(f, s)
    <3> HIDE DEF kept
    <3> QED
      BY <1>1, <1>4, Zenon DEF HeldListed, Has
  <2>1. s <= seq
    BY <1>2 DEF HeldListed
  <2>2. ASSUME NEW o \in kept, segs[o].start <= s
        PROVE  \E f \in kept : segs[f].start <= s /\ s <= segs[f].end /\ Has(f, s)
    <3>1. PICK f \in DOMAIN segs : segs[f].start <= s /\ s <= segs[f].end /\ Has(f, s)
      BY <1>2, <1>4, <2>2 DEF HeldListed
    <3>2. o \in DOMAIN segs /\ o \in Unexpired /\ segs[o].start >= segs[c].start
      BY DEF NotBefore, Unexpired
    <3>3. CASE f = o
      BY <3>1, <3>3
    <3>4. CASE f # o
      <4>1. ~(segs[f].end < segs[o].start)
        BY <1>0, <2>2, <3>1, <3>2, Types, SMTT(30), Zenon
      <4>2. segs[o].start < segs[f].start /\ segs[o].created <= segs[f].created
        BY <1>2, <3>2, <3>4, <4>1, Zenon DEF SegsApart
      <4>3. o # cur
        <5> SUFFICES ASSUME o = cur
                     PROVE  FALSE
          BY Zenon
        <5>1. segs[f].start < cur /\ segs[o].start = cur
          BY <1>2, <3>4, Zenon DEF CurLast
        <5> QED
          BY <1>0, <3>2, <4>2, <5>1, Types, SMTT(30), Zenon
      <4>4. now - segs[o].created <= TTL
        BY <3>2, <4>3, Zenon DEF Unexpired
      <4>5. now - segs[f].created <= TTL
        <5>1. /\ segs[o].created \in Nat /\ segs[f].created \in Nat
              /\ now \in Nat /\ TTL \in Nat
          BY <1>0, <3>2, WalConstants, Types
        <5> QED
          BY <4>2, <4>4, <5>1
      <4>6. f \in Unexpired /\ segs[f].start >= segs[c].start
        <5>1. /\ segs[o].start \in Nat /\ segs[f].start \in Nat
              /\ segs[c].start \in Nat
          BY <1>0, <1>5, <3>2, Types
        <5>2. segs[f].start >= segs[c].start
          BY <3>2, <4>2, <5>1
        <5> QED
          BY <4>5, <5>2, Zenon DEF Unexpired
      <4> QED
        BY <3>1, <4>6 DEF NotBefore
    <3> QED
      BY <3>3, <3>4
  <2> QED
    BY <2>1, <2>2
<1>11. \A r \in Readers : ReaderInv(rd[r])'
  BY <1>0, <1>1, ReaderFrame, Zenon
<1>12. FilesOrdered' /\ FilesApart'
  BY <1>0, <1>1 DEF FilesOrdered, FilesApart
<1>13. MemoryInv'
  BY <1>8, <1>9, <1>10 DEF MemoryInv
<1> QED
  BY <1>7, <1>11, <1>12, <1>13 DEF IInv

(* The clock.                                                              *)
LEMMA TickStep ==
  ASSUME IInv, Tick
  PROVE  IInv'
<1>0. /\ TypeOK /\ FilesOrdered /\ FilesApart /\ MemoryInv
      /\ \A r \in Readers : ReaderInv(rd[r])
  BY DEF IInv
<1>1. /\ now' = now + 1
      /\ UNCHANGED <<up, seq, segs, cur, writable, dir, files, rd, lives, acked, held>>
  BY DEF Tick, memory, disk
<1>2. TypeOK'
  BY <1>0, <1>1, SMTT(30), Zenon DEF TypeOK
<1>3. FilesOrdered' /\ FilesApart'
  BY <1>0, <1>1, Types, SMTT(30), Zenon DEF FilesOrdered, FilesApart
<1>4. up => CurLast'
  BY <1>0, <1>1, Types, SMTT(30), Zenon DEF MemoryInv, CurLast
<1>5. up => SegsApart' /\ SegsCoverFiles' /\ FilesBelowSeq' /\ HeldListed'
  BY <1>0, <1>1, SMTT(30), Zenon DEF MemoryInv, SegsApart, SegsCoverFiles, FilesBelowSeq, HeldListed, Has
<1>6. \A r \in Readers : ReaderInv(rd[r])'
  BY <1>0, <1>1, ReaderFrame
<1> QED
  BY <1>1, <1>2, <1>3, <1>4, <1>5, <1>6, Zenon DEF IInv, MemoryInv

(* A step that changes nothing preserves the inductive invariant.          *)
LEMMA StutterStep ==
  ASSUME IInv, UNCHANGED vars
  PROVE  IInv'
<1>0. /\ TypeOK /\ FilesOrdered /\ FilesApart /\ MemoryInv
      /\ \A r \in Readers : ReaderInv(rd[r])
  BY DEF IInv
<1>1. UNCHANGED <<up, seq, segs, cur, writable, dir, files, now, rd, lives, acked, held>>
  BY DEF vars
<1>2. TypeOK'
  BY <1>0, <1>1, Zenon DEF TypeOK
<1>3. FilesOrdered' /\ FilesApart'
  BY <1>0, <1>1, SMTT(30), Zenon DEF FilesOrdered, FilesApart
<1>4. MemoryInv'
  BY <1>0, <1>1 DEF MemoryInv, CurLast, SegsApart, SegsCoverFiles, FilesBelowSeq,
                    HeldListed, Has
<1>5. \A r \in Readers : ReaderInv(rd[r])'
  BY <1>0, <1>1, ReaderFrame, Zenon
<1> QED
  BY <1>2, <1>3, <1>4, <1>5, Zenon DEF IInv

-----------------------------------------------------------------------------
(* The start and the end of the process.                                   *)

(* An empty directory before the first Open satisfies the invariant.       *)
LEMMA IdleTyped ==
  /\ Idle \in Reader(None) /\ Idle.views = None /\ Idle.out = <<>> /\ Idle.pc = "idle"
  /\ DOMAIN None = {} /\ None = [f \in {} |-> f]
<1>1. 0 \in Nat /\ 0 \in Int /\ <<>> \in Seq(Nat)
  OBVIOUS
<1>2. Idle \in Reader(None)
  <2> DEFINE empty == <<>>
  <2>1. empty \in Seq(Nat)
    BY <1>1, SMTT(30), Zenon
  <2>2. Idle = [pc |-> "idle", from |-> 0, lo |-> 0, hi |-> 0, views |-> None,
                file |-> 0, pos |-> 0, gap |-> FALSE, out |-> empty]
    BY Zenon DEF Idle
  <2> HIDE DEF empty
  <2> QED
    BY <1>1, <2>1, <2>2, Zenon DEF Reader
<1>3. Idle.views = None /\ Idle.out = <<>> /\ Idle.pc = "idle"
  BY DEF Idle
<1>4. DOMAIN None = {} /\ None = [f \in {} |-> f]
  BY DEF None
<1> QED
  BY <1>2, <1>3, <1>4

LEMMA InitHolds == Init => IInv
<1> SUFFICES ASSUME Init PROVE IInv
  OBVIOUS
<1>1. /\ ~up /\ up = FALSE /\ writable = FALSE /\ seq = 0 /\ cur = 0 /\ now = 0
      /\ lives = 0 /\ dir = {} /\ acked = {} /\ held = {}
      /\ DOMAIN segs = {} /\ segs = [f \in {} |-> f]
      /\ DOMAIN files = {} /\ files = [f \in {} |-> f]
      /\ rd = [r \in Readers |-> Idle]
  BY DEF Init
<1>2. Idle \in Reader(Idle.views) /\ DOMAIN Idle.views = {} /\ Idle.out = <<>>
      /\ Idle.pc = "idle" /\ Idle.views = [f \in {} |-> f]
  BY IdleTyped, Zenon
<1>3. TypeOK
  BY <1>1, <1>2, Zenon DEF TypeOK
<1>4. FilesOrdered /\ FilesApart /\ MemoryInv
  BY <1>1 DEF FilesOrdered, FilesApart, MemoryInv
<1>5. \A r \in Readers : ReaderInv(rd[r])
  BY <1>1, <1>2, Zenon DEF ReaderInv
<1> QED
  BY <1>3, <1>4, <1>5 DEF IInv

(* What a crash in Append leaves is what an append could have written.     *)
LEMMA ForgetStep ==
  ASSUME IInv, Close \/ CrashInAppend
  PROVE  IInv'
<1>0. /\ TypeOK /\ FilesOrdered /\ FilesApart /\ MemoryInv
  BY DEF IInv
<1>1. /\ up /\ Forget
      /\ \/ files' = files
         \/ files' = WriteRecord(cur, seq + 1)
         \/ files' = WriteFragment(cur)
  BY DEF Close, CrashInAppend, CanAppend
<1>2. /\ up' = FALSE /\ seq' = 0 /\ segs' = [f \in {} |-> f] /\ cur' = 0
      /\ DOMAIN segs' = {}
      /\ writable' = FALSE /\ rd' = [r \in Readers |-> Idle] /\ held' = {}
      /\ dir' = dir /\ now' = now /\ lives' = lives /\ acked' = acked
  BY <1>1 DEF Forget
<1>3. CurLast /\ FilesBelowSeq /\ cur \in DOMAIN files
  BY <1>0, <1>1, Zenon DEF MemoryInv, CurLast, TypeOK
<1>4. Wrote /\ DOMAIN files' = DOMAIN files /\ files' \in [DOMAIN files' -> File]
  BY <1>0, <1>1, <1>3, WriteIsWrote, Zenon
<1>5. Idle \in Reader(Idle.views) /\ DOMAIN Idle.views = {} /\ Idle.out = <<>>
      /\ Idle.pc = "idle" /\ Idle.views = [f \in {} |-> f]
  BY IdleTyped, Zenon
<1>6. TypeOK'
  BY <1>0, <1>2, <1>4, <1>5, Zenon DEF TypeOK
<1>7. FilesOrdered' /\ FilesApart'
  BY <1>0, <1>2, <1>3, <1>4, <1>6, WroteDisk
<1>8. MemoryInv'
  BY <1>2 DEF MemoryInv
<1>9. \A r \in Readers : ReaderInv(rd[r])'
  BY <1>2, <1>5, Zenon DEF ReaderInv
<1> QED
  BY <1>6, <1>7, <1>8, <1>9, Zenon DEF IInv

(* The last record of a recovered file.                                    *)
LEMMA ReloadEffect ==
  ASSUME TypeOK, FilesOrdered
  PROVE  /\ Reload \in [Recovered -> Segment]
         /\ Recovered \subseteq dir /\ dir \subseteq DOMAIN files
         /\ \A f \in Recovered :
              /\ Reload[f].created = files[f].mtime
              /\ \E i \in DOMAIN files[f].good : Reload[f].start = files[f].good[i]
              /\ \E i \in DOMAIN files[f].good : Reload[f].end = files[f].good[i]
              /\ \A i \in DOMAIN files[f].good :
                   Reload[f].start <= files[f].good[i] /\ files[f].good[i] <= Reload[f].end
         /\ \A f \in dir \ Recovered : DOMAIN files[f].good = {}
<1>1. Recovered \subseteq dir /\ dir \subseteq DOMAIN files
  BY DEF Recovered, TypeOK
<1>2. ASSUME NEW f \in Recovered
      PROVE  /\ Reload[f] \in Segment
             /\ Reload[f].created = files[f].mtime
             /\ \E i \in DOMAIN files[f].good : Reload[f].start = files[f].good[i]
             /\ \E i \in DOMAIN files[f].good : Reload[f].end = files[f].good[i]
             /\ \A i \in DOMAIN files[f].good :
                  Reload[f].start <= files[f].good[i] /\ files[f].good[i] <= Reload[f].end
  <2> DEFINE G == files[f].good
  <2>1. files[f] \in File
    BY <1>1 DEF TypeOK
  <2>2. G \in Seq(Nat) /\ files[f].size \in Nat /\ files[f].mtime \in Nat /\ G # <<>>
    BY <2>1, Zenon DEF File, Recovered
  <2>3. Reload[f] = [start |-> Head(G), end |-> G[Len(G)], bytes |-> files[f].size,
                     created |-> files[f].mtime]
    BY Zenon DEF Reload
  <2>4. \A i, j \in DOMAIN G : i < j => G[i] < G[j]
    BY <1>1 DEF FilesOrdered
  <2> HIDE DEF G
  <2>5. /\ DOMAIN G = 1..Len(G) /\ Len(G) \in Nat /\ 1 \in DOMAIN G /\ Len(G) \in DOMAIN G
        /\ Head(G) = G[1] /\ \A i \in DOMAIN G : G[i] \in Nat
    BY <2>2
  <2>6. \A i \in DOMAIN G : G[1] <= G[i] /\ G[i] <= G[Len(G)]
    <3> TAKE i \in DOMAIN G
    <3>1. G[1] <= G[i]
      <4>1. CASE i = 1
        BY <2>5, <4>1
      <4>2. CASE i # 1
        BY <2>4, <2>5, <4>2
      <4> QED
        BY <4>1, <4>2
    <3>2. G[i] <= G[Len(G)]
      <4>1. CASE i = Len(G)
        BY <2>5, <4>1
      <4>2. CASE i # Len(G)
        BY <2>4, <2>5, <4>2
      <4> QED
        BY <4>1, <4>2
    <3> QED
      BY <3>1, <3>2
  <2>7. Reload[f] \in Segment
    BY <2>2, <2>3, <2>5 DEF Segment
  <2>8. Reload[f].start = G[1] /\ Reload[f].end = G[Len(G)]
        /\ Reload[f].created = files[f].mtime
    BY <2>3, <2>5
  <2> QED
    BY <2>5, <2>6, <2>7, <2>8, Zenon DEF G
<1>3. \A f \in dir \ Recovered : DOMAIN files[f].good = {}
  BY DEF Recovered
<1>4. Reload \in [Recovered -> Segment]
  BY <1>2, Zenon DEF Reload
<1> QED
  BY <1>1, <1>2, <1>3, <1>4

(* Open resumes behind every record on disk.                               *)
LEMMA OpenStep ==
  ASSUME IInv, Open
  PROVE  IInv'
<1>0. /\ TypeOK /\ FilesOrdered /\ FilesApart
      /\ \A r \in Readers : ReaderInv(rd[r])
  BY DEF IInv
<1>1. PICK s \in 0..MaxSeq :
        /\ LastSeq(s) /\ seq' = s /\ segs' = AddSegment(Reload, s) /\ cur' = s + 1
        /\ dir' = dir \cup {s + 1} /\ files' = Touch([f \in dir |-> files[f]], s + 1)
  BY DEF Open
<1>2. /\ ~up /\ up' = TRUE /\ writable' = TRUE /\ lives' = lives + 1
      /\ held' = UNION {Elems(files[f].good) : f \in dir}
      /\ now' = now /\ rd' = rd /\ acked' = acked
  BY DEF Open
<1>3. s \in Nat /\ s + 1 \in Nat /\ now \in Nat
  BY <1>0, WalConstants, Types
<1>4. /\ Reload \in [Recovered -> Segment]
      /\ Recovered \subseteq dir /\ dir \subseteq DOMAIN files
      /\ \A f \in Recovered :
           /\ Reload[f].created = files[f].mtime
           /\ \E i \in DOMAIN files[f].good : Reload[f].start = files[f].good[i]
           /\ \E i \in DOMAIN files[f].good : Reload[f].end = files[f].good[i]
           /\ \A i \in DOMAIN files[f].good :
                Reload[f].start <= files[f].good[i] /\ files[f].good[i] <= Reload[f].end
      /\ \A f \in dir \ Recovered : DOMAIN files[f].good = {}
  BY <1>0, ReloadEffect, Zenon
<1>5. /\ DOMAIN files' = dir \cup {s + 1}
      /\ files' \in [dir \cup {s + 1} -> File]
      /\ \A f \in dir : files'[f] = files[f]
      /\ s + 1 \notin dir => files'[s + 1] = EmptyFile
  <2>1. [f \in dir |-> files[f]] \in [dir -> File]
    BY <1>0, <1>4, Zenon DEF TypeOK
  <2>2. files' \in [dir \cup {s + 1} -> File]
    BY <1>1, <1>3, <2>1, TouchTyped, Zenon
  <2> QED
    BY <1>1, <2>2 DEF Touch
<1>6. ASSUME NEW f \in dir, NEW i \in DOMAIN files[f].good
      PROVE  files[f].good[i] <= s /\ files[f].good[i] \in Nat /\ f \in Recovered
  <2>1. f \in Recovered /\ f \in DOMAIN files /\ files[f].good[i] \in Nat
    BY <1>0, <1>4, <1>6, Types, SMTT(30), Zenon
  <2>2. PICK n \in Recovered : Newest(Reload, n) /\ s = Reload[n].end
    BY <1>1, <2>1, Zenon DEF LastSeq
  <2>3. CASE f = n
    BY <1>4, <2>1, <2>2, <2>3, Zenon
  <2>4. CASE f # n
    <3>1. n \in DOMAIN files
      BY <1>4, Zenon
    <3>2. PICK a \in DOMAIN files[n].good : Reload[n].start = files[n].good[a]
      BY <1>4, Zenon
    <3>3. PICK b \in DOMAIN files[f].good : Reload[f].start = files[f].good[b]
      BY <1>4, <2>1, Zenon
    <3>4. PICK e \in DOMAIN files[n].good : Reload[n].end = files[n].good[e]
      BY <1>4, Zenon
    <3>5. Reload[f].start <= Reload[n].start
      BY <1>4, <2>1, <2>2, Zenon DEF Newest
    <3>6. /\ files[n].good[a] \in Nat /\ files[f].good[b] \in Nat
          /\ files[n].good[e] \in Nat
      BY <1>0, <2>1, <3>1, Types, SMTT(30), Zenon
    <3>7. ~(files[n].good[a] < files[f].good[b])
      BY <3>2, <3>3, <3>5, <3>6
    <3>8. files[f].good[i] < files[n].good[e]
      BY <1>0, <2>1, <2>4, <3>1, <3>7, Zenon DEF FilesApart
    <3> QED
      BY <2>1, <2>2, <3>4, <3>6, <3>8
  <2> QED
    BY <2>1, <2>3, <2>4, Zenon
<1>7. DOMAIN files'[s + 1].good = {} /\ s + 1 \notin Recovered
      /\ files'[s + 1].mtime <= now
  <2>1. CASE s + 1 \in dir
    <3>1. \A i \in DOMAIN files[s + 1].good : FALSE
      BY <1>0, <1>3, <1>4, <1>6, <2>1 DEF FilesOrdered
    <3>2. s + 1 \notin Recovered
      BY <1>4, <3>1, Zenon
    <3>3. files[s + 1].mtime <= now
      BY <1>0, <1>4, <2>1, Zenon DEF FilesOrdered
    <3> QED
      BY <1>5, <2>1, <3>1, <3>2, <3>3, Zenon
  <2>2. CASE s + 1 \notin dir
    BY <1>3, <1>4, <1>5, <2>2, SMTT(30), Zenon DEF EmptyFile
  <2> QED
    BY <2>1, <2>2
<1>8. /\ DOMAIN segs' = Recovered \cup {s + 1}
      /\ segs' \in [Recovered \cup {s + 1} -> Segment]
      /\ segs'[s + 1] = [start |-> s + 1, end |-> s, bytes |-> 0, created |-> now]
      /\ \A f \in Recovered : segs'[f] = Reload[f]
  <2>1. segs' \in [Recovered \cup {s + 1} -> Segment]
    BY <1>1, <1>3, <1>4, AddTyped, Zenon
  <2> QED
    BY <1>1, <1>4, <1>7, <2>1, Zenon DEF AddSegment, FreshSegment
<1>9. TypeOK'
  <2>1. DOMAIN files' \subseteq Nat /\ DOMAIN segs' \subseteq Nat /\ dir' \subseteq DOMAIN files'
    BY <1>0, <1>1, <1>3, <1>4, <1>5, <1>8, Types, SMTT(30), Zenon
  <2>2. held' \subseteq Nat
    <3> SUFFICES ASSUME NEW f \in dir, NEW h \in Elems(files[f].good)
                 PROVE  h \in Nat
      BY <1>2
    <3> QED
      BY <1>6 DEF Elems
  <2> QED
    BY <1>0, <1>1, <1>2, <1>3, <1>5, <1>8, <2>1, <2>2, SMTT(30), Zenon DEF TypeOK
<1>10. FilesOrdered'
  <2> SUFFICES ASSUME NEW f \in DOMAIN files'
               PROVE  /\ f >= 1
                      /\ files'[f].mtime <= now
                      /\ \A i \in DOMAIN files'[f].good : files'[f].good[i] >= f
                      /\ \A i, j \in DOMAIN files'[f].good :
                           i < j => files'[f].good[i] < files'[f].good[j]
    BY <1>2, Zenon DEF FilesOrdered
  <2>1. CASE f \in dir
    BY <1>0, <1>4, <1>5, <2>1, Zenon DEF FilesOrdered
  <2>2. CASE f = s + 1
    BY <1>3, <1>7, <2>2
  <2> QED
    BY <1>5, <2>1, <2>2, Zenon
<1>11. FilesApart'
  <2> SUFFICES ASSUME NEW f \in DOMAIN files', NEW g \in DOMAIN files', f # g
               PROVE
    \/ \A i \in DOMAIN files'[f].good, j \in DOMAIN files'[g].good :
         files'[f].good[i] < files'[g].good[j] /\ files'[f].mtime <= files'[g].mtime
    \/ \A i \in DOMAIN files'[f].good, j \in DOMAIN files'[g].good :
         files'[g].good[j] < files'[f].good[i] /\ files'[g].mtime <= files'[f].mtime
    BY Zenon DEF FilesApart
  <2>1. CASE f = s + 1 \/ g = s + 1
    BY <1>7, <2>1, Zenon
  <2>2. CASE f \in dir /\ g \in dir
    BY <1>0, <1>4, <1>5, <2>2, Zenon DEF FilesApart
  <2> QED
    BY <1>5, <2>1, <2>2, Zenon
<1>12. ASSUME NEW f \in Recovered
       PROVE  /\ f <= Reload[f].start /\ f >= 1
              /\ Reload[f].start <= s /\ Reload[f].end <= s
              /\ Reload[f].created <= now
              /\ Reload[f].start \in Nat /\ Reload[f].end \in Nat /\ Reload[f].created \in Nat
  <2>1. f \in dir /\ f \in DOMAIN files /\ Reload[f] \in Segment
    BY <1>4, Zenon
  <2>2. PICK a \in DOMAIN files[f].good : Reload[f].start = files[f].good[a]
    BY <1>4, Zenon
  <2>3. PICK e \in DOMAIN files[f].good : Reload[f].end = files[f].good[e]
    BY <1>4, Zenon
  <2>4. f <= Reload[f].start /\ f >= 1
    BY <1>0, <2>1, <2>2, Zenon DEF FilesOrdered
  <2>5. Reload[f].start <= s /\ Reload[f].end <= s
    BY <1>6, <2>1, <2>2, <2>3, Zenon
  <2>6. Reload[f].created <= now
    BY <1>0, <1>4, <2>1, Zenon DEF FilesOrdered
  <2> QED
    BY <2>1, <2>4, <2>5, <2>6, Zenon DEF Segment
<1>13. CurLast'
  <2>1. ASSUME NEW f \in DOMAIN segs'
        PROVE  /\ f <= segs'[f].start
               /\ segs'[f].end <= s
               /\ segs'[f].created <= now
               /\ f # s + 1 => segs'[f].end < s + 1 /\ segs'[f].start < s + 1
    <3>1. CASE f = s + 1
      BY <1>3, <1>8, <3>1
    <3>2. CASE f \in Recovered
      BY <1>3, <1>8, <1>12, <3>2
    <3> QED
      BY <1>8, <3>1, <3>2, Zenon
  <2>2. DOMAIN segs' \subseteq dir'
    BY <1>1, <1>4, <1>8, Zenon
  <2>3. s + 1 \in DOMAIN segs' /\ segs'[s + 1].start = s + 1 /\ 1 <= s + 1
    BY <1>3, <1>8, SMTT(30), Zenon
  <2> QED
    BY <1>1, <1>2, <1>3, <2>1, <2>2, <2>3, Zenon DEF CurLast
<1>14. SegsApart'
  <2> SUFFICES ASSUME NEW f \in DOMAIN segs', NEW g \in DOMAIN segs', f # g
               PROVE
    \/ /\ segs'[f].end < segs'[g].start /\ segs'[f].start < segs'[g].start
       /\ segs'[f].created <= segs'[g].created
    \/ /\ segs'[g].end < segs'[f].start /\ segs'[g].start < segs'[f].start
       /\ segs'[g].created <= segs'[f].created
    BY Zenon DEF SegsApart
  <2>1. CASE f = s + 1
    <3>1. g \in Recovered
      BY <1>8, <2>1, Zenon
    <3> QED
      BY <1>3, <1>8, <1>12, <2>1, <3>1, SMTT(30), Zenon
  <2>2. CASE g = s + 1
    <3>1. f \in Recovered
      BY <1>8, <2>2, Zenon
    <3> QED
      BY <1>3, <1>8, <1>12, <2>2, <3>1
  <2>3. CASE f \in Recovered /\ g \in Recovered
    <3>1. f \in DOMAIN files /\ g \in DOMAIN files
      BY <1>4, <2>3, Zenon
    <3>2. PICK a \in DOMAIN files[f].good : Reload[f].start = files[f].good[a]
      BY <1>4, <2>3, Zenon
    <3>3. PICK b \in DOMAIN files[f].good : Reload[f].end = files[f].good[b]
      BY <1>4, <2>3, Zenon
    <3>4. PICK c \in DOMAIN files[g].good : Reload[g].start = files[g].good[c]
      BY <1>4, <2>3, Zenon
    <3>5. PICK d \in DOMAIN files[g].good : Reload[g].end = files[g].good[d]
      BY <1>4, <2>3, Zenon
    <3>6. Reload[f].created = files[f].mtime /\ Reload[g].created = files[g].mtime
      BY <1>4, <2>3, Zenon
    <3>7. \/ /\ files[f].good[b] < files[g].good[c] /\ files[f].good[a] < files[g].good[c]
             /\ files[f].mtime <= files[g].mtime
          \/ /\ files[g].good[d] < files[f].good[a] /\ files[g].good[c] < files[f].good[a]
             /\ files[g].mtime <= files[f].mtime
      BY <1>0, <3>1, Zenon DEF FilesApart
    <3> QED
      BY <1>8, <2>3, <3>2, <3>3, <3>4, <3>5, <3>6, <3>7, Zenon
  <2> QED
    BY <1>8, <2>1, <2>2, <2>3, Zenon
<1>15. SegsCoverFiles'
  <2> SUFFICES ASSUME NEW f \in DOMAIN segs', NEW i \in DOMAIN files'[f].good
               PROVE  /\ segs'[f].start <= files'[f].good[i]
                      /\ files'[f].good[i] <= segs'[f].end
    BY DEF SegsCoverFiles
  <2>1. f \in Recovered
    BY <1>7, <1>8, Zenon
  <2> QED
    BY <1>4, <1>5, <1>8, <2>1, Zenon
<1>16. FilesBelowSeq'
  <2> SUFFICES ASSUME NEW f \in DOMAIN files', NEW i \in DOMAIN files'[f].good
               PROVE  files'[f].good[i] <= s /\ files'[f].good[i] < s + 1
    BY <1>1, Zenon DEF FilesBelowSeq
  <2>1. f \in dir
    BY <1>5, <1>7, Zenon
  <2> QED
    BY <1>3, <1>5, <1>6, <2>1
<1>17. HeldListed'
  <2> SUFFICES ASSUME NEW h \in held'
               PROVE  /\ h <= s
                      /\ \E f \in DOMAIN segs' :
                           /\ segs'[f].start <= h /\ h <= segs'[f].end
                           /\ h \in Elems(files'[f].good)
    BY <1>1, Zenon DEF HeldListed, Has
  <2>1. PICK f \in dir : h \in Elems(files[f].good)
    BY <1>2
  <2>2. PICK i \in DOMAIN files[f].good : h = files[f].good[i]
    BY <2>1, Zenon DEF Elems
  <2>3. h <= s /\ f \in Recovered
    BY <1>6, <2>2, Zenon
  <2>4. Reload[f].start <= h /\ h <= Reload[f].end
    BY <1>4, <2>2, <2>3, Zenon
  <2> QED
    BY <1>5, <1>8, <2>1, <2>3, <2>4, Zenon
<1>18. \A r \in Readers : ReaderInv(rd[r])'
  <2> TAKE r \in Readers
  <2>1. rd[r].pc \in {"idle", "expired", "err"} /\ rd[r].out = <<>>
    BY <1>0, <1>2, Zenon DEF ReaderInv, Replaying
  <2> QED
    BY <1>2, <2>1, Zenon DEF ReaderInv
<1>19. MemoryInv'
  BY <1>13, <1>14, <1>15, <1>16, <1>17, Zenon DEF MemoryInv
<1> QED
  BY <1>9, <1>10, <1>11, <1>18, <1>19, Zenon DEF IInv

-----------------------------------------------------------------------------
(* Replays.  A step of reader r changes rd[r] and nothing else.            *)

ReaderMoves(r, x) ==
  /\ up
  /\ rd' = [rd EXCEPT ![r] = x]
  /\ UNCHANGED <<up, seq, segs, cur, writable, dir, files, now, lives, acked, held>>

LEMMA ViewsKept ==
  ASSUME NEW p, NEW x, rd'[p] = x, files' = files, seq' = seq, cur' = cur, ViewsOrdered(x.views)
  PROVE  ViewsOrdered(rd[p].views)'
BY DEF ViewsOrdered

(* Such a step preserves the invariant when the reader's new state is      *)
(* well-typed and satisfies its own part.                                  *)
LEMMA ReaderStep ==
  ASSUME IInv, NEW r \in Readers, NEW x, ReaderMoves(r, x),
         x \in Reader(x.views), DOMAIN x.views \subseteq Nat,
         x.views \in [DOMAIN x.views -> View],
         ReaderInv(x)
  PROVE  IInv'
<1>0. /\ TypeOK /\ FilesOrdered /\ FilesApart /\ MemoryInv
      /\ \A p \in Readers : ReaderInv(rd[p])
  BY DEF IInv
<1>1. /\ UNCHANGED <<up, seq, segs, cur, writable, dir, files, now, lives, acked, held>>
      /\ rd' = [rd EXCEPT ![r] = x]
  BY DEF ReaderMoves
<1>2. rd = [p \in Readers |-> rd[p]]
  BY <1>0 DEF TypeOK
<1>3. /\ rd' = [p \in Readers |-> rd'[p]]
      /\ rd'[r] = x
      /\ \A p \in Readers \ {r} : rd'[p] = rd[p]
  BY <1>1, <1>2
<1>4. TypeOK'
  <2>1. ASSUME NEW p \in Readers
        PROVE  /\ rd'[p] \in Reader(rd'[p].views)
               /\ DOMAIN rd'[p].views \subseteq Nat
               /\ rd'[p].views \in [DOMAIN rd'[p].views -> View]
    <3>1. CASE p = r
      BY <1>3, <3>1
    <3>2. CASE p # r
      <4>1. rd'[p] = rd[p]
        BY <1>3, <3>2, SMTT(30), Zenon
      <4> QED
        BY <1>0, <4>1 DEF TypeOK
    <3> QED
      BY <3>1, <3>2
  <2> QED
    BY <1>0, <1>1, <1>3, <2>1, Zenon DEF TypeOK
<1>5. FilesOrdered' /\ FilesApart'
  <2>1. FilesOrdered'
    BY <1>0, <1>1, ZenonT(30), SMTT(30) DEF FilesOrdered
  <2>2. FilesApart'
    BY <1>0, <1>1, ZenonT(30), SMTT(30) DEF FilesApart
  <2> QED
    BY <2>1, <2>2
<1>6. MemoryInv'
  BY <1>0, <1>1 DEF MemoryInv, CurLast, SegsApart, SegsCoverFiles, FilesBelowSeq,
                    HeldListed, Has
<1>7. ASSUME NEW p \in Readers
      PROVE  ReaderInv(rd[p])'
  <2>1. CASE p = r
    <3>1. rd'[p] = x
      BY <1>3, <2>1, ZenonT(30)
    <3>2. ViewsOrdered(x.views) => ViewsOrdered(rd[p].views)'
      BY <1>1, <3>1, ViewsKept, Zenon
    <3>3. OutOrdered(x) => OutOrdered(rd[p])'
      BY <1>1, <3>1, Zenon DEF OutOrdered
    <3>4. FileOpen(x) => FileOpen(rd[p])'
      BY <1>1, <3>1, Zenon DEF FileOpen
    <3>5. \A s \in held : Owed(x, s) => Owed(rd[p], s)'
      BY <1>1, <3>1, Zenon DEF Owed, Has
    <3>6. Replaying(x) => Replaying(rd[p])'
      BY <1>1, <3>1, <3>2, <3>3, <3>4, <3>5, Zenon DEF Replaying
    <3> QED
      BY <1>1, <3>1, <3>6, Zenon DEF ReaderInv
  <2>2. CASE p # r
    <3>1. rd'[p] = rd[p]
      BY <1>3, <2>2
    <3> QED
      BY <1>0, <1>1, <3>1, ReaderFrame, Zenon
  <2> QED
    BY <2>1, <2>2
<1> QED
  BY <1>4, <1>5, <1>6, <1>7 DEF IInv

(* A call that failed keeps nothing to answer for.                         *)
LEMMA FailedReader ==
  ASSUME IInv, NEW r \in Readers, NEW result \in {"expired", "err"},
         ReaderMoves(r, Failed(result))
  PROVE  IInv'
<1>0. Idle \in Reader(None)
  BY IdleTyped, Zenon
<1>1. /\ Failed(result) \in Reader(None)
      /\ Failed(result).views = None
      /\ Failed(result).pc = result /\ Failed(result).out = <<>>
  <2> HIDE DEF None
  <2>1. Failed(result) \in Reader(None)
    BY <1>0, Zenon DEF Failed, Reader
  <2> QED
    BY <2>1 DEF Failed, Idle, Reader
<1>2. /\ DOMAIN Failed(result).views \subseteq Nat
      /\ Failed(result).views \in [DOMAIN Failed(result).views -> View]
  BY <1>1
<1>3. ReaderInv(Failed(result))
  BY <1>1, Zenon DEF ReaderInv, ReaderMoves
<1> QED
  BY <1>1, <1>2, <1>3, ReaderStep, Zenon

(* The snapshot lists every segment, so whatever the window (lo, hi] holds *)
(* is in a view.                                                           *)
LEMMA ReadFromStep ==
  ASSUME IInv, NEW r \in Readers, NEW from \in 0..MaxSeq, ReadFrom(r, from)
  PROVE  IInv'
<1>0. /\ TypeOK /\ FilesOrdered /\ MemoryInv /\ up
  BY DEF IInv, ReadFrom
<1>1. CurLast /\ SegsApart /\ SegsCoverFiles /\ HeldListed
  BY <1>0 DEF MemoryInv
<1>2. from \in Nat
  BY WalConstants
<1> DEFINE View0  == [f \in DOMAIN segs |-> [start |-> segs[f].start, end |-> segs[f].end]]
           Low(o) == IF from > 0 THEN from ELSE segs[o].start - 1
           x(o)   == [Idle EXCEPT !.pc = "scan", !.from = from, !.lo = Low(o),
                                  !.hi = seq, !.views = View0]
<1>3. PICK o \in DOMAIN segs :
        rd' = [rd EXCEPT ![r] = IF Expired(from, segs[o].start)
                                THEN Failed("expired") ELSE x(o)]
  BY Zenon DEF ReadFrom
<1>4. UNCHANGED <<up, seq, segs, cur, writable, dir, files, now, lives, acked, held>>
  BY DEF ReadFrom, memory, disk
<1>5. CASE Expired(from, segs[o].start)
  BY <1>0, <1>3, <1>4, <1>5, FailedReader, Zenon DEF ReaderMoves
<1>6. CASE ~Expired(from, segs[o].start)
  <2> DEFINE y == x(o)
  <2>1. ReaderMoves(r, y)
    BY <1>0, <1>3, <1>4, <1>6, Zenon DEF ReaderMoves
  <2>2. \A f \in DOMAIN segs :
          /\ f \in Nat /\ segs[f].start \in Nat /\ segs[f].end \in Nat
          /\ segs[f].start >= 1 /\ f \in DOMAIN files
    BY <1>0, <1>1, Types, SMTT(30), Zenon DEF TypeOK, CurLast, FilesOrdered
  <2>3. /\ seq \in Nat /\ cur \in Nat /\ \A s \in held : s \in Nat
        /\ Low(o) \in Int /\ from <= Low(o)
    BY <1>0, <1>2, <2>2, Types, SMTT(30), Zenon
  <2>4. /\ DOMAIN View0 = DOMAIN segs
        /\ \A f \in DOMAIN segs : View0[f].start = segs[f].start /\ View0[f].end = segs[f].end
        /\ View0 \in [DOMAIN View0 -> View]
        /\ DOMAIN View0 \subseteq Nat
    BY <2>2 DEF View
  <2>5. /\ y \in Reader(View0) /\ y.pc = "scan" /\ y.from = from /\ y.lo = Low(o)
        /\ y.hi = seq /\ y.views = View0 /\ y.out = <<>> /\ y.gap = FALSE
    <3> HIDE DEF View0, Low, None
    <3>1. Idle \in Reader(None)
      BY IdleTyped, Zenon
    <3>2. y \in Reader(View0)
      BY <1>2, <2>3, <3>1, Zenon DEF Reader
    <3> QED
      BY <3>1, <3>2 DEF Reader, Idle
  <2> HIDE DEF y, View0
  <2>6. ViewsOrdered(View0)
    <3>1. DOMAIN View0 \subseteq DOMAIN files
      BY <2>2, <2>4
    <3>2. ASSUME NEW f \in DOMAIN View0
          PROVE  /\ f <= seq + 1 /\ View0[f].start <= seq + 1
                 /\ \A i \in DOMAIN files[f].good : View0[f].start <= files[f].good[i]
      <4>1. f <= segs[f].start /\ segs[f].start <= cur /\ cur <= seq + 1
        BY <1>1, <2>2, <2>3, <2>4, <3>2 DEF CurLast
      <4>2. \A i \in DOMAIN files[f].good : View0[f].start <= files[f].good[i]
        BY <1>1, <2>4, <3>2, Zenon DEF SegsCoverFiles
      <4>3. f \in Nat /\ segs[f].start \in Nat /\ View0[f].start = segs[f].start
        BY <2>2, <2>4, <3>2, SMTT(30), Zenon
      <4> QED
        BY <2>3, <4>1, <4>2, <4>3
    <3>3. ASSUME NEW f \in DOMAIN View0, NEW g \in DOMAIN View0, f # g
          PROVE  /\ View0[f].start # View0[g].start
                 /\ View0[f].start < View0[g].start =>
                      f # cur /\ \A i \in DOMAIN files[f].good : files[f].good[i] < View0[g].start
      <4>1. /\ View0[f].start = segs[f].start /\ View0[g].start = segs[g].start
            /\ segs[f].start \in Nat /\ segs[g].start \in Nat
            /\ segs[f].end \in Nat /\ f \in DOMAIN files
        BY <2>2, <2>4, <3>3
      <4>2. \/ segs[f].end < segs[g].start /\ segs[f].start < segs[g].start
            \/ segs[g].start < segs[f].start
        BY <1>1, <2>4, <3>3, Zenon DEF SegsApart
      <4>3. f = cur => segs[g].start < segs[f].start
        BY <1>1, <2>4, <3>3 DEF CurLast
      <4>4. f # cur => \A i \in DOMAIN files[f].good : files[f].good[i] <= segs[f].end
        BY <1>1, <2>4, <3>3 DEF SegsCoverFiles
      <4>5. \A i \in DOMAIN files[f].good : files[f].good[i] \in Nat
        BY <1>0, <4>1, Types, Zenon
      <4> QED
        BY <4>1, <4>2, <4>3, <4>4, <4>5
    <3> QED
      BY <3>1, <3>2, <3>3, Zenon DEF ViewsOrdered
  <2>7. OutOrdered(y)
    BY <2>5 DEF OutOrdered
  <2>8. ASSUME NEW s \in held, y.lo < s, s <= y.hi
        PROVE  Owed(y, s)
    <3>1. segs[o].start <= s
      BY <1>2, <1>6, <2>2, <2>3, <2>5, <2>8 DEF Expired
    <3>2. PICK f \in DOMAIN segs : s <= segs[f].end /\ Has(f, s)
      BY <1>1, <3>1, SMTT(30), Zenon DEF HeldListed
    <3> QED
      BY <2>4, <2>5, <3>2, Zenon DEF Owed
  <2>9. ReaderInv(y)
    BY <1>0, <2>3, <2>5, <2>6, <2>7, <2>8 DEF ReaderInv, Replaying
  <2> QED
    BY <2>1, <2>4, <2>5, <2>9, ReaderStep, Zenon
<1> QED
  BY <1>5, <1>6

(* What every step within a replay starts from.                            *)
LEMMA InReplay ==
  ASSUME IInv, NEW r \in Readers, rd[r].pc \in {"scan", "read"}
  PROVE  /\ TypeOK /\ FilesOrdered /\ MemoryInv /\ Replaying(rd[r])
         /\ rd[r] \in Reader(rd[r].views)
         /\ DOMAIN rd[r].views \subseteq Nat
         /\ rd[r].views \in [DOMAIN rd[r].views -> View]
         /\ rd = [p \in Readers |-> rd[p]]
  BY Zenon DEF IInv, ReaderInv, TypeOK

(* The next view is dropped because the cursor covers it, dropped and      *)
(* remembered as a gap, or its file is opened.                             *)
LEMMA ReadNextSegmentStep ==
  ASSUME IInv, NEW r \in Readers, ReadNextSegment(r)
  PROVE  IInv'
<1> DEFINE x == rd[r]
<1>0. /\ TypeOK /\ FilesOrdered /\ MemoryInv /\ Replaying(x)
      /\ x \in Reader(x.views) /\ DOMAIN x.views \subseteq Nat
      /\ x.views \in [DOMAIN x.views -> View]
      /\ rd = [p \in Readers |-> rd[p]]
      /\ up /\ x.pc = "scan" /\ dir \subseteq DOMAIN files
  BY InReplay, Zenon DEF ReadNextSegment, TypeOK
<1>1. UNCHANGED <<up, seq, segs, cur, writable, dir, files, now, lives, acked, held>>
  BY Zenon DEF ReadNextSegment, memory, disk
<1> DEFINE Rest(f)   == WithoutView(x.views, f)
           Skip(f)   == [x EXCEPT !.views = Rest(f)]
           Gap(f)    == [x EXCEPT !.views = Rest(f), !.gap = TRUE]
           Opened(f) == [x EXCEPT !.views = Rest(f), !.pc = "read", !.file = f, !.pos = 0]
<1>2. PICK f \in DOMAIN x.views :
        /\ Oldest(x.views, f)
        /\ \/ x.views[f].end <= x.from /\ rd' = [rd EXCEPT ![r].views = Rest(f)]
           \/ rd' = [rd EXCEPT ![r].views = Rest(f), ![r].gap = TRUE]
           \/ rd' = [rd EXCEPT ![r].views = Rest(f), ![r].pc = "read",
                               ![r].file = f, ![r].pos = 0]
  BY Zenon DEF ReadNextSegment
<1>3. /\ DOMAIN Rest(f) = DOMAIN x.views \ {f}
      /\ \A g \in DOMAIN Rest(f) : Rest(f)[g] = x.views[g]
      /\ Rest(f) \in [DOMAIN Rest(f) -> View] /\ DOMAIN Rest(f) \subseteq Nat
  BY <1>0 DEF WithoutView
<1>4. /\ x.from \in Nat /\ x.lo \in Int /\ x.hi \in Nat
      /\ x.out \in Seq(Nat)
      /\ \A g \in DOMAIN x.views :
           g \in Nat /\ x.views[g].start \in Nat /\ x.views[g].end \in Nat
      /\ seq \in Nat /\ \A s \in held : s \in Nat
  BY <1>0, ReaderTypes, Types, Zenon
<1>5. /\ x.from <= x.lo /\ x.hi <= seq /\ ViewsOrdered(x.views) /\ OutOrdered(x)
      /\ \A s \in held : x.lo < s /\ s <= x.hi => Owed(x, s)
  BY <1>0 DEF Replaying
<1>6. ViewsOrdered(Rest(f))
  <2> HIDE DEF x, Rest
  <2> QED
    BY <1>3, <1>5, Zenon DEF ViewsOrdered
<1>7. f \in DOMAIN files /\ f <= seq + 1
  BY <1>5, Zenon DEF ViewsOrdered
<1>8. ASSUME NEW y, y.views = Rest(f), y.out = x.out, y.from = x.from
      PROVE  OutOrdered(y)
  <2> HIDE DEF x, Rest
  <2> QED
    BY <1>3, <1>5, <1>8, Zenon DEF OutOrdered
<1>9. CASE x.views[f].end <= x.from /\ rd' = [rd EXCEPT ![r].views = Rest(f)]
  <2> DEFINE y == Skip(f)
  <2>1. ReaderMoves(r, y)
    BY <1>0, <1>1, <1>9, Zenon DEF ReaderMoves
  <2>2. /\ y \in Reader(Rest(f)) /\ y.views = Rest(f) /\ y.pc = "scan" /\ y.from = x.from
        /\ y.lo = x.lo /\ y.hi = x.hi /\ y.out = x.out /\ y.gap = x.gap
    <3> HIDE DEF Rest
    <3> QED
      BY <1>0, Zenon DEF Reader
  <2> HIDE DEF y, Rest
  <2>3. ASSUME NEW s \in held, x.lo < s, s <= x.hi
        PROVE  Owed(y, s)
    <3>1. Owed(x, s)
      BY <1>5, <2>3
    <3>2. ASSUME NEW g \in DOMAIN x.views, s <= x.views[g].end, Has(g, s)
          PROVE  g \in DOMAIN Rest(f) /\ s <= Rest(f)[g].end
      BY <1>3, <1>4, <1>5, <1>9, <2>3, <3>2, SMTT(30), Zenon
    <3> QED
      BY <1>0, <2>2, <3>1, <3>2, Zenon DEF Owed
  <2>4. ReaderInv(y)
    BY <1>0, <1>5, <1>6, <1>8, <2>2, <2>3, Zenon DEF ReaderInv, Replaying
  <2> QED
    BY <1>3, <2>1, <2>2, <2>4, ReaderStep, Zenon
<1>10. CASE rd' = [rd EXCEPT ![r].views = Rest(f), ![r].gap = TRUE]
  <2> DEFINE y == Gap(f)
  <2>1. ReaderMoves(r, y)
    BY <1>0, <1>1, <1>10, Zenon DEF ReaderMoves
  <2>2. /\ y \in Reader(Rest(f)) /\ y.views = Rest(f) /\ y.pc = "scan" /\ y.from = x.from
        /\ y.lo = x.lo /\ y.hi = x.hi /\ y.out = x.out /\ y.gap = TRUE
    <3> HIDE DEF Rest
    <3> QED
      BY <1>0, Zenon DEF Reader
  <2> HIDE DEF y, Rest
  <2>3. \A s \in held : Owed(y, s)
    BY <2>2, Zenon DEF Owed
  <2>4. ReaderInv(y)
    BY <1>0, <1>5, <1>6, <1>8, <2>2, <2>3, Zenon DEF ReaderInv, Replaying
  <2> QED
    BY <1>3, <2>1, <2>2, <2>4, ReaderStep, Zenon
<1>11. CASE rd' = [rd EXCEPT ![r].views = Rest(f), ![r].pc = "read",
                             ![r].file = f, ![r].pos = 0]
  <2> DEFINE y == Opened(f)
  <2>1. ReaderMoves(r, y)
    BY <1>0, <1>1, <1>11, Zenon DEF ReaderMoves
  <2>2. /\ y \in Reader(Rest(f)) /\ y.views = Rest(f) /\ y.pc = "read" /\ y.from = x.from
        /\ y.lo = x.lo /\ y.hi = x.hi /\ y.out = x.out /\ y.gap = x.gap
        /\ y.file = f /\ y.pos = 0
    <3> HIDE DEF Rest
    <3> QED
      BY <1>0, <1>4, Zenon DEF Reader
  <2> HIDE DEF y, Rest
  <2>3. /\ Len(files[f].good) \in Nat
        /\ DOMAIN files[f].good = 1..Len(files[f].good)
        /\ \A i \in DOMAIN files[f].good : files[f].good[i] \in Nat
    BY <1>0, <1>7, Types, Zenon
  <2>4. FileOpen(y)
    <3>1. ASSUME NEW g \in DOMAIN Rest(f)
          PROVE  /\ f # cur
                 /\ \A i \in DOMAIN files[f].good : files[f].good[i] < Rest(f)[g].start
      <4>1. g \in DOMAIN x.views /\ g # f /\ Rest(f)[g] = x.views[g]
        BY <1>3, <3>1, Zenon
      <4>2. x.views[f].start < x.views[g].start
        <5>1. x.views[f].start <= x.views[g].start
          BY <1>2, <4>1, Zenon DEF Oldest
        <5>2. x.views[f].start # x.views[g].start
          BY <1>2, <1>5, <4>1, Zenon DEF ViewsOrdered
        <5>3. x.views[f].start \in Nat /\ x.views[g].start \in Nat
          BY <1>2, <1>4, <4>1, Zenon
        <5> QED
          BY <5>1, <5>2, <5>3
      <4> QED
        BY <1>2, <1>5, <4>1, <4>2, Zenon DEF ViewsOrdered
    <3>2. ASSUME NEW i \in DOMAIN x.out, NEW k \in DOMAIN files[f].good
          PROVE  x.out[i] < files[f].good[k]
      <4>1. x.out[i] < x.views[f].start /\ x.views[f].start <= files[f].good[k]
        BY <1>2, <1>5, <3>2, Zenon DEF OutOrdered, ViewsOrdered
      <4>2. x.out[i] \in Nat
        BY <1>0, <3>2, ReaderTypes
      <4>3. x.views[f].start \in Nat /\ files[f].good[k] \in Nat
        BY <1>2, <1>4, <2>3, <3>2, Zenon
      <4> QED
        BY <4>1, <4>2, <4>3, SMTT(30), Zenon
    <3> QED
      BY <1>7, <2>2, <2>3, <3>1, <3>2, SMTT(30), Zenon DEF FileOpen
  <2>5. ASSUME NEW s \in held, x.lo < s, s <= x.hi
        PROVE  Owed(y, s)
    <3>1. Owed(x, s)
      BY <1>5, <2>5
    <3>2. CASE s \in Elems(x.out) \/ x.gap
      BY <2>2, <3>2, Zenon DEF Owed
    <3>3. CASE \E g \in DOMAIN x.views : s <= x.views[g].end /\ Has(g, s)
      <4>1. PICK g \in DOMAIN x.views : s <= x.views[g].end /\ Has(g, s)
        BY <3>3, Zenon
      <4>2. CASE g # f
        BY <1>3, <2>2, <4>1, <4>2 DEF Owed
      <4>3. CASE g = f
        <5>1. CASE files[f].torn
          BY <2>2, <5>1, Zenon DEF Owed
        <5>2. CASE s \in Elems(files[f].good)
          <6>1. PICK k \in DOMAIN files[f].good : files[f].good[k] = s
            BY <5>2 DEF Elems
          <6>2. k > 0
            BY <2>3
          <6> QED
            BY <2>2, <6>1, <6>2, Zenon DEF Owed
        <5> QED
          BY <4>1, <4>3, <5>1, <5>2, Zenon DEF Has
      <4> QED
        BY <4>2, <4>3, Zenon
    <3> QED
      BY <1>0, <3>1, <3>2, <3>3, Zenon DEF Owed
  <2>6. ReaderInv(y)
    BY <1>0, <1>5, <1>6, <1>8, <2>2, <2>4, <2>5, Zenon DEF ReaderInv, Replaying
  <2> QED
    BY <1>3, <2>1, <2>2, <2>6, ReaderStep, Zenon
<1> QED
  BY <1>2, <1>9, <1>10, <1>11, Zenon

(* Appending to a sequence extends it by one element.                      *)
LEMMA AppendElements ==
  ASSUME NEW q \in Seq(Nat), NEW e \in Nat
  PROVE  /\ DOMAIN Append(q, e) = 1..(Len(q) + 1)
         /\ Append(q, e)[Len(q) + 1] = e
         /\ \A i \in DOMAIN q : Append(q, e)[i] = q[i]
  OBVIOUS

(* A decoded record is above everything delivered before it and below      *)
(* every record still ahead.                                               *)
LEMMA ReadRecordStep ==
  ASSUME IInv, NEW r \in Readers, ReadRecord(r)
  PROVE  IInv'
<1> DEFINE x == rd[r]
           g == files[x.file].good
           d == g[x.pos + 1]
           o == IF d <= x.from THEN x.out ELSE Append(x.out, d)
           y == [x EXCEPT !.pos = x.pos + 1, !.out = o]
<1>0. /\ TypeOK /\ FilesOrdered /\ MemoryInv /\ Replaying(x)
      /\ x \in Reader(x.views) /\ DOMAIN x.views \subseteq Nat
      /\ x.views \in [DOMAIN x.views -> View]
      /\ rd = [p \in Readers |-> rd[p]]
      /\ up /\ x.pc = "read" /\ x.pos < Len(g)
  BY InReplay, Zenon DEF ReadRecord
<1>1. UNCHANGED <<up, seq, segs, cur, writable, dir, files, now, lives, acked, held>>
  BY Zenon DEF ReadRecord, memory, disk
<1>2. rd' = [rd EXCEPT ![r].pos = @ + 1,
                       ![r].out = IF d <= x.from THEN @ ELSE Append(@, d)]
  BY Zenon DEF ReadRecord
<1>3. ReaderMoves(r, y)
  BY <1>0, <1>1, <1>2, Zenon DEF ReaderMoves
<1>4. /\ x.from <= x.lo /\ x.hi <= seq /\ ViewsOrdered(x.views) /\ OutOrdered(x)
      /\ FileOpen(x)
      /\ \A s \in held : x.lo < s /\ s <= x.hi => Owed(x, s)
  BY <1>0, Zenon DEF Replaying
<1>5. x.file \in DOMAIN files
  BY <1>4, Zenon DEF FileOpen
<1>6. /\ Len(g) \in Nat /\ DOMAIN g = 1..Len(g)
      /\ \A k \in DOMAIN g : g[k] \in Nat
      /\ seq \in Nat /\ \A s \in held : s \in Nat
  BY <1>0, <1>5, Types, Zenon
<1>7. /\ x.from \in Nat /\ x.lo \in Int /\ x.hi \in Nat /\ x.pos \in Nat
      /\ x.out \in Seq(Nat) /\ x.gap \in BOOLEAN /\ x.file \in Nat
      /\ DOMAIN x.out = 1..Len(x.out) /\ Len(x.out) \in Nat
      /\ \A i \in DOMAIN x.out : x.out[i] \in Nat
  BY <1>0, ReaderTypes, Zenon
<1>8. /\ x.pos + 1 \in DOMAIN g /\ x.pos + 1 \in Nat /\ d \in Nat /\ d <= seq
  <2>1. x.pos + 1 \in DOMAIN g /\ x.pos + 1 \in Nat
    <3>1. /\ x.pos \in Nat /\ Len(g) \in Nat /\ x.pos < Len(g)
          /\ DOMAIN g = 1..Len(g)
      BY <1>0, <1>6, <1>7, Zenon
    <3> HIDE DEF g, x
    <3> QED
      BY <3>1
  <2>2. d \in Nat
    BY <1>6, <2>1, Zenon
  <2>3. FilesBelowSeq
    BY <1>0 DEF MemoryInv
  <2>4. d <= seq
    BY <1>5, <2>1, <2>3, Zenon DEF FilesBelowSeq
  <2> QED
    BY <2>1, <2>2, <2>4, Zenon
<1>9. /\ \A k \in DOMAIN g : k > x.pos + 1 => d < g[k]
      /\ \A i \in DOMAIN x.out : x.out[i] < d
      /\ \A v \in DOMAIN x.views : d < x.views[v].start
  <2>1. \A k \in DOMAIN g : k > x.pos + 1 => d < g[k]
    BY <1>0, <1>5, <1>8, Zenon DEF FilesOrdered
  <2>2. x.pos + 1 > x.pos
    BY <1>7
  <2>3. /\ \A i \in DOMAIN x.out : x.out[i] < d
        /\ \A v \in DOMAIN x.views : d < x.views[v].start
    BY <1>4, <1>8, <2>2, Zenon DEF FileOpen
  <2> QED
    BY <2>1, <2>3, Zenon
<1>10. /\ y.views = x.views /\ y.pc = "read" /\ y.from = x.from
       /\ y.lo = x.lo /\ y.hi = x.hi /\ y.out = o /\ y.gap = x.gap
       /\ y.file = x.file /\ y.pos = x.pos + 1
  <2> HIDE DEF o, d
  <2> QED
    BY <1>0, SMTT(30), Zenon DEF Reader
<1>11. o \in Seq(Nat)
  BY <1>7, <1>8, SMTT(30), Zenon
<1>12. y \in Reader(x.views)
  <2> HIDE DEF o, d
  <2> QED
    BY <1>0, <1>8, <1>11, Zenon DEF Reader
<1>13. /\ \A i \in DOMAIN o :
            \/ i \in DOMAIN x.out /\ o[i] = x.out[i]
            \/ d > x.from /\ i = Len(x.out) + 1 /\ o[i] = d
       /\ \A i \in DOMAIN x.out : i \in DOMAIN o /\ o[i] = x.out[i]
       /\ d > x.from => Len(x.out) + 1 \in DOMAIN o /\ o[Len(x.out) + 1] = d
       /\ DOMAIN o \subseteq Nat
  <2>1. CASE d <= x.from
    <3>1. o = x.out /\ ~(d > x.from)
      BY <1>7, <1>8, <2>1, SMTT(30), Zenon
    <3> HIDE DEF o, d, x
    <3> QED
      BY <1>7, <3>1, SMTT(30), Zenon
  <2>2. CASE ~(d <= x.from)
    <3>a. o = Append(x.out, d)
      BY <2>2, Zenon
    <3>b. d \in Nat /\ x.from \in Nat
      BY <1>7, <1>8, Zenon
    <3> HIDE DEF o, d, x
    <3>1. o = Append(x.out, d) /\ d > x.from
      BY <2>2, <3>a, <3>b
    <3>2. /\ DOMAIN o = 1..(Len(x.out) + 1) /\ o[Len(x.out) + 1] = d
          /\ \A i \in DOMAIN x.out : o[i] = x.out[i]
      BY <1>7, <1>8, <3>1, AppendElements, SMTT(30), Zenon
    <3> QED
      BY <1>7, <3>1, <3>2, SMTT(30), Zenon
  <2> QED
    BY <2>1, <2>2, Zenon
<1> HIDE DEF y, o, d
<1>14. OutOrdered(y)
  <2>1. ASSUME NEW i \in DOMAIN o
        PROVE  /\ x.from < o[i] /\ o[i] <= seq
               /\ \A v \in DOMAIN x.views : o[i] < x.views[v].start
    <3>1. CASE i \in DOMAIN x.out /\ o[i] = x.out[i]
      BY <1>4, <3>1, Zenon DEF OutOrdered
    <3>2. CASE d > x.from /\ o[i] = d
      BY <1>7, <1>8, <1>9, <3>2, Zenon
    <3> QED
      BY <1>13, <2>1, <3>1, <3>2, Zenon
  <2>2. ASSUME NEW i \in DOMAIN o, NEW j \in DOMAIN o, i < j
        PROVE  o[i] < o[j]
    <3>1. CASE j \in DOMAIN x.out /\ o[j] = x.out[j]
      <4>1. i \in DOMAIN x.out /\ o[i] = x.out[i]
        BY <1>7, <1>13, <2>2, <3>1, SMTT(30), Zenon
      <4> QED
        BY <1>4, <2>2, <3>1, <4>1, Zenon DEF OutOrdered
    <3>2. CASE j = Len(x.out) + 1 /\ o[j] = d
      <4>1. i \in DOMAIN x.out /\ o[i] = x.out[i]
        BY <1>7, <1>13, <2>2, <3>2, SMTT(30), Zenon
      <4> QED
        BY <1>9, <3>2, <4>1, Zenon
    <3> QED
      BY <1>13, <2>2, <3>1, <3>2, Zenon
  <2> QED
    BY <1>10, <2>1, <2>2, Zenon DEF OutOrdered
<1>15. FileOpen(y)
  <2>1. x.pos + 1 <= Len(g)
    BY <1>6, <1>8, SMTT(30), Zenon
  <2>2. ASSUME NEW i \in DOMAIN o, NEW k \in DOMAIN g, k > x.pos + 1
        PROVE  o[i] < g[k]
    <3>1. CASE i \in DOMAIN x.out /\ o[i] = x.out[i]
      <4>1. k > x.pos
        BY <1>6, <1>7, <2>2, SMTT(30), Zenon
      <4> QED
        BY <1>4, <2>2, <3>1, <4>1, Zenon DEF FileOpen
    <3>2. CASE o[i] = d
      BY <1>9, <2>2, <3>2, Zenon
    <3> QED
      BY <1>13, <2>2, <3>1, <3>2, Zenon
  <2> QED
    BY <1>4, <1>10, <2>1, <2>2, Zenon DEF FileOpen
<1>16. ASSUME NEW s \in held, x.lo < s, s <= x.hi
       PROVE  Owed(y, s)
  <2>1. Owed(x, s)
    BY <1>4, <1>16, Zenon
  <2>2. CASE s \in Elems(x.out)
    <3>1. s \in Elems(o)
      BY <1>13, <2>2, Zenon DEF Elems
    <3> QED
      BY <1>10, <3>1, Zenon DEF Owed
  <2>3. CASE x.gap \/ \E f \in DOMAIN x.views : s <= x.views[f].end /\ Has(f, s)
    BY <1>10, <2>3, Zenon DEF Owed
  <2>4. CASE files[x.file].torn
    BY <1>10, <2>4, Zenon DEF Owed
  <2>5. CASE \E k \in DOMAIN g : k > x.pos /\ g[k] = s
    <3>1. PICK k \in DOMAIN g : k > x.pos /\ g[k] = s
      BY <2>5, Zenon
    <3>2. CASE k = x.pos + 1
      <4>0. s = d /\ s \in Nat
        BY <1>6, <1>16, <3>1, <3>2, Zenon DEF d
      <4>1. s = d /\ d > x.from
        BY <1>4, <1>7, <1>16, <4>0, SMTT(30), Zenon
      <4>2. s \in Elems(o)
        BY <1>13, <4>1, Zenon DEF Elems
      <4> QED
        BY <1>10, <4>2, Zenon DEF Owed
    <3>3. CASE k # x.pos + 1
      <4>1. k > x.pos + 1
        BY <1>6, <1>7, <3>1, <3>3, SMTT(30), Zenon
      <4> QED
        BY <1>10, <3>1, <4>1, Zenon DEF Owed
    <3> QED
      BY <3>2, <3>3, Zenon
  <2> QED
    BY <2>1, <2>2, <2>3, <2>4, <2>5, Zenon DEF Owed
<1>17. ReaderInv(y)
  BY <1>0, <1>4, <1>10, <1>14, <1>15, <1>16, Zenon DEF ReaderInv, Replaying
<1> QED
  BY <1>0, <1>3, <1>10, <1>12, <1>17, ReaderStep, Zenon

(* At the end of a file without a fragment nothing owed is left in it.     *)
LEMMA ReadEndStep ==
  ASSUME IInv, NEW r \in Readers, ReadEnd(r)
  PROVE  IInv'
<1> DEFINE x == rd[r]
           y == [x EXCEPT !.pc = "scan", !.file = 0, !.pos = 0]
<1>0. /\ TypeOK /\ FilesOrdered /\ MemoryInv /\ Replaying(x)
      /\ x \in Reader(x.views) /\ DOMAIN x.views \subseteq Nat
      /\ x.views \in [DOMAIN x.views -> View]
      /\ rd = [p \in Readers |-> rd[p]]
      /\ up /\ x.pc = "read" /\ x.pos = Len(files[x.file].good)
  BY InReplay, Zenon DEF ReadEnd
<1>1. UNCHANGED <<up, seq, segs, cur, writable, dir, files, now, lives, acked, held>>
  BY Zenon DEF ReadEnd, memory, disk
<1>2. rd' = [rd EXCEPT ![r] = IF files[x.file].torn THEN Failed("err") ELSE y]
  BY <1>0 DEF ReadEnd
<1>3. CASE files[x.file].torn
  BY <1>0, <1>1, <1>2, <1>3, FailedReader, Zenon DEF ReaderMoves
<1>4. CASE ~files[x.file].torn
  <2>1. ReaderMoves(r, y)
    BY <1>0, <1>1, <1>2, <1>4 DEF ReaderMoves
  <2>2. /\ y \in Reader(x.views) /\ y.views = x.views /\ y.pc = "scan" /\ y.from = x.from
        /\ y.lo = x.lo /\ y.hi = x.hi /\ y.out = x.out /\ y.gap = x.gap
    BY <1>0, Zenon DEF Reader
  <2>3. /\ x.file \in DOMAIN files /\ OutOrdered(x) /\ ViewsOrdered(x.views)
        /\ x.from <= x.lo /\ x.hi <= seq
        /\ \A s \in held : x.lo < s /\ s <= x.hi => Owed(x, s)
    BY <1>0, Zenon DEF Replaying, FileOpen
  <2>4. \A k \in DOMAIN files[x.file].good : ~(k > x.pos)
    <3>1. /\ Len(files[x.file].good) \in Nat
          /\ DOMAIN files[x.file].good = 1..Len(files[x.file].good)
      BY <1>0, <2>3, Types, Zenon
    <3> QED
      BY <1>0, <3>1
  <2> HIDE DEF y
  <2>5. \A s \in held : x.lo < s /\ s <= x.hi => Owed(y, s)
    BY <1>4, <2>2, <2>3, <2>4, Zenon DEF Owed
  <2>6. OutOrdered(y)
    BY <2>2, <2>3, Zenon DEF OutOrdered
  <2>7. ReaderInv(y)
    BY <1>0, <2>2, <2>3, <2>5, <2>6, Zenon DEF ReaderInv, Replaying
  <2> QED
    BY <1>0, <2>1, <2>2, <2>7, ReaderStep, Zenon
<1> QED
  BY <1>3, <1>4

(* A call returns nil when no view is left and no file was missing.        *)
LEMMA ReadReturnStep ==
  ASSUME IInv, NEW r \in Readers, ReadReturn(r)
  PROVE  IInv'
<1> DEFINE x == rd[r]
           y == [x EXCEPT !.pc = "ok"]
<1>0. /\ TypeOK /\ FilesOrdered /\ MemoryInv /\ Replaying(x)
      /\ x \in Reader(x.views) /\ DOMAIN x.views \subseteq Nat
      /\ x.views \in [DOMAIN x.views -> View]
      /\ rd = [p \in Readers |-> rd[p]]
      /\ up /\ x.pc = "scan" /\ DOMAIN x.views = {}
  BY InReplay, Zenon DEF ReadReturn
<1>1. UNCHANGED <<up, seq, segs, cur, writable, dir, files, now, lives, acked, held>>
  BY DEF ReadReturn, memory, disk
<1>2. rd' = [rd EXCEPT ![r] = IF x.gap THEN Failed("expired") ELSE y]
  BY <1>0 DEF ReadReturn
<1>3. CASE x.gap
  BY <1>0, <1>1, <1>2, <1>3, FailedReader, Zenon DEF ReaderMoves
<1>4. CASE ~x.gap
  <2>1. ReaderMoves(r, y)
    BY <1>0, <1>1, <1>2, <1>4, Zenon DEF ReaderMoves
  <2>2. /\ y \in Reader(x.views) /\ y.views = x.views /\ y.pc = "ok" /\ y.from = x.from
        /\ y.lo = x.lo /\ y.hi = x.hi /\ y.out = x.out /\ y.gap = x.gap
    BY <1>0, Zenon DEF Reader
  <2> HIDE DEF y
  <2>3. OutOrdered(y) /\ \A s \in held : Owed(x, s) => Owed(y, s)
    BY <1>0, <2>2, Zenon DEF Replaying, OutOrdered, Owed
  <2>4. Replaying(y)
    BY <1>0, <2>2, <2>3, Zenon DEF Replaying
  <2>5. ReaderInv(y)
    BY <1>0, <1>4, <2>2, <2>4, Zenon DEF ReaderInv
  <2> QED
    BY <1>0, <2>1, <2>2, <2>5, ReaderStep, Zenon
<1> QED
  BY <1>3, <1>4, Zenon

-----------------------------------------------------------------------------
(* The theorems.                                                           *)

(* Every step of the WAL, of a replay, of the janitor or of the process    *)
(* preserves the invariant.                                                *)
LEMMA NextStep == IInv /\ [Next]_vars => IInv'
<1> SUFFICES ASSUME IInv, [Next]_vars
             PROVE  IInv'
  OBVIOUS
<1>1. CASE AppendStay \/ AppendRotate \/ AppendWriteFails \/ AppendRotateFails
  BY <1>1, AppendStep DEF Appends
<1>2. CASE GC
  BY <1>2, GCStep
<1>3. ASSUME NEW r \in Readers, Read(r)
      PROVE  IInv'
  <2>1. ASSUME ReadAbort(r)
        PROVE  IInv'
    <3>1. ReaderMoves(r, Failed("err"))
      BY <2>1 DEF ReadAbort, ReaderMoves, memory, disk
    <3> QED
      BY <3>1, FailedReader
  <2> QED
    BY <1>3, <2>1, ReadFromStep, ReadNextSegmentStep, ReadRecordStep, ReadEndStep,
       ReadReturnStep DEF Read
<1>4. CASE Open
  BY <1>4, OpenStep
<1>5. CASE Close \/ CrashInAppend
  BY <1>5, ForgetStep
<1>6. CASE Tick
  BY <1>6, TickStep
<1>7. CASE UNCHANGED vars
  BY <1>7, StutterStep
<1> QED
  BY <1>1, <1>2, <1>3, <1>4, <1>5, <1>6, <1>7 DEF Next

(* IInv is an invariant of the WAL for every number of readers, every      *)
(* segment size, retention, fault set and bound.                           *)
THEOREM Invariance == Spec => []IInv
BY InitHolds, NextStep, PTL DEF Spec

(* Type correctness of the WAL, its segment list and its replays.          *)
THEOREM TypeCorrect == Spec => []TypeOK
<1>1. IInv => TypeOK
  BY SMTT(30), Zenon DEF IInv
<1> QED
  BY <1>1, Invariance, PTL

(* The segment list stays ordered and disjoint, and ends with the current  *)
(* segment, through appends, failures, trims, crashes and reloads.         *)
THEOREM ListOrdered == Spec => []SegmentsOrdered
<1>1. IInv => SegmentsOrdered
  BY DEF IInv, MemoryInv, CurLast, SegsApart, SegmentsOrdered
<1> QED
  BY <1>1, Invariance, PTL

(* ReadFrom hands its callback strictly increasing seqs above the cursor.  *)
THEOREM ReplaysOrdered == Spec => []ReplayOrdered
<1>1. IInv => ReplayOrdered
  <2> SUFFICES ASSUME IInv, NEW r \in Readers
               PROVE  /\ \A i \in DOMAIN rd[r].out : rd[r].out[i] > rd[r].from
                      /\ \A i, j \in DOMAIN rd[r].out : i < j => rd[r].out[i] < rd[r].out[j]
    BY SMTT(30), Zenon DEF ReplayOrdered
  <2>1. rd[r].out = <<>> \/ OutOrdered(rd[r])
    BY SMTT(30), Zenon DEF IInv, ReaderInv, Replaying
  <2>2. rd[r].from \in Nat /\ \A i \in DOMAIN rd[r].out : rd[r].out[i] \in Nat
    BY ReaderTypes, SMTT(30), Zenon DEF IInv
  <2> QED
    BY <2>1, <2>2 DEF OutOrdered
<1> QED
  BY <1>1, Invariance, PTL

(* ReadFrom returns nil only after delivering every record of its window   *)
(* that the open WAL answers for; a trim that took one away, before or     *)
(* during the replay, is reported as ErrCursorExpired.                     *)
THEOREM ReplaysComplete == Spec => []ReplayComplete
<1>1. IInv => ReplayComplete
  <2> SUFFICES ASSUME IInv, NEW r \in Readers, rd[r].pc = "ok",
                      NEW s \in held, rd[r].lo < s, s <= rd[r].hi
               PROVE  s \in Elems(rd[r].out)
    BY DEF ReplayComplete
  <2>1. Replaying(rd[r]) /\ DOMAIN rd[r].views = {} /\ ~rd[r].gap
    BY DEF IInv, ReaderInv
  <2>2. Owed(rd[r], s)
    BY <2>1 DEF Replaying
  <2> QED
    BY <2>1, <2>2 DEF Owed
<1> QED
  BY <1>1, Invariance, PTL

-----------------------------------------------------------------------------
(* Across restarts.  Open numbers on from the last record it finds, so the *)
(* numbers stay apart as long as a record is found: a trim that takes the  *)
(* last one, or a fragment that hides it, lets them start again.           *)

Record(f) == Elems(files[f].good)

NoFragments == "torn" \notin Faults
NoOrphans   == "remove" \notin Faults

(* What a trim leaves of a WAL with records has a record.                  *)
LeavesOne ==
  (\E f \in DOMAIN segs : Record(f) # {}) => \E f \in DOMAIN segs' : Record(f) # {}

TrimsLeaveOne == [][GC => LeavesOne]_vars

Whole == \A f \in DOMAIN files : ~files[f].torn

(* No number was given out above the last record on disk.                  *)
Latest == \A s \in acked : \E f \in dir : \E d \in Record(f) : s <= d

SeqInv == IInv /\ Whole /\ Latest

LEMMA RecordsNat ==
  ASSUME TypeOK, NEW f \in DOMAIN files
  PROVE  Record(f) \subseteq Nat
BY Types DEF Record, Elems

LEMMA BelowSeq ==
  ASSUME SeqInv, up
  PROVE  \A s \in acked : s \in Nat /\ s <= seq
<1> SUFFICES ASSUME NEW s \in acked
             PROVE  s \in Nat /\ s <= seq
  OBVIOUS
<1>1. s \in Nat /\ seq \in Nat /\ dir \subseteq DOMAIN files
  BY DEF SeqInv, IInv, TypeOK
<1>2. PICK f \in dir : \E d \in Record(f) : s <= d
  BY DEF SeqInv, Latest
<1>3. PICK d \in Record(f) : s <= d
  BY <1>2
<1>4. d \in Nat /\ d <= seq
  <2>1. d \in Nat
    BY <1>1, RecordsNat DEF SeqInv, IInv
  <2>2. d <= seq
    BY <1>1, SMTT(30), Zenon DEF SeqInv, IInv, MemoryInv, FilesBelowSeq, Record, Elems
  <2> QED
    BY <2>1, <2>2
<1> QED
  BY <1>1, <1>3, <1>4

(* What a write of the next record adds.                                   *)
LEMMA WriteRecords ==
  ASSUME TypeOK, Whole, cur \in DOMAIN files
  PROVE  LET W == WriteRecord(cur, seq + 1) IN
         /\ DOMAIN W = DOMAIN files
         /\ \A f \in DOMAIN files : ~W[f].torn
         /\ \A f \in DOMAIN files : f # cur => W[f] = files[f]
         /\ Elems(W[cur].good) = Record(cur) \cup {seq + 1}
<1> DEFINE W == WriteRecord(cur, seq + 1)
           G == files[cur].good
<1>1. G \in Seq(Nat) /\ seq + 1 \in Nat
  BY Types, SMTT(30), Zenon
<1>2. /\ DOMAIN W = DOMAIN files /\ \A f \in DOMAIN files : f # cur => W[f] = files[f]
      /\ W[cur] = [good |-> Append(G, seq + 1), torn |-> files[cur].torn,
                   size |-> files[cur].size + 1, mtime |-> now]
  BY Zenon DEF WriteRecord, Whole, TypeOK
<1> HIDE DEF W
<1>3. \A f \in DOMAIN files : ~W[f].torn
  BY <1>2 DEF Whole
<1>4. Elems(W[cur].good) = Record(cur) \cup {seq + 1}
  <2>1. W[cur].good = Append(G, seq + 1)
    BY <1>2
  <2> HIDE DEF G
  <2>2. \A d : d \in Elems(Append(G, seq + 1)) <=> d \in Elems(G) \/ d = seq + 1
    <3>1. /\ DOMAIN Append(G, seq + 1) = 1..Len(G) + 1 /\ DOMAIN G = 1..Len(G) /\ Len(G) \in Nat
          /\ Append(G, seq + 1)[Len(G) + 1] = seq + 1
          /\ \A i \in 1..Len(G) : Append(G, seq + 1)[i] = G[i]
      BY <1>1
    <3>2. \A i : i \in 1..Len(G) + 1 <=> i \in 1..Len(G) \/ i = Len(G) + 1
      BY <3>1, SMTT(30), Zenon
    <3> QED
      BY <3>1, <3>2, Zenon DEF Elems
  <2> QED
    BY <2>1, <2>2 DEF Record, G
<1> QED
  BY <1>2, <1>3, <1>4 DEF W

(* What an append does to the records on disk, whatever its outcome, and   *)
(* when the process ends in the middle of it.                              *)
LEMMA AppendRecords ==
  ASSUME SeqInv, NoFragments, Appends \/ CrashInAppend
  PROVE  /\ up /\ cur \in dir /\ cur \in DOMAIN segs /\ dir \subseteq dir' /\ Whole'
         /\ \A f \in dir : /\ Record(f) \subseteq Record(f)'
                           /\ Record(f)' \subseteq Record(f) \cup {seq + 1}
                           /\ f # cur => Record(f)' = Record(f)
         /\ \A f \in dir' \ dir : Record(f)' = {}
         /\ \/ acked' = acked
            \/ /\ acked' = acked \cup {seq + 1}
               /\ \A f \in dir : f = cur => seq + 1 \in Record(f)'
<1>1. TypeOK /\ Whole /\ FilesOrdered /\ MemoryInv
  BY SMTT(30), Zenon DEF SeqInv, IInv
<1>2. up
  BY DEF Appends, AppendStay, AppendRotate, AppendWriteFails, AppendRotateFails, CrashInAppend,
         CanAppend
<1>3. CurLast /\ FilesBelowSeq
  BY <1>1, <1>2 DEF MemoryInv
<1>4. cur \in dir /\ cur \in DOMAIN segs /\ dir \subseteq DOMAIN files /\ cur \in DOMAIN files
  BY <1>1, <1>3, SMTT(30), Zenon DEF CurLast, TypeOK
<1> DEFINE W == WriteRecord(cur, seq + 1)
<1>5. /\ DOMAIN W = DOMAIN files /\ \A f \in DOMAIN files : ~W[f].torn
      /\ \A f \in DOMAIN files : f # cur => W[f] = files[f]
      /\ Elems(W[cur].good) = Record(cur) \cup {seq + 1}
  BY <1>1, <1>4, WriteRecords, SMTT(30), Zenon
<1> HIDE DEF W
<1>6. CASE AppendRotate
  <2>1. /\ files' = Touch(W, seq + 2) /\ dir' = dir \cup {seq + 2} /\ acked' = acked \cup {seq + 1}
    BY <1>6, SMTT(30), Zenon DEF AppendRotate, Acknowledge, W
  <2>2. /\ \A f \in DOMAIN files : files'[f] = W[f]
        /\ DOMAIN files' = DOMAIN files \cup {seq + 2}
        /\ seq + 2 \notin DOMAIN files => files'[seq + 2] = EmptyFile
    BY <1>5, <2>1 DEF Touch
  <2>3. ASSUME NEW f \in dir' \ dir
        PROVE  Record(f)' = {}
    <3>1. f = seq + 2 /\ f # cur
      BY <1>4, <2>1, SMTT(30), Zenon
    <3>2. CASE f \notin DOMAIN files
      BY <2>2, <3>1, <3>2 DEF Record, Elems, EmptyFile
    <3>3. CASE f \in DOMAIN files
      <4>1. Record(f)' = Record(f)
        BY <1>5, <2>2, <3>1, <3>3, SMTT(30), Zenon DEF Record
      <4>2. \A i \in DOMAIN files[f].good : files[f].good[i] >= seq + 2 /\ files[f].good[i] <= seq
        BY <1>1, <1>3, <3>1, <3>3 DEF FilesOrdered, FilesBelowSeq
      <4>3. seq \in Nat /\ \A i \in DOMAIN files[f].good : files[f].good[i] \in Nat
        BY <1>1, <3>3, Types
      <4>4. DOMAIN files[f].good = {}
        BY <4>2, <4>3, SMTT(30), Zenon
      <4> QED
        BY <4>1, <4>4, Zenon DEF Record, Elems
    <3> QED
      BY <3>2, <3>3
  <2>4. Whole'
    BY <1>5, <2>2, SMTT(30), Zenon DEF Whole, EmptyFile
  <2>5. /\ \A f \in dir : f # cur => Record(f)' = Record(f)
        /\ \A f \in dir : f = cur => Record(f)' = Record(f) \cup {seq + 1}
    BY <1>4, <1>5, <2>2 DEF Record
  <2>6. \A f \in dir : Record(f) \subseteq Record(f)' /\ Record(f)' \subseteq Record(f) \cup {seq + 1}
    BY <2>5, SMTT(30), Zenon
  <2> QED
    BY <1>2, <1>4, <2>1, <2>3, <2>4, <2>5, <2>6, SMTT(30), Zenon
<1>7. CASE ~AppendRotate
  <2>1. /\ files' = files \/ files' = W
        /\ dir' = dir
        /\ acked' = acked \/ (files' = W /\ acked' = acked \cup {seq + 1})
    <3>1. CASE AppendStay
      BY <3>1 DEF AppendStay, Acknowledge, W
    <3>2. CASE AppendWriteFails
      BY <3>2 DEF AppendWriteFails, NoFragments, W
    <3>3. CASE AppendRotateFails
      BY <3>3 DEF AppendRotateFails, W
    <3>4. CASE CrashInAppend
      BY <3>4, SMTT(30), Zenon DEF CrashInAppend, Forget, NoFragments, W
    <3> QED
      BY <1>7, <3>1, <3>2, <3>3, <3>4, SMTT(30), Zenon DEF Appends
  <2>2. CASE files' = files /\ files' # W
    <3>1. \A f \in dir : Record(f)' = Record(f)
      BY <2>2 DEF Record
    <3>2. Whole'
      BY <1>1, <2>2, SMTT(30), Zenon DEF Whole
    <3> QED
      BY <1>2, <1>4, <2>1, <2>2, <3>1, <3>2
  <2>3. CASE files' = W
    <3>1. /\ \A f \in dir : f # cur => Record(f)' = Record(f)
          /\ \A f \in dir : f = cur => Record(f)' = Record(f) \cup {seq + 1}
      BY <1>4, <1>5, <2>3 DEF Record
    <3>2. Whole'
      BY <1>5, <2>3, SMTT(30), Zenon DEF Whole
    <3>3. \A f \in dir : Record(f) \subseteq Record(f)' /\ Record(f)' \subseteq Record(f) \cup {seq + 1}
      BY <3>1
    <3> QED
      BY <1>2, <1>4, <2>1, <3>1, <3>2, <3>3, SMTT(30), Zenon
  <2> QED
    BY <2>1, <2>2, <2>3
<1> QED
  BY <1>6, <1>7

(* A trim takes a prefix of the segment list.                              *)
LEMMA TrimsPrefix ==
  ASSUME IInv, GC
  PROVE  /\ up /\ DOMAIN segs' \subseteq DOMAIN segs
         /\ \A f \in DOMAIN segs' : segs'[f] = segs[f]
         /\ dir' \subseteq dir /\ dir \ dir' \subseteq DOMAIN segs \ DOMAIN segs'
         /\ NoOrphans => dir' = dir \ (DOMAIN segs \ DOMAIN segs')
         /\ \A f \in DOMAIN segs \ DOMAIN segs', k \in DOMAIN segs' :
              \A d \in Record(f) : d \in Nat /\ d < segs[k].start
<1>1. TypeOK /\ CurLast /\ SegsApart /\ SegsCoverFiles /\ up
  BY SMTT(30), Zenon DEF IInv, MemoryInv, GC
<1>2. PICK c \in Unexpired :
        LET kept    == NotBefore(Unexpired, c)
            removed == DOMAIN segs \ kept
        IN  /\ segs' = [f \in kept |-> segs[f]]
            /\ \E stuck \in SUBSET removed :
                 (stuck # {} => "remove" \in Faults) /\ dir' = dir \ (removed \ stuck)
  BY DEF GC
<1> DEFINE kept == NotBefore(Unexpired, c)
<1>3. /\ kept \subseteq DOMAIN segs /\ DOMAIN segs' = kept
      /\ \A f \in kept : segs'[f] = segs[f]
      /\ c \in DOMAIN segs /\ cur \in DOMAIN segs
  BY <1>1, <1>2, Zenon DEF NotBefore, Unexpired, CurLast
<1>4. /\ dir' \subseteq dir /\ dir \ dir' \subseteq DOMAIN segs \ kept
      /\ NoOrphans => dir' = dir \ (DOMAIN segs \ kept)
  <2> HIDE DEF kept
  <2>1. PICK stuck \in SUBSET (DOMAIN segs \ kept) :
          (stuck # {} => "remove" \in Faults) /\ dir' = dir \ ((DOMAIN segs \ kept) \ stuck)
    BY <1>2, Zenon DEF kept
  <2> QED
    BY <2>1 DEF NoOrphans
<1>5. ASSUME NEW f \in DOMAIN segs \ kept, NEW k \in kept, NEW d \in Record(f)
      PROVE  d \in Nat /\ d < segs[k].start
  <2>1. /\ k \in DOMAIN segs /\ k # f /\ k \in Unexpired /\ segs[k].start >= segs[c].start
        /\ segs[f].start >= segs[c].start => f \notin Unexpired
    BY SMTT(30), Zenon DEF kept, NotBefore, Unexpired
  <2> HIDE DEF kept
  <2>2. /\ segs[f].start \in Nat /\ segs[k].start \in Nat /\ segs[c].start \in Nat
        /\ segs[f].end \in Nat /\ segs[f].created \in Nat /\ segs[k].created \in Nat
        /\ now \in Nat /\ TTL \in Int
    BY <1>1, <1>3, <2>1, Types, WalConstants, SMTT(30), Zenon
  <2>3. segs[f].end < segs[k].start
    <3> SUFFICES ASSUME segs[k].start < segs[f].start, segs[k].created <= segs[f].created
                 PROVE  FALSE
      BY <1>1, <2>1, Zenon DEF SegsApart
    <3>1. f \notin Unexpired
      BY <2>1, <2>2, SMTT(30), Zenon
    <3>2. f # cur /\ ~(now - segs[f].created <= TTL)
      BY <3>1, SMTT(30), Zenon DEF Unexpired
    <3>3. k # cur
      <4> SUFFICES ASSUME k = cur
                   PROVE  FALSE
        OBVIOUS
      <4>1. segs[k].start = cur /\ segs[f].start < cur
        BY <1>1, <3>2, Zenon DEF CurLast
      <4> QED
        BY <2>2, <4>1
    <3>4. now - segs[k].created <= TTL
      BY <2>1, <3>3, SMTT(30), Zenon DEF Unexpired
    <3> QED
      BY <2>2, <3>2, <3>4
  <2>4. f # cur
    <3> SUFFICES ASSUME f = cur
                 PROVE  FALSE
      BY SMTT(30), Zenon
    <3>1. segs[k].start < cur /\ segs[f].start = cur /\ cur \in Unexpired
      BY <1>1, <1>3, <2>1, SMTT(30), Zenon DEF CurLast, Unexpired
    <3> QED
      BY <2>1, <2>2, <3>1
  <2>5. d \in Nat /\ d <= segs[f].end
    <3>1. f \in DOMAIN files
      BY <1>1, SMTT(30), Zenon DEF CurLast, TypeOK
    <3>2. d \in Nat
      BY <1>1, <3>1, RecordsNat, ZenonT(30)
    <3> QED
      BY <1>1, <2>4, <3>2, SMTT(30), Zenon DEF SegsCoverFiles, Record, Elems
  <2> QED
    BY <2>2, <2>3, <2>5, SMTT(30), Zenon
<1> HIDE DEF kept
<1> QED
  BY <1>1, <1>3, <1>4, <1>5, SMTT(30), Zenon

(* Opening keeps what it finds, lists what has records, and starts a       *)
(* segment above all of it.                                                *)
LEMMA OpenRecords ==
  ASSUME SeqInv, Open
  PROVE  /\ dir \subseteq dir' /\ Whole' /\ acked' = acked /\ up' /\ ~up
         /\ \A f \in dir : Record(f)' = Record(f)
         /\ \A f \in dir' \ dir : Record(f)' = {}
         /\ \A f \in dir : Record(f) # {} => f \in DOMAIN segs'
         /\ \A o \in DOMAIN segs' :
              \/ segs'[o].start > seq'
              \/ o \in dir /\ segs'[o].start \in Record(o)
<1>1. TypeOK /\ FilesOrdered /\ Whole
  BY DEF SeqInv, IInv
<1>2. PICK s \in 0..MaxSeq :
        /\ seq' = s /\ segs' = AddSegment(Reload, s)
        /\ dir' = dir \cup {s + 1} /\ files' = Touch([f \in dir |-> files[f]], s + 1)
  BY DEF Open
<1>3. acked' = acked /\ up' /\ ~up
  BY DEF Open
<1>4. s \in Nat /\ dir \subseteq DOMAIN files
  BY <1>1, WalConstants DEF TypeOK
<1>5. /\ DOMAIN files' = dir \cup {s + 1}
      /\ \A f \in dir : files'[f] = files[f]
      /\ s + 1 \notin dir => files'[s + 1] = EmptyFile
  BY <1>2, SMTT(30), Zenon DEF Touch
<1>6. Whole'
  BY <1>1, <1>4, <1>5, SMTT(30), Zenon DEF Whole, EmptyFile
<1>7. \A f \in dir : Record(f)' = Record(f)
  BY <1>5, SMTT(30), Zenon DEF Record
<1>8. \A f \in dir' \ dir : Record(f)' = {}
  BY <1>2, <1>5, SMTT(30), Zenon DEF Record, Elems, EmptyFile
<1>9. /\ DOMAIN segs' = Recovered \cup {s + 1}
      /\ \A f \in Recovered : f # s + 1 => segs'[f] = Reload[f]
      /\ segs'[s + 1].start = s + 1
  <2>1. DOMAIN Reload = Recovered
    BY DEF Reload
  <2> QED
    BY <1>2, <2>1 DEF AddSegment, FreshSegment
<1>10. \A f \in Recovered : f \in dir /\ Reload[f].start \in Record(f)
  <2>1. \A f \in Recovered : /\ f \in dir
                             /\ \E i \in DOMAIN files[f].good : Reload[f].start = files[f].good[i]
    BY <1>1, ReloadEffect
  <2> QED
    BY <2>1, Zenon DEF Record, Elems
<1>11. \A f \in dir : Record(f) # {} => f \in Recovered
  BY <1>1, ReloadEffect, Zenon DEF Record, Elems
<1>12. ASSUME NEW o \in DOMAIN segs'
       PROVE  \/ segs'[o].start > seq'
              \/ o \in dir /\ segs'[o].start \in Record(o)
  <2>1. CASE o = s + 1
    BY <1>2, <1>4, <1>9, <2>1, SMTT(30), Zenon
  <2>2. CASE o # s + 1
    BY <1>9, <1>10, <2>2
  <2> QED
    BY <2>1, <2>2, SMTT(30), Zenon
<1> QED
  BY <1>2, <1>3, <1>6, <1>7, <1>8, <1>9, <1>11, <1>12, SMTT(30), Zenon

LEMMA SeqStep ==
  ASSUME SeqInv, NoFragments, [Next]_vars, GC => LeavesOne
  PROVE  SeqInv'
<1>1. IInv'
  BY NextStep DEF SeqInv
<1> SUFFICES Whole' /\ Latest'
  BY <1>1, SMTT(30), Zenon DEF SeqInv
<1>2. TypeOK /\ Whole /\ Latest /\ dir \subseteq DOMAIN files
  BY DEF SeqInv, IInv, TypeOK
<1>3. CASE Appends \/ CrashInAppend
  <2>1. /\ cur \in dir /\ dir \subseteq dir' /\ Whole'
        /\ \A f \in dir : Record(f) \subseteq Record(f)'
        /\ \/ acked' = acked
           \/ /\ acked' = acked \cup {seq + 1}
              /\ \A f \in dir : f = cur => seq + 1 \in Record(f)'
    BY <1>3, AppendRecords
  <2>2. ASSUME NEW s \in acked'
        PROVE  \E f \in dir' : \E d \in Record(f)' : s <= d
    <3>1. CASE s \in acked
      <4>1. PICK f \in dir : \E d \in Record(f) : s <= d
        BY <1>2, <3>1 DEF Latest
      <4> QED
        BY <2>1, <4>1
    <3>2. CASE s \notin acked
      <4>1. PICK f \in dir : f = cur
        BY <2>1, SMTT(30), Zenon
      <4>2. s = seq + 1 /\ s \in Record(f)' /\ f \in dir' /\ s <= s
        BY <1>2, <2>1, <2>2, <3>2, <4>1, SMTT(30), Zenon DEF TypeOK
      <4> QED
        BY <4>2
    <3> QED
      BY <3>1, <3>2
  <2> QED
    BY <2>1, <2>2, SMTT(30), Zenon DEF Latest
<1>4. CASE GC
  <2>1. acked' = acked /\ files' = files
    BY <1>4, Zenon DEF GC
  <2>2. /\ DOMAIN segs' \subseteq DOMAIN segs /\ up /\ up' = up
        /\ dir' \subseteq dir /\ dir \ dir' \subseteq DOMAIN segs \ DOMAIN segs'
        /\ \A f \in DOMAIN segs \ DOMAIN segs', k \in DOMAIN segs' :
             \A d \in Record(f) : d \in Nat /\ d < segs[k].start
    BY <1>4, TrimsPrefix, Zenon DEF SeqInv, GC
  <2>3. CurLast /\ SegsCoverFiles /\ DOMAIN segs' \subseteq dir'
    BY <1>1, <2>2, Zenon DEF SeqInv, IInv, MemoryInv, CurLast
  <2>4. ASSUME NEW s \in acked
        PROVE  \E f \in dir' : \E d \in Record(f) : s <= d
    <3>1. PICK f \in dir : \E d \in Record(f) : s <= d
      BY <1>2 DEF Latest
    <3>2. PICK d \in Record(f) : s <= d
      BY <3>1
    <3>3. CASE f \in dir'
      BY <3>2, <3>3
    <3>4. CASE f \notin dir'
      <4>1. f \in DOMAIN segs \ DOMAIN segs'
        BY <2>2, <3>4
      <4>2. PICK k \in DOMAIN segs' : Record(k) # {}
        BY <1>4, <3>2, <4>1 DEF LeavesOne
      <4>3. PICK e \in Record(k) : TRUE
        BY <4>2, SMTT(30), Zenon
      <4>4. d \in Nat /\ d < segs[k].start
        BY <2>2, <3>2, <4>1, SMTT(30), Zenon
      <4>5. segs[k].start <= e
        BY <2>2, <2>3, <4>3, SMTT(30), Zenon DEF SegsCoverFiles, Record, Elems
      <4>6. k \in DOMAIN segs /\ k \in DOMAIN files /\ k \in dir' /\ s \in Nat
        BY <1>2, <2>2, <2>3, SMTT(30), Zenon DEF TypeOK
      <4>7. e \in Nat /\ segs[k].start \in Nat
        BY <1>2, <4>6, RecordsNat, Types, ZenonT(30)
      <4>8. s <= e
        BY <3>2, <4>4, <4>5, <4>6, <4>7, SMTT(30), Zenon
      <4> QED
        BY <4>3, <4>6, <4>8, SMTT(30), Zenon
    <3> QED
      BY <3>3, <3>4
  <2>5. Latest'
    BY <2>1, <2>4 DEF Latest, Record
  <2> QED
    BY <1>2, <2>1, <2>5, SMTT(30), Zenon DEF Whole
<1>5. CASE Open
  <2>1. /\ dir \subseteq dir' /\ Whole' /\ acked' = acked
        /\ \A f \in dir : Record(f)' = Record(f)
    BY <1>5, OpenRecords
  <2> QED
    BY <1>2, <2>1, SMTT(30), Zenon DEF Latest
<1>6. CASE Close \/ Tick \/ (\E r \in Readers : Read(r)) \/ UNCHANGED vars
  <2>1. files' = files /\ dir' = dir /\ acked' = acked
    BY <1>6, Zenon DEF Close, Forget, Tick, Read, ReadFrom, ReadNextSegment, ReadRecord, ReadEnd,
                ReadAbort, ReadReturn, vars, memory, disk
  <2> QED
    BY <1>2, <2>1 DEF Whole, Latest, Record
<1> QED
  BY <1>3, <1>4, <1>5, <1>6 DEF Next, Appends

LEMMA SeqInit == Init => SeqInv
<1> SUFFICES ASSUME Init
             PROVE  Whole /\ Latest
  BY InitHolds DEF SeqInv
<1>1. files = None /\ acked = {}
  BY DEF Init
<1> QED
  BY <1>1 DEF Whole, Latest, None

(* Append never hands out a seq twice, nor one below an earlier one,       *)
(* across restarts and crashes, for as long as no failed write leaves a    *)
(* fragment and no trim takes the last record on disk.  Neither hypothesis *)
(* can go: records behind a fragment do not decode, and a WAL idle for its *)
(* whole TTL is trimmed to an empty segment; Open then numbers from what   *)
(* it finds.                                                               *)
THEOREM NumbersApart ==
  ASSUME NoFragments
  PROVE  Spec /\ TrimsLeaveOne => SeqNeverReused
<1>1. SeqInv /\ [Next]_vars /\ [GC => LeavesOne]_vars => SeqInv'
  <2> SUFFICES ASSUME SeqInv, [Next]_vars, [GC => LeavesOne]_vars
               PROVE  SeqInv'
    OBVIOUS
  <2>1. GC => LeavesOne
    <3> SUFFICES ASSUME UNCHANGED vars
                 PROVE  LeavesOne
      OBVIOUS
    <3>1. segs' = segs
      BY DEF vars, memory
    <3> QED
      BY <3>1 DEF LeavesOne
  <2> QED
    BY <2>1, SeqStep
<1>2. SeqInv /\ [Next]_vars =>
        [up /\ up' => \A s \in held' \ held, t \in acked : t < s]_vars
  <2> SUFFICES ASSUME SeqInv, Next, up, up',
                      NEW s \in held' \ held, NEW t \in acked
               PROVE  t < s
    BY SMTT(30), Zenon
  <2>1. t \in Nat /\ t <= seq /\ seq \in Nat
    BY BelowSeq DEF SeqInv, IInv, TypeOK
  <2>2. s = seq + 1
    <3>1. held' = held \/ held' = held \cup {seq + 1}
      <4>1. CASE Appends
        BY <4>1, ZenonT(30) DEF Appends, AppendStay, AppendRotate, AppendWriteFails,
                           AppendRotateFails, Acknowledge
      <4>2. CASE GC \/ Tick \/ \E r \in Readers : Read(r)
        BY <4>2, ZenonT(30) DEF GC, Tick, Read, ReadFrom, ReadNextSegment, ReadRecord, ReadEnd, ReadAbort,
                    ReadReturn
      <4>3. CASE Open \/ Close \/ CrashInAppend
        BY <4>3, Zenon DEF Open, Close, CrashInAppend, Forget
      <4> QED
        BY <4>1, <4>2, <4>3 DEF Next, Appends
    <3> QED
      BY <3>1
  <2> QED
    BY <2>1, <2>2
<1> QED
  BY <1>1, <1>2, SeqInit, PTL DEF Spec, TrimsLeaveOne, SeqNeverReused

-----------------------------------------------------------------------------
(* The window.  On disk and in the list the records are a suffix of what   *)
(* was acknowledged: whatever is at or above the oldest one is there.      *)

WindowListed ==
  \A s \in acked : (\E o \in DOMAIN segs : segs[o].start <= s) =>
                     \E f \in DOMAIN segs : s \in Record(f)

AllListed == \A f \in dir : Record(f) # {} => f \in DOMAIN segs

WindowOnDisk ==
  \A s \in acked : (\E f \in dir : \E d \in Record(f) : d <= s) =>
                     \E f \in dir : s \in Record(f)

WindowInv ==
  /\ SeqInv
  /\ up => WindowListed /\ AllListed
  /\ ~up => WindowOnDisk

LEMMA WindowInit == Init => WindowInv
<1> SUFFICES ASSUME Init
             PROVE  ~up /\ WindowOnDisk
  BY SeqInit DEF WindowInv
<1> QED
  BY DEF Init, WindowOnDisk

LEMMA AtMost ==
  ASSUME NEW a \in Nat, NEW b \in Nat, NEW c \in Nat, a <= b, b <= c
  PROVE  a <= c
OBVIOUS

(* What the list answers for is on disk when the process ends.             *)
LEMMA ListedOnDisk ==
  ASSUME WindowInv, up
  PROVE  \A s \in acked : (\E f \in dir : \E d \in Record(f) : d <= s) =>
                            \E f \in dir : s \in Record(f)
<1> SUFFICES ASSUME NEW s \in acked, NEW f \in dir, NEW d \in Record(f), d <= s
             PROVE  \E g \in dir : s \in Record(g)
  OBVIOUS
<1>1. TypeOK /\ CurLast /\ SegsCoverFiles /\ WindowListed /\ AllListed
  BY SMTT(30), Zenon DEF WindowInv, SeqInv, IInv, MemoryInv
<1>2. f \in DOMAIN segs /\ f \in DOMAIN files /\ s \in Nat /\ DOMAIN segs \subseteq dir
  BY <1>1, SMTT(30), Zenon DEF AllListed, CurLast, TypeOK
<1>3. segs[f].start \in Nat /\ d \in Nat
  <2>1. segs[f].start \in Nat
    BY <1>1, <1>2, Types, Zenon
  <2>2. d \in Nat
    BY <1>1, <1>2, RecordsNat, Zenon
  <2> QED
    BY <2>1, <2>2, Zenon
<1>4. segs[f].start <= d
  BY <1>1, <1>2, Zenon DEF SegsCoverFiles, Record, Elems
<1>5. segs[f].start <= s
  BY <1>2, <1>3, <1>4, AtMost, Zenon
<1> QED
  BY <1>1, <1>2, <1>5 DEF WindowListed

LEMMA AppendSegs ==
  ASSUME IInv, Appends
  PROVE  /\ up' = up /\ DOMAIN segs \subseteq DOMAIN segs'
         /\ \A f \in DOMAIN segs : segs'[f].start = segs[f].start
         /\ \A f \in DOMAIN segs' \ DOMAIN segs : segs'[f].start = seq + 2
<1>1. up
  BY DEF Appends, AppendStay, AppendRotate, AppendWriteFails, AppendRotateFails, CanAppend
<1>2. TypeOK /\ CurLast
  BY <1>1 DEF IInv, MemoryInv
<1>3. seq + 2 \notin DOMAIN segs
  <2> SUFFICES ASSUME seq + 2 \in DOMAIN segs
               PROVE  FALSE
    BY SMTT(30), Zenon
  <2>1. /\ seq + 2 <= segs[seq + 2].start
        /\ segs[cur].start = cur /\ cur <= seq + 1
        /\ seq + 2 # cur => segs[seq + 2].start < cur
    BY <1>2, SMTT(30), Zenon DEF CurLast
  <2>2. seq \in Nat /\ cur \in Nat /\ segs[seq + 2].start \in Nat
    BY <1>2, Types, SMTT(30), Zenon
  <2> QED
    BY <2>1, <2>2
<1> DEFINE A == Account(seq + 1)
<1>4. DOMAIN A = DOMAIN segs /\ \A f \in DOMAIN segs : A[f].start = segs[f].start
  BY <1>2, SMTT(30), Zenon DEF Account, CurLast
<1> HIDE DEF A
<1>5. CASE AppendRotate
  <2>1. up' = up /\ segs' = AddSegment(A, seq + 1)
    BY <1>5 DEF AppendRotate, A
  <2>2. seq + 1 + 1 = seq + 2
    BY <1>2 DEF TypeOK
  <2> QED
    BY <1>3, <1>4, <2>1, <2>2, SMTT(30), Zenon DEF AddSegment, FreshSegment
<1>6. CASE ~AppendRotate
  <2>1. up' = up /\ (segs' = segs \/ segs' = A)
    BY <1>6 DEF Appends, AppendStay, AppendWriteFails, AppendRotateFails, A
  <2> QED
    BY <1>3, <1>4, <2>1, SMTT(30), Zenon
<1> QED
  BY <1>5, <1>6, SMTT(30), Zenon

LEMMA WindowStep ==
  ASSUME WindowInv, NoFragments, NoOrphans, [Next]_vars, GC => LeavesOne
  PROVE  WindowInv'
<1>1. SeqInv'
  BY SeqStep, SMTT(30), Zenon DEF WindowInv
<1>2. SeqInv /\ IInv /\ TypeOK /\ seq \in Nat
  BY DEF WindowInv, SeqInv, IInv, TypeOK
<1>3. CASE Appends \/ CrashInAppend
  <2>1. /\ up /\ cur \in dir /\ cur \in DOMAIN segs /\ dir \subseteq dir'
        /\ \A f \in dir : /\ Record(f) \subseteq Record(f)'
                          /\ Record(f)' \subseteq Record(f) \cup {seq + 1}
                          /\ f # cur => Record(f)' = Record(f)
        /\ \A f \in dir' \ dir : Record(f)' = {}
        /\ \/ acked' = acked
           \/ /\ acked' = acked \cup {seq + 1}
              /\ \A f \in dir : f = cur => seq + 1 \in Record(f)'
    BY <1>2, <1>3, AppendRecords, SMTT(30), Zenon
  <2>2. WindowListed /\ AllListed /\ DOMAIN segs \subseteq dir
    BY <1>2, <2>1, SMTT(30), Zenon DEF WindowInv, IInv, MemoryInv, CurLast
  <2>3. \A s \in acked : s \in Nat /\ s <= seq
    BY <1>2, <2>1, BelowSeq, SMTT(30), Zenon
  <2>4. CASE Appends
    <3>1. /\ up' = up /\ DOMAIN segs \subseteq DOMAIN segs'
          /\ \A f \in DOMAIN segs : segs'[f].start = segs[f].start
          /\ \A f \in DOMAIN segs' \ DOMAIN segs : segs'[f].start = seq + 2
      BY <1>2, <2>4, AppendSegs
    <3>2. ASSUME NEW s \in acked', NEW o \in DOMAIN segs', segs'[o].start <= s
          PROVE  \E f \in DOMAIN segs' : s \in Record(f)'
      <4>1. CASE s \in acked
        <5>1. o \in DOMAIN segs
          BY <1>2, <2>3, <3>1, <3>2, <4>1, SMTT(30), Zenon
        <5>2. segs[o].start <= s
          BY <3>1, <3>2, <5>1, SMTT(30), Zenon
        <5>3. PICK f \in DOMAIN segs : s \in Record(f)
          BY <2>2, <4>1, <5>1, <5>2, SMTT(30), Zenon DEF WindowListed
        <5>4. s \in Record(f)' /\ f \in DOMAIN segs'
          BY <2>1, <2>2, <3>1, <5>3, SMTT(30), Zenon
        <5> QED
          BY <5>4, Zenon
      <4>2. CASE s \notin acked
        <5>1. PICK f \in DOMAIN segs : f = cur
          BY <2>1, SMTT(30), Zenon
        <5>2. s \in Record(f)' /\ f \in DOMAIN segs'
          BY <2>1, <3>1, <3>2, <4>2, <5>1, SMTT(30), Zenon
        <5> QED
          BY <5>2, SMTT(30), Zenon
      <4> QED
        BY <4>1, <4>2, SMTT(30), Zenon
    <3>3. ASSUME NEW f \in dir', Record(f)' # {}
          PROVE  f \in DOMAIN segs'
      BY <2>1, <2>2, <3>1, <3>3, SMTT(30), Zenon DEF AllListed
    <3>4. WindowListed' /\ AllListed'
      BY <3>2, <3>3 DEF WindowListed, AllListed
    <3> QED
      BY <1>1, <2>1, <3>1, <3>4, ZenonT(30) DEF WindowInv
  <2>5. CASE CrashInAppend
    <3>1. ~up' /\ dir' = dir /\ acked' = acked
      BY <2>5 DEF CrashInAppend, Forget
    <3>2. ASSUME NEW s \in acked, NEW f \in dir, NEW d \in Record(f)', d <= s
          PROVE  \E g \in dir : s \in Record(g)'
      <4>1. d \in Record(f)
        BY <1>2, <2>1, <2>3, <3>2, SMTT(30), Zenon
      <4>2. PICK g \in dir : s \in Record(g)
        BY <2>1, <3>2, <4>1, ListedOnDisk, SMTT(30), Zenon
      <4>3. s \in Record(g)'
        BY <2>1, <4>2
      <4> QED
        BY <4>3, SMTT(30), Zenon
    <3>3. WindowOnDisk'
      BY <3>1, <3>2, SMTT(30), Zenon DEF WindowOnDisk
    <3> QED
      BY <1>1, <3>1, <3>3, SMTT(30), Zenon DEF WindowInv
  <2> QED
    BY <1>3, <2>4, <2>5, SMTT(30), Zenon
<1>4. CASE GC
  <2>1. /\ up /\ up' = up /\ acked' = acked /\ files' = files
        /\ DOMAIN segs' \subseteq DOMAIN segs
        /\ \A f \in DOMAIN segs' : segs'[f] = segs[f]
        /\ dir' = dir \ (DOMAIN segs \ DOMAIN segs')
        /\ \A f \in DOMAIN segs \ DOMAIN segs', k \in DOMAIN segs' :
             \A d \in Record(f) : d \in Nat /\ d < segs[k].start
    BY <1>2, <1>4, TrimsPrefix, ZenonT(30) DEF GC
  <2>2. WindowListed /\ AllListed
    BY <2>1 DEF WindowInv
  <2>3. ASSUME NEW s \in acked, NEW o \in DOMAIN segs', segs[o].start <= s
        PROVE  \E f \in DOMAIN segs' : s \in Record(f)
    <3>1. o \in DOMAIN segs /\ segs[o].start \in Nat
      BY <1>2, <2>1, Types, ZenonT(30)
    <3>2. PICK f \in DOMAIN segs : s \in Record(f)
      BY <2>2, <2>3, <3>1, ZenonT(30) DEF WindowListed
    <3>3. CASE f \in DOMAIN segs'
      BY <3>2, <3>3, ZenonT(30)
    <3>4. CASE f \notin DOMAIN segs'
      <4>1. s \in Nat /\ s < segs[o].start
        BY <2>1, <3>2, <3>4, SMTT(30), Zenon
      <4> QED
        BY <2>3, <3>1, <4>1, SMTT(30), Zenon
    <3> QED
      BY <3>3, <3>4
  <2>4. WindowListed'
    BY <2>1, <2>3, SMTT(30), Zenon DEF WindowListed, Record
  <2>5. AllListed'
    BY <2>1, <2>2, SMTT(30), Zenon DEF AllListed, Record
  <2> QED
    BY <1>1, <2>1, <2>4, <2>5, Zenon DEF WindowInv
<1>5. CASE Open
  <2>1. /\ dir \subseteq dir' /\ acked' = acked /\ up' /\ ~up
        /\ \A f \in dir : Record(f)' = Record(f)
        /\ \A f \in dir' \ dir : Record(f)' = {}
        /\ \A f \in dir : Record(f) # {} => f \in DOMAIN segs'
        /\ \A o \in DOMAIN segs' :
             \/ segs'[o].start > seq'
             \/ o \in dir /\ segs'[o].start \in Record(o)
    BY <1>2, <1>5, OpenRecords, SMTT(30), Zenon
  <2>2. WindowOnDisk
    BY <2>1 DEF WindowInv
  <2>3. /\ \A s \in acked : s \in Nat /\ s <= seq'
        /\ seq' \in Nat /\ \A o \in DOMAIN segs' : segs'[o].start \in Nat
    <3>1. TypeOK'
      BY <1>1, SMTT(30), Zenon DEF SeqInv, IInv
    <3>2. seq' \in Nat /\ \A o \in DOMAIN segs' : segs'[o].start \in Nat
      BY <3>1, TypesNext, SMTT(30), Zenon
    <3>3. ASSUME NEW s \in acked
          PROVE  s \in Nat /\ s <= seq'
      <4>1. s \in Nat
        BY <1>2, SMTT(30), Zenon DEF TypeOK
      <4>2. PICK f \in dir' : \E d \in Record(f)' : s <= d
        BY <1>1, <2>1 DEF SeqInv, Latest
      <4>3. PICK d \in Record(f)' : s <= d
        BY <4>2, SMTT(30), Zenon
      <4>4. FilesBelowSeq' /\ f \in DOMAIN files'
        BY <1>1, <2>1, <3>1, SMTT(30), Zenon DEF SeqInv, IInv, MemoryInv, TypeOK
      <4>5. PICK i \in DOMAIN files'[f].good : d = files'[f].good[i]
        BY <4>3, SMTT(30), Zenon DEF Record, Elems
      <4>6. d \in Nat /\ d <= seq'
        BY <3>1, <4>4, <4>5, TypesNext, Zenon DEF FilesBelowSeq
      <4> QED
        BY <3>2, <4>1, <4>3, <4>6, SMTT(30), Zenon
    <3> QED
      BY <3>2, <3>3
  <2>4. ASSUME NEW s \in acked, NEW o \in DOMAIN segs', segs'[o].start <= s
        PROVE  \E f \in DOMAIN segs' : s \in Record(f)'
    <3>1. o \in dir /\ segs'[o].start \in Record(o)
      BY <2>1, <2>3, <2>4, SMTT(30), Zenon
    <3>2. PICK f \in dir : s \in Record(f)
      BY <2>2, <2>4, <3>1, SMTT(30), Zenon DEF WindowOnDisk
    <3>3. f \in DOMAIN segs' /\ s \in Record(f)'
      BY <2>1, <3>2, SMTT(30), Zenon
    <3> QED
      BY <3>3, SMTT(30), Zenon
  <2>5. WindowListed' /\ AllListed'
    BY <2>1, <2>4 DEF WindowListed, AllListed
  <2> QED
    BY <1>1, <2>1, <2>5, SMTT(30), Zenon DEF WindowInv
<1>6. CASE Close
  <2>1. up /\ ~up' /\ files' = files /\ dir' = dir /\ acked' = acked
    BY <1>6 DEF Close, Forget
  <2>2. WindowOnDisk
    BY <2>1, ListedOnDisk, SMTT(30), Zenon DEF WindowOnDisk
  <2>3. WindowOnDisk'
    BY <2>1, <2>2, SMTT(30), Zenon DEF WindowOnDisk, Record
  <2> QED
    BY <1>1, <2>1, <2>3 DEF WindowInv
<1>7. CASE Tick \/ (\E r \in Readers : Read(r)) \/ UNCHANGED vars
  <2>1. up' = up /\ files' = files /\ dir' = dir /\ acked' = acked /\ segs' = segs
    BY <1>7, Zenon DEF Tick, Read, ReadFrom, ReadNextSegment, ReadRecord, ReadEnd, ReadAbort,
                ReadReturn, vars, memory, disk
  <2> QED
    BY <1>1, <2>1 DEF WindowInv, WindowListed, AllListed, WindowOnDisk, Record
<1> QED
  BY <1>3, <1>4, <1>5, <1>6, <1>7 DEF Next, Appends

(* Every acknowledged seq at or above the start of the oldest retained     *)
(* segment can be read back, across restarts and crashes, for as long as   *)
(* no failed write leaves a fragment, no removal fails and no trim takes   *)
(* the last record on disk.  A segment whose removal failed is listed      *)
(* again by the next Open, below the ones trimmed with it.                 *)
THEOREM WindowKept ==
  ASSUME NoFragments, NoOrphans
  PROVE  Spec /\ TrimsLeaveOne => []WindowComplete
<1>1. WindowInv /\ [Next]_vars /\ [GC => LeavesOne]_vars => WindowInv'
  <2> SUFFICES ASSUME WindowInv, [Next]_vars, [GC => LeavesOne]_vars
               PROVE  WindowInv'
    OBVIOUS
  <2>1. GC => LeavesOne
    <3> SUFFICES ASSUME UNCHANGED vars
                 PROVE  LeavesOne
      BY SMTT(30), Zenon
    <3>1. segs' = segs
      BY SMTT(30), Zenon DEF vars, memory
    <3> QED
      BY <3>1 DEF LeavesOne
  <2> QED
    BY <2>1, WindowStep
<1>2. WindowInv => WindowComplete
  <2> SUFFICES ASSUME WindowInv, up
               PROVE  WindowComplete
    BY SMTT(30), Zenon DEF WindowComplete
  <2>1. WindowListed /\ DOMAIN segs \cap dir = DOMAIN segs
    BY DEF WindowInv, SeqInv, IInv, MemoryInv, CurLast
  <2> QED
    BY <2>1, SMTT(30), Zenon DEF WindowComplete, WindowListed, Record
<1> QED
  BY <1>1, <1>2, WindowInit, PTL DEF Spec, TrimsLeaveOne
=============================================================================
