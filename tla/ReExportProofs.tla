--------------------------- MODULE ReExportProofs ---------------------------
(***************************************************************************)
(* Theorems about the re-export path, for any number of clients, requests, *)
(* buffers, segment sizes, fault sets and restarts.                        *)
(***************************************************************************)
EXTENDS ReExportInv, EnvWalProofs

-----------------------------------------------------------------------------
(* The filter.                                                             *)

(* A list of the filter, against the names an envelope carries for it.     *)
Admits(req, env, list) ==
  \/ req.filter[list] = {} \/ Carried(env, list) = {}
  \/ Carried(env, list) \cap req.filter[list] # {}

LEMMA AskedLists ==
  ASSUME NEW req, NEW env
  PROVE  Asked(req, env) <=>
           /\ req.stream # Unset => env.type = req.stream /\ req.stream \in Streams
           /\ Admits(req, env, "kinds") /\ Admits(req, env, "namespaces")
           /\ Admits(req, env, "pods")
           /\ env.severity # NoSeverity => env.severity >= req.filter.min
BY Zenon DEF Asked, Admits

LEMMA MetaAdmits ==
  ASSUME NEW req, NEW env, Envelope(env), Request(req)
  PROVE  MetaPasses(env, req.filter) <=>
           Admits(req, env, "namespaces") /\ Admits(req, env, "pods")
<1>1. Carried(env, "namespaces") = {env.ns} \ {Unset} /\ Carried(env, "pods") = {env.pod} \ {Unset}
  BY DEF Carried, Names
<1>2. (env.ns = Unset) <=> (env.pod = Unset)
  BY DEF Envelope
<1>3. Unset \notin req.filter.namespaces /\ Unset \notin req.filter.pods
  BY DEF Request
<1>4. req.filter["namespaces"] = req.filter.namespaces /\ req.filter["pods"] = req.filter.pods
  OBVIOUS
<1>5. CASE env.ns = Unset
  BY <1>1, <1>2, <1>5 DEF MetaPasses, HasMeta, Admits
<1>6. CASE env.ns # Unset
  BY <1>1, <1>2, <1>4, <1>6 DEF MetaPasses, HasMeta, Admits, Allows
<1> QED
  BY <1>5, <1>6

(* streamMatches and envelopePassesFilter select exactly what the request  *)
(* asks for: every constraint that is set and that the payload carries a   *)
(* name for holds.                                                         *)
THEOREM FilterMeans ==
  ASSUME NEW req, NEW env, Envelope(env), Request(req)
  PROVE  Selects(req, env) <=> Asked(req, env)
<1>1. StreamMatches(req.stream, env)
        <=> (req.stream # Unset => env.type = req.stream /\ req.stream \in Streams)
  BY DEF StreamMatches
<1>2. MetaPasses(env, req.filter) <=>
        Admits(req, env, "namespaces") /\ Admits(req, env, "pods")
  BY MetaAdmits
<1>3. /\ Unset \notin req.filter.kinds /\ req.filter.min \in Nat
      /\ req.filter["kinds"] = req.filter.kinds
  BY DEF Request
<1>4. Carried(env, "kinds") = {env.kind, env.category} \ {Unset}
  BY DEF Carried, Names
<1>5. CASE env.type = "intent"
  <2>1. env.kind # Unset /\ env.category = Unset /\ env.severity \in Nat
    BY <1>5 DEF Envelope
  <2>2. Allows(req.filter.kinds, env.kind) <=> Admits(req, env, "kinds")
    BY <1>3, <1>4, <2>1 DEF Allows, Admits
  <2>3. SeverityPasses(env, req.filter)
          <=> (env.severity # NoSeverity => env.severity >= req.filter.min)
    BY <1>3, <2>1 DEF SeverityPasses, NoSeverity
  <2>4. EnvelopePassesFilter(env, req.filter) <=>
          /\ Allows(req.filter.kinds, env.kind)
          /\ MetaPasses(env, req.filter) /\ SeverityPasses(env, req.filter)
    BY <1>5 DEF EnvelopePassesFilter
  <2> QED
    BY <1>1, <1>2, <2>2, <2>3, <2>4, AskedLists, Zenon DEF Selects
<1>6. CASE env.type = "deviation"
  <2>1. env.kind # Unset /\ env.category = Unset /\ env.severity = NoSeverity
    BY <1>6 DEF Envelope
  <2>2. Allows(req.filter.kinds, env.kind) <=> Admits(req, env, "kinds")
    BY <1>3, <1>4, <2>1 DEF Allows, Admits
  <2>3. EnvelopePassesFilter(env, req.filter) <=>
          Allows(req.filter.kinds, env.kind) /\ MetaPasses(env, req.filter)
    BY <1>6 DEF EnvelopePassesFilter
  <2> QED
    BY <1>1, <1>2, <2>1, <2>2, <2>3, AskedLists, Zenon DEF Selects
<1>7. CASE env.type = "raw_syscall"
  <2>1. env.kind # Unset /\ env.category # Unset /\ env.severity \in Nat
    BY <1>7 DEF Envelope
  <2>2. Allows(req.filter.kinds, env.kind) \/ env.category \in req.filter.kinds
          <=> Admits(req, env, "kinds")
    BY <1>3, <1>4, <2>1 DEF Allows, Admits
  <2>3. SeverityPasses(env, req.filter)
          <=> (env.severity # NoSeverity => env.severity >= req.filter.min)
    BY <1>3, <2>1 DEF SeverityPasses, NoSeverity
  <2>4. EnvelopePassesFilter(env, req.filter) <=>
          /\ Allows(req.filter.kinds, env.kind) \/ env.category \in req.filter.kinds
          /\ MetaPasses(env, req.filter) /\ SeverityPasses(env, req.filter)
    BY <1>7 DEF EnvelopePassesFilter
  <2> QED
    BY <1>1, <1>2, <2>2, <2>3, <2>4, AskedLists, Zenon DEF Selects
<1>8. CASE env.type \notin {"intent", "deviation", "raw_syscall"}
  <2>1. /\ env.kind = Unset /\ env.category = Unset /\ env.severity = NoSeverity
        /\ env.ns = Unset
    BY <1>8 DEF Envelope
  <2>2. Admits(req, env, "kinds")
    BY <1>4, <2>1 DEF Admits
  <2>3. MetaPasses(env, req.filter)
    BY <2>1 DEF MetaPasses, HasMeta
  <2>4. EnvelopePassesFilter(env, req.filter)
    BY <1>8 DEF EnvelopePassesFilter
  <2> QED
    BY <1>1, <1>2, <2>1, <2>2, <2>3, <2>4, AskedLists, Zenon DEF Selects
<1> QED
  BY <1>5, <1>6, <1>7, <1>8

-----------------------------------------------------------------------------
(* The WAL.                                                                *)

LEMMA WroteNamed ==
  ASSUME TypeOK, TypeOK', up, MemoryInv, FilesNamed, Wrote, cur \in DOMAIN files
  PROVE  FilesNamed'
<1>1. FilesBelowSeq /\ CurLast
  BY DEF MemoryInv
<1> SUFFICES ASSUME NEW f \in DOMAIN files', NEW g \in DOMAIN files', f # g,
                    NEW i \in DOMAIN files'[g].good, NEW k \in DOMAIN files'[f].good,
                    files'[g].good[i] < files'[f].good[k]
             PROVE  files'[g].good[i] < f
  BY DEF FilesNamed
<1>2. f \in DOMAIN files /\ g \in DOMAIN files
  BY DEF Wrote
<1>3. /\ seq \in Nat /\ cur \in Nat /\ f \in Nat /\ g \in Nat
      /\ \A h \in DOMAIN files : \A n \in DOMAIN files[h].good :
           files[h].good[n] \in Nat /\ files[h].good[n] <= seq
      /\ \A h \in DOMAIN files : h # cur => \A n \in DOMAIN files[h].good : files[h].good[n] < cur
  BY <1>1, <1>2, Types, Zenon DEF FilesBelowSeq
<1>4. ASSUME NEW h \in DOMAIN files, NEW n \in DOMAIN files'[h].good
      PROVE  \/ n \in DOMAIN files[h].good /\ files'[h].good[n] = files[h].good[n]
             \/ h = cur /\ files'[h].good[n] = seq + 1
  BY Zenon DEF Wrote
<1>5. CASE k \in DOMAIN files[f].good /\ files'[f].good[k] = files[f].good[k]
  <2>1. files'[g].good[i] # seq + 1
    BY <1>2, <1>3, <1>5
  <2>2. i \in DOMAIN files[g].good /\ files'[g].good[i] = files[g].good[i]
    BY <1>2, <1>4, <2>1
  <2> QED
    BY <1>2, <1>5, <2>2, Zenon DEF FilesNamed
<1>6. CASE f = cur /\ files'[f].good[k] = seq + 1
  <2>1. g # cur
    BY <1>6
  <2>2. i \in DOMAIN files[g].good /\ files'[g].good[i] = files[g].good[i]
    BY <1>2, <1>4, <2>1
  <2> QED
    BY <1>2, <1>3, <1>6, <2>1, <2>2
<1> QED
  BY <1>2, <1>4, <1>5, <1>6

(* A held record at or above the current file's name is in that file, or   *)
(* behind its fragment.                                                    *)
LEMMA HeldInCur ==
  ASSUME TypeOK, up, MemoryInv, NEW s \in held, cur <= s
  PROVE  Has(cur, s)
<1>1. CurLast /\ HeldListed
  BY DEF MemoryInv
<1>2. cur \in DOMAIN segs /\ segs[cur].start <= s
  BY <1>1 DEF CurLast
<1>3. PICK f \in DOMAIN segs : s <= segs[f].end /\ Has(f, s)
  BY <1>1, <1>2, Zenon DEF HeldListed
<1>4. f # cur => segs[f].end < cur
  BY <1>1 DEF CurLast
<1>5. segs[f].end \in Nat /\ cur \in Nat /\ s \in Nat
  BY Types, Zenon
<1> QED
  BY <1>3, <1>4, <1>5

LEMMA WroteGapless ==
  ASSUME TypeOK, TypeOK', up, MemoryInv, Gapless, Wrote, cur \in DOMAIN files,
         \A f \in DOMAIN files : files[f].torn => files'[f].good = files[f].good,
         \A s \in held' : s \in held \/ s = seq + 1
  PROVE  Gapless'
<1> SUFFICES ASSUME NEW s \in held', NEW f \in DOMAIN files',
                    NEW k \in DOMAIN files'[f].good, f <= s, s <= files'[f].good[k]
             PROVE  \E n \in DOMAIN files'[f].good : files'[f].good[n] = s
  BY DEF Gapless, Elems
<1>1. f \in DOMAIN files
  BY DEF Wrote
<1>2. /\ seq \in Nat /\ cur \in Nat /\ f \in Nat /\ s \in Nat
      /\ \A n \in DOMAIN files[f].good : files[f].good[n] \in Nat /\ files[f].good[n] <= seq
  BY <1>1, Types, TypesNext, Zenon DEF MemoryInv, FilesBelowSeq
<1>3. \A n \in DOMAIN files[f].good :
        n \in DOMAIN files'[f].good /\ files'[f].good[n] = files[f].good[n]
  BY <1>1, Zenon DEF Wrote
<1>4. \/ k \in DOMAIN files[f].good /\ files'[f].good[k] = files[f].good[k]
      \/ f = cur /\ files'[f].good[k] = seq + 1
  BY <1>1, Zenon DEF Wrote
<1>5. CASE k \in DOMAIN files[f].good /\ files'[f].good[k] = files[f].good[k]
  <2>1. s \in held
    BY <1>2, <1>5
  <2>2. s \in Elems(files[f].good)
    BY <1>1, <1>5, <2>1, Zenon DEF Gapless
  <2> QED
    BY <1>3, <2>2, Zenon DEF Elems
<1>6. CASE f = cur /\ files'[f].good[k] = seq + 1 /\ k \notin DOMAIN files[f].good
  <2>1. CASE s = seq + 1
    BY <1>6, <2>1
  <2>2. CASE s # seq + 1
    <3>1. s \in held /\ Has(cur, s)
      BY <1>6, <2>2, HeldInCur
    <3>2. ~files[cur].torn
      BY <1>1, <1>6
    <3>3. PICK n \in DOMAIN files[cur].good : files[cur].good[n] = s
      BY <3>1, <3>2 DEF Has, Elems
    <3> QED
      BY <1>3, <1>6, <3>3
  <2> QED
    BY <2>1, <2>2
<1> QED
  BY <1>3, <1>4, <1>5, <1>6

(* What an append does, whatever its outcome.                              *)
LEMMA AppendEffect ==
  ASSUME WalInv, Appends
  PROVE  /\ up /\ up' /\ rd' = rd /\ seq < MaxSeq /\ seq' = seq + 1
         /\ Wrote /\ cur \in DOMAIN files
         /\ \A f \in DOMAIN files : files[f].torn => files'[f].good = files[f].good
         /\ \A s \in held' : s \in held \/ s = seq + 1
         /\ held \subseteq held'
<1>1. TypeOK /\ MemoryInv
  BY DEF WalInv, IInv
<1>2. up /\ up' = up /\ rd' = rd /\ seq < MaxSeq /\ seq' = seq + 1
  BY Zenon DEF Appends, AppendStay, AppendRotate, AppendWriteFails, AppendRotateFails, CanAppend
<1>3. cur \in DOMAIN files /\ seq + 1 \in Nat
  BY <1>1, <1>2, Types DEF MemoryInv, CurLast, TypeOK
<1>4. held' = held \/ held' = held \cup {seq + 1}
  BY Zenon DEF Appends, AppendStay, AppendRotate, AppendWriteFails, AppendRotateFails, Acknowledge
<1>5. \/ files' = files
      \/ files' = WriteRecord(cur, seq + 1)
      \/ files' = WriteFragment(cur)
      \/ files' = Touch(WriteRecord(cur, seq + 1), seq + 2)
  BY Zenon DEF Appends, AppendStay, AppendRotate, AppendWriteFails, AppendRotateFails
<1>6. Wrote
  BY <1>1, <1>3, <1>5, WriteIsWrote, WriteAndRotate, Zenon
<1>7. ASSUME NEW f \in DOMAIN files, files[f].torn
      PROVE  files'[f].good = files[f].good
  <2>1. WriteRecord(cur, seq + 1)[f].good = files[f].good
    BY <1>7 DEF WriteRecord
  <2>2. WriteFragment(cur)[f].good = files[f].good
    BY DEF WriteFragment
  <2>3. f \in DOMAIN WriteRecord(cur, seq + 1)
    BY <1>1, <1>3, WriteTyped, Zenon
  <2>4. Touch(WriteRecord(cur, seq + 1), seq + 2)[f] = WriteRecord(cur, seq + 1)[f]
    BY <2>3, Zenon DEF Touch
  <2> QED
    BY <1>5, <2>1, <2>2, <2>4, Zenon
<1> QED
  BY <1>2, <1>3, <1>4, <1>6, <1>7

LEMMA AppendWal ==
  ASSUME WalInv, Appends
  PROVE  WalInv'
<1>1. /\ up /\ up' /\ seq < MaxSeq /\ seq' = seq + 1 /\ Wrote /\ cur \in DOMAIN files
      /\ \A f \in DOMAIN files : files[f].torn => files'[f].good = files[f].good
      /\ \A s \in held' : s \in held \/ s = seq + 1
  BY AppendEffect
<1>2. /\ IInv /\ TypeOK /\ MemoryInv /\ FilesNamed /\ Gapless /\ 0 \notin held
  BY DEF WalInv, IInv
<1>3. IInv' /\ TypeOK'
  BY <1>2, AppendStep DEF IInv
<1>4. FilesNamed'
  BY <1>1, <1>2, <1>3, WroteNamed, Zenon
<1>5. Gapless'
  BY <1>1, <1>2, <1>3, WroteGapless, Zenon
<1>6. seq \in Nat
  BY <1>2, Types
<1>7. 0 \notin held' /\ seq' <= MaxSeq
  BY <1>1, <1>2, <1>6, WalConstants
<1> QED
  BY <1>3, <1>4, <1>5, <1>7 DEF WalInv

LEMMA ForgetWal ==
  ASSUME WalInv, Close \/ CrashInAppend
  PROVE  WalInv' /\ ~up' /\ rd' = [r \in Readers |-> Idle]
<1>1. /\ IInv /\ TypeOK /\ MemoryInv /\ FilesNamed
  BY DEF WalInv, IInv
<1>2. IInv' /\ TypeOK'
  BY <1>1, ForgetStep DEF IInv
<1>3. /\ up /\ ~up' /\ held' = {} /\ seq' = 0 /\ rd' = [r \in Readers |-> Idle]
      /\ \/ files' = files
         \/ files' = WriteRecord(cur, seq + 1)
         \/ files' = WriteFragment(cur)
  BY DEF Close, CrashInAppend, CanAppend, Forget
<1>4. cur \in DOMAIN files
  BY <1>1, <1>3, Zenon DEF MemoryInv, CurLast, TypeOK
<1>5. Wrote
  BY <1>1, <1>3, <1>4, WriteIsWrote, Zenon
<1>6. FilesNamed'
  BY <1>1, <1>2, <1>3, <1>4, <1>5, WroteNamed, Zenon
<1>7. Gapless' /\ 0 \notin held' /\ seq' <= MaxSeq
  BY <1>3, WalConstants DEF Gapless
<1> QED
  BY <1>2, <1>3, <1>6, <1>7 DEF WalInv

LEMMA OpenWal ==
  ASSUME WalInv, Open
  PROVE  WalInv' /\ up' /\ rd' = rd
<1>1. /\ IInv /\ TypeOK /\ FilesOrdered /\ FilesApart /\ FilesNamed
  BY DEF WalInv, IInv
<1>2. IInv' /\ TypeOK'
  BY <1>1, OpenStep DEF IInv
<1>3. PICK s \in 0..MaxSeq : seq' = s /\ files' = Touch([f \in dir |-> files[f]], s + 1)
  BY DEF Open
<1>4. up' /\ rd' = rd /\ held' = UNION {Elems(files[f].good) : f \in dir}
  BY DEF Open
<1>5. /\ dir \subseteq DOMAIN files /\ DOMAIN files' = dir \cup {s + 1}
      /\ \A f \in dir : files'[f] = files[f]
      /\ s + 1 \notin dir => files'[s + 1].good = <<>>
  BY <1>1, <1>3 DEF Touch, EmptyFile, TypeOK
<1>6. \A f \in DOMAIN files' : \A i \in DOMAIN files'[f].good :
        f \in dir /\ f \in DOMAIN files /\ files'[f] = files[f]
  BY <1>5
<1>7. FilesNamed'
  BY <1>1, <1>6, Zenon DEF FilesNamed
<1>8. \A f \in DOMAIN files : \A i \in DOMAIN files[f].good :
        f \in Nat /\ f >= 1 /\ files[f].good[i] \in Nat /\ files[f].good[i] >= f
  BY <1>1, Types, Zenon DEF FilesOrdered
<1>9. Gapless'
  <2> SUFFICES ASSUME NEW n \in held', NEW f \in DOMAIN files',
                      NEW k \in DOMAIN files'[f].good, f <= n, n <= files'[f].good[k]
               PROVE  n \in Elems(files'[f].good)
    BY DEF Gapless
  <2>1. f \in dir /\ f \in DOMAIN files /\ files'[f] = files[f]
    BY <1>6
  <2>2. PICK g \in dir : n \in Elems(files[g].good)
    BY <1>4
  <2>3. PICK i \in DOMAIN files[g].good : n = files[g].good[i]
    BY <2>2 DEF Elems
  <2>4. CASE f = g
    BY <2>1, <2>2, <2>4
  <2>5. CASE f # g
    <3>1. g \in DOMAIN files /\ k \in DOMAIN files[f].good
      BY <1>5, <2>1
    <3>2. n \in Nat /\ f \in Nat /\ files[f].good[k] \in Nat
      BY <1>8, <2>1, <2>3, <3>1
    <3>3. files[g].good[i] # files[f].good[k]
      BY <1>1, <1>8, <2>1, <2>3, <2>5, <3>1, <3>2, SMTT(30), Zenon DEF FilesApart
    <3>4. files[g].good[i] < f
      BY <1>1, <2>1, <2>3, <2>5, <3>1, <3>2, <3>3, SMTT(30), Zenon DEF FilesNamed
    <3> QED
      BY <2>3, <3>2, <3>4
  <2> QED
    BY <2>4, <2>5
<1>10. 0 \notin held' /\ seq' <= MaxSeq
  BY <1>3, <1>4, <1>5, <1>8, WalConstants DEF Elems
<1> QED
  BY <1>2, <1>4, <1>7, <1>9, <1>10 DEF WalInv

(* The other steps leave the records alone.                                *)
LEMMA SameRecords ==
  ASSUME WalInv, IInv', UNCHANGED <<files, held, seq>>
  PROVE  WalInv'
BY DEF WalInv, FilesNamed, Gapless

(* A call that is over leaves an idle reader.                              *)
LEMMA IdleReader ==
  ASSUME IInv, NEW r \in Readers, ReaderMoves(r, Idle)
  PROVE  IInv'
<1>1. /\ Idle \in Reader(None) /\ Idle.views = None /\ Idle.pc = "idle" /\ Idle.out = <<>>
  BY DEF Idle, Reader
<1>2. ReaderInv(Idle)
  BY <1>1, Zenon DEF ReaderInv
<1>3. /\ DOMAIN Idle.views \subseteq Nat /\ Idle.views \in [DOMAIN Idle.views -> View]
  BY <1>1 DEF None
<1> QED
  BY <1>1, <1>2, <1>3, ReaderStep, Zenon

-----------------------------------------------------------------------------
(* The clients.                                                            *)

LEMMA CallFields ==
  ASSUME NEW s \in Call
  PROVE  /\ s.pc \in {"off", "joined", "replay", "live"} /\ s.drops \in Nat
         /\ s.last \in Nat /\ s.base \in Int
         /\ s.req \in {NoRequest} \cup Requests /\ s.cursor \in {NoCursor} \cup Nat
         /\ s.ch \in Seq(LiveEnvelope) /\ s.sent \in Seq(LiveEnvelope)
BY Zenon DEF Call

(* The last seq a client was sent.                                         *)
LEMMA LastSent ==
  ASSUME NEW s \in Call, SentInv(s), s.sent # <<>>
  PROVE  /\ Len(s.sent) \in DOMAIN s.sent
         /\ s.last = s.sent[Len(s.sent)].seq
<1>1. s.sent \in Seq(LiveEnvelope)
  BY CallFields
<1>2. Len(s.sent) \in DOMAIN s.sent
  BY <1>1
<1>3. s.last = s.sent[Len(s.sent)].seq
  BY DEF SentInv
<1> QED
  BY <1>2, <1>3

LEMMA Envelopes ==
  ASSUME NEW q \in Seq(LiveEnvelope)
  PROVE  /\ Len(q) \in Nat /\ DOMAIN q = 1..Len(q)
         /\ \A i \in DOMAIN q : q[i] \in LiveEnvelope /\ q[i].seq \in Nat /\ q[i].env \in 0..MaxSeq
<1>1. Len(q) \in Nat /\ DOMAIN q = 1..Len(q) /\ \A i \in DOMAIN q : q[i] \in LiveEnvelope
  OBVIOUS
<1>2. \A e \in LiveEnvelope : e.seq \in Nat /\ e.env \in 0..MaxSeq
  BY DEF LiveEnvelope
<1> QED
  BY <1>1, <1>2

LEMMA OffTyped == Off \in Call
<1>1. <<>> \in Seq(LiveEnvelope)
  OBVIOUS
<1> QED
  BY <1>1 DEF Off, Call, NoCursor

(* The part of a client's invariant that speaks of other variables holds   *)
(* as long as they stay.                                                   *)
LEMMA ClientKept ==
  ASSUME NEW c \in Readers, NEW s, NEW x, sub'[c] = s, rd'[c] = x, ClientInv(s, x),
         UNCHANGED <<up, seq, held, files, pend>>
  PROVE  ClientInv(sub[c], rd[c])'
<1>1. ChannelInv(sub[c])'
  BY Zenon DEF ClientInv, ChannelInv, Emitted, Before
<1>2. SentInv(sub[c])'
  BY Zenon DEF ClientInv, SentInv, Emitted
<1>3. Caught(x) => Caught(rd[c])'
  BY Zenon DEF Caught
<1>4. InFlight(sub[c])' = InFlight(s) /\ AskedOf(sub[c])' = AskedOf(s)
  BY DEF InFlight, AskedOf
<1>5. ReplayInv(s, x) => ReplayInv(sub[c], rd[c])'
  BY <1>3, <1>4, Zenon DEF ReplayInv
<1>6. Complete(s) => Complete(sub[c])'
  BY <1>4, Zenon DEF Complete
<1> QED
  BY <1>1, <1>2, <1>5, <1>6, Zenon DEF ClientInv

(* A step of client c, which becomes s with its ReadFrom call at x.        *)
ClientMoves(c, s, x) ==
  /\ sub' = [sub EXCEPT ![c] = s]
  /\ rd' = [rd EXCEPT ![c] = x]
  /\ UNCHANGED <<up, seq, files, held, pend, liveSeq>>

LEMMA ClientStep ==
  ASSUME RInv, NEW c \in Readers, NEW s \in Call, NEW x, ClientMoves(c, s, x),
         Len(s.ch) <= Buffer, ClientInv(s, x), IInv'
  PROVE  RInv'
<1>1. /\ RTypeOK /\ WalInv /\ WriterInv /\ \A d \in Readers : ClientInv(sub[d], rd[d])
  BY DEF RInv
<1>2. /\ sub' = [sub EXCEPT ![c] = s] /\ rd' = [rd EXCEPT ![c] = x]
      /\ UNCHANGED <<up, seq, files, held, pend, liveSeq>>
  BY DEF ClientMoves
<1>3. /\ sub \in [Readers -> Call] /\ rd = [d \in Readers |-> rd[d]]
  BY <1>1 DEF RTypeOK, TypeOK
<1>4. /\ sub' \in [Readers -> Call] /\ sub'[c] = s /\ rd'[c] = x
      /\ \A d \in Readers : d # c => sub'[d] = sub[d] /\ rd'[d] = rd[d]
  BY <1>2, <1>3
<1>5. WalInv'
  BY <1>1, <1>2, SameRecords
<1>6. RTypeOK'
  <2>1. TypeOK'
    BY DEF IInv
  <2>2. \A d \in Readers : Len(sub'[d].ch) <= Buffer
    BY <1>1, <1>4 DEF RTypeOK
  <2> QED
    BY <1>1, <1>2, <1>4, <2>1, <2>2 DEF RTypeOK
<1>7. WriterInv'
  BY <1>1, <1>2, SMTT(30), Zenon DEF WriterInv, Emitted
<1>8. ASSUME NEW d \in Readers
      PROVE  ClientInv(sub[d], rd[d])'
  <2>1. CASE d = c
    BY <1>2, <1>4, <2>1, ClientKept, Zenon
  <2>2. CASE d # c
    BY <1>1, <1>2, <1>4, <2>2, ClientKept, Zenon
  <2> QED
    BY <2>1, <2>2
<1> QED
  BY <1>5, <1>6, <1>7, <1>8 DEF RInv

LEMMA OffClient ==
  ASSUME NEW x, x.pc = "idle"
  PROVE  ClientInv(Off, x)
<1>1. /\ Off.pc = "off" /\ Off.ch = <<>> /\ Off.sent = <<>> /\ Off.last = 0
  BY DEF Off
<1>2. ChannelInv(Off) /\ SentInv(Off)
  BY <1>1 DEF ChannelInv, SentInv
<1> QED
  BY <1>1, <1>2 DEF ClientInv

LEMMA ReturnStep ==
  ASSUME RInv, NEW c \in Readers, Return(c)
  PROVE  RInv'
<1>1. ReaderMoves(c, Idle)
  BY DEF Return, ReaderMoves, memory, disk
<1>2. IInv'
  BY <1>1, IdleReader DEF RInv, WalInv
<1>3. ClientMoves(c, Off, Idle)
  BY DEF Return, ClientMoves, memory, disk
<1>4. Idle.pc = "idle" /\ Off.ch = <<>> /\ Len(Off.ch) <= Buffer
  BY ReExportConstants DEF Idle, Off
<1> QED
  BY <1>2, <1>3, <1>4, OffTyped, OffClient, ClientStep, Zenon

LEMMA SubscribeStep ==
  ASSUME RInv, NEW c \in Readers, NEW req \in Requests,
         NEW cursor \in {NoCursor} \cup 0..MaxSeq, Subscribe(c, req, cursor)
  PROVE  RInv'
<1> DEFINE s == [Off EXCEPT !.pc = IF cursor = NoCursor THEN "live" ELSE "joined",
                            !.cursor = cursor,
                            !.req = req,
                            !.base = IF pend = Live(seq, seq) THEN seq - 1 ELSE seq]
<1>1. /\ up /\ rd[c].pc = "idle" /\ sub' = [sub EXCEPT ![c] = s]
      /\ UNCHANGED <<up, seq, segs, cur, writable, dir, files, now, rd, lives, acked, held>>
      /\ UNCHANGED <<liveSeq, pend>>
  BY SMTT(30), Zenon DEF Subscribe, vars
<1>2. /\ IInv /\ TypeOK /\ rd = [d \in Readers |-> rd[d]] /\ seq \in Nat /\ 0 \notin held
      /\ \A n \in held : n \in Nat
  BY Types DEF RInv, WalInv, IInv, TypeOK
<1>3. \A n \in held : n <= seq
  BY <1>1, <1>2 DEF IInv, MemoryInv, HeldListed
<1>4. IInv'
  BY <1>1, <1>2, StutterStep DEF vars
<1>5. /\ s.pc = (IF cursor = NoCursor THEN "live" ELSE "joined") /\ s.req = req
      /\ s.ch = <<>> /\ s.sent = <<>> /\ s.last = 0 /\ s.drops = 0
      /\ s.base = (IF pend = Live(seq, seq) THEN seq - 1 ELSE seq)
      /\ s.cursor = cursor
  BY DEF Off
<1>6. s \in Call
  <2>1. cursor \in {NoCursor} \cup Nat
    BY WalConstants
  <2>2. s.base \in Int /\ s.pc \in {"off", "joined", "replay", "live"}
    BY <1>2, <1>5
  <2> QED
    BY <1>5, <2>1, <2>2, OffTyped, Zenon DEF Call
<1> HIDE DEF s
<1>7. ClientMoves(c, s, rd[c])
  BY <1>1, <1>2 DEF ClientMoves
<1>8. Complete(s)
  <2> SUFFICES ASSUME NEW n \in held, n > s.base
               PROVE  n > 0 /\ Live(n, n) \in InFlight(s)
    BY <1>5 DEF Complete, AskedOf
  <2>1. n \in Nat /\ n <= seq /\ n # 0
    BY <1>2, <1>3
  <2>2. pend = Live(seq, seq) /\ n = seq
    BY <1>2, <1>5, <2>1
  <2>3. pend # NoEnv
    BY <2>1, <2>2 DEF NoEnv, Live
  <2> QED
    BY <2>1, <2>2, <2>3, SMTT(30), Zenon DEF InFlight
<1>9. ClientInv(s, rd[c])
  <2>1. ChannelInv(s) /\ SentInv(s)
    BY <1>5 DEF ChannelInv, SentInv
  <2>2. s.pc = "joined" => s.cursor \in 0..MaxSeq
    BY <1>5
  <2> QED
    BY <1>1, <1>5, <1>8, <2>1, <2>2, SMTT(30), Zenon DEF ClientInv
<1>10. Len(s.ch) <= Buffer
  BY <1>5, ReExportConstants
<1> QED
  BY <1>4, <1>6, <1>7, <1>9, <1>10, ClientStep, Zenon

LEMMA ReplayStartStep ==
  ASSUME RInv, NEW c \in Readers, ReplayStart(c)
  PROVE  RInv'
<1> DEFINE s == [sub[c] EXCEPT !.pc = "replay", !.base = rd'[c].lo]
<1>1. /\ IInv /\ TypeOK /\ sub[c] \in Call /\ Len(sub[c].ch) <= Buffer
      /\ ClientInv(sub[c], rd[c]) /\ sub \in [Readers -> Call]
      /\ rd = [d \in Readers |-> rd[d]]
  BY DEF RInv, RTypeOK, WalInv, TypeOK
<1>2. /\ sub[c].pc = "joined" /\ ReadFrom(c, sub[c].cursor) /\ UNCHANGED <<liveSeq, pend>>
      /\ sub' = [sub EXCEPT ![c].pc = "replay", ![c].base = rd'[c].lo]
  BY DEF ReplayStart
<1>3. sub[c].cursor \in 0..MaxSeq /\ sub[c].sent = <<>>
  BY <1>1, <1>2 DEF ClientInv
<1>4. IInv'
  BY <1>1, <1>2, <1>3, ReadFromStep
<1>5. /\ up /\ rd' = [rd EXCEPT ![c] = rd'[c]]
      /\ UNCHANGED <<up, seq, files, held>>
  BY <1>1, <1>2 DEF ReadFrom, memory, disk
<1>6. rd'[c].lo \in Int
  BY <1>4 DEF IInv, TypeOK, Reader
<1>7. s \in Call /\ sub' = [sub EXCEPT ![c] = s]
  BY <1>1, <1>2, <1>6, Zenon DEF Call
<1>8. /\ s.pc = "replay" /\ s.base = rd'[c].lo /\ s.ch = sub[c].ch /\ s.sent = <<>>
      /\ s.last = sub[c].last /\ s.req = sub[c].req /\ s.drops = sub[c].drops
  BY <1>1, <1>3 DEF Call
<1> HIDE DEF s
<1>9. ClientMoves(c, s, rd'[c])
  BY <1>2, <1>5, <1>7, Zenon DEF ClientMoves
<1>10. ChannelInv(s) /\ SentInv(s) /\ s.req \in Requests
  BY <1>1, <1>2, <1>3, <1>8, Zenon DEF ClientInv, ChannelInv, SentInv
<1>11. ASSUME rd'[c].pc \in {"scan", "read", "ok"}
       PROVE  ReplayInv(s, rd'[c])
  <2>1. /\ rd'[c].pc = "scan" /\ rd'[c].hi = seq /\ rd'[c].out = <<>>
        /\ DOMAIN rd'[c].views = DOMAIN segs
        /\ \A f \in DOMAIN segs : rd'[c].views[f].end = segs[f].end
    BY <1>1, <1>2, <1>11 DEF ReadFrom, Failed, Idle
  <2>2. CurLast /\ HeldListed
    BY <1>1, <1>5 DEF IInv, MemoryInv
  <2>3. \A f \in DOMAIN segs : f <= seq + 1 /\ segs[f].end <= seq
    BY <1>1, <2>2, Types DEF CurLast
  <2>4. \A n \in held : ~(seq < n)
    BY <1>1, <2>2, Types, SMTT(30), Zenon DEF HeldListed
  <2>5. Caught(rd'[c])
    BY <2>1, <2>3, <2>4 DEF Caught
  <2> QED
    BY <1>8, <2>1, <2>4, <2>5 DEF ReplayInv, Elems
<1>12. ClientInv(s, rd'[c])
  BY <1>5, <1>8, <1>10, <1>11, Zenon DEF ClientInv
<1> QED
  BY <1>1, <1>4, <1>7, <1>8, <1>9, <1>12, ClientStep, Zenon

(* A replay that failed, or that looks for its next record.                *)
LEMMA ReplayGoesOn ==
  ASSUME RInv, NEW c \in Readers, NEW x, sub[c].pc = "replay",
         rd[c].pc \in {"scan", "read"},
         \/ x.pc \in {"expired", "err"}
         \/ /\ x.pc \in {"scan", "read", "ok"}
            /\ x.lo = rd[c].lo /\ x.hi = rd[c].hi /\ x.from = rd[c].from /\ x.out = rd[c].out
            /\ \A f \in DOMAIN x.views :
                 f \in DOMAIN rd[c].views /\ x.views[f] = rd[c].views[f]
            /\ x.pc = "read" =>
                 x.pos = 0 /\ x.file \in DOMAIN rd[c].views /\ x.from < rd[c].views[x.file].end
  PROVE  ClientInv(sub[c], x)
<1>1. ClientInv(sub[c], rd[c]) /\ IInv
  BY SMTT(30), Zenon DEF RInv, WalInv
<1>2. CASE x.pc \in {"expired", "err"}
  BY <1>1, <1>2 DEF ClientInv
<1>3. CASE x.pc \in {"scan", "read", "ok"}
  <2>1. ReplayInv(sub[c], rd[c]) /\ Caught(rd[c])
    BY <1>1 DEF ClientInv, ReplayInv
  <2>2. /\ x.lo = rd[c].lo /\ x.hi = rd[c].hi /\ x.from = rd[c].from /\ x.out = rd[c].out
        /\ \A f \in DOMAIN x.views :
             f \in DOMAIN rd[c].views /\ x.views[f] = rd[c].views[f]
        /\ x.pc = "read" =>
             x.pos = 0 /\ x.file \in DOMAIN rd[c].views /\ x.from < rd[c].views[x.file].end
    BY <1>3, SMTT(30), Zenon
  <2>3. ASSUME x.pc = "read"
        PROVE  /\ x.file <= x.hi + 1 /\ x.from < x.hi
               /\ \A k \in DOMAIN files[x.file].good : ~(k <= x.pos)
    <3>1. TypeOK /\ ViewsOrdered(rd[c].views)
      BY <1>1, InReplay, SMTT(30), Zenon DEF Replaying
    <3>2. x.file \in DOMAIN files
      BY <2>2, <2>3, <3>1, SMTT(30), Zenon DEF ViewsOrdered
    <3>3. \A k \in DOMAIN files[x.file].good : k \in Nat /\ k >= 1
      BY <3>1, <3>2, Types, SMTT(30), Zenon
    <3>4. rd[c].from \in Nat /\ rd[c].hi \in Nat /\ rd[c].views[x.file].end \in Nat
      BY <2>2, <2>3, <3>1, ReaderTypes, Zenon
    <3>5. x.file <= rd[c].hi + 1 /\ rd[c].views[x.file].end <= rd[c].hi
      BY <2>1, <2>2, <2>3, Zenon DEF Caught
    <3> QED
      BY <2>2, <2>3, <3>3, <3>4, <3>5, SMTT(30), Zenon
  <2>4. Caught(x)
    BY <2>1, <2>2, <2>3, Zenon DEF Caught
  <2>5. ReplayInv(sub[c], x)
    BY <2>1, <2>2, <2>4, Zenon DEF ReplayInv
  <2> QED
    BY <1>1, <2>5, ZenonT(30) DEF ClientInv
<1> QED
  BY <1>2, <1>3

LEMMA ReplayScanStep ==
  ASSUME RInv, NEW c \in Readers, ReplayScan(c)
  PROVE  RInv'
<1>1. /\ IInv /\ TypeOK /\ sub[c] \in Call /\ Len(sub[c].ch) <= Buffer
      /\ sub \in [Readers -> Call]
  BY DEF RInv, RTypeOK, WalInv, TypeOK
<1>2. /\ sub[c].pc = "replay" /\ UNCHANGED <<liveSeq, pend, sub>>
      /\ ReadNextSegment(c) \/ ReadEnd(c) \/ ReadReturn(c)
  BY DEF ReplayScan
<1>3. IInv'
  BY <1>1, <1>2, ReadNextSegmentStep, ReadEndStep, ReadReturnStep, SMTT(30), Zenon
<1>4. /\ UNCHANGED <<up, seq, files, held>> /\ rd[c].pc \in {"scan", "read"}
  BY <1>2, Zenon DEF ReadNextSegment, ReadEnd, ReadReturn, memory, disk
<1>5. rd = [d \in Readers |-> rd[d]] /\ rd[c] \in Reader(rd[c].views)
  BY <1>1, <1>4, InReplay, SMTT(30), Zenon
<1>6. rd' = [rd EXCEPT ![c] = rd'[c]] /\ sub' = [sub EXCEPT ![c] = sub[c]]
  BY <1>1, <1>2, <1>5, Zenon DEF ReadNextSegment, ReadEnd, ReadReturn
<1>7. ClientMoves(c, sub[c], rd'[c])
  BY <1>2, <1>4, <1>6, Zenon DEF ClientMoves
<1>8. \/ rd'[c].pc \in {"expired", "err"}
      \/ /\ rd'[c].pc \in {"scan", "read", "ok"}
         /\ rd'[c].lo = rd[c].lo /\ rd'[c].hi = rd[c].hi
         /\ rd'[c].from = rd[c].from /\ rd'[c].out = rd[c].out
         /\ \A f \in DOMAIN rd'[c].views :
              f \in DOMAIN rd[c].views /\ rd'[c].views[f] = rd[c].views[f]
         /\ rd'[c].pc = "read" =>
              /\ rd'[c].pos = 0 /\ rd'[c].file \in DOMAIN rd[c].views
              /\ rd'[c].from < rd[c].views[rd'[c].file].end
  <2>1. CASE ReadNextSegment(c)
    <3>1. PICK f \in DOMAIN rd[c].views :
            LET rest == WithoutView(rd[c].views, f) IN
            \/ rd' = [rd EXCEPT ![c].views = rest]
            \/ rd' = [rd EXCEPT ![c].views = rest, ![c].gap = TRUE]
            \/ /\ rd[c].views[f].end > rd[c].from
               /\ rd' = [rd EXCEPT ![c].views = rest, ![c].pc = "read",
                                   ![c].file = f, ![c].pos = 0]
      BY <2>1, Zenon DEF ReadNextSegment
    <3>2. rd[c].pc = "scan" /\ rd[c].from \in Nat /\ rd[c].views[f].end \in Nat
      BY <1>1, <2>1, <3>1, ReaderTypes, Zenon DEF ReadNextSegment
    <3>3. \A g \in DOMAIN WithoutView(rd[c].views, f) :
            g \in DOMAIN rd[c].views /\ WithoutView(rd[c].views, f)[g] = rd[c].views[g]
      BY DEF WithoutView
    <3>4. rd'[c].views = WithoutView(rd[c].views, f)
      BY <1>5, <3>1 DEF Reader
    <3>5. /\ rd'[c].lo = rd[c].lo /\ rd'[c].hi = rd[c].hi
          /\ rd'[c].from = rd[c].from /\ rd'[c].out = rd[c].out
          /\ \/ rd'[c].pc = "scan"
             \/ /\ rd'[c].pc = "read" /\ rd'[c].pos = 0 /\ rd'[c].file = f
                /\ rd[c].from < rd[c].views[f].end
      BY <1>5, <3>1, <3>2, SMTT(30), Zenon DEF Reader
    <3> QED
      BY <3>3, <3>4, <3>5, SMTT(30), Zenon
  <2>2. CASE ReadEnd(c)
    BY <1>5, <2>2 DEF ReadEnd, Failed, Idle, Reader
  <2>3. CASE ReadReturn(c)
    BY <1>5, <2>3, SMTT(30), Zenon DEF ReadReturn, Failed, Idle, Reader
  <2> QED
    BY <1>2, <2>1, <2>2, <2>3, ZenonT(30)
<1>9. ClientInv(sub[c], rd'[c])
  BY <1>2, <1>4, <1>8, ReplayGoesOn
<1> QED
  BY <1>1, <1>3, <1>7, <1>9, ClientStep, Zenon

LEMMA ReplayDoneStep ==
  ASSUME RInv, NEW c \in Readers, ReplayDone(c)
  PROVE  RInv'
<1> DEFINE s == [sub[c] EXCEPT !.pc = "live"]
<1>1. /\ IInv /\ TypeOK /\ sub[c] \in Call /\ Len(sub[c].ch) <= Buffer
      /\ ClientInv(sub[c], rd[c]) /\ sub \in [Readers -> Call] /\ 0 \notin held
  BY DEF RInv, RTypeOK, WalInv, IInv
<1>2. /\ sub[c].pc = "replay" /\ rd[c].pc = "ok" /\ sub' = [sub EXCEPT ![c].pc = "live"]
      /\ rd' = [rd EXCEPT ![c] = Idle]
      /\ UNCHANGED <<up, seq, segs, cur, writable, dir, files, now, lives, acked, held>>
      /\ UNCHANGED <<liveSeq, pend>>
  BY DEF ReplayDone, memory, disk
<1>3. Replaying(rd[c]) /\ DOMAIN rd[c].views = {} /\ ~rd[c].gap /\ up
  BY <1>1, <1>2, SMTT(30), Zenon DEF IInv, ReaderInv, Replaying
<1>4. IInv'
  BY <1>1, <1>2, <1>3, IdleReader, Zenon DEF ReaderMoves
<1>5. s \in Call /\ sub' = [sub EXCEPT ![c] = s]
  BY <1>1, <1>2, Zenon DEF Call
<1>6. /\ s.pc = "live" /\ s.base = sub[c].base /\ s.ch = sub[c].ch /\ s.sent = sub[c].sent
      /\ s.last = sub[c].last /\ s.req = sub[c].req /\ s.drops = sub[c].drops
  BY <1>1 DEF Call
<1> HIDE DEF s
<1>7. ClientMoves(c, s, Idle)
  BY <1>2, <1>5, ZenonT(30) DEF ClientMoves
<1>8. ReplayInv(sub[c], rd[c]) /\ Caught(rd[c]) /\ SentInv(sub[c])
  BY <1>1, <1>2 DEF ClientInv, ReplayInv
<1>9. ASSUME sub[c].drops = 0, NEW n \in held, Asked(sub[c].req, Content[n]), n > sub[c].base
      PROVE  \/ Live(n, n) \in Elems(sub[c].sent)
             \/ n > sub[c].last /\ Live(n, n) \in InFlight(sub[c])
  <2>1. /\ n \in Nat /\ n # 0 /\ rd[c].hi \in Nat /\ rd[c].lo \in Int
        /\ rd[c].lo < n /\ sub[c].last \in Nat
    BY <1>1, <1>8, <1>9, Types, ReaderTypes, CallFields, ZenonT(30) DEF ReplayInv
  <2>2. CASE n \in Elems(rd[c].out)
    BY <1>8, <1>9, <2>2, SMTT(30), Zenon DEF ReplayInv
  <2>3. CASE n <= rd[c].hi
    <3>1. Owed(rd[c], n)
      BY <1>3, <2>1, <2>3 DEF Replaying
    <3>2. n \in Elems(rd[c].out)
      BY <1>2, <1>3, <3>1, SMTT(30), Zenon DEF Owed
    <3> QED
      BY <2>2, <3>2, SMTT(30), Zenon
  <2>4. CASE rd[c].hi < n /\ n \notin Elems(rd[c].out)
    <3>1. Live(n, n) \in InFlight(sub[c])
      BY <1>8, <1>9, <2>4, SMTT(30), Zenon DEF ReplayInv
    <3>2. CASE sub[c].sent = <<>>
      BY <1>8, <2>1, <3>1, <3>2, SMTT(30), Zenon DEF SentInv
    <3>3. CASE sub[c].sent # <<>>
      <4>1. /\ Len(sub[c].sent) \in DOMAIN sub[c].sent
            /\ sub[c].last = sub[c].sent[Len(sub[c].sent)].seq
        BY <1>1, <1>8, <3>3, LastSent, SMTT(30), Zenon
      <4>2. sub[c].last \in Elems(rd[c].out)
        BY <1>8, <4>1, SMTT(30), Zenon DEF ReplayInv
      <4>3. ~(n <= sub[c].last)
        BY <1>8, <2>4, <4>2, SMTT(30), Zenon DEF Caught, Elems
      <4> QED
        BY <2>1, <3>1, <4>3, SMTT(30), Zenon
    <3> QED
      BY <3>2, <3>3, SMTT(30), Zenon
  <2> QED
    BY <2>1, <2>2, <2>3, <2>4
<1>10. s.drops = 0 => Complete(s)
  BY <1>6, <1>9 DEF Complete, AskedOf, InFlight
<1>11. ChannelInv(s) /\ SentInv(s) /\ s.req \in Requests
  BY <1>1, <1>2, <1>6, Zenon DEF ClientInv, ChannelInv, SentInv
<1>12. ClientInv(s, Idle)
  <2>1. Idle.pc = "idle"
    BY SMTT(30), Zenon DEF Idle
  <2> QED
    BY <1>3, <1>6, <1>10, <1>11, <2>1, Zenon DEF ClientInv
<1> QED
  BY <1>1, <1>4, <1>5, <1>6, <1>7, <1>12, ClientStep, Zenon

(* A send, from the replay or from the live channel.                       *)
LEMMA Delivers ==
  ASSUME NEW s \in Call, NEW h \in LiveEnvelope, SentInv(s), Emitted(h),
         Asked(s.req, Content[h.env]), s.last < h.seq
  PROVE  /\ Deliver(s, h) \in Call /\ SentInv(Deliver(s, h))
         /\ Elems(Deliver(s, h).sent) = Elems(s.sent) \cup {h}
         /\ Deliver(s, h).last = h.seq
         /\ Deliver(s, h).pc = s.pc /\ Deliver(s, h).req = s.req /\ Deliver(s, h).ch = s.ch
         /\ Deliver(s, h).drops = s.drops /\ Deliver(s, h).base = s.base
<1> DEFINE q == Append(s.sent, h)
           t == Deliver(s, h)
<1>1. s.sent \in Seq(LiveEnvelope) /\ s.last \in Nat /\ h.seq \in Nat
  BY CallFields, Zenon DEF LiveEnvelope
<1>2. /\ q \in Seq(LiveEnvelope) /\ Len(q) = Len(s.sent) + 1 /\ q[Len(q)] = h
      /\ q # <<>> /\ Len(s.sent) \in Nat
      /\ DOMAIN q = 1..(Len(s.sent) + 1) /\ DOMAIN s.sent = 1..Len(s.sent)
      /\ \A i \in DOMAIN s.sent : q[i] = s.sent[i]
  BY <1>1
<1>3. /\ t \in Call /\ t.sent = q /\ t.last = h.seq /\ t.pc = s.pc /\ t.req = s.req
      /\ t.ch = s.ch /\ t.drops = s.drops /\ t.base = s.base
  BY <1>1, <1>2, Zenon DEF Deliver, Call
<1> HIDE DEF q, t
<1>4. \A i \in DOMAIN q : i \in DOMAIN s.sent \/ (i = Len(q) /\ q[i] = h)
  BY <1>2
<1>5. Elems(q) = Elems(s.sent) \cup {h}
  <2>1. ASSUME NEW e \in Elems(q) PROVE e \in Elems(s.sent) \cup {h}
    BY <1>2, <1>4, <2>1, SMTT(30), Zenon DEF Elems
  <2>2. ASSUME NEW e \in Elems(s.sent) \cup {h} PROVE e \in Elems(q)
    BY <1>2, <2>2, SMTT(30), Zenon DEF Elems
  <2> QED
    BY <2>1, <2>2, SMTT(30), Zenon
<1>6. \A i \in DOMAIN s.sent : s.sent[i].seq \in Nat /\ s.sent[i].seq <= s.last
  <2> TAKE i \in DOMAIN s.sent
  <2>1. s.sent[i].seq \in Nat /\ s.sent # <<>> /\ s.last = s.sent[Len(s.sent)].seq
    BY <1>1, Envelopes DEF SentInv
  <2>2. i = Len(s.sent) \/ (i < Len(s.sent) /\ Len(s.sent) \in DOMAIN s.sent)
    BY <1>2
  <2> QED
    BY <1>1, <2>1, <2>2, SMTT(30), Zenon DEF SentInv
<1>7. \A i \in DOMAIN q : Emitted(q[i]) /\ Asked(s.req, Content[q[i].env])
  BY <1>2, <1>4, Zenon DEF SentInv
<1>8. \A i, j \in DOMAIN q : i < j => q[i].seq < q[j].seq
  <2> SUFFICES ASSUME NEW i \in DOMAIN q, NEW j \in DOMAIN q, i < j
               PROVE  q[i].seq < q[j].seq
    OBVIOUS
  <2>1. i \in DOMAIN s.sent /\ q[i] = s.sent[i]
    BY <1>2, SMTT(30), Zenon
  <2>2. CASE j \in DOMAIN s.sent
    BY <1>2, <2>1, <2>2, SMTT(30), Zenon DEF SentInv
  <2>3. CASE j = Len(q) /\ q[j] = h
    BY <1>1, <1>6, <2>1, <2>3
  <2> QED
    BY <1>4, <2>2, <2>3, SMTT(30), Zenon
<1>9. SentInv(t)
  BY <1>2, <1>3, <1>7, <1>8, Zenon DEF SentInv
<1> QED
  BY <1>3, <1>5, <1>9 DEF t

LEMMA Meant ==
  ASSUME NEW s, s.req \in Requests, NEW h \in LiveEnvelope
  PROVE  Wants(s, h) <=> Asked(s.req, Content[h.env])
<1>1. h.env \in 0..MaxSeq
  BY DEF LiveEnvelope
<1>2. Request(s.req) /\ Envelope(Content[h.env])
  BY <1>1, ReExportConstants
<1> QED
  BY <1>2, FilterMeans, Zenon DEF Wants

(* Taking the head of the channel.                                         *)
Taken(s) == [s EXCEPT !.ch = Tail(@)]

Took(s, t, h) ==
  /\ t \in Call /\ Len(t.ch) <= Len(s.ch) /\ ChannelInv(t)
  /\ h \in LiveEnvelope /\ Emitted(h)
  /\ Elems(s.ch) = {h} \cup Elems(t.ch)
  /\ \A y \in Elems(t.ch) : Before(h, y)
  /\ pend # NoEnv => Before(h, pend)
  /\ t.pc = s.pc /\ t.req = s.req /\ t.sent = s.sent /\ t.last = s.last
  /\ t.drops = s.drops /\ t.base = s.base

LEMMA Takes ==
  ASSUME NEW s \in Call, s.ch # <<>>, ChannelInv(s)
  PROVE  Took(s, Taken(s), Head(s.ch))
<1> DEFINE t == Taken(s)
<1> DEFINE q == Tail(s.ch)
<1>1. s.ch \in Seq(LiveEnvelope)
  BY CallFields
<1>2. /\ q \in Seq(LiveEnvelope) /\ Len(q) = Len(s.ch) - 1 /\ Len(s.ch) \in Nat
      /\ DOMAIN q = 1..(Len(s.ch) - 1) /\ DOMAIN s.ch = 1..Len(s.ch)
      /\ Head(s.ch) = s.ch[1] /\ 1 \in DOMAIN s.ch
      /\ \A i \in DOMAIN q : q[i] = s.ch[i + 1]
  BY <1>1
<1>3. /\ t \in Call /\ t.ch = q
      /\ t.pc = s.pc /\ t.req = s.req /\ t.sent = s.sent /\ t.last = s.last
      /\ t.drops = s.drops /\ t.base = s.base
  BY <1>2, Zenon DEF Call, Taken
<1> HIDE DEF q
<1>4. /\ \A i \in DOMAIN q : i + 1 \in DOMAIN s.ch /\ 1 < i + 1
      /\ \A i \in DOMAIN s.ch : i = 1 \/ (i - 1 \in DOMAIN q /\ q[i - 1] = s.ch[i])
      /\ \A i, j \in DOMAIN q : i < j => i + 1 < j + 1
  BY <1>2, SMTT(30), Zenon
<1>5. Elems(s.ch) = {Head(s.ch)} \cup Elems(q)
  <2>1. ASSUME NEW i \in DOMAIN s.ch PROVE s.ch[i] \in {Head(s.ch)} \cup Elems(q)
    BY <1>2, <1>4, <2>1, Zenon DEF Elems
  <2>2. ASSUME NEW i \in DOMAIN q PROVE q[i] \in Elems(s.ch)
    BY <1>2, <1>4, <2>2 DEF Elems
  <2> QED
    BY <1>2, <2>1, <2>2, SMTT(30), Zenon DEF Elems
<1>6. \A y \in Elems(q) : Before(Head(s.ch), y)
  <2> SUFFICES ASSUME NEW i \in DOMAIN q PROVE Before(s.ch[1], s.ch[i + 1])
    BY <1>2 DEF Elems
  <2> QED
    BY <1>2, <1>4, Zenon DEF ChannelInv
<1>7. \A i \in DOMAIN q : Emitted(q[i]) /\ (pend # NoEnv => Before(q[i], pend))
  BY <1>2, <1>4, Zenon DEF ChannelInv
<1>8. \A i, j \in DOMAIN q : i < j => Before(q[i], q[j])
  BY <1>2, <1>4, Zenon DEF ChannelInv
<1>9. ChannelInv(t)
  BY <1>3, <1>7, <1>8, Zenon DEF ChannelInv
<1>10. /\ Head(s.ch) \in LiveEnvelope /\ Emitted(Head(s.ch))
       /\ pend # NoEnv => Before(Head(s.ch), pend)
  BY <1>1, <1>2, SMTT(30), Zenon DEF ChannelInv
<1>11. Len(t.ch) <= Len(s.ch)
  BY <1>2, <1>3, SMTT(30), Zenon
<1> QED
  BY <1>3, <1>5, <1>6, <1>9, <1>10, <1>11, Zenon DEF Took

LEMMA LiveRecvStep ==
  ASSUME RInv, NEW c \in Readers, LiveRecv(c)
  PROVE  RInv'
<1> DEFINE h == Head(sub[c].ch)
           t == Taken(sub[c])
<1>1. /\ IInv /\ TypeOK /\ sub[c] \in Call /\ Len(sub[c].ch) <= Buffer /\ Buffer \in Nat
      /\ ClientInv(sub[c], rd[c]) /\ sub \in [Readers -> Call] /\ rd = [d \in Readers |-> rd[d]]
  BY ReExportConstants, SMTT(30), Zenon DEF RInv, RTypeOK, WalInv, TypeOK
<1>2. /\ sub[c].pc = "live" /\ sub[c].ch # <<>> /\ UNCHANGED <<vars, liveSeq, pend>>
      /\ \/ (Duplicate(t, h) \/ ~Wants(t, h)) /\ sub' = [sub EXCEPT ![c] = t]
         \/ ~Duplicate(t, h) /\ Wants(t, h) /\ sub' = [sub EXCEPT ![c] = Deliver(t, h)]
  BY DEF LiveRecv, Taken
<1>3. /\ ChannelInv(sub[c]) /\ SentInv(sub[c]) /\ up /\ rd[c].pc = "idle"
      /\ sub[c].req \in Requests /\ (sub[c].drops = 0 => Complete(sub[c]))
  BY <1>1, <1>2 DEF ClientInv
<1> HIDE DEF h, t
<1>4. /\ t \in Call /\ Len(t.ch) <= Len(sub[c].ch) /\ ChannelInv(t)
      /\ h \in LiveEnvelope /\ Emitted(h)
      /\ Elems(sub[c].ch) = {h} \cup Elems(t.ch)
      /\ \A y \in Elems(t.ch) : Before(h, y)
      /\ pend # NoEnv => Before(h, pend)
      /\ t.pc = sub[c].pc /\ t.req = sub[c].req /\ t.sent = sub[c].sent
      /\ t.last = sub[c].last /\ t.drops = sub[c].drops /\ t.base = sub[c].base
  <2>1. sub[c] \in Call /\ sub[c].ch # <<>> /\ ChannelInv(sub[c])
    BY <1>1, <1>2, <1>3
  <2>2. Took(sub[c], t, h)
    BY <2>1, Takes, Zenon DEF t, h
  <2> QED
    BY <2>2, Zenon DEF Took
<1>5. SentInv(t)
  BY <1>3, <1>4, ZenonT(30) DEF SentInv
<1>6. Wants(t, h) <=> Asked(t.req, Content[h.env])
  BY <1>3, <1>4, Meant, SMTT(30), Zenon
<1>7. /\ h.seq \in Nat /\ h.env \in Nat /\ t.last \in Nat /\ t.ch \in Seq(LiveEnvelope)
  <2>1. h.seq \in Nat /\ h.env \in 0..MaxSeq
    BY <1>4, Zenon DEF LiveEnvelope
  <2>2. t.last \in Nat /\ t.ch \in Seq(LiveEnvelope)
    BY <1>4, CallFields, Zenon
  <2> QED
    BY <2>1, <2>2, WalConstants
<1>8. IInv' /\ rd' = [rd EXCEPT ![c] = rd[c]] /\ UNCHANGED <<up, seq, files, held>>
  BY <1>1, <1>2, StutterStep, SMTT(30), Zenon DEF vars
<1>9. Len(t.ch) <= Buffer
  BY <1>1, <1>4, <1>7, CallFields, SMTT(30), Zenon
<1>10. \A n \in AskedOf(t) : n \in Nat /\ Asked(t.req, Content[n])
  BY <1>1, Types DEF AskedOf
<1>11. ASSUME t.drops = 0, NEW n \in AskedOf(t), n > t.base
       PROVE  \/ Live(n, n) \in Elems(t.sent)
              \/ n > t.last /\ h = Live(n, n)
              \/ /\ n > t.last /\ Live(n, n) \in InFlight(t)
                 /\ h.env < n /\ ("encode" \notin Faults => h.seq < n)
              \/ "encode" \in Faults /\ \E x \in Elems(t.sent) : x.env < n /\ n <= x.seq
  <2>1. n \in AskedOf(sub[c])
    BY <1>4, SMTT(30), Zenon DEF AskedOf
  <2>2. \/ Live(n, n) \in Elems(t.sent)
        \/ n > t.last /\ Live(n, n) \in InFlight(sub[c])
        \/ "encode" \in Faults /\ \E x \in Elems(t.sent) : x.env < n /\ n <= x.seq
    BY <1>3, <1>4, <1>11, <2>1, SMTT(30), Zenon DEF Complete
  <2>3. Live(n, n) \in InFlight(sub[c]) => Live(n, n) \in InFlight(t) \/ h = Live(n, n)
    BY <1>4, Zenon DEF InFlight
  <2>4. Live(n, n) \in InFlight(t) => Before(h, Live(n, n))
    BY <1>4, Zenon DEF InFlight
  <2>5. Live(n, n).seq = n /\ Live(n, n).env = n
    BY DEF Live
  <2>6. Before(h, Live(n, n)) => h.env < n /\ ("encode" \notin Faults => h.seq < n)
    BY <2>5 DEF Before
  <2> QED
    BY <2>2, <2>3, <2>4, <2>6, Zenon
<1>12. CASE (Duplicate(t, h) \/ ~Wants(t, h)) /\ sub' = [sub EXCEPT ![c] = t]
  <2>1. ASSUME NEW n \in AskedOf(t), n > t.last, h = Live(n, n)
        PROVE  FALSE
    <3>1. h.seq = n /\ h.env = n
      BY <2>1 DEF Live
    <3>2. ~Duplicate(t, h)
      BY <1>7, <2>1, <3>1 DEF Duplicate
    <3> QED
      BY <1>6, <1>10, <1>12, <3>1, <3>2, SMTT(30), Zenon
  <2>2. t.drops = 0 => Complete(t)
    BY <1>11, <2>1, ZenonT(30) DEF Complete
  <2>3. ClientInv(t, rd[c])
    BY <1>2, <1>3, <1>4, <1>5, <2>2, Zenon DEF ClientInv
  <2>4. ClientMoves(c, t, rd[c])
    BY <1>2, <1>8, <1>12 DEF ClientMoves
  <2> QED
    BY <1>4, <1>8, <1>9, <2>3, <2>4, ClientStep, ZenonT(30)
<1>13. CASE ~Duplicate(t, h) /\ Wants(t, h) /\ sub' = [sub EXCEPT ![c] = Deliver(t, h)]
  <2> DEFINE s == Deliver(t, h)
  <2>1. t.last < h.seq /\ Asked(t.req, Content[h.env])
    BY <1>6, <1>7, <1>13, SMTT(30), Zenon DEF Duplicate
  <2>2. /\ s \in Call /\ SentInv(s) /\ Elems(s.sent) = Elems(t.sent) \cup {h}
        /\ s.last = h.seq /\ s.pc = t.pc /\ s.req = t.req /\ s.ch = t.ch
        /\ s.drops = t.drops /\ s.base = t.base
    BY <1>4, <1>5, <2>1, Delivers, Zenon
  <2> HIDE DEF s
  <2>3. ChannelInv(s)
    BY <1>4, <2>2, ZenonT(30) DEF ChannelInv
  <2>4. ASSUME s.drops = 0, NEW n \in AskedOf(s), n > s.base
        PROVE  \/ Live(n, n) \in Elems(s.sent)
               \/ n > s.last /\ Live(n, n) \in InFlight(s)
               \/ "encode" \in Faults /\ \E x \in Elems(s.sent) : x.env < n /\ n <= x.seq
    <3>1. s.req = t.req /\ s.ch = t.ch /\ n \in AskedOf(s)
      BY <2>2, <2>4, Zenon
    <3>2. AskedOf(s) = AskedOf(t)
      BY <3>1, Zenon DEF AskedOf
    <3>3. InFlight(s) = InFlight(t)
      BY <3>1, Zenon DEF InFlight
    <3>4. n \in AskedOf(t) /\ InFlight(s) = InFlight(t) /\ n \in Nat
      BY <1>10, <3>1, <3>2, <3>3, ZenonT(30)
    <3>5. CASE Live(n, n) \in Elems(t.sent) \/ h = Live(n, n)
      BY <2>2, <3>5, SMTT(30), Zenon
    <3>6. CASE "encode" \in Faults /\ \E x \in Elems(t.sent) : x.env < n /\ n <= x.seq
      BY <2>2, <3>6, SMTT(30), Zenon
    <3>7. CASE /\ Live(n, n) \in InFlight(t)
               /\ h.env < n /\ ("encode" \notin Faults => h.seq < n)
      BY <1>7, <2>2, <3>4, <3>7
    <3> QED
      BY <1>11, <2>2, <2>4, <3>4, <3>5, <3>6, <3>7, SMTT(30), Zenon
  <2>5. s.drops = 0 => Complete(s)
    BY <2>4, ZenonT(30) DEF Complete
  <2>6. ClientInv(s, rd[c])
    BY <1>2, <1>3, <1>4, <2>2, <2>3, <2>5, Zenon DEF ClientInv
  <2>7. ClientMoves(c, s, rd[c])
    BY <1>2, <1>8, <1>13, SMTT(30), Zenon DEF ClientMoves, s
  <2> QED
    BY <1>8, <1>9, <2>2, <2>6, <2>7, ClientStep, Zenon
<1> QED
  BY <1>2, <1>12, <1>13, SMTT(30), Zenon

LEMMA AppendElems ==
  ASSUME NEW q \in Seq(Nat), NEW e \in Nat
  PROVE  /\ Len(Append(q, e)) = Len(q) + 1 /\ Len(q) \in Nat
         /\ Append(q, e)[Len(Append(q, e))] = e
         /\ Elems(Append(q, e)) = Elems(q) \cup {e}
<1> DEFINE p == Append(q, e)
<1>1. /\ Len(p) = Len(q) + 1 /\ Len(q) \in Nat /\ DOMAIN q = 1..Len(q)
      /\ DOMAIN p = 1..(Len(q) + 1) /\ p[Len(q) + 1] = e
      /\ \A i \in DOMAIN q : p[i] = q[i]
  BY AppendElements
<1> HIDE DEF p
<1>2. /\ \A i \in DOMAIN p : i \in DOMAIN q \/ i = Len(q) + 1
      /\ \A i \in DOMAIN q : i \in DOMAIN p
      /\ Len(q) + 1 \in DOMAIN p
  BY <1>1
<1>3. ASSUME NEW i \in DOMAIN p PROVE p[i] \in Elems(q) \cup {e}
  BY <1>1, <1>2, <1>3 DEF Elems
<1>4. ASSUME NEW i \in DOMAIN q PROVE q[i] \in Elems(p)
  BY <1>1, <1>2, <1>4 DEF Elems
<1>5. e \in Elems(p)
  BY <1>1, <1>2 DEF Elems
<1>6. Elems(p) = Elems(q) \cup {e}
  BY <1>3, <1>4, <1>5, Zenon DEF Elems
<1> QED
  BY <1>1, <1>6 DEF p

(* The call y decodes the record d and becomes x: d is at or below the     *)
(* cursor, or the next of out.                                             *)
Decoded(y, x, d) ==
  /\ y.pc = "read" /\ x.pc = "read" /\ x.views = y.views /\ x.file = y.file
  /\ x.lo = y.lo /\ x.hi = y.hi /\ x.from = y.from /\ x.pos = y.pos + 1
  /\ y.pos + 1 \in DOMAIN files[y.file].good /\ d = files[y.file].good[y.pos + 1]
  /\ d \in Nat /\ d <= seq
  /\ \/ d <= y.from /\ x.out = y.out
     \/ y.from < d /\ Elems(x.out) = Elems(y.out) \cup {d}

LEMMA RecordDecoded ==
  ASSUME RInv, NEW c \in Readers, ReadRecord(c)
  PROVE  \E d \in Nat :
           /\ Decoded(rd[c], rd'[c], d) /\ rd' = [rd EXCEPT ![c] = rd'[c]]
           /\ \/ d <= rd[c].from /\ Replayed(c) = {}
              \/ rd[c].from < d /\ Replayed(c) = {Live(d, d)}
<1> DEFINE d == files[rd[c].file].good[rd[c].pos + 1]
<1>1. IInv
  BY SMTT(30), Zenon DEF RInv, WalInv
<1>2. /\ rd[c].pc = "read" /\ up /\ rd[c].pos < Len(files[rd[c].file].good)
      /\ rd' = [rd EXCEPT ![c].pos = @ + 1,
                          ![c].out = IF d <= rd[c].from THEN @ ELSE Append(@, d)]
  BY SMTT(30), Zenon DEF ReadRecord
<1>3. /\ TypeOK /\ MemoryInv /\ Replaying(rd[c]) /\ rd[c] \in Reader(rd[c].views)
      /\ rd = [p \in Readers |-> rd[p]]
  BY <1>1, <1>2, InReplay, SMTT(30), Zenon
<1>4. rd[c].file \in DOMAIN files
  BY <1>2, <1>3, SMTT(30), Zenon DEF Replaying, FileOpen
<1>5. /\ rd[c].pos \in Nat /\ rd[c].from \in Nat /\ rd[c].out \in Seq(Nat)
      /\ Len(rd[c].out) \in Nat
  BY <1>3, ReaderTypes
<1>6. /\ DOMAIN files[rd[c].file].good = 1..Len(files[rd[c].file].good)
      /\ Len(files[rd[c].file].good) \in Nat
      /\ \A i \in DOMAIN files[rd[c].file].good :
           files[rd[c].file].good[i] \in Nat /\ files[rd[c].file].good[i] <= seq
  BY <1>2, <1>3, <1>4, Types, ZenonT(30) DEF MemoryInv, FilesBelowSeq
<1>7. rd[c].pos + 1 \in DOMAIN files[rd[c].file].good
  BY <1>2, <1>5, <1>6, SMTT(30), Zenon
<1>8. d \in Nat /\ d <= seq /\ d = files[rd[c].file].good[rd[c].pos + 1]
  BY <1>6, <1>7
<1> HIDE DEF d
<1>9. /\ rd'[c].pc = "read" /\ rd'[c].views = rd[c].views /\ rd'[c].file = rd[c].file
      /\ rd'[c].lo = rd[c].lo /\ rd'[c].hi = rd[c].hi /\ rd'[c].from = rd[c].from
      /\ rd'[c].pos = rd[c].pos + 1
      /\ rd'[c].out = (IF d <= rd[c].from THEN rd[c].out ELSE Append(rd[c].out, d))
      /\ rd' = [rd EXCEPT ![c] = rd'[c]]
  BY <1>2, <1>3, Zenon DEF Reader
<1>10. CASE d <= rd[c].from
  <2>1. rd'[c].out = rd[c].out
    BY <1>9, <1>10, SMTT(30), Zenon
  <2>2. Replayed(c) = {}
    BY <1>5, <2>1, SMTT(30), Zenon DEF Replayed
  <2>3. Decoded(rd[c], rd'[c], d)
    BY <1>2, <1>7, <1>8, <1>9, <1>10, <2>1, Zenon DEF Decoded
  <2> QED
    BY <1>8, <1>9, <1>10, <2>2, <2>3, Zenon
<1>11. CASE ~(d <= rd[c].from)
  <2>1. rd'[c].out = Append(rd[c].out, d) /\ rd[c].from < d
    <3>1. rd'[c].out = Append(rd[c].out, d)
      BY <1>9, <1>11, ZenonT(30)
    <3>2. rd[c].from < d
      BY <1>5, <1>8, <1>11, SMTT(30), Zenon
    <3> QED
      BY <3>1, <3>2
  <2>2. /\ Len(rd'[c].out) = Len(rd[c].out) + 1 /\ rd'[c].out[Len(rd'[c].out)] = d
        /\ Elems(rd'[c].out) = Elems(rd[c].out) \cup {d}
    <3> DEFINE q == Append(rd[c].out, d)
    <3>1. /\ Len(q) = Len(rd[c].out) + 1 /\ q[Len(q)] = d
          /\ Elems(q) = Elems(rd[c].out) \cup {d}
      <4>1. rd[c].out \in Seq(Nat) /\ d \in Nat
        BY <1>5, <1>8, SMTT(30), Zenon
      <4> QED
        BY <4>1, AppendElems, SMTT(30), Zenon
    <3>2. rd'[c].out = q
      BY <2>1, SMTT(30), Zenon
    <3> HIDE DEF q
    <3> QED
      BY <3>1, <3>2, SMTT(30), Zenon
  <2>3. Len(rd'[c].out) > Len(rd[c].out)
    BY <1>5, <2>2
  <2>4. Replayed(c) = {Live(d, d)}
    <3>1. Replayed(c) = {Live(rd'[c].out[Len(rd'[c].out)], rd'[c].out[Len(rd'[c].out)])}
      BY <2>3, Zenon DEF Replayed
    <3> QED
      BY <2>2, <3>1, Zenon
  <2>5. Decoded(rd[c], rd'[c], d)
    BY <1>2, <1>7, <1>8, <1>9, <2>1, <2>2, Zenon DEF Decoded
  <2> QED
    BY <1>8, <1>9, <2>1, <2>4, <2>5, Zenon
<1> QED
  BY <1>10, <1>11, SMTT(30), Zenon

(* The file has no holes: the replay has come across every record between  *)
(* its snapshot and the record at hand.                                    *)
LEMMA CaughtUp ==
  ASSUME RInv, NEW c \in Readers, NEW y, y = rd[c], Caught(y), NEW d, NEW x, Decoded(y, x, d)
  PROVE  Caught(x)
<1> DEFINE g == files[y.file].good
<1>1. IInv /\ Gapless
  BY DEF RInv, WalInv
<1>2. /\ y.pc = "read" /\ x.pc = "read" /\ x.views = y.views /\ x.file = y.file
      /\ x.hi = y.hi /\ x.from = y.from /\ x.pos = y.pos + 1
      /\ y.pos + 1 \in DOMAIN g /\ d = g[y.pos + 1] /\ d \in Nat
      /\ \/ d <= y.from /\ x.out = y.out
         \/ y.from < d /\ Elems(x.out) = Elems(y.out) \cup {d}
  BY Zenon DEF Decoded
<1>3. TypeOK /\ FilesOrdered /\ Replaying(y)
  BY <1>1, <1>2, InReplay, Zenon
<1>4. y.file \in DOMAIN files
  BY <1>2, <1>3, Zenon DEF Replaying, FileOpen
<1>5. /\ y.pos \in Nat /\ y.from \in Nat /\ y.hi \in Nat /\ y.file \in Nat
      /\ \A n \in held : n \in Nat
  BY <1>3, ReaderTypes, Types, Zenon
<1>6. DOMAIN g = 1..Len(g) /\ Len(g) \in Nat /\ \A k \in DOMAIN g : g[k] \in Nat
  BY <1>3, <1>4, Types, Zenon
<1>7. \A k \in DOMAIN g : y.pos + 1 < k => d < g[k]
  BY <1>2, <1>3, <1>4, Zenon DEF FilesOrdered
<1>8. /\ \A k \in DOMAIN g : k <= y.pos => g[k] <= y.from \/ g[k] \in Elems(y.out)
      /\ y.file <= y.hi + 1 /\ y.from < y.hi
      /\ \A f \in DOMAIN x.views : f <= x.hi + 1 /\ x.views[f].end <= x.hi
      /\ \A n \in held : y.hi < n => \A i \in DOMAIN y.out : n <= y.out[i] => n \in Elems(y.out)
  BY <1>2, Zenon DEF Caught
<1>9. \A n \in held : \A k \in DOMAIN g : y.file <= n /\ n <= g[k] => n \in Elems(g)
  BY <1>1, <1>4, Zenon DEF Gapless
<1> HIDE DEF g
<1>10. \A e \in Elems(y.out) : e \in Elems(x.out)
  BY <1>2, SMTT(30), Zenon
<1>11. \A k \in DOMAIN g : k <= y.pos + 1 => g[k] <= y.from \/ g[k] \in Elems(x.out)
  <2> SUFFICES ASSUME NEW k \in DOMAIN g, k <= y.pos + 1
               PROVE  g[k] <= y.from \/ g[k] \in Elems(x.out)
    OBVIOUS
  <2>1. k <= y.pos \/ k = y.pos + 1
    BY <1>5, <1>6, SMTT(30), Zenon
  <2>2. CASE k <= y.pos
    BY <1>8, <1>10, <2>2, Zenon
  <2>3. CASE k = y.pos + 1
    BY <1>2, <2>3, SMTT(30), Zenon
  <2> QED
    BY <2>1, <2>2, <2>3, SMTT(30), Zenon
<1>12. ASSUME NEW n \in held, y.hi < n, n <= d
       PROVE  n \in Elems(x.out)
  <2>1. n \in Nat /\ y.file <= n /\ ~(n <= y.from)
    BY <1>5, <1>8, <1>12, SMTT(30), Zenon
  <2>2. n \in Elems(g)
    BY <1>2, <1>9, <1>12, <2>1, SMTT(30), Zenon
  <2>3. PICK k \in DOMAIN g : g[k] = n
    BY <2>2, SMTT(30), Zenon DEF Elems
  <2>4. ~(y.pos + 1 < k)
    BY <1>2, <1>7, <1>12, <2>1, <2>3, SMTT(30), Zenon
  <2>5. k <= y.pos + 1
    BY <1>5, <1>6, <2>4, SMTT(30), Zenon
  <2> QED
    BY <1>11, <2>1, <2>3, <2>5, SMTT(30), Zenon
<1>13. \A n \in held : y.hi < n => \A i \in DOMAIN x.out : n <= x.out[i] => n \in Elems(x.out)
  <2> SUFFICES ASSUME NEW n \in held, y.hi < n, NEW i \in DOMAIN x.out, n <= x.out[i]
               PROVE  n \in Elems(x.out)
    OBVIOUS
  <2>1. x.out[i] \in Elems(x.out)
    BY DEF Elems
  <2>2. CASE x.out[i] \in Elems(y.out)
    <3>1. PICK j \in DOMAIN y.out : x.out[i] = y.out[j]
      BY <2>2, SMTT(30), Zenon DEF Elems
    <3> QED
      BY <1>8, <1>10, <3>1, Zenon
  <2>3. CASE x.out[i] = d
    BY <1>12, <2>3, SMTT(30), Zenon
  <2> QED
    BY <1>2, <2>1, <2>2, <2>3, SMTT(30), Zenon
<1> QED
  BY <1>2, <1>8, <1>11, <1>13, Zenon DEF Caught, g

LEMMA ReplaySendStep ==
  ASSUME RInv, NEW c \in Readers, ReplaySend(c)
  PROVE  RInv'
<1>1. /\ IInv /\ TypeOK /\ sub[c] \in Call /\ Len(sub[c].ch) <= Buffer
      /\ ClientInv(sub[c], rd[c]) /\ sub \in [Readers -> Call] /\ seq <= MaxSeq
  BY DEF RInv, RTypeOK, WalInv, IInv
<1>2. /\ sub[c].pc = "replay" /\ ReadRecord(c) /\ UNCHANGED <<liveSeq, pend>>
      /\ \/ \E e \in Replayed(c) :
              Wants(sub[c], e) /\ sub' = [sub EXCEPT ![c] = Deliver(sub[c], e)]
         \/ (\A e \in Replayed(c) : ~Wants(sub[c], e)) /\ sub' = sub
  BY SMTT(30), Zenon DEF ReplaySend
<1>3. IInv' /\ UNCHANGED <<up, seq, files, held>>
  BY <1>1, <1>2, ReadRecordStep, Zenon DEF ReadRecord, memory, disk
<1>4. PICK d \in Nat :
        /\ Decoded(rd[c], rd'[c], d) /\ rd' = [rd EXCEPT ![c] = rd'[c]]
        /\ \/ d <= rd[c].from /\ Replayed(c) = {}
           \/ rd[c].from < d /\ Replayed(c) = {Live(d, d)}
  BY <1>2, RecordDecoded, Zenon
<1>5. /\ rd[c].pc = "read" /\ rd'[c].pc = "read" /\ rd'[c].lo = rd[c].lo
      /\ rd'[c].hi = rd[c].hi /\ d <= seq
      /\ rd[c].pos + 1 \in DOMAIN files[rd[c].file].good
      /\ d = files[rd[c].file].good[rd[c].pos + 1]
      /\ \/ d <= rd[c].from /\ rd'[c].out = rd[c].out
         \/ rd[c].from < d /\ Elems(rd'[c].out) = Elems(rd[c].out) \cup {d}
  BY <1>4, ZenonT(30) DEF Decoded
<1>6. /\ ReplayInv(sub[c], rd[c]) /\ Caught(rd[c]) /\ SentInv(sub[c]) /\ ChannelInv(sub[c])
      /\ up /\ sub[c].req \in Requests
  BY <1>1, <1>2, <1>5, Zenon DEF ClientInv, ReplayInv
<1>7. Caught(rd'[c])
  BY <1>4, <1>6, CaughtUp, ZenonT(30)
<1>8. /\ rd[c].from \in Nat /\ rd[c].pos \in Nat /\ seq \in Nat /\ sub[c].last \in Nat
  BY <1>1, ReaderTypes, Types, CallFields, SMTT(30), Zenon
<1>9. \A e \in Elems(rd[c].out) : e < d
  <2>1. FileOpen(rd[c])
    BY <1>1, <1>5, InReplay, Zenon DEF Replaying
  <2>2. rd[c].pos + 1 > rd[c].pos
    BY <1>8
  <2> QED
    BY <1>5, <2>1, <2>2, ZenonT(30) DEF FileOpen, Elems
<1>10. rd[c].from < d => sub[c].last < d
  <2>1. CASE sub[c].sent = <<>>
    BY <1>6, <1>8, <2>1, SMTT(30), Zenon DEF SentInv
  <2>2. CASE sub[c].sent # <<>>
    <3>1. /\ Len(sub[c].sent) \in DOMAIN sub[c].sent
          /\ sub[c].last = sub[c].sent[Len(sub[c].sent)].seq
      BY <1>1, <1>6, <2>2, LastSent, SMTT(30), Zenon
    <3>2. sub[c].last \in Elems(rd[c].out)
      BY <1>6, <3>1, SMTT(30), Zenon DEF ReplayInv
    <3> QED
      BY <1>9, <3>2, SMTT(30), Zenon
  <2> QED
    BY <2>1, <2>2, SMTT(30), Zenon
<1>11. /\ Live(d, d) \in LiveEnvelope /\ Live(d, d).seq = d /\ Live(d, d).env = d
  <2>1. d \in 0..MaxSeq
    <3>1. d <= seq /\ seq <= MaxSeq /\ seq \in Nat
      BY <1>1, <1>5, <1>8, Zenon
    <3> QED
      BY <3>1, WalConstants
  <2>2. Live(d, d) = [seq |-> d, env |-> d]
    BY DEF Live
  <2> QED
    BY <2>1, <2>2 DEF LiveEnvelope
<1>12. Emitted(Live(d, d))
  BY <1>5, <1>11, ZenonT(30) DEF Emitted
<1>13. Wants(sub[c], Live(d, d)) <=> Asked(sub[c].req, Content[d])
  BY <1>6, <1>11, Meant
<1>14. CASE \E e \in Replayed(c) :
              Wants(sub[c], e) /\ sub' = [sub EXCEPT ![c] = Deliver(sub[c], e)]
  <2> DEFINE s == Deliver(sub[c], Live(d, d))
  <2>1. /\ rd[c].from < d /\ Wants(sub[c], Live(d, d)) /\ sub' = [sub EXCEPT ![c] = s]
    BY <1>4, <1>14, Zenon
  <2>2. Elems(rd'[c].out) = Elems(rd[c].out) \cup {d}
    <3>1. ~(d <= rd[c].from)
      BY <1>8, <2>1
    <3> QED
      BY <1>5, <3>1, Zenon
  <2>3. /\ s \in Call /\ SentInv(s) /\ Elems(s.sent) = Elems(sub[c].sent) \cup {Live(d, d)}
        /\ s.pc = sub[c].pc /\ s.req = sub[c].req /\ s.ch = sub[c].ch
        /\ s.drops = sub[c].drops /\ s.base = sub[c].base
    BY <1>1, <1>6, <1>10, <1>11, <1>12, <1>13, <2>1, Delivers, Zenon
  <2> HIDE DEF s
  <2>4. ChannelInv(s)
    BY <1>6, <2>3, ZenonT(30) DEF ChannelInv
  <2>5. \A i \in DOMAIN s.sent : s.sent[i].seq \in Elems(rd'[c].out)
    <3> TAKE i \in DOMAIN s.sent
    <3>1. s.sent[i] \in Elems(sub[c].sent) \/ s.sent[i] = Live(d, d)
      BY <2>3, SMTT(30), Zenon DEF Elems
    <3>2. CASE s.sent[i] \in Elems(sub[c].sent)
      <4>1. PICK j \in DOMAIN sub[c].sent : s.sent[i] = sub[c].sent[j]
        BY <3>2, SMTT(30), Zenon DEF Elems
      <4>2. s.sent[i].seq \in Elems(rd[c].out)
        BY <1>6, <4>1, SMTT(30), Zenon DEF ReplayInv
      <4> QED
        BY <2>2, <4>2, SMTT(30), Zenon
    <3>3. CASE s.sent[i] = Live(d, d)
      BY <1>11, <2>2, <3>3, SMTT(30), Zenon
    <3> QED
      BY <3>1, <3>2, <3>3, Zenon
  <2>6. \A n \in Elems(rd'[c].out) :
          Asked(s.req, Content[n]) => Live(n, n) \in Elems(s.sent)
    <3> TAKE n \in Elems(rd'[c].out)
    <3>1. CASE n \in Elems(rd[c].out)
      BY <1>6, <2>3, <3>1, Zenon DEF ReplayInv
    <3>2. CASE n = d
      BY <2>3, <3>2
    <3> QED
      BY <2>2, <3>1, <3>2, SMTT(30), Zenon
  <2>7. s.drops = 0 => \A n \in held : rd'[c].hi < n => Live(n, n) \in InFlight(s)
    BY <1>5, <1>6, <2>3, Zenon DEF ReplayInv, InFlight
  <2>8. ReplayInv(s, rd'[c])
    BY <1>5, <1>6, <1>7, <2>3, <2>5, <2>6, <2>7, ZenonT(30) DEF ReplayInv
  <2>9. ClientInv(s, rd'[c])
    BY <1>2, <1>6, <2>3, <2>4, <2>8, Zenon DEF ClientInv
  <2>10. ClientMoves(c, s, rd'[c]) /\ Len(s.ch) <= Buffer
    BY <1>1, <1>2, <1>3, <1>4, <2>1, <2>3, Zenon DEF ClientMoves
  <2> QED
    BY <1>3, <2>3, <2>9, <2>10, ClientStep, Zenon
<1>15. CASE (\A e \in Replayed(c) : ~Wants(sub[c], e)) /\ sub' = sub
  <2>1. \A n \in Elems(rd'[c].out) :
          Asked(sub[c].req, Content[n]) => Live(n, n) \in Elems(sub[c].sent)
    <3>1. CASE rd'[c].out = rd[c].out
      BY <1>6, <3>1, ZenonT(30) DEF ReplayInv
    <3>2. CASE rd[c].from < d /\ Elems(rd'[c].out) = Elems(rd[c].out) \cup {d}
      <4>1. Replayed(c) = {Live(d, d)}
        BY <1>4, <1>8, <3>2, SMTT(30), Zenon
      <4>2. ~Asked(sub[c].req, Content[d])
        BY <1>13, <1>15, <4>1, SMTT(30), Zenon
      <4> QED
        BY <1>6, <3>2, <4>2, ZenonT(30) DEF ReplayInv
    <3> QED
      BY <1>5, <3>1, <3>2, ZenonT(30)
  <2>2. \A i \in DOMAIN sub[c].sent : sub[c].sent[i].seq \in Elems(rd'[c].out)
    BY <1>5, <1>6, Zenon DEF ReplayInv
  <2>3. ReplayInv(sub[c], rd'[c])
    BY <1>5, <1>6, <1>7, <2>1, <2>2, ZenonT(30) DEF ReplayInv
  <2>4. ClientInv(sub[c], rd'[c])
    BY <1>2, <1>6, <2>3, Zenon DEF ClientInv
  <2>5. ClientMoves(c, sub[c], rd'[c])
    <3>1. sub' = [sub EXCEPT ![c] = sub[c]]
      BY <1>1, <1>15
    <3> QED
      BY <1>2, <1>3, <1>4, <3>1, Zenon DEF ClientMoves
  <2> QED
    BY <1>1, <1>3, <2>4, <2>5, ClientStep, ZenonT(30)
<1> QED
  BY <1>2, <1>14, <1>15, SMTT(30), Zenon

-----------------------------------------------------------------------------
(* The writer.                                                             *)

(* What emitEnvelope does: at most one record, the next seq, is written,   *)
(* and held only if it is broadcast under that seq.                        *)
Emits ==
  /\ up /\ up' /\ rd' = rd /\ sub' = sub
  /\ pend = NoEnv /\ pend' \in LiveEnvelope /\ Emitted(pend)'
  /\ seq' = seq \/ seq' = seq + 1
  /\ pend'.env = pend'.seq => pend'.seq = seq + 1
  /\ \A n \in held' : n \in held \/ (n = seq + 1 /\ pend' = Live(seq + 1, seq + 1))
  /\ \A f \in DOMAIN files : \A k \in DOMAIN files'[f].good :
       \/ k \in DOMAIN files[f].good /\ files'[f].good[k] = files[f].good[k]
       \/ k = Len(files[f].good) + 1

LEMMA EmitTypes ==
  ASSUME RInv, Emits
  PROVE  /\ TypeOK /\ seq \in Nat /\ seq' \in Nat /\ seq <= seq'
         /\ pend'.seq \in Nat /\ pend'.env \in Nat
         /\ \A n \in held : n \in Nat
<1>1. TypeOK
  BY SMTT(30), Zenon DEF RInv, RTypeOK
<1>2. seq \in Nat /\ \A n \in held : n \in Nat
  BY <1>1, Types, SMTT(30), Zenon
<1>3. seq' \in Nat /\ seq <= seq'
  BY <1>2, SMTT(30), Zenon DEF Emits
<1>4. pend'.seq \in Nat /\ pend'.env \in 0..MaxSeq
  BY DEF Emits, LiveEnvelope
<1>5. pend'.env \in Nat
  BY <1>4, WalConstants
<1> QED
  BY <1>1, <1>2, <1>3, <1>4, <1>5, SMTT(30), Zenon

LEMMA EmittedKept ==
  ASSUME RInv, Emits, NEW e \in LiveEnvelope, Emitted(e)
  PROVE  /\ e.env <= seq' /\ ("encode" \notin Faults => e.seq <= seq')
         /\ e.env < seq + 1 /\ ("encode" \notin Faults => e.seq < seq + 1)
<1>1. seq \in Nat /\ seq' \in Nat /\ seq <= seq'
  BY EmitTypes
<1>2. e.seq \in Nat /\ e.env \in 0..MaxSeq
  BY DEF LiveEnvelope
<1>3. e.env \in Nat
  BY <1>2, WalConstants
<1>4. e.env <= seq /\ ("encode" \notin Faults => e.seq <= seq)
  BY DEF Emitted
<1>5. e.env <= seq' /\ e.env < seq + 1
  BY <1>1, <1>3, <1>4, SMTT(30), Zenon
<1>6. e.seq <= seq => e.seq <= seq' /\ e.seq < seq + 1
  BY <1>1, <1>2
<1> QED
  BY <1>4, <1>5, <1>6

LEMMA EmitChannel ==
  ASSUME RInv, Emits, NEW c \in Readers
  PROVE  ChannelInv(sub[c])' /\ SentInv(sub[c])'
<1>1. /\ sub[c] \in Call /\ ChannelInv(sub[c]) /\ SentInv(sub[c])
  BY SMTT(30), Zenon DEF RInv, RTypeOK, ClientInv
<1>2. /\ \A i \in DOMAIN sub[c].ch : sub[c].ch[i] \in LiveEnvelope
      /\ \A i \in DOMAIN sub[c].sent : sub[c].sent[i] \in LiveEnvelope
  BY <1>1, CallFields, Envelopes, SMTT(30), Zenon
<1>3. sub' = sub /\ (pend'.env = pend'.seq => pend'.seq = seq + 1)
  BY DEF Emits
<1>4. \A i \in DOMAIN sub[c].ch : Emitted(sub[c].ch[i])' /\ Before(sub[c].ch[i], pend)'
  <2> TAKE i \in DOMAIN sub[c].ch
  <2>1. sub[c].ch[i] \in LiveEnvelope /\ Emitted(sub[c].ch[i])
    BY <1>1, <1>2, Zenon DEF ChannelInv
  <2> DEFINE e == sub[c].ch[i]
  <2>2. /\ e.env <= seq' /\ ("encode" \notin Faults => e.seq <= seq')
        /\ e.env < seq + 1 /\ ("encode" \notin Faults => e.seq < seq + 1)
    BY <2>1, EmittedKept, Zenon
  <2>3. sub'[c].ch[i] = e
    BY <1>3
  <2> HIDE DEF e
  <2> QED
    BY <1>3, <2>2, <2>3, Zenon DEF Emitted, Before
<1>5. ChannelInv(sub[c])'
  <2>1. \A i, j \in DOMAIN sub'[c].ch : i < j => Before(sub[c].ch[i], sub[c].ch[j])'
    BY <1>1, <1>3, Zenon DEF ChannelInv, Before
  <2> QED
    BY <1>3, <1>4, <2>1, Zenon DEF ChannelInv
<1>6. \A i \in DOMAIN sub[c].sent : Emitted(sub[c].sent[i])'
  <2> TAKE i \in DOMAIN sub[c].sent
  <2>1. sub[c].sent[i] \in LiveEnvelope /\ Emitted(sub[c].sent[i])
    BY <1>1, <1>2, Zenon DEF SentInv
  <2> DEFINE e == sub[c].sent[i]
  <2>2. e.env <= seq' /\ ("encode" \notin Faults => e.seq <= seq')
    BY <2>1, EmittedKept, Zenon
  <2>3. sub'[c].sent[i] = e
    BY <1>3
  <2> HIDE DEF e
  <2> QED
    BY <2>2, <2>3, Zenon DEF Emitted
<1>7. SentInv(sub[c])'
  BY <1>1, <1>3, <1>6, Zenon DEF SentInv
<1> QED
  BY <1>5, <1>7, SMTT(30), Zenon

(* The new record is in flight to every client.                            *)
LEMMA EmitInFlight ==
  ASSUME RInv, Emits, NEW c \in Readers
  PROVE  /\ InFlight(sub[c]) \subseteq InFlight(sub[c])'
         /\ \A n \in held' : n \notin held =>
              n = seq + 1 /\ Live(n, n) \in InFlight(sub[c])'
<1>1. InFlight(sub[c]) \subseteq InFlight(sub[c])'
  <2>1. pend = NoEnv /\ sub' = sub
    BY DEF Emits
  <2> QED
    BY <2>1, SMTT(30), Zenon DEF InFlight
<1>2. ASSUME NEW n \in held', n \notin held
      PROVE  n = seq + 1 /\ Live(n, n) \in InFlight(sub[c])'
  <2>1. n = seq + 1 /\ pend' = Live(n, n)
    BY <1>2, Zenon DEF Emits
  <2>2. pend'.seq = n /\ n # 0
    BY <2>1, EmitTypes DEF Live
  <2>3. pend' # NoEnv
    BY <2>2 DEF NoEnv, Live
  <2> QED
    BY <2>1, <2>3 DEF InFlight
<1> QED
  BY <1>1, <1>2

LEMMA EmitCaught ==
  ASSUME RInv, Emits, NEW c \in Readers, rd[c].pc \in {"scan", "read", "ok"}, Caught(rd[c])
  PROVE  Caught(rd[c])'
<1> DEFINE x == rd[c]
<1>1. IInv /\ rd' = rd
  BY SMTT(30), Zenon DEF RInv, WalInv, Emits
<1>2. Replaying(x)
  BY <1>1 DEF IInv, ReaderInv
<1>3. ASSUME x.pc = "read"
      PROVE  \A k \in DOMAIN files'[x.file].good : k <= x.pos =>
               files'[x.file].good[k] <= x.from \/ files'[x.file].good[k] \in Elems(x.out)
  <2>1. x.file \in DOMAIN files /\ x.pos <= Len(files[x.file].good)
    BY <1>2, <1>3, ZenonT(30) DEF Replaying, FileOpen
  <2>2. x.pos \in Nat /\ Len(files[x.file].good) \in Nat
    BY <2>1, EmitTypes, Types, ReaderTypes, SMTT(30), Zenon
  <2> SUFFICES ASSUME NEW k \in DOMAIN files'[x.file].good, k <= x.pos
               PROVE  files'[x.file].good[k] <= x.from \/ files'[x.file].good[k] \in Elems(x.out)
    BY SMTT(30), Zenon
  <2>3. k # Len(files[x.file].good) + 1
    BY <2>1, <2>2
  <2>4. k \in DOMAIN files[x.file].good /\ files'[x.file].good[k] = files[x.file].good[k]
    BY <2>1, <2>3, Zenon DEF Emits
  <2> QED
    BY <1>3, <2>4, ZenonT(30) DEF Caught
<1>4. ASSUME NEW n \in held', x.hi < n, NEW i \in DOMAIN x.out, n <= x.out[i]
      PROVE  n \in Elems(x.out)
  <2>1. CASE n \in held
    BY <1>4, <2>1, Zenon DEF Caught
  <2>2. CASE n \notin held
    <3>1. n = seq + 1
      BY <2>2, EmitInFlight, SMTT(30), Zenon
    <3>2. x.out[i] <= seq /\ x.out[i] \in Nat /\ seq \in Nat
      BY <1>2, <1>4, EmitTypes, ReaderTypes, Zenon DEF Replaying, OutOrdered
    <3> QED
      BY <1>4, <3>1, <3>2, SMTT(30), Zenon
  <2> QED
    BY <2>1, <2>2
<1>5. rd'[c] = x
  BY <1>1
<1>6. /\ \A f \in DOMAIN x.views : f <= x.hi + 1 /\ x.views[f].end <= x.hi
      /\ x.pc = "read" => x.file <= x.hi + 1 /\ x.from < x.hi
  BY Zenon DEF Caught
<1> HIDE DEF x
<1> QED
  BY <1>3, <1>4, <1>5, <1>6, ZenonT(30) DEF Caught

LEMMA EmitComplete ==
  ASSUME RInv, Emits, NEW c \in Readers, Complete(sub[c])
  PROVE  Complete(sub[c])'
<1> DEFINE s == sub[c]
<1>1. /\ s \in Call /\ SentInv(s) /\ sub' = sub
  BY ZenonT(30) DEF RInv, RTypeOK, ClientInv, Emits
<1>2. s.last \in Nat /\ s.sent \in Seq(LiveEnvelope)
  BY <1>1, CallFields, SMTT(30), Zenon
<1>3. ASSUME NEW n \in held', Asked(s.req, Content[n]), n > s.base
      PROVE  \/ Live(n, n) \in Elems(s.sent)
             \/ n > s.last /\ Live(n, n) \in InFlight(s)'
             \/ "encode" \in Faults /\ \E e \in Elems(s.sent) : e.env < n /\ n <= e.seq
  <2>1. CASE n \in held
    BY <1>3, <2>1, EmitInFlight, ZenonT(30) DEF Complete, AskedOf
  <2>2. CASE n \notin held
    <3>1. n = seq + 1 /\ seq \in Nat /\ Live(n, n) \in InFlight(s)'
      BY <2>2, EmitTypes, EmitInFlight, SMTT(30), Zenon
    <3>2. CASE s.sent = <<>>
      <4>1. s.last = 0
        BY <1>1, <3>2 DEF SentInv
      <4> QED
        BY <3>1, <4>1, SMTT(30), Zenon
    <3>3. CASE s.sent # <<>>
      <4> DEFINE e == s.sent[Len(s.sent)]
      <4>1. Len(s.sent) \in DOMAIN s.sent /\ s.last = e.seq
        BY <1>1, <3>3, LastSent, ZenonT(30), SMTT(30)
      <4>2. e \in LiveEnvelope /\ Emitted(e) /\ e \in Elems(s.sent)
        BY <1>1, <1>2, <4>1, Envelopes, ZenonT(30) DEF SentInv, Elems
      <4> HIDE DEF e
      <4>3. e.env < n /\ ("encode" \notin Faults => e.seq < n)
        BY <3>1, <4>2, EmittedKept, SMTT(30), Zenon
      <4>4. n > s.last \/ n <= e.seq
        BY <1>2, <3>1, <4>1, SMTT(30), Zenon
      <4>5. e.seq < n => n > s.last
        BY <1>2, <3>1, <4>1
      <4> QED
        BY <3>1, <4>2, <4>3, <4>4, <4>5, ZenonT(30)
    <3> QED
      BY <3>2, <3>3, SMTT(30), Zenon
  <2> QED
    BY <2>1, <2>2
<1>4. sub'[c] = s
  BY <1>1
<1> HIDE DEF s
<1> QED
  BY <1>3, <1>4, ZenonT(30) DEF Complete, AskedOf, s

LEMMA EmitClient ==
  ASSUME RInv, Emits, NEW c \in Readers
  PROVE  ClientInv(sub[c], rd[c])'
<1>1. ClientInv(sub[c], rd[c]) /\ sub' = sub /\ rd' = rd /\ up' = up
  BY DEF RInv, Emits
<1>2. ChannelInv(sub[c])' /\ SentInv(sub[c])'
  BY EmitChannel
<1>3. ASSUME rd[c].pc \in {"scan", "read", "ok"}, ReplayInv(sub[c], rd[c])
      PROVE  ReplayInv(sub[c], rd[c])'
  <2>1. Caught(rd[c])'
    BY <1>3, EmitCaught DEF ReplayInv
  <2>2. sub[c].drops = 0 =>
          \A n \in held' : rd[c].hi < n => Live(n, n) \in InFlight(sub[c])'
    BY <1>3, EmitInFlight, ZenonT(30) DEF ReplayInv
  <2> QED
    BY <1>1, <1>3, <2>1, <2>2, ZenonT(30) DEF ReplayInv
<1>4. Complete(sub[c]) => Complete(sub[c])'
  BY EmitComplete, SMTT(30), Zenon
<1> QED
  BY <1>1, <1>2, <1>3, <1>4, ZenonT(30) DEF ClientInv

LEMMA EmitsStep ==
  ASSUME RInv, Emits, WalInv', liveSeq' \in Nat, "encode" \notin Faults => liveSeq' <= seq'
  PROVE  RInv'
<1>1. \A c \in Readers : ClientInv(sub[c], rd[c])'
  BY EmitClient, SMTT(30), Zenon
<1>2. TypeOK' /\ up'
  BY SMTT(30), Zenon DEF WalInv, IInv, Emits
<1>3. RTypeOK'
  BY <1>2, SMTT(30), Zenon DEF RInv, RTypeOK, Emits
<1>4. WriterInv'
  BY <1>2 DEF WriterInv, Emits
<1> QED
  BY <1>1, <1>3, <1>4, SMTT(30), Zenon DEF RInv

LEMMA EmitLive ==
  ASSUME NEW n \in Nat, NEW id \in 0..MaxSeq
  PROVE  /\ Live(n, id) \in LiveEnvelope /\ Live(n, id).seq = n /\ Live(n, id).env = id
BY DEF Live, LiveEnvelope

(* An append, with or without an error, and the fallback.                  *)
LEMMA EmitWrittenStep ==
  ASSUME RInv, EmitAppend \/ EmitFallback
  PROVE  RInv'
<1>1. /\ WalInv /\ TypeOK /\ liveSeq \in Nat /\ ("encode" \notin Faults => liveSeq <= seq)
  BY DEF RInv, RTypeOK, WriterInv
<1>2. /\ Appends /\ pend = NoEnv /\ sub' = sub
      /\ \/ liveSeq' = seq' /\ pend' = Live(seq', seq')
         \/ liveSeq' = liveSeq + 1 /\ pend' = Live(liveSeq + 1, seq') /\ held' = held
  BY Zenon DEF EmitAppend, EmitFallback, Appends, AppendWriteFails, AppendRotateFails
<1>3. /\ up /\ up' /\ rd' = rd /\ seq < MaxSeq /\ seq' = seq + 1
      /\ Wrote /\ cur \in DOMAIN files
      /\ \A n \in held' : n \in held \/ n = seq + 1
  BY <1>1, <1>2, AppendEffect, SMTT(30), Zenon
<1>4. WalInv'
  BY <1>1, <1>2, AppendWal, SMTT(30), Zenon
<1>5. seq \in Nat /\ seq + 1 \in 0..MaxSeq /\ seq + 1 \in Nat /\ liveSeq + 1 \in Nat
  BY <1>1, <1>3, Types, WalConstants, SMTT(30), Zenon
<1>6. ASSUME NEW f \in DOMAIN files, NEW k \in DOMAIN files'[f].good
      PROVE  \/ k \in DOMAIN files[f].good /\ files'[f].good[k] = files[f].good[k]
             \/ k = Len(files[f].good) + 1
  BY <1>3, Zenon DEF Wrote
<1>7. CASE liveSeq' = seq' /\ pend' = Live(seq', seq')
  <2>1. /\ pend' \in LiveEnvelope /\ pend'.seq = seq + 1 /\ pend'.env = seq + 1
        /\ pend' = Live(seq + 1, seq + 1)
    BY <1>3, <1>5, <1>7, EmitLive, SMTT(30), Zenon
  <2>2. Emitted(pend)'
    BY <1>3, <1>5, <2>1 DEF Emitted
  <2>3. Emits
    BY <1>2, <1>3, <1>6, <2>1, <2>2, Zenon DEF Emits
  <2>4. liveSeq' \in Nat /\ liveSeq' <= seq'
    BY <1>3, <1>5, <1>7, SMTT(30), Zenon
  <2> QED
    BY <1>4, <2>3, <2>4, EmitsStep, SMTT(30), Zenon
<1>8. CASE liveSeq' = liveSeq + 1 /\ pend' = Live(liveSeq + 1, seq') /\ held' = held
  <2>1. /\ pend' \in LiveEnvelope /\ pend'.seq = liveSeq + 1 /\ pend'.env = seq + 1
    BY <1>3, <1>5, <1>8, EmitLive
  <2>2. "encode" \notin Faults => liveSeq + 1 <= seq + 1
    BY <1>1, <1>5
  <2>3. seq + 1 <= seq + 1
    BY <1>5
  <2>4. Emitted(pend)'
    BY <1>3, <2>1, <2>2, <2>3, Zenon DEF Emitted
  <2>5. Emits
    BY <1>2, <1>3, <1>6, <1>8, <2>1, <2>4, Zenon DEF Emits
  <2>6. liveSeq' \in Nat /\ ("encode" \notin Faults => liveSeq' <= seq')
    BY <1>3, <1>5, <1>8, <2>2, Zenon
  <2> QED
    BY <1>4, <2>5, <2>6, EmitsStep, SMTT(30), Zenon
<1> QED
  BY <1>2, <1>7, <1>8

LEMMA EmitUnencodableStep ==
  ASSUME RInv, EmitUnencodable
  PROVE  RInv'
<1>1. /\ WalInv /\ IInv /\ TypeOK /\ liveSeq \in Nat
  BY DEF RInv, RTypeOK, WalInv
<1>2. /\ up /\ pend = NoEnv /\ "encode" \in Faults /\ liveSeq' = liveSeq + 1
      /\ pend' = Live(liveSeq + 1, 0) /\ UNCHANGED vars /\ sub' = sub
  BY DEF EmitUnencodable
<1>3. /\ up' = up /\ rd' = rd /\ seq' = seq /\ files' = files /\ held' = held
  BY <1>2 DEF vars
<1>4. WalInv'
  BY <1>1, <1>2, <1>3, StutterStep, SameRecords, SMTT(30), Zenon
<1>5. liveSeq + 1 \in Nat /\ liveSeq + 1 # 0 /\ 0 \in 0..MaxSeq /\ seq \in Nat
  BY <1>1, Types, WalConstants, SMTT(30), Zenon
<1>6. pend' \in LiveEnvelope /\ pend'.seq = liveSeq + 1 /\ pend'.env = 0
  BY <1>2, <1>5, EmitLive, SMTT(30), Zenon
<1>7. Emitted(pend)'
  BY <1>2, <1>3, <1>5, <1>6 DEF Emitted
<1>8. Emits
  BY <1>2, <1>3, <1>5, <1>6, <1>7, Zenon DEF Emits
<1> QED
  BY <1>2, <1>4, <1>5, <1>8, EmitsStep, SMTT(30), Zenon

LEMMA BroadcastStep ==
  ASSUME RInv, Broadcast
  PROVE  RInv'
<1>1. /\ RTypeOK /\ WalInv /\ IInv /\ WriterInv /\ sub \in [Readers -> Call]
      /\ pend \in LiveEnvelope /\ Buffer \in Nat
  BY ReExportConstants DEF RInv, RTypeOK, WalInv
<1>2. /\ up /\ pend # NoEnv /\ pend' = NoEnv /\ UNCHANGED vars /\ liveSeq' = liveSeq
      /\ sub' = [c \in Readers |-> IF c \in Registered THEN Offer(sub[c], pend) ELSE sub[c]]
  BY DEF Broadcast
<1>3. /\ up' = up /\ rd' = rd /\ seq' = seq /\ files' = files /\ held' = held
  BY <1>2 DEF vars
<1>4. WalInv'
  BY <1>1, <1>2, <1>3, StutterStep, SameRecords, SMTT(30), Zenon
<1>5. seq \in Nat /\ NoEnv \in LiveEnvelope /\ NoEnv.env = 0 /\ NoEnv.seq = 0
  BY <1>1, Types, WalConstants, SMTT(30), Zenon DEF IInv, NoEnv, Live, LiveEnvelope
<1>6. WriterInv'
  BY <1>1, <1>2, <1>3, <1>5, SMTT(30), Zenon DEF WriterInv, Emitted
<1>7. ASSUME NEW c \in Readers
      PROVE  /\ sub'[c] \in Call /\ Len(sub'[c].ch) <= Buffer
             /\ ClientInv(sub[c], rd[c])'
  <2> DEFINE s == sub[c]
             t == sub'[c]
             q == Append(s.ch, pend)
  <2>1. /\ s \in Call /\ ClientInv(s, rd[c]) /\ ChannelInv(s) /\ SentInv(s)
        /\ Len(s.ch) <= Buffer /\ s.ch \in Seq(LiveEnvelope) /\ s.drops \in Nat
    BY <1>1, CallFields, ZenonT(30) DEF RInv, RTypeOK, ClientInv
  <2>2. CASE s.pc = "off"
    <3>1. t = s /\ s = Off
      BY <1>2, <2>1, <2>2, Zenon DEF Registered, ClientInv
    <3>2. Off.ch = <<>> /\ DOMAIN Off.ch = {} /\ Off.pc = "off"
      BY DEF Off
    <3>3. ChannelInv(sub[c])'
      BY <3>1, <3>2, Zenon DEF ChannelInv
    <3>4. SentInv(sub[c])'
      BY <1>3, <2>1, <3>1, ZenonT(30) DEF SentInv, Emitted
    <3>5. ClientInv(sub[c], rd[c])'
      BY <1>3, <2>1, <3>1, <3>2, <3>3, <3>4, ZenonT(30) DEF ClientInv
    <3> QED
      BY <2>1, <3>1, <3>5, ZenonT(30)
  <2>3. CASE s.pc # "off"
    <3>1. t = (IF Len(s.ch) < Buffer THEN [s EXCEPT !.ch = q] ELSE [s EXCEPT !.drops = @ + 1])
      BY <1>2, <2>3, SMTT(30), Zenon DEF Registered, Offer
    <3>2. /\ q \in Seq(LiveEnvelope) /\ Len(q) = Len(s.ch) + 1 /\ Len(s.ch) \in Nat
          /\ DOMAIN q = 1..(Len(s.ch) + 1) /\ DOMAIN s.ch = 1..Len(s.ch)
          /\ q[Len(s.ch) + 1] = pend /\ \A i \in DOMAIN s.ch : q[i] = s.ch[i]
      BY <1>1, <2>1
    <3> HIDE DEF q, s, t
    <3>3. /\ t \in Call /\ t.pc = s.pc /\ t.req = s.req /\ t.sent = s.sent /\ t.last = s.last
          /\ t.base = s.base /\ t.cursor = s.cursor
          /\ \/ Len(s.ch) < Buffer /\ t.ch = q /\ t.drops = s.drops
             \/ t.ch = s.ch /\ t.drops # 0
      <4>1. CASE Len(s.ch) < Buffer /\ t = [s EXCEPT !.ch = q]
        BY <2>1, <3>2, <4>1, Zenon DEF Call
      <4>2. CASE t = [s EXCEPT !.drops = @ + 1]
        <5>1. s.drops + 1 \in Nat /\ s.drops + 1 # 0
          BY <2>1, SMTT(30), Zenon
        <5> QED
          BY <2>1, <4>2, <5>1, SMTT(30), Zenon DEF Call
      <4> QED
        BY <3>1, <4>1, <4>2
    <3>4. Len(t.ch) <= Buffer
      BY <1>1, <2>1, <3>2, <3>3, SMTT(30), Zenon
    <3>5. \A i \in DOMAIN q : i \in DOMAIN s.ch \/ (i = Len(s.ch) + 1 /\ q[i] = pend)
      BY <3>2
    <3>6. /\ \A i \in DOMAIN s.ch : Emitted(s.ch[i]) /\ Before(s.ch[i], pend)
          /\ \A i, j \in DOMAIN s.ch : i < j => Before(s.ch[i], s.ch[j])
          /\ Emitted(pend)
      BY <1>1, <1>2, <2>1, Zenon DEF ChannelInv, WriterInv
    <3>7. \A i \in DOMAIN t.ch : Emitted(t.ch[i])
      BY <3>2, <3>3, <3>5, <3>6, Zenon
    <3>8. \A i, j \in DOMAIN t.ch : i < j => Before(t.ch[i], t.ch[j])
      <4>1. CASE t.ch = s.ch
        BY <3>6, <4>1, Zenon
      <4>2. CASE t.ch = q
        <5> SUFFICES ASSUME NEW i \in DOMAIN q, NEW j \in DOMAIN q, i < j
                     PROVE  Before(q[i], q[j])
          BY <4>2, SMTT(30), Zenon
        <5>1. i \in DOMAIN s.ch /\ q[i] = s.ch[i]
          BY <3>2
        <5> QED
          BY <3>2, <3>5, <3>6, <5>1, Zenon
      <4> QED
        BY <3>3, <4>1, <4>2
    <3>9. ChannelInv(sub[c])'
      BY <1>2, <1>3, <3>7, <3>8, Zenon DEF ChannelInv, Emitted, Before, t
    <3>10. SentInv(sub[c])'
      BY <1>3, <2>1, <3>3, Zenon DEF SentInv, Emitted, t
    <3>11. t.drops = 0 => s.drops = 0 /\ \A e \in InFlight(s) : e \in InFlight(sub[c])'
      <4> SUFFICES ASSUME t.drops = 0, NEW e \in InFlight(s)
                   PROVE  s.drops = 0 /\ e \in Elems(t.ch)
        BY <3>3, SMTT(30), Zenon DEF InFlight, t
      <4>1. t.ch = q /\ s.drops = 0
        BY <3>3
      <4>2. e \in Elems(s.ch) \/ e = pend
        BY SMTT(30), Zenon DEF InFlight
      <4>3. CASE e = pend
        BY <3>2, <4>1, <4>3, SMTT(30), Zenon DEF Elems
      <4>4. CASE e \in Elems(s.ch)
        <5>1. PICK i \in DOMAIN s.ch : e = s.ch[i]
          BY <4>4 DEF Elems
        <5> QED
          BY <3>2, <4>1, <5>1, SMTT(30), Zenon DEF Elems
      <4> QED
        BY <4>2, <4>3, <4>4, SMTT(30), Zenon
    <3>12. ReplayInv(s, rd[c]) => ReplayInv(sub[c], rd[c])'
      <4>1. Caught(rd[c]) => Caught(rd[c])'
        BY <1>3, Zenon DEF Caught
      <4> QED
        BY <1>3, <3>3, <3>11, <4>1, Zenon DEF ReplayInv, t
    <3>13. t.drops = 0 /\ Complete(s) => Complete(sub[c])'
      BY <1>3, <3>3, <3>11, Zenon DEF Complete, AskedOf, t
    <3>14. s.drops # 0 => t.drops # 0
      BY <3>3
    <3>15. ClientInv(sub[c], rd[c])'
      BY <1>3, <2>1, <2>3, <3>3, <3>9, <3>10, <3>11, <3>12, <3>13, ZenonT(30) DEF ClientInv, t
    <3> QED
      BY <3>3, <3>4, <3>15, Zenon DEF t
  <2> QED
    BY <2>2, <2>3, SMTT(30), Zenon
<1>8. RTypeOK'
  <2>1. TypeOK' /\ sub' \in [Readers -> Call]
    BY <1>2, <1>4, <1>7, SMTT(30), Zenon DEF WalInv, IInv
  <2> QED
    BY <1>1, <1>2, <1>5, <1>7, <2>1, SMTT(30), Zenon DEF RTypeOK
<1> QED
  BY <1>4, <1>6, <1>7, <1>8, SMTT(30), Zenon DEF RInv

-----------------------------------------------------------------------------
(* The janitor, the process and the whole.                                 *)

LEMMA JanitorStep ==
  ASSUME RInv, Janitor
  PROVE  RInv'
<1>1. /\ RTypeOK /\ WalInv /\ IInv /\ WriterInv /\ \A c \in Readers : ClientInv(sub[c], rd[c])
  BY SMTT(30), Zenon DEF RInv, WalInv
<1>2. /\ GC \/ Tick
      /\ UNCHANGED <<up, seq, files, held, rd>> /\ UNCHANGED <<liveSeq, pend, sub>>
  BY Zenon DEF Janitor, GC, Tick, memory, disk
<1>3. IInv'
  BY <1>1, <1>2, GCStep, TickStep, SMTT(30), Zenon
<1>4. WalInv'
  BY <1>1, <1>2, <1>3, SameRecords
<1>5. \A c \in Readers : ClientInv(sub[c], rd[c])'
  BY <1>1, <1>2, ClientKept, Zenon
<1>6. RTypeOK' /\ WriterInv'
  BY <1>1, <1>2, <1>3, SMTT(30), Zenon DEF RTypeOK, WriterInv, Emitted, IInv
<1> QED
  BY <1>4, <1>5, <1>6, SMTT(30), Zenon DEF RInv

(* No process, no call.                                                    *)
LEMMA OffKept ==
  ASSUME NEW c \in Readers, sub'[c] = Off, rd'[c].pc = "idle"
  PROVE  ClientInv(sub[c], rd[c])'
<1>1. /\ Off.pc = "off" /\ Off.ch = <<>> /\ Off.sent = <<>> /\ Off.last = 0
  BY SMTT(30), Zenon DEF Off
<1>2. DOMAIN sub'[c].ch = {} /\ DOMAIN sub'[c].sent = {} /\ sub'[c].sent = <<>> /\ sub'[c].last = 0
  <2>1. DOMAIN <<>> = {}
    OBVIOUS
  <2> QED
    BY <1>1, <2>1, Zenon
<1>3. ChannelInv(sub[c])'
  BY <1>2, Zenon DEF ChannelInv
<1>4. SentInv(sub[c])'
  BY <1>2, ZenonT(30) DEF SentInv
<1> QED
  BY <1>1, <1>3, <1>4, ZenonT(30) DEF ClientInv

LEMMA StartStep ==
  ASSUME RInv, Start
  PROVE  RInv'
<1>1. /\ RTypeOK /\ WalInv /\ WriterInv /\ \A c \in Readers : ClientInv(sub[c], rd[c])
  BY SMTT(30), Zenon DEF RInv
<1>2. Open /\ ~up /\ UNCHANGED <<liveSeq, pend, sub>>
  BY DEF Start, Open
<1>3. WalInv' /\ up' /\ rd' = rd
  BY <1>1, <1>2, OpenWal, SMTT(30), Zenon
<1>4. \A c \in Readers : sub'[c] = Off /\ rd'[c].pc = "idle"
  BY <1>1, <1>2, <1>3, Zenon DEF ClientInv
<1>5. \A c \in Readers : ClientInv(sub[c], rd[c])'
  BY <1>4, OffKept, SMTT(30), Zenon
<1>6. TypeOK' /\ seq' \in Nat
  BY <1>3, TypesNext, SMTT(30), Zenon DEF WalInv, IInv
<1>7. RTypeOK'
  BY <1>1, <1>2, <1>6, SMTT(30), Zenon DEF RTypeOK
<1>8. WriterInv'
  BY <1>1, <1>2, <1>3, <1>6, SMTT(30), Zenon DEF WriterInv, Emitted, NoEnv, Live
<1> QED
  BY <1>3, <1>5, <1>7, <1>8, SMTT(30), Zenon DEF RInv

LEMMA ExitStep ==
  ASSUME RInv, Exit
  PROVE  RInv'
<1>1. WalInv
  BY DEF RInv
<1>2. /\ Close \/ CrashInAppend
      /\ liveSeq' = 0 /\ pend' = NoEnv /\ sub' = [c \in Readers |-> Off]
  BY DEF Exit
<1>3. WalInv' /\ rd' = [r \in Readers |-> Idle]
  BY <1>1, <1>2, ForgetWal, SMTT(30), Zenon
<1>4. \A c \in Readers : sub'[c] = Off /\ rd'[c].pc = "idle"
  BY <1>2, <1>3, SMTT(30), Zenon DEF Idle
<1>5. \A c \in Readers : ClientInv(sub[c], rd[c])'
  BY <1>4, OffKept
<1>6. TypeOK' /\ seq' \in Nat
  BY <1>3, TypesNext, SMTT(30), Zenon DEF WalInv, IInv
<1>7. NoEnv \in LiveEnvelope /\ NoEnv.env = 0 /\ NoEnv.seq = 0 /\ 0 \in Nat
  BY WalConstants DEF NoEnv, Live, LiveEnvelope
<1>8. RTypeOK'
  <2>1. sub' \in [Readers -> Call]
    BY <1>2, OffTyped, SMTT(30), Zenon
  <2>2. \A c \in Readers : Len(sub'[c].ch) <= Buffer
    BY <1>4, ReExportConstants, SMTT(30), Zenon DEF Off
  <2> QED
    BY <1>2, <1>6, <1>7, <2>1, <2>2, SMTT(30), Zenon DEF RTypeOK
<1>9. WriterInv'
  BY <1>2, <1>6, <1>7, SMTT(30), Zenon DEF WriterInv, Emitted
<1> QED
  BY <1>3, <1>5, <1>8, <1>9, SMTT(30), Zenon DEF RInv

LEMMA RInitHolds == RInit => RInv
<1> SUFFICES ASSUME RInit PROVE RInv
  OBVIOUS
<1>1. /\ Init /\ liveSeq = 0 /\ pend = NoEnv /\ sub = [c \in Readers |-> Off]
  BY DEF RInit
<1>2. IInv /\ TypeOK
  BY <1>1, InitHolds, SMTT(30), Zenon DEF IInv
<1>3. WalInv
  BY <1>1, <1>2, WalConstants, SMTT(30), Zenon DEF WalInv, FilesNamed, Gapless, Init, None
<1>4. NoEnv \in LiveEnvelope /\ NoEnv.env = 0 /\ NoEnv.seq = 0
  BY WalConstants DEF NoEnv, Live, LiveEnvelope
<1>5. RTypeOK
  <2>1. sub \in [Readers -> Call]
    BY <1>1, OffTyped, SMTT(30), Zenon
  <2>2. \A c \in Readers : Len(sub[c].ch) <= Buffer
    BY <1>1, ReExportConstants, SMTT(30), Zenon DEF Off
  <2> QED
    BY <1>1, <1>2, <1>4, <2>1, <2>2, SMTT(30), Zenon DEF RTypeOK
<1>6. WriterInv
  BY <1>1, <1>4, SMTT(30), Zenon DEF WriterInv, Emitted, Init
<1>7. \A c \in Readers : sub[c] = Off /\ rd[c].pc = "idle"
  BY <1>1, SMTT(30), Zenon DEF Init, Idle
<1>8. \A c \in Readers : ClientInv(sub[c], rd[c])
  BY <1>7, OffClient, SMTT(30), Zenon
<1> QED
  BY <1>3, <1>5, <1>6, <1>8, SMTT(30), Zenon DEF RInv

LEMMA RStutter ==
  ASSUME RInv, UNCHANGED rvars
  PROVE  RInv'
<1>1. /\ RTypeOK /\ WalInv /\ IInv /\ WriterInv /\ \A c \in Readers : ClientInv(sub[c], rd[c])
  BY DEF RInv, WalInv
<1>2. UNCHANGED vars /\ UNCHANGED <<liveSeq, pend, sub>>
  BY DEF rvars
<1>3. UNCHANGED <<up, seq, files, held, rd>>
  BY <1>2, SMTT(30), Zenon DEF vars
<1>4. IInv'
  BY <1>1, <1>2, StutterStep, SMTT(30), Zenon
<1>5. WalInv'
  BY <1>1, <1>3, <1>4, SameRecords
<1>6. \A c \in Readers : ClientInv(sub[c], rd[c])'
  BY <1>1, <1>2, <1>3, ClientKept, Zenon
<1>7. RTypeOK' /\ WriterInv'
  BY <1>1, <1>2, <1>3, <1>4, SMTT(30), Zenon DEF RTypeOK, WriterInv, Emitted, IInv
<1> QED
  BY <1>5, <1>6, <1>7, SMTT(30), Zenon DEF RInv

LEMMA RNextStep == RInv /\ [RNext]_rvars => RInv'
<1> SUFFICES ASSUME RInv, [RNext]_rvars PROVE RInv'
  OBVIOUS
<1>1. CASE EmitAppend \/ EmitFallback
  BY <1>1, EmitWrittenStep
<1>2. CASE EmitUnencodable
  BY <1>2, EmitUnencodableStep
<1>3. CASE Broadcast
  BY <1>3, BroadcastStep
<1>4. ASSUME NEW c \in Readers, Client(c)
      PROVE  RInv'
  BY <1>4, SubscribeStep, ReplayStartStep, ReplayScanStep, ReplaySendStep, ReplayDoneStep,
     LiveRecvStep, ReturnStep, Zenon DEF Client
<1>5. CASE Janitor
  BY <1>5, JanitorStep
<1>6. CASE Start
  BY <1>6, StartStep
<1>7. CASE Exit
  BY <1>7, ExitStep
<1>8. CASE UNCHANGED rvars
  BY <1>8, RStutter
<1> QED
  BY <1>1, <1>2, <1>3, <1>4, <1>5, <1>6, <1>7, <1>8, Zenon DEF RNext

(* The invariant of the re-export path holds for every number of clients,  *)
(* buffer size, fault set and restart.                                     *)
THEOREM RInvariance == RSpec => []RInv
BY RInitHolds, RNextStep, PTL DEF RSpec

(* Every variable keeps its type, and broadcast never fills a live channel *)
(* beyond the buffer registerSubscriber gave it.                           *)
THEOREM RTypeCorrect == RSpec => []RTypeOK
<1>1. RInv => RTypeOK
  BY SMTT(30), Zenon DEF RInv
<1> QED
  BY <1>1, RInvariance, PTL

(* Subscribe sends strictly increasing seqs, from the replay, across the   *)
(* hand-over and from the live channel, whatever appends fail.             *)
THEOREM SendsInOrder == RSpec => []SentIncreasing
<1>1. RInv => SentIncreasing
  BY ZenonT(30) DEF RInv, ClientInv, SentInv, SentIncreasing
<1> QED
  BY <1>1, RInvariance, PTL

(* Subscribe sends only what the request asks for.                         *)
THEOREM SendsAsked == RSpec => []SentAsked
<1>1. RInv => SentAsked
  BY ZenonT(30) DEF RInv, ClientInv, SentInv, SentAsked
<1> QED
  BY <1>1, RInvariance, PTL

(* The hand-over from the replay to the live channel loses nothing: a      *)
(* client whose channel never overflowed was sent, or will be sent, every  *)
(* record above the point it attached at that it asked for.                *)
THEOREM HandsOver == RSpec => []HandOverComplete
<1>1. RInv => HandOverComplete
  BY Zenon DEF RInv, ClientInv, HandOverComplete
<1> QED
  BY <1>1, RInvariance, PTL
=============================================================================
