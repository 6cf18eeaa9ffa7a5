-------------------------- MODULE ChunkFetch_proof --------------------------
(***************************************************************************)
(* What fetch() guarantees for every set of images, colliding ones too,    *)
(* every bound and whether or not the air is ever quiet: types, that it    *)
(* resolves with one whole payload, and that it keeps the chunks it has.   *)
(***************************************************************************)
EXTENDS ChunkFetch, FiniteSetTheorems, WellFoundedInduction, TLAPS

\* The buffers a client may own: none yet, or one sized for a payload.
Buffers == {Blank(0)} \cup (UNION {[Idx(v) -> Bytes] : v \in Image})

\* What a ChunkClient consists of.
ClientRecord == [man : Bytes, buf : Buffers, have : SUBSET AllIdx,
                 gone : BOOLEAN, busy : BOOLEAN]

\* A client has chunks of the payload it has the manifest of, and no others.
ClientOK(k) ==
  /\ k \in ClientRecord
  /\ k.man = None => k.have = {}
  /\ k.man # None => k.buf \in [Idx(k.man) -> Bytes] /\ k.have \subseteq Idx(k.man)

StoredFiles == [buf : Buffers \cup {None},
                meta : {None} \cup [crc : Image, have : SUBSET AllIdx]]

-----------------------------------------------------------------------------
(* The client and its store.                                               *)

\* A payload has chunks, an id and a buffer of its own size.
LEMMA ImageFacts ==
  ASSUME NEW v \in Image
  PROVE  /\ Count[v] \in Nat \ {0} /\ Pid[v] \in Pids /\ v # None
         /\ Idx(v) \subseteq AllIdx /\ AllIdx \subseteq Nat
         /\ IsFiniteSet(Idx(v))
         /\ [Idx(v) -> Bytes] \subseteq Buffers
  <1>1. Count[v] \in Nat \ {0} /\ v # None BY ImageAssumption
  <1>2. IsFiniteSet(0 .. Count[v] - 1) BY <1>1, FS_Interval
  <1>3. AllIdx \subseteq Nat
    BY ImageAssumption DEF AllIdx, Idx
  <1> QED BY <1>1, <1>2, <1>3 DEF Pids, AllIdx, Idx, Buffers

\* reset(): a new client is in order.
LEMMA NewClientOK == ClientOK(NewClient)
  BY DEF NewClient, ClientOK, ClientRecord, Buffers, Bytes

\* A client that adopts a manifest is in order.
LEMMA AdoptOK ==
  ASSUME NEW k, ClientOK(k), NEW v \in Image
  PROVE  ClientOK(Adopt(k, v)) /\ Adopt(k, v).man = v
  <1>1. v # None /\ [Idx(v) -> Bytes] \subseteq Buffers BY ImageFacts
  <1>2. Blank(Count[v]) \in [Idx(v) -> Bytes] BY DEF Blank, Idx, Bytes
  <1> DEFINE k2 == Adopt(k, v)
  <1>3. k2 \in ClientRecord
    BY <1>1, <1>2 DEF Adopt, ClientOK, ClientRecord, Bytes
  <1>4. k2.man = v /\ k2.have = {} /\ k2.buf = Blank(Count[v])
    BY DEF Adopt, ClientOK, ClientRecord
  <1> QED BY <1>1, <1>2, <1>3, <1>4 DEF ClientOK

\* What a chunk that belongs does to the client.
Filled(k, i, v) == [k EXCEPT !.buf[i] = v, !.have = @ \cup {i}]

\* A chunk that belongs to the manifest adds to what a client has.
LEMMA FilledOK ==
  ASSUME NEW k, ClientOK(k), NEW v \in Image, NEW i, Belongs(k, i, v)
  PROVE  /\ ClientOK(Filled(k, i, v))
         /\ Filled(k, i, v).man = k.man
         /\ k.have \subseteq Filled(k, i, v).have
  <1>1. /\ k.man \in Image /\ k.man # None /\ i \in Idx(k.man)
        /\ k.buf \in [Idx(k.man) -> Bytes] /\ k.have \subseteq Idx(k.man)
    BY DEF Belongs, ClientOK, ClientRecord, Bytes
  <1>2. Idx(k.man) \subseteq AllIdx /\ [Idx(k.man) -> Bytes] \subseteq Buffers
    BY <1>1, ImageFacts
  <1> DEFINE k2 == Filled(k, i, v)
  <1>3. k2.man = k.man /\ k2.have = k.have \cup {i}
        /\ k2.buf = [k.buf EXCEPT ![i] = v]
    BY DEF Filled, ClientOK, ClientRecord
  <1>4. k2.buf \in [Idx(k.man) -> Bytes] BY <1>1, <1>3 DEF Bytes
  <1>5. k2 \in ClientRecord
    <2>1. k2 = [k EXCEPT !.buf = k2.buf, !.have = k2.have]
      BY <1>3 DEF Filled, ClientOK, ClientRecord
    <2>2. k2.have \in SUBSET AllIdx BY <1>1, <1>2, <1>3
    <2> HIDE DEF k2
    <2> QED BY <1>2, <1>4, <2>1, <2>2 DEF ClientOK, ClientRecord
  <1> QED BY <1>1, <1>3, <1>4, <1>5 DEF ClientOK

\* onFrame(), whatever the frame: the client stays in order, keeps its manifest
\* or takes another, and keeps its chunks with its manifest.
LEMMA OnFrameOK ==
  ASSUME NEW k, ClientOK(k), NEW f \in Frames
  PROVE  /\ ClientOK(OnFrame(k, f))
         /\ k.man # None => OnFrame(k, f).man # None
         /\ OnFrame(k, f).man = k.man => k.have \subseteq OnFrame(k, f).have
  <1>1. CASE f \in {Manifest(v) : v \in Image}
    <2>1. PICK v \in Image : f = Manifest(v) BY <1>1
    <2>2. f.type = "manifest" /\ f.image = v BY <2>1 DEF Manifest
    <2>3. OnFrame(k, f) = IF IsRepeat(k, v) THEN k ELSE Adopt(k, v)
      BY <2>2 DEF OnFrame
    <2>4. v # None /\ ClientOK(Adopt(k, v)) /\ Adopt(k, v).man = v
      BY AdoptOK, ImageFacts
    <2>5. ASSUME ~IsRepeat(k, v), k.man = v
          PROVE  FALSE
      BY <2>4, <2>5 DEF IsRepeat, SamePid, SameShape
    <2> QED BY <2>3, <2>4, <2>5
  <1>2. CASE f \in UNION {{Chunk(i, v) : i \in Idx(v)} : v \in Image}
    <2>1. PICK v \in Image : \E i \in Idx(v) : f = Chunk(i, v) BY <1>2
    <2>0. PICK i \in Idx(v) : f = Chunk(i, v) BY <2>1
    <2>2. f.type = "chunk" /\ f.idx = i /\ f.image = v BY <2>0 DEF Chunk
    <2>3. OnFrame(k, f) = IF Belongs(k, i, v) THEN Filled(k, i, v) ELSE k
      BY <2>2 DEF OnFrame, Filled
    <2> QED BY <2>3, FilledOK
  <1>3. CASE f \in {Gone(p) : p \in Pids}
    <2>1. f.type = "gone" BY <1>3 DEF Gone
    <2>2. OnFrame(k, f) = [k EXCEPT !.gone = TRUE] BY <2>1 DEF OnFrame
    <2> QED BY <2>2 DEF ClientOK, ClientRecord
  <1>4. CASE f \in {Busy(p) : p \in Pids}
    <2>1. f.type = "busy" BY <1>4 DEF Busy
    <2>2. OnFrame(k, f) = [k EXCEPT !.busy = TRUE] \/ OnFrame(k, f) = k
      BY <2>1 DEF OnFrame
    <2> QED BY <2>2 DEF ClientOK, ClientRecord
  <1> QED BY <1>1, <1>2, <1>3, <1>4 DEF Frames

\* seed(): with the manifest, and whatever the two files hold.
LEMMA SeedOK ==
  ASSUME NEW k, ClientOK(k), k.man # None, NEW s \in StoredFiles, HasPartial(s)
  PROVE  /\ ClientOK(Seed(k, s))
         /\ Seed(k, s).man = k.man
         /\ k.have \subseteq Seed(k, s).have
  <1>1. /\ k.man \in Image
        /\ k.buf \in [Idx(k.man) -> Bytes] /\ k.have \subseteq Idx(k.man)
    BY DEF ClientOK, ClientRecord, Bytes
  <1>2. Idx(k.man) \subseteq AllIdx /\ [Idx(k.man) -> Bytes] \subseteq Buffers
    BY <1>1, ImageFacts
  <1> DEFINE k2 == Seed(k, s)
  <1>3. /\ k2.man = k.man
        /\ k2.have = k.have \cup (s.meta.have \cap Idx(k.man))
        /\ k2.buf = IF DOMAIN s.buf = Idx(k.man) THEN s.buf ELSE k.buf
    BY DEF Seed, ClientOK, ClientRecord
  <1>4. s.buf \in Buffers BY DEF StoredFiles, HasPartial
  <1>5. ASSUME DOMAIN s.buf = Idx(k.man)
        PROVE  s.buf \in [Idx(k.man) -> Bytes]
    <2>1. CASE s.buf = Blank(0)
      BY <1>5, <2>1 DEF Blank, Bytes
    <2>2. CASE s.buf \in UNION {[Idx(v) -> Bytes] : v \in Image}
      <3>1. PICK v \in Image : s.buf \in [Idx(v) -> Bytes] BY <2>2
      <3>2. Idx(v) = Idx(k.man) BY <1>5, <3>1
      <3> QED BY <3>1, <3>2
    <2> QED BY <1>4, <2>1, <2>2 DEF Buffers
  <1>6. k2.buf \in [Idx(k.man) -> Bytes] BY <1>1, <1>3, <1>5
  <1>7. k2 \in ClientRecord
    <2>1. k2 = [k EXCEPT !.buf = k2.buf, !.have = k2.have]
      BY <1>3 DEF Seed, ClientOK, ClientRecord
    <2>2. k2.have \in SUBSET AllIdx BY <1>1, <1>2, <1>3
    <2> HIDE DEF k2
    <2> QED BY <1>2, <1>6, <2>1, <2>2 DEF ClientOK, ClientRecord
  <1> QED BY <1>1, <1>3, <1>6, <1>7 DEF ClientOK

\* savePartial() and clearPartial(), also when they stop half way.
LEMMA StoreOK ==
  ASSUME NEW k, ClientOK(k), NEW s \in StoredFiles
  PROVE  /\ k.man # None => Save(k) \in StoredFiles
         /\ SaveFirst(s, k) \in StoredFiles
         /\ ClearFirst(s) \in StoredFiles
         /\ NoFiles \in StoredFiles
  BY DEF Save, SaveFirst, ClearFirst, NoFiles, StoredFiles, ClientOK,
         ClientRecord, Bytes

-----------------------------------------------------------------------------
(* The inductive invariant.                                                *)

\* The call of fetch() and what it keeps: in a window it has a manifest, and
\* when it has resolved it holds one whole payload.
CallOK ==
  /\ phase \in {"idle", "resolved", "rejected"} \cup Awaits
  /\ pid \in Pids \cup {0} /\ (Running => pid \in Pids)
  /\ ClientOK(c)
  /\ before \in Nat /\ idle \in 0 .. MaxIdle - 1
  /\ error \in Errors \cup {None}
  /\ queued \subseteq Commands
  /\ files \in [Pids -> StoredFiles]
  /\ phase \in Windows => c.man # None
  /\ phase = "resolved" => c.man # None /\ c.buf = Whole(c.man)

WorldOK == EventsTypeOK /\ up \subseteq Frames /\ held \in Image /\ evicted \subseteq Pids

\* The call and the world around it are in order.
FetchInv == CallOK /\ WorldOK

\* The chunks received stay, as long as the manifest does.
Kept == (Running /\ Running' /\ pid = pid' /\ c'.man = c.man) => c.have \subseteq c'.have

\* The invariant implies the type invariant.
LEMMA InvImpliesTypes == FetchInv => TypeOK
  BY DEF FetchInv, CallOK, WorldOK, TypeOK, ClientOK, ClientRecord

\* What leaves the call, its queue and the store alone keeps them in order.
LEMMA CallStutters ==
  ASSUME CallOK, UNCHANGED <<cvars, queued, files>>
  PROVE  CallOK' /\ Kept
  BY DEF CallOK, Kept, cvars, Running

\* enqueue() of a command.
LEMMA EnqueueOK ==
  ASSUME queued \subseteq Commands, NEW f \in Commands, Enqueue(f)
  PROVE  queued' \subseteq Commands
  BY DEF Enqueue

\* An INFO request is a command like the others.
LEMMA InfoIsCommand ==
  ASSUME NEW p \in Pids
  PROVE  Info(p) \in Commands
  BY DEF Commands

\* save() writes well-formed files.
LEMMA StoreKeeps ==
  ASSUME files \in [Pids -> StoredFiles], NEW s \in StoredFiles, Store(s)
  PROVE  files' \in [Pids -> StoredFiles]
  BY DEF Store

\* fetch() rejects.
LEMMA ThrowKeeps ==
  ASSUME CallOK, NEW why \in Errors, Throw(why), files' \in [Pids -> StoredFiles]
  PROVE  CallOK' /\ ~Running'
  <1>1. ClientOK(c') BY NewClientOK DEF Throw
  <1>2. 0 \in Nat /\ 0 \in 0 .. MaxIdle - 1 BY FetchAssumption
  <1> QED BY <1>1, <1>2 DEF Throw, CallOK, Running, Awaits, Windows

\* A round of the loop resolves, rejects or pulls; it drops no chunk.
LEMMA RoundKeeps ==
  ASSUME CallOK, Running, NEW c1, ClientOK(c1), c1.man # None,
         NEW files1 \in StoredFiles, NEW idle1 \in 0 .. MaxIdle - 1,
         Round(c1, files1, idle1)
  PROVE  CallOK' /\ (Running' => c'.have = c1.have)
  <1>0. files \in [Pids -> StoredFiles] /\ NoFiles \in StoredFiles
    BY StoreOK DEF CallOK
  <1>1. CASE c1.gone /\ Store(NoFiles) /\ Throw("gone")
    <2>1. files' \in [Pids -> StoredFiles] BY <1>0, <1>1, StoreKeeps
    <2> QED BY <1>1, <2>1, ThrowKeeps DEF Errors
  <1>2. CASE /\ IsVerified(c1) /\ Store(NoFiles)
             /\ c' = c1 /\ phase' = "resolved" /\ before' = 0 /\ idle' = 0
             /\ UNCHANGED <<pid, error, queued>>
    <2>1. files' \in [Pids -> StoredFiles] BY <1>0, <1>2, StoreKeeps
    <2>2. c1.buf = Whole(c1.man) BY <1>2 DEF IsVerified
    <2>3. 0 \in Nat /\ 0 \in 0 .. MaxIdle - 1 BY FetchAssumption
    <2> QED BY <1>2, <2>1, <2>2, <2>3 DEF CallOK, Running, Awaits, Windows
  <1>3. CASE Store(files1) /\ Throw("crc")
    <2>1. files' \in [Pids -> StoredFiles] BY <1>0, <1>3, StoreKeeps
    <2> QED BY <1>3, <2>1, ThrowKeeps DEF Errors
  <1>4. CASE /\ Store(files1)
             /\ c' = [c1 EXCEPT !.busy = FALSE]
             /\ Enqueue(Pull(Pid[c1.man], NextRun(c1, Batch)))
             /\ before' = Cardinality(c1.have) /\ idle' = idle1
             /\ phase' = "window"
             /\ UNCHANGED <<pid, error>>
    <2>1. files' \in [Pids -> StoredFiles] BY <1>0, <1>4, StoreKeeps
    <2>2. c1.man \in Image /\ c1.have \subseteq Idx(c1.man)
      BY DEF ClientOK, ClientRecord, Bytes
    <2>3. before' \in Nat
      BY <1>4, <2>2, ImageFacts, FS_Subset, FS_CardinalityType
    <2>4. Pull(Pid[c1.man], NextRun(c1, Batch)) \in Commands
      <3>1. Pid[c1.man] \in Pids /\ Idx(c1.man) \subseteq AllIdx
        BY <2>2, ImageFacts
      <3>2. NextRun(c1, Batch) \in SUBSET AllIdx BY <3>1 DEF NextRun
      <3> QED BY <3>1, <3>2 DEF Commands
    <2>5. queued' \subseteq Commands BY <1>4, <2>4, EnqueueOK DEF CallOK
    <2>6. ClientOK(c') /\ c'.man = c1.man /\ c'.have = c1.have
      BY <1>4 DEF ClientOK, ClientRecord
    <2> QED BY <1>4, <2>1, <2>3, <2>5, <2>6 DEF CallOK, Running, Awaits, Windows
  <1> QED BY <1>1, <1>2, <1>3, <1>4 DEF Round

\* So does one that the deadline may end.
LEMMA ContinueKeeps ==
  ASSUME CallOK, Running, NEW c1, ClientOK(c1), c1.man # None,
         NEW files1 \in StoredFiles, NEW idle1 \in 0 .. MaxIdle - 1,
         Continue(c1, files1, idle1)
  PROVE  CallOK' /\ (Running' => c'.have = c1.have)
  <1>1. CASE Round(c1, files1, idle1) BY <1>1, RoundKeeps
  <1>2. CASE Store(files1) /\ Throw("timeout")
    <2>1. files' \in [Pids -> StoredFiles] BY <1>2, StoreKeeps DEF CallOK
    <2> QED BY <1>2, <2>1, ThrowKeeps DEF Errors
  <1> QED BY <1>1, <1>2 DEF Continue

-----------------------------------------------------------------------------
(* One lemma per action.                                                   *)

\* fetch() starts.
LEMMA FetchKeeps ==
  ASSUME FetchInv, NEW p \in Asked, Fetch(p)
  PROVE  CallOK' /\ Kept
  <1>1. p \in Pids /\ 0 \in Nat /\ 0 \in 0 .. MaxIdle - 1 BY FetchAssumption
  <1>2. queued' \subseteq Commands
    BY <1>1, InfoIsCommand, EnqueueOK DEF Fetch, FetchInv, CallOK
  <1>3. ClientOK(c') BY NewClientOK DEF Fetch
  <1> QED BY <1>1, <1>2, <1>3
          DEF Fetch, FetchInv, CallOK, Kept, Running, Awaits, Windows

\* Resuming from the store adds to what a client has.
LEMMA ResumedOK ==
  ASSUME CallOK, Running, c.man # None
  PROVE  /\ ClientOK(Resumed(c)) /\ Resumed(c).man = c.man
         /\ c.have \subseteq Resumed(c).have
  <1>1. files[pid] \in StoredFiles /\ ClientOK(c) BY DEF CallOK
  <1> QED BY <1>1, SeedOK DEF Resumed

\* The manifest came, or the payload is gone, or the wait ran out.
LEMMA ManifestSettlesKeeps ==
  ASSUME FetchInv, ManifestSettles
  PROVE  CallOK' /\ Kept
  <1>1. CallOK /\ Running BY DEF FetchInv, ManifestSettles, Running, Awaits
  <1>2. /\ files \in [Pids -> StoredFiles] /\ files[pid] \in StoredFiles
        /\ NoFiles \in StoredFiles /\ 0 \in 0 .. MaxIdle - 1 /\ pid \in Pids
    BY <1>1, StoreOK, FetchAssumption DEF CallOK
  <1> DEFINE files1 == IF StaleFiles THEN NoFiles ELSE files[pid]
  <1>3. files1 \in StoredFiles BY <1>2
  <1> HIDE DEF files1
  <1>4. CASE c.man # None /\ Round(Resumed(c), files1, 0)
    BY <1>1, <1>2, <1>3, <1>4, ResumedOK, RoundKeeps DEF Kept
  <1>5. CASE Throw("timeout") /\ Store(files1)
    <2>1. files' \in [Pids -> StoredFiles] BY <1>2, <1>3, <1>5, StoreKeeps
    <2> QED BY <1>1, <1>5, <2>1, ThrowKeeps DEF Errors, Kept
  <1>6. CASE /\ phase' = "asked" /\ Enqueue(Info(pid))
             /\ UNCHANGED <<pid, c, before, idle, error, files>>
    <2>1. queued' \subseteq Commands
      BY <1>1, <1>2, <1>6, InfoIsCommand, EnqueueOK DEF CallOK
    <2> QED BY <1>1, <1>2, <1>6, <2>1 DEF CallOK, Kept, Running, Awaits, Windows
  <1>7. CASE Throw("timeout") /\ UNCHANGED files
    BY <1>1, <1>2, <1>7, ThrowKeeps DEF Errors, Kept
  <1> QED BY <1>4, <1>5, <1>6, <1>7 DEF ManifestSettles, files1

\* A window ends in which an answer ended the fetch.
LEMMA AnswerEndsKeeps ==
  ASSUME FetchInv, AnswerEnds
  PROVE  CallOK' /\ Kept
  <1>1. CallOK /\ Running /\ c.man # None /\ pid \in Pids
    BY DEF FetchInv, CallOK, AnswerEnds, Running, Awaits, Windows
  <1>2. /\ files \in [Pids -> StoredFiles] /\ files[pid] \in StoredFiles
        /\ ClientOK(c) /\ 0 \in 0 .. MaxIdle - 1 /\ idle \in 0 .. MaxIdle - 1
    BY <1>1, FetchAssumption DEF CallOK
  <1>3. CASE /\ phase' \in {"busy", "batch"} /\ idle' \in {idle, 0}
             /\ UNCHANGED <<pid, c, before, error, queued, files>>
    BY <1>1, <1>2, <1>3 DEF CallOK, Kept, Running, Awaits, Windows
  <1>4. CASE Throw("stalled") /\ UNCHANGED files
    BY <1>1, <1>2, <1>4, ThrowKeeps DEF Errors, Kept
  <1>5. CASE ~GivesUp(CountIdle(idle)) /\ Continue(c, files[pid], CountIdle(idle))
    <2>1. CountIdle(idle) \in 0 .. MaxIdle - 1
      BY <1>2, <1>5, FetchAssumption DEF GivesUp, CountIdle
    <2> QED BY <1>1, <1>2, <1>5, <2>1, ContinueKeeps DEF Kept
  <1> QED BY <1>3, <1>4, <1>5 DEF AnswerEnds

\* A window of requests for chunks ends.
LEMMA BatchEndsKeeps ==
  ASSUME FetchInv, BatchEnds
  PROVE  CallOK' /\ Kept
  <1>1. CallOK /\ Running /\ c.man # None
    BY DEF FetchInv, CallOK, BatchEnds, Running, Awaits, Windows
  <1>2. ClientOK(c) /\ 0 \in 0 .. MaxIdle - 1
    BY <1>1, FetchAssumption DEF CallOK
  <1>3. NoFiles \in StoredFiles BY DEF NoFiles, StoredFiles
  <1>4. Save(c) \in StoredFiles BY <1>1, <1>2, <1>3, StoreOK
  <1>5. Continue(c, Save(c), 0) BY DEF BatchEnds
  <1> QED BY <1>1, <1>2, <1>4, <1>5, ContinueKeeps DEF Kept

\* A window that waited for a busy device ends.
LEMMA BusyEndsKeeps ==
  ASSUME FetchInv, BusyEnds
  PROVE  CallOK' /\ Kept
  <1>1. CallOK /\ Running /\ c.man # None /\ pid \in Pids
    BY DEF FetchInv, CallOK, BusyEnds, Running, Awaits, Windows
  <1>2. /\ files[pid] \in StoredFiles /\ ClientOK(c) /\ 0 \in 0 .. MaxIdle - 1
    BY <1>1, FetchAssumption DEF CallOK
  <1>3. Continue(c, files[pid], 0) BY DEF BusyEnds
  <1> QED BY <1>1, <1>2, <1>3, ContinueKeeps DEF Kept

\* The process dies, whatever files it leaves.
LEMMA DieKeeps ==
  ASSUME FetchInv, Die, files' \in [Pids -> StoredFiles]
  PROVE  CallOK' /\ Kept
  <1>1. ClientOK(c') BY NewClientOK DEF Die
  <1>2. 0 \in Nat /\ 0 \in 0 .. MaxIdle - 1 /\ {} \subseteq Commands
    BY FetchAssumption
  <1> QED BY <1>1, <1>2 DEF Die, CallOK, Kept, Running, Awaits, Windows

\* The client's process ends.
LEMMA CrashKeeps ==
  ASSUME FetchInv, CrashStep
  PROVE  CallOK' /\ Kept
  <1>1. /\ CallOK /\ ClientOK(c) /\ files \in [Pids -> StoredFiles]
        /\ phase \in Windows \cup {"settle"} => pid \in Pids
        /\ phase \in Windows => c.man # None
    BY DEF FetchInv, CallOK, Running, Awaits, Windows
  <1>2. CASE Crash
    BY <1>1, <1>2, DieKeeps DEF Crash
  <1>3. CASE CrashInSave
    <2>1. files[pid] \in StoredFiles BY <1>1, <1>3 DEF CrashInSave, Windows
    <2>2. SaveFirst(files[pid], c) \in StoredFiles BY <1>1, <2>1, StoreOK
    <2>3. files' \in [Pids -> StoredFiles]
      BY <1>1, <1>3, <2>2, StoreKeeps DEF CrashInSave
    <2> QED BY <1>3, <2>3, DieKeeps DEF CrashInSave
  <1>4. CASE CrashInClear
    <2> DEFINE s == IF phase = "batch" THEN Save(c) ELSE files[pid]
    <2>1. files[pid] \in StoredFiles BY <1>1, <1>4 DEF CrashInClear
    <2>2. s \in StoredFiles BY <1>1, <2>1, StoreOK DEF Windows
    <2> HIDE DEF s
    <2>3. ClearFirst(s) \in StoredFiles BY <1>1, <2>2, StoreOK
    <2>4. Store(ClearFirst(s)) /\ Die BY <1>4 DEF CrashInClear, s
    <2>5. files' \in [Pids -> StoredFiles] BY <1>1, <2>3, <2>4, StoreKeeps
    <2> QED BY <2>4, <2>5, DieKeeps
  <1> QED BY <1>2, <1>3, <1>4 DEF CrashStep

\* A queued command cannot be sent.
LEMMA SendFailsKeeps ==
  ASSUME FetchInv, NEW f \in queued, SendFails(f)
  PROVE  CallOK' /\ Kept
  <1>1. CASE Die /\ UNCHANGED files
    BY <1>1, DieKeeps DEF FetchInv, CallOK
  <1>2. CASE /\ phase' = "rejected" /\ error' = "http" /\ queued' = queued \ {f}
             /\ c' = NewClient
             /\ UNCHANGED <<pid, before, idle, files>>
    BY <1>2, NewClientOK
    DEF FetchInv, CallOK, Kept, Running, Awaits, Windows, Errors
  <1> QED BY <1>1, <1>2 DEF SendFails

\* The command goes, and with it the wait for it.
LEMMA SentKeeps ==
  ASSUME CallOK, NEW f \in queued, Sent(f),
         UNCHANGED <<pid, c, before, idle, error, files>>
  PROVE  CallOK' /\ Kept
  BY DEF Sent, CallOK, Kept, Running, Awaits, Windows

\* What a device answers are frames.
LEMMA AnswersAreFrames ==
  ASSUME held \in Image, NEW f \in Commands, NEW new \in Answers(f)
  PROVE  new \subseteq Frames
  <1>1. f.pid \in Pids BY DEF Commands, Info, Pull
  <1>2. Gone(f.pid) \in Frames /\ Busy(f.pid) \in Frames
    BY <1>1 DEF Frames
  <1>3. Manifest(held) \in Frames BY DEF Frames
  <1>4. \A i \in Idx(held) : Chunk(i, held) \in Frames BY DEF Frames
  <1>5. \/ new = {} \/ new = {Gone(f.pid)} \/ new = {Busy(f.pid)}
        \/ new = {Manifest(held)}
        \/ new = {Chunk(i, held) : i \in f.ids \cap Idx(held)}
    BY DEF Answers
  <1> QED BY <1>2, <1>3, <1>4, <1>5

\* A frame comes up.
LEMMA ReceiveKeeps ==
  ASSUME FetchInv, NEW f \in up, Receive(f)
  PROVE  CallOK' /\ Kept
  <1>1. f \in Frames /\ CallOK /\ ClientOK(c)
    BY DEF FetchInv, WorldOK, CallOK
  <1>2. UNCHANGED <<phase, pid, before, idle, error, queued, files>>
    BY DEF Receive
  <1>3. CASE UNCHANGED c
    BY <1>1, <1>2, <1>3, CallStutters DEF cvars
  <1>4. CASE Running /\ c' = OnFrame(c, f)
    <2>1. /\ ClientOK(c') /\ (c.man # None => c'.man # None)
          /\ (c'.man = c.man => c.have \subseteq c'.have)
      BY <1>1, <1>4, OnFrameOK
    <2> QED BY <1>1, <1>2, <1>4, <2>1 DEF CallOK, Kept, Running, Awaits
  <1> QED BY <1>3, <1>4 DEF Receive

\* What every step does to the call ...
LEMMA StepKeepsCall ==
  ASSUME FetchInv, [Next]_vars
  PROVE  CallOK' /\ Kept
  <1>0. CallOK BY DEF FetchInv
  <1>1. ASSUME NEW p \in Asked, Fetch(p) PROVE CallOK' /\ Kept
    BY <1>1, FetchKeeps
  <1>2. CASE FetchStep
    BY <1>2, ManifestSettlesKeeps, AnswerEndsKeeps, BatchEndsKeeps, BusyEndsKeeps
    DEF FetchStep
  <1>3. CASE CrashStep BY <1>3, CrashKeeps
  <1>4. ASSUME NEW f \in queued,
               DeviceHears(f) \/ CommandLost(f) \/ SendFails(f)
        PROVE  CallOK' /\ Kept
    <2>1. CASE DeviceHears(f)
      <3>1. Sent(f) /\ UNCHANGED <<pid, c, before, idle, error, files>>
        BY <2>1 DEF DeviceHears
      <3> QED BY <1>0, <3>1, SentKeeps
    <2>2. CASE CommandLost(f)
      <3>1. Sent(f) /\ UNCHANGED <<pid, c, before, idle, error, files>>
        BY <2>2 DEF CommandLost
      <3> QED BY <1>0, <3>1, SentKeeps
    <2>3. CASE SendFails(f) BY <2>3, SendFailsKeeps
    <2> QED BY <1>4, <2>1, <2>2, <2>3
  <1>5. ASSUME NEW f \in up, Receive(f) PROVE CallOK' /\ Kept
    BY <1>5, ReceiveKeeps
  <1>6. CASE UNCHANGED <<cvars, queued, files>> BY <1>0, <1>6, CallStutters
  <1>7. ASSUME NEW f \in up, FrameLost(f) PROVE UNCHANGED <<cvars, queued, files>>
    BY <1>7 DEF FrameLost
  <1>8. ASSUME NEW v \in Image, Publish(v)
        PROVE  UNCHANGED <<cvars, queued, files>>
    BY <1>8 DEF Publish
  <1>9. ASSUME Events \/ UNCHANGED vars PROVE UNCHANGED <<cvars, queued, files>>
    BY <1>9 DEF Events, vars
  <1> QED BY <1>1, <1>2, <1>3, <1>4, <1>5, <1>6, <1>7, <1>8, <1>9 DEF Next

\* ... and to the connection, the air and the device.
LEMMA EventsKeepTypes ==
  ASSUME EventsTypeOK, EventsNext
  PROVE  EventsTypeOK'
  <1>1. MaxDrops \in Nat /\ drops \in 0 .. MaxDrops /\ link \in Link
    BY EventsAssumption DEF EventsTypeOK
  <1>2. stopped' \in BOOLEAN
    BY DEF EventsTypeOK, EventsNext, Connect, Opens, Drops, RetryFires, Stop, Closes
  <1>3. drops' \in 0 .. MaxDrops
    <2>1. drops' = drops \/ (drops < MaxDrops /\ drops' = drops + 1)
      BY DEF EventsNext, Connect, Opens, Drops, RetryFires, Stop, Closes
    <2> QED BY <1>1, <2>1
  <1>4. link' \in Link
    <2>1. link' = link \/ link' \in {"open", "closing", "aborting"} \/ Start \/ Retry
      BY DEF EventsNext, Connect, Opens, Drops, RetryFires, Stop, Closes
    <2> QED BY <1>1, <2>1 DEF Start, Retry, Link
  <1> QED BY <1>2, <1>3, <1>4 DEF EventsTypeOK

\* Every step keeps the world around the call in order.
LEMMA StepKeepsWorld ==
  ASSUME FetchInv, [Next]_vars
  PROVE  WorldOK'
  <1>0. WorldOK /\ queued \subseteq Commands BY DEF FetchInv, CallOK
  <1>1. CASE UNCHANGED <<evars, up, held, evicted>>
    BY <1>0, <1>1 DEF WorldOK, evars, EventsTypeOK
  <1>2. CASE Die /\ UNCHANGED <<up, held, evicted>>
    BY <1>0, <1>2 DEF WorldOK, Die, EventsTypeOK, Link
  <1>3. ASSUME NEW p \in Asked, Fetch(p) PROVE UNCHANGED <<evars, up, held, evicted>>
    BY <1>3 DEF Fetch, dvars, avars
  <1>4. ASSUME FetchStep PROVE UNCHANGED <<evars, up, held, evicted>>
    BY <1>4 DEF FetchStep, ManifestSettles, AnswerEnds, BatchEnds, BusyEnds,
                dvars, avars
  <1>5. ASSUME CrashStep PROVE Die /\ UNCHANGED <<up, held, evicted>>
    BY <1>5 DEF CrashStep, Crash, CrashInSave, CrashInClear, Die, dvars, avars
  <1>6. ASSUME NEW f \in queued, DeviceHears(f) PROVE WorldOK'
    <2>1. PICK new \in Answers(f) : up' = up \cup new BY <1>6 DEF DeviceHears
    <2>2. new \subseteq Frames BY <1>0, <2>1, AnswersAreFrames DEF WorldOK
    <2>3. UNCHANGED <<evars, held, evicted>> BY <1>6 DEF DeviceHears, dvars
    <2> QED BY <1>0, <2>1, <2>2, <2>3 DEF WorldOK, evars, EventsTypeOK
  <1>7. ASSUME NEW f \in queued, CommandLost(f)
        PROVE  UNCHANGED <<evars, up, held, evicted>>
    BY <1>7 DEF CommandLost, dvars
  <1>8. ASSUME NEW f \in queued, SendFails(f)
        PROVE  \/ UNCHANGED <<evars, up, held, evicted>>
               \/ Die /\ UNCHANGED <<up, held, evicted>>
    BY <1>8 DEF SendFails, Die, dvars, avars
  <1>9. ASSUME NEW f \in up, Receive(f) \/ FrameLost(f) PROVE WorldOK'
    <2>1. up' \subseteq up /\ UNCHANGED <<evars, held, evicted>>
      BY <1>9 DEF Receive, FrameLost, dvars
    <2> QED BY <1>0, <2>1 DEF WorldOK, evars, EventsTypeOK
  <1>10. ASSUME NEW v \in Image, Publish(v) PROVE WorldOK'
    <2>1. /\ held' = v /\ evicted' = evicted \cup {Pid[held]}
          /\ UNCHANGED <<up, evars>>
      BY <1>10 DEF Publish, avars
    <2>2. Pid[held] \in Pids BY <1>0, ImageFacts DEF WorldOK
    <2> QED BY <1>0, <2>1, <2>2 DEF WorldOK, evars, EventsTypeOK
  <1>11. ASSUME Events PROVE WorldOK'
    <2>1. EventsNext /\ UNCHANGED <<up, held, evicted>>
      BY <1>11 DEF Events, dvars, avars
    <2> QED BY <1>0, <2>1, EventsKeepTypes DEF WorldOK
  <1>12. ASSUME UNCHANGED vars PROVE UNCHANGED <<evars, up, held, evicted>>
    BY <1>12 DEF vars, avars, dvars
  <1> QED BY <1>1, <1>2, <1>3, <1>4, <1>5, <1>6, <1>7, <1>8, <1>9, <1>10, <1>11,
             <1>12 DEF Next

\* The initial states are in order.
LEMMA InitHolds == Init => FetchInv
  <1> SUFFICES ASSUME Init PROVE FetchInv OBVIOUS
  <1>1. 0 \in Nat /\ 0 \in 0 .. MaxIdle - 1 /\ 0 \in 0 .. MaxDrops
    BY FetchAssumption, EventsAssumption
  <1>2. CallOK
    <2>1. NoFiles \in StoredFiles BY DEF NoFiles, StoredFiles
    <2> QED BY <1>1, <2>1, NewClientOK
            DEF Init, CallOK, Running, Awaits, Windows
  <1>3. WorldOK
    BY <1>1 DEF Init, EventsInit, WorldOK, EventsTypeOK, Link
  <1> QED BY <1>2, <1>3 DEF FetchInv

\* The invariant holds in every behaviour.
LEMMA FetchInvHolds == SafeSpec => []FetchInv
  <1>1. FetchInv /\ [Next]_vars => FetchInv'
    BY StepKeepsCall, StepKeepsWorld DEF FetchInv
  <1> QED BY <1>1, InitHolds, PTL DEF SafeSpec

-----------------------------------------------------------------------------
(* The theorems.                                                           *)

\* Every variable keeps its type, whatever images there are: above all, a
\* fetch never sits through more than MaxIdle empty windows in a row, and asks
\* for no chunk that the payload does not have.
THEOREM TypeCorrect == SafeSpec => []TypeOK
  BY FetchInvHolds, InvImpliesTypes, PTL

\* fetch() never resolves with a part of a payload or a blend of two: also when
\* two images share an id and a shape, when any number of crashes has torn the
\* files of a partial, and when late chunks come in at any moment.
THEOREM FetchIsWhole == SafeSpec => []FetchedIsWhole
  <1>1. FetchInv => FetchedIsWhole
    BY DEF FetchInv, CallOK, ClientOK, ClientRecord, Bytes, FetchedIsWhole
  <1> QED BY <1>1, FetchInvHolds, PTL

\* No frame, repeated manifest or resumed partial takes a chunk away from a
\* fetch that keeps its manifest.
THEOREM FetchKeepsProgress == SafeSpec => ProgressIsKept
  <1>1. FetchInv /\ [Next]_vars
          => [(Running /\ Running' /\ pid = pid' /\ c'.man = c.man)
                => c.have \subseteq c'.have]_vars
    BY StepKeepsCall DEF Kept
  <1> QED BY <1>1, FetchInvHolds, PTL DEF SafeSpec, ProgressIsKept

\* No timer, loss or late close event opens a socket for a client that was
\* stopped.
THEOREM StoppedStaysOff == SafeSpec => []StopIsFinal
  <1>1. Init => StopIsFinal BY DEF Init, EventsInit, StopIsFinal
  <1>2. StopIsFinal /\ [Next]_vars => StopIsFinal'
    <2> SUFFICES ASSUME StopIsFinal, [Next]_vars PROVE StopIsFinal' OBVIOUS
    <2>1. CASE UNCHANGED evars BY <2>1 DEF evars, StopIsFinal
    <2>2. CASE Die BY <2>2 DEF Die, StopIsFinal
    <2>3. CASE EventsNext
      BY <2>3 DEF EventsNext, Connect, Opens, Drops, RetryFires, Stop, Closes,
                  Start, Retry, StopIsFinal
    <2>4. ASSUME NEW p \in Asked, Fetch(p) PROVE UNCHANGED evars
      BY <2>4 DEF Fetch
    <2>5. ASSUME FetchStep PROVE UNCHANGED evars
      BY <2>5 DEF FetchStep, ManifestSettles, AnswerEnds, BatchEnds, BusyEnds
    <2>6. ASSUME CrashStep PROVE Die
      BY <2>6 DEF CrashStep, Crash, CrashInSave, CrashInClear
    <2>7. ASSUME NEW f \in queued,
                 DeviceHears(f) \/ CommandLost(f) \/ SendFails(f)
          PROVE  UNCHANGED evars \/ Die
      BY <2>7 DEF DeviceHears, CommandLost, SendFails
    <2>8. ASSUME NEW f \in up, Receive(f) \/ FrameLost(f) PROVE UNCHANGED evars
      BY <2>8 DEF Receive, FrameLost
    <2>9. ASSUME NEW v \in Image, Publish(v) PROVE UNCHANGED evars
      BY <2>9 DEF Publish
    <2>10. ASSUME Events PROVE EventsNext BY <2>10 DEF Events
    <2>11. ASSUME UNCHANGED vars PROVE UNCHANGED evars BY <2>11 DEF vars
    <2> QED BY <2>1, <2>2, <2>3, <2>4, <2>5, <2>6, <2>7, <2>8, <2>9, <2>10,
               <2>11 DEF Next
  <1> QED BY <1>1, <1>2, PTL DEF SafeSpec

-----------------------------------------------------------------------------
(* What a round of the loop comes to.                                      *)

\* fetch() is over, and leaves the files of its payload as s, or none.
Ends(s) == /\ ~Running' /\ (Store(NoFiles) \/ Store(s) \/ UNCHANGED files)
           /\ UNCHANGED <<pid, queued>>
           /\ idle' = 0 /\ error' \in {error, "gone", "crc", "timeout"}

\* Another window opens, with a pull for the first gap.
Pulls(c1, s, n) ==
  /\ ~c1.gone /\ ~IsComplete(c1)
  /\ Store(s)
  /\ c' = [c1 EXCEPT !.busy = FALSE]
  /\ Enqueue(Pull(Pid[c1.man], NextRun(c1, Batch)))
  /\ before' = Cardinality(c1.have) /\ idle' = n
  /\ phase' = "window"
  /\ UNCHANGED <<pid, error>>

\* A round ends the fetch, or asks for the next gap.
LEMMA ContinueResult ==
  ASSUME NEW c1, NEW s, NEW n, Continue(c1, s, n)
  PROVE  Ends(s) \/ Pulls(c1, s, n)
  BY DEF Continue, Round, Ends, Pulls, Throw, Running, Awaits

\* The manifest is asked for once more.
AsksAgain == /\ phase' = "asked" /\ AirIsQuiet /\ Enqueue(Info(pid))
             /\ c.man = None
             /\ UNCHANGED <<pid, c, before, idle, error, files>>

\* Frames have come in: the wait goes on, for the rest of the batch or for the
\* end of a BUSY.
WaitsOn == /\ phase = "window" /\ phase' \in {"batch", "busy"}
           /\ idle' \in {idle, 0}
           /\ UNCHANGED <<pid, c, before, error, queued, files>>

\* An empty window too many.
GivesIn == /\ phase = "window" /\ GivesUp(CountIdle(idle))
           /\ ~Progressed /\ ~c.busy /\ (IsVerified(c) \/ AirIsQuiet)
           /\ Throw("stalled") /\ UNCHANGED files

\* The files a settled fetch finds: stale ones are cleared first.
KeptFiles == IF StaleFiles THEN NoFiles ELSE files[pid]

\* The four rounds of the loop that ask for a gap.
PullsNext ==
  \/ phase = "settle" /\ c.man # None /\ Pulls(Resumed(c), KeptFiles, 0)
  \/ /\ phase = "window" /\ ~GivesUp(CountIdle(idle))
     /\ ~Progressed /\ ~c.busy /\ (IsVerified(c) \/ AirIsQuiet)
     /\ Pulls(c, files[pid], CountIdle(idle))
  \/ phase = "batch" /\ Pulls(c, Save(c), 0)
  \/ phase = "busy" /\ Pulls(c, files[pid], 0)

\* What a step of fetch() itself comes to.
LEMMA FetchStepResult ==
  ASSUME FetchStep
  PROVE  /\ UNCHANGED <<held, evicted, publishes, up, hitches, losses, fetches,
                        crashes, evars>>
         /\ \/ phase = "settle" /\ Ends(KeptFiles)
            \/ phase = "settle" /\ AsksAgain
            \/ phase \in {"window", "busy"} /\ Ends(files[pid])
            \/ phase = "batch" /\ Ends(Save(c))
            \/ WaitsOn \/ GivesIn \/ PullsNext
  <1>0. UNCHANGED <<held, evicted, publishes, up, hitches, losses, fetches,
                    crashes, evars>>
    BY DEF FetchStep, ManifestSettles, AnswerEnds, BatchEnds, BusyEnds, dvars,
           avars, nvars
  <1>1. CASE ManifestSettles
    <2>1. CASE c.man # None
      <3>1. phase = "settle" /\ Continue(Resumed(c), KeptFiles, 0)
        BY <1>1, <2>1 DEF ManifestSettles, Continue, KeptFiles
      <3> QED BY <1>0, <2>1, <3>1, ContinueResult DEF PullsNext
    <2>2. CASE c.man = None
      BY <1>0, <1>1, <2>2 DEF ManifestSettles, AsksAgain, Ends, Throw, Running, Awaits
    <2> QED BY <2>1, <2>2
  <1>2. CASE AnswerEnds
    <2>1. CASE c.busy \/ Progressed
      BY <1>0, <1>2, <2>1 DEF AnswerEnds, WaitsOn
    <2>2. CASE ~(c.busy \/ Progressed) /\ GivesUp(CountIdle(idle))
      BY <1>0, <1>2, <2>2 DEF AnswerEnds, GivesIn
    <2>3. CASE ~(c.busy \/ Progressed) /\ ~GivesUp(CountIdle(idle))
      <3>1. /\ phase = "window" /\ (IsVerified(c) \/ AirIsQuiet)
            /\ Continue(c, files[pid], CountIdle(idle))
        BY <1>2, <2>3 DEF AnswerEnds
      <3> QED BY <1>0, <2>3, <3>1, ContinueResult DEF PullsNext
    <2> QED BY <2>1, <2>2, <2>3
  <1>3. CASE BatchEnds
    <2>1. phase = "batch" /\ Continue(c, Save(c), 0) BY <1>3 DEF BatchEnds
    <2> QED BY <1>0, <2>1, ContinueResult DEF PullsNext
  <1>4. CASE BusyEnds
    <2>1. phase = "busy" /\ Continue(c, files[pid], 0) BY <1>4 DEF BusyEnds
    <2> QED BY <1>0, <2>1, ContinueResult DEF PullsNext
  <1> QED BY <1>1, <1>2, <1>3, <1>4 DEF FetchStep

-----------------------------------------------------------------------------
(* What was saved is not pulled again.                                     *)

\* The counters of the bounds count.
CountersOK == crashes \in Nat /\ publishes \in Nat /\ losses \in 0 .. LossesCounted

\* A sidecar claims chunks that its payload has, and no frame, client or sidecar
\* is of a payload other than the only one published.
FileOK(s) == s.meta # None =>
               /\ s.meta.have \subseteq Idx(s.meta.crc)
               /\ publishes = 0 => s.meta.crc = held

\* Nothing on the air and no client knows another payload.
OnlyPayload ==
  publishes = 0 =>
    /\ \A f \in up : f.type \in {"manifest", "chunk"} => f.image = held
    /\ c.man \in {None, held}

\* SavedIsNotPulledAgain, and what it rests on.
SavedInv == /\ CountersOK /\ OnlyPayload
            /\ \A p \in Pids : FileOK(files[p])
            /\ SavedIsNotPulledAgain

\* The counters only grow, and count what the actions say.
LEMMA CountersStep ==
  ASSUME CountersOK, [Next]_vars
  PROVE  /\ CountersOK'
         /\ crashes <= crashes' /\ losses <= losses'
         /\ publishes' = 0 => publishes = 0 /\ held' = held
  <1>0. LossesCounted \in Nat BY FetchAssumption
  <1>1. CASE UNCHANGED <<crashes, publishes, held>> /\ losses' = losses
    BY <1>1 DEF CountersOK
  <1>2. CASE UNCHANGED <<crashes, publishes, held>> /\ CountLoss
    BY <1>0, <1>2 DEF CountersOK, CountLoss
  <1>3. CASE UNCHANGED <<publishes, held>> /\ crashes' = crashes + 1 /\ losses' = losses
    BY <1>3 DEF CountersOK
  <1>4. CASE UNCHANGED <<crashes, losses>> /\ publishes' = publishes + 1
    BY <1>4 DEF CountersOK
  <1>5. ASSUME Die PROVE UNCHANGED <<publishes, held>> /\ crashes' = crashes + 1 /\ losses' = losses
    BY <1>5 DEF Die, dvars, avars
  <1>6. ASSUME NEW p \in Asked, Fetch(p) PROVE UNCHANGED <<crashes, publishes, held, losses>>
    BY <1>6 DEF Fetch, dvars, avars
  <1>7. ASSUME FetchStep PROVE UNCHANGED <<crashes, publishes, held, losses>>
    BY <1>7, FetchStepResult
  <1>8. ASSUME CrashStep PROVE Die
    BY <1>8 DEF CrashStep, Crash, CrashInSave, CrashInClear
  <1>9. ASSUME NEW f \in queued, SendFails(f)
        PROVE  Die \/ UNCHANGED <<crashes, publishes, held, losses>>
    BY <1>9 DEF SendFails, dvars, avars, nvars
  <1>10. ASSUME NEW f \in queued, DeviceHears(f)
         PROVE  UNCHANGED <<crashes, publishes, held, losses>>
    BY <1>10 DEF DeviceHears, dvars, nvars
  <1>11. ASSUME NEW f \in queued, CommandLost(f)
         PROVE  UNCHANGED <<crashes, publishes, held>> /\ CountLoss
    BY <1>11 DEF CommandLost, dvars, nvars
  <1>12. ASSUME NEW f \in up, Receive(f) \/ FrameLost(f)
         PROVE  UNCHANGED <<crashes, publishes, held>> /\ (CountLoss \/ losses' = losses)
    BY <1>12 DEF Receive, FrameLost, dvars, nvars
  <1>13. ASSUME NEW v \in Image, Publish(v)
         PROVE  UNCHANGED <<crashes, losses>> /\ publishes' = publishes + 1
    BY <1>13 DEF Publish, avars, nvars
  <1>14. ASSUME Events \/ UNCHANGED vars
         PROVE  UNCHANGED <<crashes, publishes, held, losses>>
    BY <1>14 DEF Events, vars, dvars, avars, nvars
  <1> QED BY <1>1, <1>2, <1>3, <1>4, <1>5, <1>6, <1>7, <1>8, <1>9, <1>10, <1>11,
             <1>12, <1>13, <1>14 DEF Next

\* A step writes at most the files of the payload being fetched, and leaves
\* there the sidecar that was there, none, or the client's.
LEMMA FilesStep ==
  ASSUME FetchInv, [Next]_vars
  PROVE  \A p \in Pids : \/ files'[p].meta \in {files[p].meta, None}
                         \/ c.man # None /\ files'[p].meta = Save(c).meta
  <1>0. files \in [Pids -> StoredFiles] BY DEF FetchInv, CallOK
  <1> DEFINE Good(s) == \/ s.meta \in {files[pid].meta, None}
                        \/ c.man # None /\ s.meta = Save(c).meta
             Result == \A p \in Pids : \/ files'[p].meta \in {files[p].meta, None}
                                       \/ c.man # None /\ files'[p].meta = Save(c).meta
  <1>1. ASSUME NEW s, Good(s), Store(s) PROVE Result
    BY <1>0, <1>1 DEF Store
  <1>2. Good(NoFiles) /\ Good(files[pid]) /\ Good(KeptFiles)
    BY DEF NoFiles, KeptFiles
  <1>3. ASSUME c.man # None PROVE Good(Save(c)) BY <1>3
  <1>4. CASE UNCHANGED files BY <1>4
  <1>5. phase \in {"batch", "window", "busy"} => c.man # None
    BY DEF FetchInv, CallOK, Windows
  <1>6. ASSUME FetchStep PROVE Result
    <2>1. \/ UNCHANGED files
          \/ \E s \in {NoFiles, files[pid], KeptFiles} : Store(s)
          \/ phase = "batch" /\ Store(Save(c))
      BY <1>6, FetchStepResult DEF Ends, AsksAgain, WaitsOn, GivesIn, PullsNext, Pulls
    <2> HIDE DEF Good, Result
    <2> QED BY <2>1, <1>1, <1>2, <1>3, <1>4, <1>5 DEF Result
  <1>7. ASSUME CrashStep PROVE Result
    <2>1. CASE Crash BY <2>1, <1>4 DEF Crash
    <2>2. CASE CrashInSave
      <3>1. Good(SaveFirst(files[pid], c))
        <4>1. CASE pid \in Pids
          <5>1. files[pid] \in StoredFiles BY <4>1, <1>0
          <5> QED BY <5>1 DEF SaveFirst, StoredFiles
        <4> QED BY <2>2, <4>1 DEF CrashInSave, FetchInv, CallOK, Running, Awaits
      <3> HIDE DEF Good, Result
      <3> QED BY <2>2, <3>1, <1>1 DEF CrashInSave
    <2>3. CASE CrashInClear
      <3>0. pid \in Pids
        BY <2>3 DEF CrashInClear, FetchInv, CallOK, Running, Awaits, Windows
      <3>1. files[pid] \in StoredFiles BY <3>0, <1>0
      <3>2. Good(ClearFirst(files[pid])) BY <3>1 DEF ClearFirst, StoredFiles
      <3>3. c.man # None => Good(ClearFirst(Save(c))) BY DEF ClearFirst, Save
      <3>4. \/ Store(ClearFirst(files[pid]))
            \/ phase = "batch" /\ Store(ClearFirst(Save(c)))
        BY <2>3 DEF CrashInClear
      <3> HIDE DEF Good, Result
      <3> QED BY <3>2, <3>3, <3>4, <1>1, <1>5
    <2> QED BY <1>7, <2>1, <2>2, <2>3 DEF CrashStep
  <1>8. ASSUME ~FetchStep, ~CrashStep PROVE UNCHANGED files
    BY <1>8 DEF Next, Fetch, DeviceHears, CommandLost, SendFails, Receive, FrameLost,
                Publish, Events, vars
  <1> QED BY <1>4, <1>6, <1>7, <1>8

\* What is on the air was there before, or is what the device answers.
LEMMA AirStep ==
  ASSUME [Next]_vars
  PROVE  \/ up' \subseteq up
         \/ \E f \in queued : DeviceHears(f) /\ \E new \in Answers(f) : up' = up \cup new
  <1>1. ASSUME NEW f \in queued, DeviceHears(f)
        PROVE  \E new \in Answers(f) : up' = up \cup new
    BY <1>1 DEF DeviceHears
  <1>2. ASSUME \A f \in queued : ~DeviceHears(f) PROVE up' \subseteq up
    <2>1. FetchStep => UNCHANGED up BY FetchStepResult
    <2>2. CrashStep => UNCHANGED up
      BY DEF CrashStep, Crash, CrashInSave, CrashInClear, Die, avars
    <2> QED BY <1>2, <2>1, <2>2
            DEF Next, Fetch, CommandLost, SendFails, Die, Receive, FrameLost, Publish,
                Events, vars, avars
  <1> QED BY <1>1, <1>2

\* A client is told of its payload by a manifest, or forgets it.
LEMMA ManifestStep ==
  ASSUME FetchInv, [Next]_vars
  PROVE  \/ c'.man \in {c.man, None}
         \/ \E f \in up : f.type = "manifest" /\ c'.man = f.image
  <1>0. ClientOK(c) BY DEF FetchInv, CallOK
  <1>1. NewClient.man = None BY DEF NewClient
  <1>2. ASSUME FetchStep PROVE c'.man \in {c.man, None}
    <2>1. \A k : ClientOK(k) => [k EXCEPT !.busy = FALSE].man = k.man
      BY DEF ClientOK, ClientRecord
    <2>2. ASSUME phase = "settle", c.man # None
          PROVE  ClientOK(Resumed(c)) /\ Resumed(c).man = c.man
      BY <2>2, ResumedOK DEF FetchInv, Running, Awaits
    <2>3. CASE PullsNext
      BY <1>0, <2>1, <2>2, <2>3 DEF PullsNext, Pulls
    <2>4. CASE WaitsOn \/ AsksAgain BY <2>4 DEF WaitsOn, AsksAgain
    <2>5. CASE GivesIn BY <1>1, <2>5 DEF GivesIn, Throw
    <2>6. ASSUME NEW c1, NEW s, NEW n, Continue(c1, s, n), ClientOK(c1), c1.man = c.man
          PROVE  c'.man \in {c.man, None}
      BY <1>1, <2>1, <2>6 DEF Continue, Round, Throw
    <2> QED
      BY <1>0, <1>1, <1>2, <2>2, <2>6
      DEF FetchStep, ManifestSettles, AnswerEnds, BatchEnds, BusyEnds, Throw, Continue
  <1>3. ASSUME NEW f \in up, Receive(f)
        PROVE  \/ c'.man \in {c.man, None}
               \/ f.type = "manifest" /\ c'.man = f.image
    <2>0. f \in Frames BY DEF FetchInv, WorldOK
    <2>1. c' = c \/ c' = OnFrame(c, f) BY <1>3 DEF Receive
    <2>2. CASE c' = OnFrame(c, f)
      <3>1. CASE f \in {Manifest(v) : v \in Image}
        <4>1. PICK v \in Image : f = Manifest(v) BY <3>1
        <4>2. f.type = "manifest" /\ f.image = v BY <4>1 DEF Manifest
        <4>3. OnFrame(c, f) = IF IsRepeat(c, v) THEN c ELSE Adopt(c, v)
          BY <4>2 DEF OnFrame
        <4> QED BY <1>0, <2>2, <4>2, <4>3, AdoptOK
      <3>2. CASE f.type = "chunk"
        <4>1. OnFrame(c, f) \in {c, [c EXCEPT !.buf[f.idx] = f.image, !.have = @ \cup {f.idx}]}
          BY <3>2 DEF OnFrame
        <4> QED BY <1>0, <2>2, <4>1 DEF ClientOK, ClientRecord
      <3>3. CASE f.type \in {"gone", "busy"}
        <4>1. OnFrame(c, f) \in {c, [c EXCEPT !.gone = TRUE], [c EXCEPT !.busy = TRUE]}
          BY <3>3 DEF OnFrame
        <4> QED BY <1>0, <2>2, <4>1 DEF ClientOK, ClientRecord
      <3> QED BY <2>0, <3>1, <3>2, <3>3 DEF Frames, Chunk, Gone, Busy
    <2> QED BY <2>1, <2>2
  <1>4. ASSUME ~FetchStep, \A f \in up : ~Receive(f) PROVE c' \in {c, NewClient}
    BY <1>4 DEF Next, Fetch, CrashStep, Crash, CrashInSave, CrashInClear, Die,
                DeviceHears, CommandLost, SendFails, FrameLost, Publish, Events, vars, cvars
  <1> QED BY <1>1, <1>2, <1>3, <1>4

\* The air carries what the device answers, the client what the air carries.
LEMMA OnlyPayloadStep ==
  ASSUME FetchInv, SavedInv, [Next]_vars
  PROVE  OnlyPayload'
  <1> SUFFICES ASSUME publishes' = 0
               PROVE  /\ \A f \in up' : f.type \in {"manifest", "chunk"} => f.image = held'
                      /\ c'.man \in {None, held'}
    BY DEF OnlyPayload
  <1>1. publishes = 0 /\ held' = held BY CountersStep DEF SavedInv
  <1>2. /\ \A f \in up : f.type \in {"manifest", "chunk"} => f.image = held
        /\ c.man \in {None, held}
    BY <1>1 DEF SavedInv, OnlyPayload
  <1>3. ASSUME NEW g \in queued, NEW new \in Answers(g), NEW f \in new,
               f.type \in {"manifest", "chunk"}
        PROVE  f.image = held
    <2>1. \/ new = {} \/ new = {Gone(g.pid)} \/ new = {Busy(g.pid)}
          \/ new = {Manifest(held)}
          \/ new = {Chunk(i, held) : i \in g.ids \cap Idx(held)}
      BY DEF Answers
    <2> QED BY <1>3, <2>1 DEF Gone, Busy, Manifest, Chunk
  <1>4. \A f \in up' : f.type \in {"manifest", "chunk"} => f.image = held
    BY <1>2, <1>3, AirStep
  <1>5. c'.man \in {None, held} BY <1>2, ManifestStep
  <1> QED BY <1>1, <1>4, <1>5

\* A sidecar is what the client was when it was saved.
LEMMA FileOKStep ==
  ASSUME FetchInv, SavedInv, [Next]_vars
  PROVE  (\A p \in Pids : FileOK(files[p]))'
  <1> SUFFICES ASSUME NEW p \in Pids, files'[p].meta # None
               PROVE  /\ files'[p].meta.have \subseteq Idx(files'[p].meta.crc)
                      /\ publishes' = 0 => files'[p].meta.crc = held'
    BY DEF FileOK
  <1>1. publishes' = 0 => publishes = 0 /\ held' = held
    BY CountersStep DEF SavedInv
  <1>2. CASE files'[p].meta = files[p].meta
    BY <1>1, <1>2 DEF SavedInv, FileOK
  <1>3. CASE c.man # None /\ files'[p].meta = Save(c).meta
    <2>1. Save(c).meta.crc = c.man /\ Save(c).meta.have = c.have BY DEF Save
    <2>2. c.have \subseteq Idx(c.man) BY <1>3 DEF FetchInv, CallOK, ClientOK
    <2>3. publishes = 0 => c.man = held BY <1>3 DEF SavedInv, OnlyPayload
    <2> QED BY <1>1, <1>3, <2>1, <2>2, <2>3
  <1> QED BY <1>2, <1>3, FilesStep

\* seed() with a partial of this payload: the client has what was saved.
LEMMA ResumedHas ==
  ASSUME FetchInv, SavedInv, publishes = 0, phase = "settle", c.man # None
  PROVE  HasPartial(KeptFiles) => KeptFiles.meta.have \subseteq Resumed(c).have
  <1> SUFFICES ASSUME HasPartial(KeptFiles)
               PROVE  KeptFiles.meta.have \subseteq Resumed(c).have
    OBVIOUS
  <1>1. ~HasPartial(NoFiles) BY DEF HasPartial, NoFiles
  <1>2. KeptFiles = files[pid] /\ HasPartial(files[pid]) /\ Matches(files[pid], c)
    BY <1>1 DEF KeptFiles, StaleFiles
  <1>3. pid \in Pids /\ ClientOK(c)
    BY DEF FetchInv, CallOK, Running, Awaits
  <1>4. files[pid].meta.have \subseteq Idx(c.man)
    BY <1>2, <1>3 DEF SavedInv, FileOK, HasPartial, Matches
  <1>5. Resumed(c) = Seed(c, files[pid]) BY <1>2 DEF Resumed
  <1>6. Seed(c, files[pid]).have = c.have \cup (files[pid].meta.have \cap Idx(c.man))
    BY <1>3 DEF Seed, ClientOK, ClientRecord
  <1> QED BY <1>2, <1>4, <1>5, <1>6

\* A window opens with the saved chunks in hand, and keeps them.
LEMMA SavedStep ==
  ASSUME FetchInv, SavedInv, [Next]_vars
  PROVE  SavedIsNotPulledAgain'
  <1> SUFFICES ASSUME publishes' = 0, phase' \in Windows, HasPartial(files'[pid'])
               PROVE  files'[pid'].meta.have \subseteq c'.have
    BY DEF SavedIsNotPulledAgain
  <1>0. publishes = 0 /\ held' = held BY CountersStep DEF SavedInv
  <1>t. /\ files \in [Pids -> StoredFiles] /\ ClientOK(c)
        /\ Running => pid \in Pids
    BY DEF FetchInv, CallOK
  <1>h. ASSUME phase \in Windows, HasPartial(files[pid])
        PROVE  files[pid].meta.have \subseteq c.have
    BY <1>0, <1>h DEF SavedInv, SavedIsNotPulledAgain
  <1>1. CASE UNCHANGED <<phase, pid, files, c>> BY <1>1, <1>h
  <1>2. ASSUME NEW c1, NEW s, NEW n, Pulls(c1, s, n), Running, ClientOK(c1),
               HasPartial(s) => s.meta.have \subseteq c1.have
        PROVE  files'[pid'].meta.have \subseteq c'.have
    <2>1. files'[pid'] = s /\ c'.have = c1.have
      BY <1>2, <1>t DEF Pulls, Store, ClientOK, ClientRecord
    <2> QED BY <1>2, <2>1
  <1>3. CASE FetchStep
    <2>1. CASE WaitsOn BY <1>h, <2>1 DEF WaitsOn, Windows
    <2>2. CASE PullsNext
      <3>1. CASE phase = "settle" /\ c.man # None /\ Pulls(Resumed(c), KeptFiles, 0)
        <4>1. Running /\ ClientOK(Resumed(c))
          BY <3>1, ResumedOK DEF Running, Awaits, FetchInv
        <4> QED BY <1>0, <1>2, <3>1, <4>1, ResumedHas
      <3>2. CASE phase \in Windows /\ \E n : Pulls(c, files[pid], n)
        <4>1. Running BY <3>2 DEF Running, Awaits, Windows
        <4> QED BY <1>2, <1>h, <1>t, <3>2, <4>1
      <3>3. CASE phase = "batch" /\ Pulls(c, Save(c), 0)
        <4>1. Running /\ Save(c).meta.have = c.have
          BY <3>3 DEF Running, Awaits, Save
        <4> QED BY <1>2, <1>t, <3>3, <4>1
      <3> QED BY <2>2, <3>1, <3>2, <3>3 DEF PullsNext, Windows
    <2>3. ASSUME NEW s, Ends(s) PROVE FALSE
      BY <2>3 DEF Ends, Running, Awaits, Windows
    <2>4. ~AsksAgain /\ ~GivesIn
      BY DEF AsksAgain, GivesIn, Throw, Windows
    <2> QED BY <1>3, <2>1, <2>2, <2>3, <2>4, FetchStepResult
  <1>4. ASSUME NEW f \in up, Receive(f) PROVE files'[pid'].meta.have \subseteq c'.have
    <2>1. UNCHANGED <<phase, pid, files>> /\ (c' = c \/ c' = OnFrame(c, f))
      BY <1>4 DEF Receive
    <2>2. f \in Frames BY DEF FetchInv, WorldOK
    <2>3. phase \in Windows /\ c.man # None
      BY <2>1 DEF FetchInv, CallOK
    <2>4. c'.man # None BY <2>1, <2>2, <2>3, <1>t, OnFrameOK
    <2>5. c'.man = held /\ c.man = held
      BY <1>0, <2>3, <2>4, OnlyPayloadStep DEF SavedInv, OnlyPayload
    <2>6. c.have \subseteq c'.have
      BY <2>1, <2>2, <2>5, <1>t, OnFrameOK
    <2> QED BY <1>h, <2>1, <2>3, <2>6
  <1>5. ASSUME NEW f \in queued, DeviceHears(f) \/ CommandLost(f)
        PROVE  UNCHANGED <<phase, pid, files, c>>
    <2>1. Sent(f) /\ UNCHANGED <<pid, files, c>> BY <1>5 DEF DeviceHears, CommandLost
    <2>2. phase' = phase BY <2>1 DEF Sent, Windows
    <2> QED BY <2>1, <2>2
  <1>6. ~Die BY DEF Die, Windows
  <1>7. ASSUME NEW f \in queued, SendFails(f) PROVE FALSE
    BY <1>6, <1>7 DEF SendFails, Windows
  <1>8. ASSUME NEW p \in Asked, Fetch(p) PROVE FALSE
    BY <1>8 DEF Fetch, Windows
  <1>9. ~CrashStep
    BY <1>6 DEF CrashStep, Crash, CrashInSave, CrashInClear
  <1> QED BY <1>1, <1>3, <1>4, <1>5, <1>7, <1>8, <1>9
          DEF Next, FrameLost, Publish, Events, vars, cvars

\* Nothing is saved at first.
LEMMA SavedAtFirst == Init => SavedInv
  <1> SUFFICES ASSUME Init PROVE SavedInv OBVIOUS
  <1>1. CountersOK BY FetchAssumption DEF Init, CountersOK
  <1>2. OnlyPayload BY DEF Init, OnlyPayload, NewClient
  <1>3. \A p \in Pids : FileOK(files[p]) BY DEF Init, FileOK, NoFiles
  <1>4. SavedIsNotPulledAgain BY DEF Init, SavedIsNotPulledAgain, Windows
  <1> QED BY <1>1, <1>2, <1>3, <1>4 DEF SavedInv

\* The invariant holds in every reachable state.
LEMMA SavedInvHolds == SafeSpec => []SavedInv
  <1>1. FetchInv /\ SavedInv /\ [Next]_vars => SavedInv'
    BY CountersStep, OnlyPayloadStep, FileOKStep, SavedStep DEF SavedInv
  <1> QED BY <1>1, SavedAtFirst, FetchInvHolds, PTL DEF SafeSpec

\* A partial saved is a partial used: while the device keeps its payload, no
\* window pulls a chunk that the files on disk hold, however often the process
\* died, and whatever was lost or came late.
THEOREM SavedStaysSaved == SafeSpec => []SavedIsNotPulledAgain
  <1>1. SavedInv => SavedIsNotPulledAgain BY DEF SavedInv
  <1> QED BY <1>1, SavedInvHolds, PTL

-----------------------------------------------------------------------------
(* One death of the process leaves no partial that lies.                   *)

\* Payloads of one id and one shape are one payload: the client cannot tell
\* their chunks apart.
NoTwins == \A v, w \in Image : SamePid(v, w) /\ SameShape(v, w) => v = w

\* A frame that opens a transfer.
IsManifest(f) == f.type = "manifest"

\* A fetch that started on a quiet air hears of one payload: whatever is
\* published meanwhile, it asks again only when it has heard nothing, and the
\* pulls and chunks on the air are its own.
OneManifest ==
  Running =>
    /\ \A f \in up : IsManifest(f) => c.man \in {None, f.image}
    /\ \A f, g \in up : IsManifest(f) /\ IsManifest(g) => f.image = g.image
    /\ \A f \in queued :
         f.type = "info" => /\ c.man = None
                            /\ \A g \in up : ~IsManifest(g)
                            /\ \A g \in queued : g.type = "info" => f = g
    /\ phase \notin Windows => /\ c.have = {}
                               /\ \A f \in queued : f.type # "pull"
                               /\ \A f \in up : f.type # "chunk"

\* A repeated ask finds the queue and the air empty.
LEMMA AskedAlone ==
  ASSUME Prompt, AirIsQuiet, NEW p, Enqueue(Info(p))
  PROVE  up = {} /\ queued' = {Info(p)}
  BY DEF AirIsQuiet, Settled, Enqueue

\* One fetch, one manifest: every step keeps it so.
LEMMA OneManifestStep ==
  ASSUME Prompt, FetchInv, OneManifest, [Next]_vars
  PROVE  OneManifest'
  <1> SUFFICES ASSUME Running' PROVE OneManifest' BY DEF OneManifest
  <1>t. ClientOK(c) /\ queued \subseteq Commands /\ up \subseteq Frames
    BY DEF FetchInv, CallOK, WorldOK
  <1>n. \A p : Info(p).type = "info" BY DEF Info
  <1>1. CASE Running /\ UNCHANGED c /\ up' \subseteq up /\ queued' \subseteq queued
             /\ (phase' \in Windows <=> phase \in Windows)
    BY <1>1 DEF OneManifest
  <1>2. CASE phase' = "asked" /\ c'.man = None /\ c'.have = {} /\ up' = {}
             /\ \E p : queued' = {Info(p)}
    BY <1>2, <1>n DEF OneManifest, Windows
  <1>3. ASSUME NEW p \in Asked, Fetch(p) PROVE OneManifest'
    <2>1. up = {} /\ queued' = {Info(p)} BY <1>3, AskedAlone DEF Fetch
    <2>2. phase' = "asked" /\ c'.man = None /\ c'.have = {} /\ up' = up
      BY <1>3 DEF Fetch, NewClient, avars
    <2> QED BY <1>2, <2>1, <2>2
  <1>4. CASE FetchStep
    <2>1. UNCHANGED up BY <1>4, FetchStepResult
    <2>2. CASE WaitsOn
      BY <1>1, <2>1, <2>2 DEF WaitsOn, Running, Awaits, Windows
    <2>3. CASE phase = "settle" /\ AsksAgain
      <3>1. up = {} /\ queued' = {Info(pid)} BY <2>3, AskedAlone DEF AsksAgain
      <3>2. phase' = "asked" /\ c' = c /\ c.man = None BY <2>3 DEF AsksAgain
      <3>3. c.have = {} BY <3>2, <1>t DEF ClientOK
      <3> QED BY <1>2, <2>1, <3>1, <3>2, <3>3
    <2>4. CASE PullsNext
      <3>1. Running /\ c.man # None
        BY <2>4 DEF PullsNext, Running, Awaits, FetchInv, CallOK, Windows
      <3>2. PICK c1, s, n : c1 \in {c, Resumed(c)} /\ Pulls(c1, s, n)
        BY <2>4 DEF PullsNext
      <3>3. ClientOK(c1) /\ c1.man = c.man
        BY <1>t, <3>1, <3>2, ResumedOK DEF FetchInv
      <3>4. c'.man = c.man /\ phase' \in Windows
        BY <3>2, <3>3 DEF Pulls, ClientOK, ClientRecord, Windows
      <3>5. \A f \in queued' : f.type = "info" => f \in queued
        BY <3>2 DEF Pulls, Enqueue, Pull
      <3> QED BY <2>1, <3>1, <3>4, <3>5 DEF OneManifest
    <2>5. ASSUME NEW s, Ends(s) PROVE FALSE
      BY <2>5 DEF Ends
    <2>6. ASSUME GivesIn PROVE FALSE
      BY <2>6 DEF GivesIn, Throw, Running, Awaits
    <2> QED BY <1>4, <2>2, <2>3, <2>4, <2>5, <2>6, FetchStepResult
  <1>5. ASSUME Die PROVE FALSE BY <1>5 DEF Die, Running, Awaits
  <1>6. ASSUME NEW f \in queued, SendFails(f) PROVE FALSE
    BY <1>5, <1>6 DEF SendFails, Running, Awaits
  <1>7. ASSUME CrashStep PROVE FALSE
    BY <1>5, <1>7 DEF CrashStep, Crash, CrashInSave, CrashInClear
  <1>8. ASSUME NEW f \in queued, Sent(f)
        PROVE  Running /\ (phase' \in Windows <=> phase \in Windows)
    BY <1>8 DEF Sent, Running, Awaits, Windows
  <1>9. ASSUME NEW f \in queued, CommandLost(f) PROVE OneManifest'
    <2>1. Sent(f) /\ UNCHANGED <<c, up>> /\ queued' \subseteq queued
      BY <1>9 DEF CommandLost, Sent
    <2> QED BY <1>1, <1>8, <2>1
  <1>10. ASSUME NEW f \in queued, DeviceHears(f) PROVE OneManifest'
    <2>1. Sent(f) /\ UNCHANGED c /\ queued' = queued \ {f} BY <1>10 DEF DeviceHears, Sent
    <2>2. PICK new \in Answers(f) : up' = up \cup new BY <1>10 DEF DeviceHears
    <2>3. Running /\ (phase' \in Windows <=> phase \in Windows) BY <1>8, <2>1
    <2>4. \/ \A g \in new : g.type \in {"gone", "busy"}
          \/ f.type = "info" /\ new = {Manifest(held)}
          \/ f.type = "pull" /\ \A g \in new : g.type = "chunk"
      <3>1. f.type \in {"info", "pull"} BY <1>t DEF Commands, Info, Pull
      <3> QED BY <3>1 DEF Answers, Gone, Busy, Chunk
    <2>5. CASE \A g \in new : g.type \in {"gone", "busy"}
      BY <2>1, <2>2, <2>3, <2>5 DEF OneManifest, IsManifest
    <2>6. CASE f.type = "info" /\ new = {Manifest(held)}
      <3>1. Manifest(held).type = "manifest" /\ IsManifest(Manifest(held))
        BY DEF Manifest, IsManifest
      <3>2. /\ c.man = None /\ \A g \in up : ~IsManifest(g)
            /\ \A g \in queued : g.type = "info" => f = g
        BY <2>3, <2>6 DEF OneManifest
      <3> QED BY <2>1, <2>2, <2>3, <2>6, <3>1, <3>2 DEF OneManifest
    <2>7. CASE f.type = "pull" /\ \A g \in new : g.type = "chunk"
      <3>1. phase \in Windows BY <2>3, <2>7 DEF OneManifest
      <3> QED BY <2>1, <2>2, <2>3, <2>7, <3>1 DEF OneManifest, IsManifest
    <2> QED BY <2>4, <2>5, <2>6, <2>7
  <1>11. ASSUME NEW f \in up, Receive(f) PROVE OneManifest'
    <2>1. /\ UNCHANGED <<phase, queued>> /\ up' \subseteq up
          /\ c' = c \/ c' = OnFrame(c, f)
      BY <1>11 DEF Receive
    <2>2. Running BY <2>1 DEF Running
    <2>3. CASE c' = c BY <1>1, <2>1, <2>2, <2>3
    <2>4. CASE c' = OnFrame(c, f) /\ IsManifest(f)
      <3>1. OnFrame(c, f) = IF IsRepeat(c, f.image) THEN c ELSE Adopt(c, f.image)
        BY <2>4 DEF OnFrame, IsManifest
      <3>2. c.man \in {None, f.image} BY <2>2, <2>4 DEF OneManifest
      <3>3. CASE c.man # None
        BY <1>1, <2>1, <2>2, <2>4, <3>1, <3>2, <3>3 DEF IsRepeat, SamePid, SameShape
      <3>4. CASE c.man = None
        <4>1. c' = Adopt(c, f.image) BY <2>4, <3>1, <3>4 DEF IsRepeat
        <4>2. c'.man = f.image /\ c'.have = {}
          BY <4>1, <1>t DEF Adopt, ClientOK, ClientRecord
        <4> QED BY <2>1, <2>2, <2>4, <4>2 DEF OneManifest
      <3> QED BY <3>3, <3>4
    <2>5. CASE c' = OnFrame(c, f) /\ ~IsManifest(f)
      <3>1. f.type \in {"chunk", "gone", "busy"}
        BY <1>t, <2>5 DEF Frames, IsManifest, Chunk, Gone, Busy, Manifest
      <3>2. \/ f.type = "chunk" /\ c' = [c EXCEPT !.buf[f.idx] = f.image, !.have = @ \cup {f.idx}]
            \/ c' \in {c, [c EXCEPT !.gone = TRUE], [c EXCEPT !.busy = TRUE]}
        BY <2>5, <3>1 DEF OnFrame
      <3>3. c'.man = c.man /\ (f.type # "chunk" => c'.have = c.have)
        BY <3>2, <1>t DEF ClientOK, ClientRecord
      <3>4. phase \notin Windows => f.type # "chunk" BY <2>2 DEF OneManifest
      <3> QED BY <2>1, <2>2, <3>3, <3>4 DEF OneManifest
    <2> QED BY <2>1, <2>3, <2>4, <2>5
  <1>12. ASSUME \/ \E f \in up : FrameLost(f)
                \/ \E v \in Image : Publish(v)
                \/ Events \/ UNCHANGED vars
         PROVE  UNCHANGED <<phase, c, queued>> /\ up' \subseteq up
    BY <1>12 DEF FrameLost, Publish, Events, vars, cvars, avars
  <1>13. UNCHANGED phase => Running BY DEF Running
  <1> QED BY <1>1, <1>3, <1>4, <1>6, <1>7, <1>9, <1>10, <1>11, <1>12, <1>13 DEF Next

\* The client holds what its manifest describes.
SoundClient(k) == k.man # None => \A i \in k.have : k.buf[i] = k.man

\* Every chunk that the sidecar claims is of the payload it names.
Sound(s) == HasPartial(s) => \A i \in s.meta.have : s.buf[i] = s.meta.crc

\* Until the process has died twice, no partial lies.  Until it has died, it
\* leaves two files or none, and in a window they are the client's.
SoundInv ==
  /\ OneManifest
  /\ crashes <= 1 => /\ Running => SoundClient(c)
                     /\ \A p \in Pids : Sound(files[p])
  /\ crashes = 0 => /\ \A p \in Pids : files[p] = NoFiles \/ HasPartial(files[p])
                    /\ phase \in Windows =>
                         \/ files[pid] = NoFiles
                         \/ /\ files[pid].meta.crc = c.man
                            /\ files[pid].meta.have \subseteq c.have

\* save() leaves a partial, as sound as the client was.
LEMMA SavedIsSound ==
  ASSUME NEW k, ClientOK(k), k.man # None
  PROVE  /\ HasPartial(Save(k))
         /\ SoundClient(k) => Sound(Save(k))
  <1>1. k.man \in Image /\ k.buf \in [Idx(k.man) -> Bytes]
    BY DEF ClientOK, ClientRecord, Bytes
  <1>2. k.buf # None /\ DOMAIN k.buf = Idx(k.man) BY <1>1, NoneAssumption
  <1>3. Save(k).meta # None
    BY <1>1, NoneAssumption DEF Save, ClientOK, ClientRecord
  <1> QED BY <1>2, <1>3 DEF Save, HasPartial, SoundClient, Sound

\* seed() puts sound bytes under a client that has none of its own.
LEMMA ResumedIsSound ==
  ASSUME ClientOK(c), c.man # None, c.have = {}, Sound(files[pid])
  PROVE  SoundClient(Resumed(c))
  <1>1. CASE HasPartial(files[pid]) /\ Matches(files[pid], c)
    <2>1. Resumed(c) = Seed(c, files[pid]) BY <1>1 DEF Resumed
    <2> DEFINE k == Seed(c, files[pid])
    <2>2. DOMAIN files[pid].buf = Idx(c.man) /\ files[pid].meta.crc = c.man
      BY <1>1 DEF HasPartial, Matches
    <2>3. /\ k.man = c.man /\ k.buf = files[pid].buf
          /\ k.have \subseteq files[pid].meta.have
      BY <2>2 DEF Seed, ClientOK, ClientRecord
    <2> QED BY <1>1, <2>1, <2>2, <2>3 DEF SoundClient, Sound
  <1>2. CASE ~(HasPartial(files[pid]) /\ Matches(files[pid], c))
    BY <1>2 DEF Resumed, SoundClient
  <1> QED BY <1>1, <1>2

\* onFrame() lets in no chunk of another payload.
LEMMA ReceivedIsSound ==
  ASSUME NoTwins, NEW k, ClientOK(k), SoundClient(k), NEW f \in Frames
  PROVE  SoundClient(OnFrame(k, f))
  <1>1. CASE f \in {Manifest(v) : v \in Image}
    <2>1. PICK v \in Image : f = Manifest(v) BY <1>1
    <2>2. OnFrame(k, f) = IF IsRepeat(k, v) THEN k ELSE Adopt(k, v)
      BY <2>1 DEF OnFrame, Manifest
    <2>3. Adopt(k, v).have = {} BY DEF Adopt, ClientOK, ClientRecord
    <2> QED BY <2>2, <2>3 DEF SoundClient
  <1>2. CASE f \in UNION {{Chunk(i, v) : i \in Idx(v)} : v \in Image}
    <2>1. PICK v \in Image : \E i \in Idx(v) : f = Chunk(i, v) BY <1>2
    <2>2. PICK i \in Idx(v) : f = Chunk(i, v) BY <2>1
    <2>3. OnFrame(k, f) = IF Belongs(k, i, v) THEN Filled(k, i, v) ELSE k
      BY <2>2 DEF OnFrame, Filled, Chunk
    <2>4. CASE Belongs(k, i, v)
      <3>1. /\ k.man \in Image /\ k.man # None /\ i \in Idx(k.man)
            /\ k.buf \in [Idx(k.man) -> Bytes] /\ k.have \subseteq Idx(k.man)
        BY <2>4 DEF Belongs, ClientOK, ClientRecord, Bytes
      <3>2. k.man = v BY <2>4, <3>1 DEF Belongs, NoTwins
      <3>3. /\ Filled(k, i, v).man = k.man
            /\ Filled(k, i, v).have = k.have \cup {i}
            /\ Filled(k, i, v).buf = [k.buf EXCEPT ![i] = v]
        BY DEF Filled, ClientOK, ClientRecord
      <3> QED BY <2>3, <2>4, <3>1, <3>2, <3>3 DEF SoundClient
    <2> QED BY <2>3, <2>4
  <1>3. CASE f.type \in {"gone", "busy"}
    <2>1. OnFrame(k, f) \in {k, [k EXCEPT !.gone = TRUE], [k EXCEPT !.busy = TRUE]}
      BY <1>3 DEF OnFrame
    <2> QED BY <2>1 DEF SoundClient, ClientOK, ClientRecord
  <1> QED BY <1>1, <1>2, <1>3 DEF Frames, Gone, Busy

\* What a step may write, and that it is sound.
LEMMA SoundFilesStep ==
  ASSUME FetchInv, SavedInv, SoundInv, crashes' <= 1, [Next]_vars
  PROVE  \A p \in Pids : Sound(files'[p])
  <1>0. files \in [Pids -> StoredFiles] BY DEF FetchInv, CallOK
  <1>1. crashes <= 1 BY CountersStep DEF SavedInv, CountersOK
  <1>2. \A p \in Pids : Sound(files[p]) BY <1>1 DEF SoundInv
  <1> DEFINE Result == \A p \in Pids : Sound(files'[p])
  <1>3. ASSUME NEW s, Sound(s), Store(s) PROVE Result
    BY <1>0, <1>2, <1>3 DEF Store
  <1>4. Sound(NoFiles) BY DEF Sound, NoFiles, HasPartial
  <1>5. Running => pid \in Pids BY DEF FetchInv, CallOK
  <1>6. CASE UNCHANGED files BY <1>2, <1>6
  <1>7. ASSUME phase = "batch" PROVE Sound(Save(c)) /\ Sound(ClearFirst(Save(c)))
    <2>1. ClientOK(c) /\ c.man # None /\ Running
      BY <1>7 DEF FetchInv, CallOK, Windows, Running, Awaits
    <2>2. SoundClient(c) BY <1>1, <2>1 DEF SoundInv
    <2>3. Sound(ClearFirst(Save(c))) BY DEF ClearFirst, Save, Sound, HasPartial
    <2> QED BY <2>1, <2>2, <2>3, SavedIsSound
  <1>8. ASSUME FetchStep PROVE Result
    <2>0. Running BY <1>8, FetchStepResult DEF Running, Awaits, WaitsOn, GivesIn, PullsNext
    <2>1. \/ UNCHANGED files
          \/ \E s \in {NoFiles, files[pid], KeptFiles} : Store(s)
          \/ phase = "batch" /\ Store(Save(c))
      BY <1>8, FetchStepResult DEF Ends, AsksAgain, WaitsOn, GivesIn, PullsNext, Pulls
    <2>2. Sound(files[pid]) /\ Sound(KeptFiles)
      BY <2>0, <1>2, <1>4, <1>5 DEF KeptFiles
    <2> HIDE DEF Result
    <2> QED BY <2>1, <2>2, <1>3, <1>4, <1>7, <1>6 DEF Result
  <1>9. ASSUME CrashStep PROVE Result
    <2>1. CASE Crash BY <2>1, <1>6 DEF Crash
    <2>2. CASE CrashInSave
      <3>1. phase = "batch" /\ Store(SaveFirst(files[pid], c)) /\ crashes' = crashes + 1
        BY <2>2 DEF CrashInSave, Die
      <3>2. crashes = 0 BY <3>1 DEF SavedInv, CountersOK
      <3>3. /\ ClientOK(c) /\ c.man # None /\ Running /\ pid \in Pids
            /\ files[pid] \in StoredFiles
        BY <3>1, <1>0 DEF FetchInv, CallOK, Windows, Running, Awaits
      <3>4. SoundClient(c) BY <1>1, <3>3 DEF SoundInv
      <3>5. \/ files[pid] = NoFiles
            \/ /\ files[pid].meta.crc = c.man
               /\ files[pid].meta.have \subseteq c.have
        BY <3>1, <3>2 DEF SoundInv, Windows
      <3>6. /\ SaveFirst(files[pid], c).buf = c.buf
            /\ SaveFirst(files[pid], c).meta = files[pid].meta
        BY <3>3 DEF SaveFirst, StoredFiles
      <3>7. Sound(SaveFirst(files[pid], c))
        BY <3>3, <3>4, <3>5, <3>6 DEF Sound, SoundClient, NoFiles, HasPartial
      <3> HIDE DEF Result
      <3> QED BY <3>1, <3>7, <1>3
    <2>3. CASE CrashInClear
      <3>1. \/ Store(ClearFirst(files[pid])) /\ Running
            \/ phase = "batch" /\ Store(ClearFirst(Save(c)))
        BY <2>3 DEF CrashInClear, Running, Awaits, Windows
      <3>2. Running => files[pid] \in StoredFiles BY <1>0, <1>5
      <3>3. Running => Sound(ClearFirst(files[pid]))
        BY <3>2 DEF ClearFirst, Sound, HasPartial, StoredFiles
      <3> HIDE DEF Result
      <3> QED BY <3>1, <3>3, <1>3, <1>7
    <2> QED BY <1>9, <2>1, <2>2, <2>3 DEF CrashStep
  <1>10. ASSUME ~FetchStep, ~CrashStep PROVE UNCHANGED files
    BY <1>10 DEF Next, Fetch, DeviceHears, CommandLost, SendFails, Receive, FrameLost,
                 Publish, Events, vars
  <1> QED BY <1>6, <1>8, <1>9, <1>10

\* A client stays sound while the process has died once at most.
LEMMA SoundClientStep ==
  ASSUME NoTwins, FetchInv, SavedInv, SoundInv, crashes' <= 1, Running', [Next]_vars
  PROVE  SoundClient(c')
  <1>1. crashes <= 1 BY CountersStep DEF SavedInv, CountersOK
  <1>2. Running => SoundClient(c) BY <1>1 DEF SoundInv
  <1>3. ClientOK(c) BY DEF FetchInv, CallOK
  <1>4. SoundClient(NewClient) BY DEF SoundClient, NewClient
  <1>5. ASSUME FetchStep PROVE SoundClient(c')
    <2>1. Running /\ pid \in Pids
      BY <1>5, FetchStepResult
         DEF Running, Awaits, WaitsOn, GivesIn, PullsNext, FetchInv, CallOK
    <2>2. CASE c' = c BY <2>1, <2>2, <1>2
    <2>3. ASSUME NEW k, ClientOK(k), SoundClient(k), c' = [k EXCEPT !.busy = FALSE]
          PROVE  SoundClient(c')
      BY <2>3 DEF SoundClient, ClientOK, ClientRecord
    <2>4. ASSUME phase = "settle", c.man # None
          PROVE  ClientOK(Resumed(c)) /\ SoundClient(Resumed(c))
      <3>1. ClientOK(Resumed(c)) BY <2>1, <2>4, ResumedOK DEF FetchInv
      <3>2. c.have = {} BY <2>1, <2>4 DEF SoundInv, OneManifest, Windows
      <3>3. Sound(files[pid]) BY <1>1, <2>1 DEF SoundInv
      <3> QED BY <1>3, <2>4, <3>1, <3>2, <3>3, ResumedIsSound
    <2>5. CASE PullsNext
      <3>1. \/ phase = "settle" /\ c.man # None /\ c' = [Resumed(c) EXCEPT !.busy = FALSE]
            \/ c' = [c EXCEPT !.busy = FALSE]
        BY <2>5 DEF PullsNext, Pulls
      <3> QED BY <1>2, <1>3, <2>1, <2>3, <2>4, <3>1
    <2>6. \A s : ~Ends(s) BY DEF Ends
    <2>7. ~GivesIn BY DEF GivesIn, Throw, Running, Awaits
    <2> QED BY <1>5, <2>2, <2>5, <2>6, <2>7, FetchStepResult DEF WaitsOn, AsksAgain
  <1>6. ASSUME NEW f \in up, Receive(f) PROVE SoundClient(c')
    <2>1. Running /\ f \in Frames /\ (c' = c \/ c' = OnFrame(c, f))
      BY <1>6 DEF Receive, Running, FetchInv, WorldOK
    <2> QED BY <1>2, <1>3, <2>1, ReceivedIsSound
  <1>7. ASSUME ~FetchStep, \A f \in up : ~Receive(f)
        PROVE  c' = NewClient \/ (Running /\ c' = c)
    <2>1. ASSUME NEW f \in queued, DeviceHears(f) \/ CommandLost(f)
          PROVE  Running /\ c' = c
      BY <2>1 DEF DeviceHears, CommandLost, Sent, Running, Awaits
    <2>2. ASSUME NEW f \in queued, SendFails(f) PROVE c' = NewClient
      BY <2>2 DEF SendFails, Die
    <2>3. CrashStep => c' = NewClient
      BY DEF CrashStep, Crash, CrashInSave, CrashInClear, Die
    <2>4. ASSUME NEW p \in Asked, Fetch(p) PROVE c' = NewClient BY <2>4 DEF Fetch
    <2>5. ASSUME \/ \E f \in up : FrameLost(f)
                 \/ \E v \in Image : Publish(v)
                 \/ Events \/ UNCHANGED vars
          PROVE  Running /\ c' = c
      BY <2>5 DEF FrameLost, Publish, Events, vars, cvars, Running
    <2> QED BY <1>7, <2>1, <2>2, <2>3, <2>4, <2>5 DEF Next
  <1> QED BY <1>2, <1>4, <1>5, <1>6, <1>7

\* As long as the process has not died, the files of the payload are those of
\* the fetch.
OwnFiles(s, k) == s = NoFiles \/ (s.meta.crc = k.man /\ s.meta.have \subseteq k.have)

\* Before the first death, the files are the client's, or none.
LEMMA OwnFilesStep ==
  ASSUME FetchInv, SavedInv, SoundInv, OneManifest', crashes' = 0, [Next]_vars
  PROVE  /\ \A p \in Pids : files'[p] = NoFiles \/ HasPartial(files'[p])
         /\ phase' \in Windows => OwnFiles(files'[pid'], c')
  <1>0. /\ files \in [Pids -> StoredFiles] /\ ClientOK(c)
        /\ Running => pid \in Pids
        /\ phase \in Windows => c.man # None
    BY DEF FetchInv, CallOK
  <1>1. ~Die BY CountersStep DEF SavedInv, CountersOK, Die
  <1>2. crashes = 0 BY CountersStep DEF SavedInv, CountersOK
  <1>3. /\ \A p \in Pids : files[p] = NoFiles \/ HasPartial(files[p])
        /\ phase \in Windows => OwnFiles(files[pid], c)
    BY <1>2 DEF SoundInv, OwnFiles
  <1> DEFINE Result == /\ \A p \in Pids : files'[p] = NoFiles \/ HasPartial(files'[p])
                       /\ phase' \in Windows => OwnFiles(files'[pid'], c')
  <1>4. CASE UNCHANGED <<phase, pid, files, c>> BY <1>3, <1>4 DEF OwnFiles
  <1>5. CASE UNCHANGED files /\ phase' \notin Windows BY <1>3, <1>5
  <1>6. ASSUME NEW s, s = NoFiles \/ HasPartial(s), Store(s), phase' \notin Windows
        PROVE  Result
    BY <1>0, <1>3, <1>6 DEF Store
  <1>7. ASSUME NEW k, NEW s, NEW n, Pulls(k, s, n), Running, ClientOK(k),
               OwnFiles(s, k), s = NoFiles \/ HasPartial(s)
        PROVE  Result
    <2>1. /\ files' = [files EXCEPT ![pid] = s] /\ pid' = pid
          /\ c'.have = k.have /\ c'.man = k.man
      BY <1>7 DEF Pulls, Store, ClientOK, ClientRecord
    <2>2. files'[pid'] = s BY <2>1, <1>0, <1>7
    <2>3. \A p \in Pids : files'[p] = NoFiles \/ HasPartial(files'[p])
      BY <2>1, <1>0, <1>3, <1>7
    <2> QED BY <2>1, <2>2, <2>3, <1>7 DEF OwnFiles
  <1>8. ASSUME FetchStep PROVE Result
    <2>1. Running /\ pid \in Pids
      BY <1>0, <1>8, FetchStepResult
         DEF Running, Awaits, WaitsOn, GivesIn, PullsNext
    <2>2. files[pid] = NoFiles \/ HasPartial(files[pid]) BY <1>3, <2>1
    <2>3. KeptFiles = NoFiles \/ HasPartial(KeptFiles) BY <2>2 DEF KeptFiles
    <2>4. ASSUME phase = "batch" PROVE HasPartial(Save(c)) /\ OwnFiles(Save(c), c)
      <3>1. c.man # None BY <1>0, <2>4 DEF Windows
      <3> QED BY <1>0, <3>1, SavedIsSound DEF OwnFiles, Save
    <2>5. CASE PullsNext
      <3>1. CASE phase = "settle" /\ c.man # None /\ Pulls(Resumed(c), KeptFiles, 0)
        <4>1. ClientOK(Resumed(c)) /\ Resumed(c).man = c.man
          BY <2>1, <3>1, ResumedOK DEF FetchInv
        <4>2. CASE KeptFiles = NoFiles
          BY <1>7, <2>1, <3>1, <4>1, <4>2 DEF OwnFiles
        <4>3. CASE KeptFiles # NoFiles
          <5>1. /\ KeptFiles = files[pid] /\ HasPartial(files[pid])
                /\ Matches(files[pid], c)
            BY <2>2, <4>3 DEF KeptFiles, StaleFiles
          <5>2. files[pid].meta.have \subseteq Idx(c.man)
            BY <2>1, <5>1 DEF SavedInv, FileOK, HasPartial, Matches
          <5>3. Resumed(c).have = c.have \cup (files[pid].meta.have \cap Idx(c.man))
            BY <1>0, <5>1 DEF Resumed, Seed, ClientOK, ClientRecord
          <5>4. OwnFiles(KeptFiles, Resumed(c))
            BY <4>1, <5>1, <5>2, <5>3 DEF OwnFiles, Matches
          <5> QED BY <1>7, <2>1, <2>3, <3>1, <4>1, <5>4
        <4> QED BY <4>2, <4>3
      <3>2. CASE phase \in Windows /\ \E n : Pulls(c, files[pid], n)
        BY <1>0, <1>3, <1>7, <2>1, <2>2, <3>2
      <3>3. CASE phase = "batch" /\ Pulls(c, Save(c), 0)
        BY <1>0, <1>7, <2>1, <2>4, <3>3
      <3> QED BY <2>5, <3>1, <3>2, <3>3 DEF PullsNext, Windows
    <2>6. CASE WaitsOn
      <3>1. phase \in Windows /\ UNCHANGED <<pid, files, c>> BY <2>6 DEF WaitsOn, Windows
      <3> QED BY <1>3, <3>1 DEF OwnFiles
    <2>7. CASE AsksAgain BY <1>5, <2>7 DEF AsksAgain, Windows
    <2>8. CASE GivesIn BY <1>5, <2>8 DEF GivesIn, Throw, Windows
    <2>9. CASE \/ Ends(files[pid]) \/ Ends(KeptFiles)
               \/ phase = "batch" /\ Ends(Save(c))
      <3>1. phase' \notin Windows BY <2>9 DEF Ends, Running, Awaits, Windows
      <3>2. \/ UNCHANGED files
            \/ \E s : Store(s) /\ (s = NoFiles \/ HasPartial(s))
        BY <2>2, <2>3, <2>4, <2>9 DEF Ends
      <3> HIDE DEF Result
      <3> QED BY <3>1, <3>2, <1>6, <1>5 DEF Result
    <2> QED BY <1>8, <2>5, <2>6, <2>7, <2>8, <2>9, FetchStepResult
  <1>9. ASSUME NEW f \in up, Receive(f) PROVE Result
    <2>1. UNCHANGED <<phase, pid, files>> /\ (c' = c \/ c' = OnFrame(c, f))
      BY <1>9 DEF Receive
    <2>2. ASSUME phase \in Windows PROVE OwnFiles(files'[pid'], c')
      <3>1. Running /\ c.man # None /\ f \in Frames
        BY <1>0, <2>2 DEF Running, Awaits, Windows, FetchInv, WorldOK
      <3>2. c'.man = c.man
        <4>1. c'.man # None BY <1>0, <2>1, <3>1, OnFrameOK
        <4>2. CASE \E g \in up : IsManifest(g) /\ c'.man = g.image
          BY <3>1, <4>2 DEF SoundInv, OneManifest
        <4> QED BY <4>1, <4>2, ManifestStep DEF IsManifest
      <3>3. c.have \subseteq c'.have BY <1>0, <2>1, <3>1, <3>2, OnFrameOK
      <3> QED BY <1>3, <2>1, <2>2, <3>2, <3>3 DEF OwnFiles
    <2> QED BY <1>3, <2>1, <2>2
  <1>10. ASSUME NEW f \in queued, DeviceHears(f) \/ CommandLost(f)
         PROVE  UNCHANGED <<phase, pid, files, c>>
                  \/ (UNCHANGED files /\ phase' \notin Windows)
    BY <1>10 DEF DeviceHears, CommandLost, Sent, Windows
  <1>11. ASSUME \/ \E f \in queued : SendFails(f)
                \/ \E p \in Asked : Fetch(p)
         PROVE  UNCHANGED files /\ phase' \notin Windows
    BY <1>1, <1>11 DEF SendFails, Fetch, Windows
  <1>12. ~CrashStep
    BY <1>1 DEF CrashStep, Crash, CrashInSave, CrashInClear
  <1> QED BY <1>4, <1>5, <1>8, <1>9, <1>10, <1>11, <1>12
          DEF Next, FrameLost, Publish, Events, vars, cvars

\* One death of the process between two files, wherever it falls, leaves no
\* partial that claims chunks it does not hold: savePartial() writes the buffer
\* first, over files that already were those of this fetch.  (Two deaths may;
\* payloads of one id and shape, and frames of an earlier fetch, too.)
THEOREM OneCrashIsSafe ==
  ASSUME Prompt, NoTwins
  PROVE  SafeSpec => []SoundAfterOneCrash
  <1>1. Init => SoundInv
    <2> SUFFICES ASSUME Init PROVE SoundInv OBVIOUS
    <2>2. OneManifest BY DEF Init, OneManifest, Running, Awaits
    <2>3. \A p \in Pids : files[p] = NoFiles BY DEF Init
    <2>4. Sound(NoFiles) BY DEF Sound, NoFiles, HasPartial
    <2> QED BY <2>2, <2>3, <2>4 DEF Init, SoundInv, Running, Awaits, Windows
  <1>2. FetchInv /\ SavedInv /\ SoundInv /\ [Next]_vars => SoundInv'
    <2> SUFFICES ASSUME FetchInv, SavedInv, SoundInv, [Next]_vars PROVE SoundInv' OBVIOUS
    <2>1. OneManifest' BY OneManifestStep DEF SoundInv
    <2>2. crashes' <= 1 => \A p \in Pids : Sound(files'[p]) BY SoundFilesStep
    <2>3. crashes' <= 1 /\ Running' => SoundClient(c') BY SoundClientStep
    <2>4. crashes' = 0 =>
            /\ \A p \in Pids : files'[p] = NoFiles \/ HasPartial(files'[p])
            /\ phase' \in Windows => OwnFiles(files'[pid'], c')
      BY <2>1, OwnFilesStep
    <2> QED BY <2>1, <2>2, <2>3, <2>4 DEF SoundInv, OwnFiles
  <1>3. SoundInv => SoundAfterOneCrash
    BY DEF SoundInv, SoundAfterOneCrash, SoundFiles, Sound
  <1> QED BY <1>1, <1>2, <1>3, SavedInvHolds, FetchInvHolds, PTL DEF SafeSpec

-----------------------------------------------------------------------------
(* Every empty window has cost a frame.                                    *)

\* Every set of chunk numbers has a smallest one.
LEMMA Least ==
  ASSUME NEW S, S \subseteq Nat, S # {}
  PROVE  \E i \in S : \A j \in S : i <= j
  <1> DEFINE R == OpToRel(<, Nat)
  <1>1. IsWellFoundedOn(R, Nat) BY NatLessThanWellFounded
  <1>2. \A x, y \in Nat : x < y => <<x, y>> \in R BY DEF OpToRel
  <1> HIDE DEF R
  <1>3. PICK i \in S : \A j \in S : ~ (<<j, i>> \in R) BY <1>1, WFMin
  <1>4. i \in Nat /\ \A j \in S : j \in Nat OBVIOUS
  <1>5. ASSUME NEW j \in S PROVE ~ (j < i) BY <1>2, <1>3, <1>4, Zenon
  <1> QED BY <1>4, <1>5

\* A set of chunk numbers has its least among them.
LEMMA FirstIsIn ==
  ASSUME NEW ids, ids \subseteq Nat, ids # {}
  PROVE  First(ids) \in ids
  <1>1. \E i \in ids : \A j \in ids : i <= j BY Least
  <1> QED BY <1>1 DEF First

\* requestNext(): an incomplete client asks for something, and for nothing that
\* it has.
LEMMA NextRunIsGap ==
  ASSUME NEW k, ClientOK(k), k.man # None, ~IsComplete(k)
  PROVE  /\ NextRun(k, Batch) # {}
         /\ NextRun(k, Batch) \subseteq Idx(k.man) \ k.have
         /\ NextRun(k, Batch) \subseteq Nat
  <1>1. k.man \in Image /\ k.have \subseteq Idx(k.man)
    BY DEF ClientOK, ClientRecord, Bytes
  <1>2. Count[k.man] \in Nat \ {0} /\ Idx(k.man) \subseteq Nat
    BY <1>1, ImageFacts
  <1>3. Idx(k.man) \ k.have # {} BY <1>1 DEF IsComplete
  <1>4. PICK m \in Idx(k.man) \ k.have : \A j \in Idx(k.man) \ k.have : m <= j
    BY <1>2, <1>3, Least
  <1>5. 0 .. m - 1 \subseteq k.have
    BY <1>2, <1>4 DEF Idx
  <1>6. m .. m \cap k.have = {} /\ m <= m /\ m < m + Batch
    BY <1>2, <1>4, FetchAssumption
  <1>7. m \in NextRun(k, Batch) BY <1>4, <1>5, <1>6 DEF NextRun
  <1> QED BY <1>2, <1>7 DEF NextRun

\* A missing chunk is asked for, or on the air, or the device has said BUSY.
Due == \/ \E f \in queued : /\ f.type = "pull" /\ f.pid = Pid[held]
                            /\ \E i \in f.ids : i \in Idx(held) \ c.have
       \/ \E f \in up : f.type = "chunk" /\ f.idx \notin c.have
       \/ \E f \in up : f.type = "busy" /\ f.pid = Pid[held]

\* The window has brought a chunk, or will, or has lost one; an empty window
\* has lost one.
WindowOK == /\ Cardinality(c.have) >= before
            /\ ~Progressed => ~IsComplete(c)
            /\ Progressed \/ c.busy \/ Due \/ idle < losses

\* ToleratesLoss, and what it rests on.
LossInv ==
  /\ \A f \in queued : f.type = "pull" => f.ids # {} /\ f.ids \subseteq Nat
  /\ publishes = 0 /\ losses < MaxIdle =>
       /\ error # "stalled" /\ idle <= losses
       /\ phase = "window" => WindowOK

\* A new window: its pull is queued, unless one like it already is.
LEMMA PullIsDue ==
  ASSUME LossInv, publishes = 0, NEW k, ClientOK(k), k.man = held, held # None,
         NEW s, NEW n, Pulls(k, s, n), held' = held, n <= losses, losses' = losses,
         error # "stalled"
  PROVE  LossInv'
  <1> DEFINE f == Pull(Pid[k.man], NextRun(k, Batch))
  <1>1. /\ NextRun(k, Batch) # {} /\ NextRun(k, Batch) \subseteq Nat
        /\ NextRun(k, Batch) \subseteq Idx(held) \ k.have
    BY NextRunIsGap DEF Pulls
  <1>2. /\ f.type = "pull" /\ f.pid = Pid[held] /\ f.ids = NextRun(k, Batch)
    BY DEF Pull
  <1>3. /\ c'.have = k.have /\ c'.man = held
        /\ before' = Cardinality(k.have) /\ idle' = n /\ UNCHANGED error
        /\ ~IsComplete(k) /\ Enqueue(f)
    BY DEF Pulls, ClientOK, ClientRecord
  <1> HIDE DEF f
  <1>4. PICK g \in queued' : /\ g.type = "pull" /\ g.pid = Pid[held]
                             /\ \E i \in g.ids : i \in Idx(held) \ k.have
    <2>1. CASE \E g \in queued : SameKey(f, g)
      <3>1. PICK g \in queued : SameKey(f, g) BY <2>1
      <3>2. g.type = "pull" /\ g.pid = Pid[held] /\ First(f.ids) = First(g.ids)
        BY <1>2, <3>1 DEF SameKey
      <3>3. g.ids # {} /\ g.ids \subseteq Nat BY <3>2 DEF LossInv
      <3>4. First(g.ids) \in g.ids BY <3>3, FirstIsIn
      <3>5. First(f.ids) \in f.ids BY <1>1, <1>2, FirstIsIn
      <3>6. queued' = queued BY <1>3, <2>1 DEF Enqueue
      <3> QED BY <1>1, <1>2, <3>2, <3>4, <3>5, <3>6
    <2>2. CASE ~ \E g \in queued : SameKey(f, g)
      <3>1. f \in queued' BY <1>3, <2>2 DEF Enqueue
      <3> QED BY <1>1, <1>2, <3>1
    <2> QED BY <2>1, <2>2
  <1>5. Due' BY <1>3, <1>4 DEF Due
  <1>6. Cardinality(k.have) \in Nat
    <2>1. held \in Image /\ k.have \subseteq Idx(held) BY DEF ClientOK, ClientRecord, Bytes
    <2> QED BY <2>1, ImageFacts, FS_Subset, FS_CardinalityType
  <1>7. WindowOK'
    BY <1>3, <1>5, <1>6 DEF WindowOK, IsComplete, Progressed
  <1>8. \A q \in queued' : q.type = "pull" => q.ids # {} /\ q.ids \subseteq Nat
    BY <1>1, <1>2, <1>3 DEF Enqueue, LossInv
  <1> QED BY <1>3, <1>7, <1>8 DEF LossInv

\* A pull that is asked for is a pull of something.
LEMMA PullsAsk ==
  ASSUME FetchInv, LossInv, [Next]_vars
  PROVE  \A f \in queued' : f.type = "pull" => f.ids # {} /\ f.ids \subseteq Nat
  <1>1. \A f \in queued : f.type = "pull" => f.ids # {} /\ f.ids \subseteq Nat
    BY DEF LossInv
  <1>2. CASE queued' \subseteq queued BY <1>1, <1>2
  <1>3. ASSUME NEW p, Enqueue(Info(p))
        PROVE  \A f \in queued' : f.type = "pull" => f.ids # {} /\ f.ids \subseteq Nat
    BY <1>1, <1>3 DEF Enqueue, Info
  <1>4. CASE FetchStep
    <2>1. CASE PullsNext
      <3>1. Running /\ c.man # None
        BY <2>1 DEF PullsNext, Running, Awaits, FetchInv, CallOK, Windows
      <3>2. PICK k, s, n : k \in {c, Resumed(c)} /\ Pulls(k, s, n)
        BY <2>1 DEF PullsNext
      <3>3. ClientOK(k) /\ k.man # None
        BY <3>1, <3>2, ResumedOK DEF FetchInv, CallOK
      <3>4. NextRun(k, Batch) # {} /\ NextRun(k, Batch) \subseteq Nat
        BY <3>2, <3>3, NextRunIsGap DEF Pulls
      <3> QED BY <1>1, <3>2, <3>4 DEF Pulls, Enqueue, Pull
    <2>2. CASE WaitsOn \/ GivesIn \/ (\E s : Ends(s))
      BY <1>2, <2>2 DEF WaitsOn, GivesIn, Ends, Throw
    <2>3. CASE AsksAgain BY <1>3, <2>3 DEF AsksAgain
    <2> QED BY <1>4, <2>1, <2>2, <2>3, FetchStepResult
  <1>5. ASSUME NEW p \in Asked, Fetch(p) PROVE Enqueue(Info(p)) BY <1>5 DEF Fetch
  <1>6. ASSUME ~FetchStep, \A p \in Asked : ~Fetch(p) PROVE queued' \subseteq queued
    BY <1>6 DEF Next, CrashStep, Crash, CrashInSave, CrashInClear, Die, DeviceHears,
                CommandLost, Sent, SendFails, Receive, FrameLost, Publish, Events, vars
  <1> QED BY <1>2, <1>3, <1>4, <1>5, <1>6

\* A loss that is counted, while losses still count.
LEMMA LossCounts ==
  ASSUME LossesCounted >= MaxIdle, CountersOK, CountLoss, losses' < MaxIdle
  PROVE  losses' = losses + 1
  <1>1. LossesCounted \in Nat /\ MaxIdle \in Nat /\ losses \in Nat
    BY FetchAssumption DEF CountersOK
  <1> QED BY <1>1 DEF CountLoss

\* What onFrame() does in a window: the chunks stay, and grow by a chunk that was
\* missing; a BUSY is noticed.
LEMMA WindowHears ==
  ASSUME FetchInv, SavedInv, publishes = 0, phase = "window", NEW f \in up
  PROVE  /\ OnFrame(c, f).man = c.man
         /\ c.have \subseteq OnFrame(c, f).have
         /\ c.busy => OnFrame(c, f).busy
         /\ f.type = "chunk" => f.idx \in OnFrame(c, f).have
         /\ f.type = "busy" /\ f.pid = Pid[held] => OnFrame(c, f).busy
  <1>1. f \in Frames /\ ClientOK(c) /\ c.man # None
    BY DEF FetchInv, WorldOK, CallOK, Windows
  <1>2. c.man = held /\ (f.type \in {"manifest", "chunk"} => f.image = held)
    BY <1>1 DEF SavedInv, OnlyPayload
  <1>3. CASE f.type = "manifest"
    BY <1>1, <1>2, <1>3 DEF OnFrame, IsRepeat, SamePid, SameShape
  <1>4. CASE f.type = "chunk"
    <2>1. f.idx \in Idx(held)
      BY <1>1, <1>2, <1>4 DEF Frames, Manifest, Chunk, Gone, Busy
    <2>2. OnFrame(c, f) = [c EXCEPT !.buf[f.idx] = f.image, !.have = @ \cup {f.idx}]
      BY <1>1, <1>2, <1>4, <2>1 DEF OnFrame, Belongs, SamePid, SameShape
    <2> QED BY <1>1, <1>4, <2>2 DEF ClientOK, ClientRecord
  <1>5. CASE f.type = "gone"
    <2>1. OnFrame(c, f) = [c EXCEPT !.gone = TRUE] BY <1>5 DEF OnFrame
    <2> QED BY <1>1, <1>5, <2>1 DEF ClientOK, ClientRecord
  <1>6. CASE f.type = "busy"
    <2>1. OnFrame(c, f) = IF Pid[held] = f.pid THEN [c EXCEPT !.busy = TRUE] ELSE c
      BY <1>1, <1>2, <1>6 DEF OnFrame
    <2> QED BY <1>1, <1>6, <2>1 DEF ClientOK, ClientRecord
  <1> QED BY <1>1, <1>3, <1>4, <1>5, <1>6 DEF Frames, Manifest, Chunk, Gone, Busy

\* An empty window has lost a frame: nothing is under way when it ends.
LEMMA EmptyWindowLost ==
  ASSUME Prompt, WindowOK, ~Progressed, ~c.busy, IsVerified(c) \/ AirIsQuiet
  PROVE  idle < losses
  <1>1. ~IsVerified(c) BY DEF WindowOK, IsVerified
  <1>2. queued = {} /\ up = {} BY <1>1 DEF AirIsQuiet, Settled
  <1> QED BY <1>2 DEF WindowOK, Due

\* A window stays in order when frames come in.
LEMMA WindowGrows ==
  ASSUME FetchInv, WindowOK, ClientOK(c'), c.man # None, c'.man = c.man,
         c.have \subseteq c'.have, UNCHANGED <<before, idle>>,
         c'.have = c.have => c'.busy \/ Due' \/ idle < losses' \/ Progressed
  PROVE  WindowOK'
  <1>1. c.man \in Image /\ c'.have \subseteq Idx(c.man) /\ before \in Nat
    BY DEF ClientOK, ClientRecord, Bytes, FetchInv, CallOK
  <1>2. IsFiniteSet(c'.have) BY <1>1, ImageFacts, FS_Subset
  <1>3. /\ IsFiniteSet(c.have) /\ Cardinality(c.have) <= Cardinality(c'.have)
        /\ Cardinality(c'.have) = Cardinality(c.have) => c'.have = c.have
    BY <1>2, FS_Subset
  <1>4. Cardinality(c.have) \in Nat /\ Cardinality(c'.have) \in Nat
    BY <1>2, <1>3, FS_CardinalityType
  <1>5. Cardinality(c.have) >= before BY DEF WindowOK
  <1>6. CASE c'.have = c.have
    BY <1>5, <1>6 DEF WindowOK, IsComplete, Progressed
  <1>7. CASE c'.have # c.have
    <2>1. Cardinality(c'.have) > before BY <1>1, <1>3, <1>4, <1>5, <1>7
    <2> QED BY <1>1, <1>4, <2>1 DEF WindowOK, Progressed
  <1> QED BY <1>6, <1>7

\* Every step keeps idle windows below losses.
LEMMA LossStep ==
  ASSUME Prompt, LossesCounted >= MaxIdle, FetchInv, SavedInv, LossInv, [Next]_vars
  PROVE  LossInv'
  <1> SUFFICES ASSUME publishes' = 0, losses' < MaxIdle
               PROVE  /\ error' # "stalled" /\ idle' <= losses'
                      /\ phase' = "window" => WindowOK'
    BY PullsAsk DEF LossInv
  <1>0. publishes = 0 /\ held' = held /\ losses <= losses'
    BY CountersStep DEF SavedInv
  <1>t. /\ MaxIdle \in Nat /\ losses \in Nat /\ idle \in Nat /\ losses' \in Nat
        /\ ClientOK(c) /\ CountersOK /\ held \in Image /\ held # None
        /\ phase \in Windows => c.man # None
        /\ error # "stalled" \/ losses >= MaxIdle
    BY <1>0, CountersStep, FetchAssumption, ImageFacts
       DEF SavedInv, CountersOK, FetchInv, CallOK, WorldOK, LossInv
  <1>1. /\ losses < MaxIdle /\ error # "stalled" /\ idle <= losses
        /\ phase = "window" => WindowOK
        /\ idle <= losses'
    BY <1>0, <1>t DEF LossInv
  <1>2. None # "stalled" /\ 0 <= losses' BY <1>t, NoErrorAssumption DEF Errors
  <1>3. CASE UNCHANGED <<phase, c, before, idle, error>>
             /\ (UNCHANGED <<queued, up>> \/ losses < losses')
    <2>1. phase = "window" => WindowOK'
      BY <1>0, <1>1, <1>3, <1>t DEF WindowOK, Progressed, IsComplete, Due
    <2> QED BY <1>1, <1>3, <2>1
  <1>4. CASE phase' # "window" /\ error' \in {error, None, "gone", "crc", "timeout", "http"}
             /\ idle' \in {idle, 0}
    BY <1>1, <1>2, <1>4
  <1>5. CASE FetchStep
    <2>1. losses' = losses /\ UNCHANGED up BY <1>5, FetchStepResult
    <2>2. CASE WaitsOn
      BY <1>4, <2>2 DEF WaitsOn
    <2>3. CASE AsksAgain BY <1>4, <2>3 DEF AsksAgain
    <2>4. CASE \E s : Ends(s)
      BY <1>4, <2>4 DEF Ends, Running, Awaits
    <2>5. CASE GivesIn
      <3>1. idle < losses BY <1>1, <2>5, EmptyWindowLost DEF GivesIn
      <3>2. idle + 1 >= MaxIdle BY <2>5 DEF GivesIn, GivesUp, CountIdle
      <3> QED BY <1>1, <1>t, <3>1, <3>2
    <2>6. CASE PullsNext
      <3>1. Running /\ c.man # None
        BY <1>t, <2>6 DEF PullsNext, Running, Awaits, Windows
      <3>2. PICK k, s, n :
              /\ k \in {c, Resumed(c)} /\ Pulls(k, s, n)
              /\ n = 0 \/ (n = idle + 1 /\ idle < losses)
        <4>1. CASE /\ phase = "window" /\ ~Progressed /\ ~c.busy
                   /\ (IsVerified(c) \/ AirIsQuiet)
                   /\ Pulls(c, files[pid], CountIdle(idle))
          <5>1. idle < losses BY <1>1, <4>1, EmptyWindowLost
          <5> QED BY <4>1, <5>1 DEF CountIdle
        <4> QED BY <2>6, <4>1 DEF PullsNext
      <3>3. ClientOK(k) /\ k.man = held
        <4>1. c.man = held BY <1>0, <3>1 DEF SavedInv, OnlyPayload
        <4> QED BY <1>t, <3>1, <3>2, <4>1, ResumedOK DEF FetchInv
      <3>4. n <= losses BY <1>t, <3>2
      <3>5. LossInv' BY <1>0, <1>1, <1>t, <2>1, <3>2, <3>3, <3>4, PullIsDue
      <3> QED BY <3>5 DEF LossInv
    <2> QED BY <1>5, <2>2, <2>3, <2>4, <2>5, <2>6, FetchStepResult
  <1>6. ASSUME NEW p \in Asked, Fetch(p) PROVE error' = None /\ idle' = 0 /\ phase' # "window"
    BY <1>6 DEF Fetch
  <1>7. ASSUME Die PROVE error' = None /\ idle' = 0 /\ phase' # "window"
    BY <1>7 DEF Die
  <1>8. ASSUME CrashStep PROVE Die
    BY <1>8 DEF CrashStep, Crash, CrashInSave, CrashInClear
  <1>9. ASSUME NEW f \in queued, SendFails(f)
        PROVE  Die \/ (error' = "http" /\ idle' = idle /\ phase' # "window")
    BY <1>9 DEF SendFails
  <1>10. ASSUME NEW f \in queued, Sent(f), UNCHANGED <<c, before, idle, error>>
         PROVE  UNCHANGED <<phase, c, before, idle, error>>
                  \/ (phase # "window" /\ phase' # "window" /\ error' = error /\ idle' = idle)
    BY <1>10 DEF Sent
  <1>11. ASSUME NEW f \in queued, CommandLost(f)
         PROVE  /\ error' # "stalled" /\ idle' <= losses'
                /\ phase' = "window" => WindowOK'
    <2>1. Sent(f) /\ UNCHANGED <<c, before, idle, error>> /\ losses' = losses + 1
      BY <1>11, <1>t, LossCounts DEF CommandLost
    <2>2. losses < losses' BY <1>t, <2>1
    <2> QED BY <1>3, <1>4, <1>10, <2>1, <2>2
  <1>12. ASSUME NEW f \in queued, DeviceHears(f)
         PROVE  /\ error' # "stalled" /\ idle' <= losses'
                /\ phase' = "window" => WindowOK'
    <2>1. /\ Sent(f) /\ UNCHANGED <<c, before, idle, error>> /\ losses' = losses
          /\ queued' = queued \ {f}
      BY <1>12 DEF DeviceHears, Sent
    <2>2. CASE phase # "window" /\ phase' # "window" BY <1>4, <2>1, <2>2
    <2>3. CASE phase = "window" /\ UNCHANGED phase
      <3>1. WindowOK BY <1>1, <2>3
      <3>2. PICK new \in Answers(f) : up' = up \cup new BY <1>12 DEF DeviceHears
      <3>3. ASSUME f.type = "pull", f.pid = Pid[held],
                   NEW i \in f.ids, i \in Idx(held) \ c.have
            PROVE  \/ \E g \in new : g.type = "chunk" /\ g.idx \notin c.have
                   \/ \E g \in new : g.type = "busy" /\ g.pid = Pid[held]
        <4>1. CASE new = {Busy(f.pid)} BY <3>3, <4>1 DEF Busy
        <4>2. CASE new = {Chunk(j, held) : j \in f.ids \cap Idx(held)}
          <5>1. Chunk(i, held) \in new BY <3>3, <4>2
          <5> QED BY <3>3, <5>1 DEF Chunk
        <4> QED BY <3>3, <4>1, <4>2 DEF Answers
      <3>4. Due => Due'
        BY <1>0, <2>1, <3>2, <3>3 DEF Due
      <3>5. WindowOK' BY <2>1, <3>1, <3>4 DEF WindowOK, Progressed, IsComplete
      <3> QED BY <1>1, <2>1, <3>5
    <2> QED BY <1>10, <2>1, <2>2, <2>3
  <1>13. ASSUME NEW f \in up, FrameLost(f)
         PROVE  UNCHANGED <<phase, c, before, idle, error>> /\ losses < losses'
    <2>1. UNCHANGED <<phase, c, before, idle, error>> /\ CountLoss
      BY <1>13 DEF FrameLost, cvars
    <2>2. losses' = losses + 1 BY <1>t, <2>1, LossCounts
    <2> QED BY <1>t, <2>1, <2>2
  <1>14. ASSUME NEW f \in up, Receive(f)
         PROVE  /\ error' # "stalled" /\ idle' <= losses'
                /\ phase' = "window" => WindowOK'
    <2>1. /\ UNCHANGED <<phase, before, idle, error, queued>>
          /\ up' = up \/ up' = up \ {f}
          /\ \/ c' = (IF Running THEN OnFrame(c, f) ELSE c) /\ losses' = losses
             \/ CountLoss /\ c' = c
      BY <1>14 DEF Receive
    <2>2. CASE CountLoss /\ c' = c
      <3>1. losses' = losses + 1 BY <1>t, <2>2, LossCounts
      <3> QED BY <1>3, <1>t, <2>1, <2>2, <3>1
    <2>3. CASE /\ phase = "window" /\ c' = OnFrame(c, f) /\ losses' = losses
      <3>1. /\ c'.man = c.man /\ c.have \subseteq c'.have /\ (c.busy => c'.busy)
            /\ (f.type = "chunk" => f.idx \in c'.have)
            /\ (f.type = "busy" /\ f.pid = Pid[held] => c'.busy)
        BY <1>0, <2>3, WindowHears
      <3>2. ClientOK(c') /\ c.man # None /\ WindowOK
        BY <1>1, <1>t, <2>3, OnFrameOK DEF FetchInv, WorldOK, Windows
      <3>3. ASSUME c'.have = c.have, Due PROVE c'.busy \/ Due'
        BY <1>0, <2>1, <3>1, <3>3 DEF Due
      <3>4. c'.have = c.have => c'.busy \/ Due' \/ idle < losses' \/ Progressed
        BY <2>3, <3>1, <3>2, <3>3 DEF WindowOK
      <3>5. WindowOK' BY <2>1, <3>1, <3>2, <3>4, WindowGrows
      <3> QED BY <1>1, <2>1, <3>5
    <2>4. CASE phase # "window" BY <1>4, <2>1, <2>4
    <2> QED BY <2>1, <2>2, <2>3, <2>4 DEF Running, Awaits
  <1>15. ASSUME NEW v \in Image, Publish(v) PROVE FALSE
    BY <1>0, <1>15 DEF Publish
  <1>16. ASSUME Events \/ UNCHANGED vars
         PROVE  UNCHANGED <<phase, c, before, idle, error, queued, up>>
    BY <1>16 DEF Events, vars, cvars, avars
  <1> QED BY <1>3, <1>4, <1>5, <1>6, <1>7, <1>8, <1>9, <1>11, <1>12, <1>13, <1>14,
             <1>15, <1>16 DEF Next

\* A fetch from a device that stays is given up for silence only when it has
\* lost as many frames as it sits out empty windows, whichever frames they were
\* and however often the process died: on an air that is quiet when a window
\* ends, an empty window has lost its pull, a chunk or the BUSY.
THEOREM FetchToleratesLoss ==
  ASSUME Prompt, LossesCounted >= MaxIdle
  PROVE  SafeSpec => []ToleratesLoss
  <1>1. Init => LossInv
    BY NoErrorAssumption, FetchAssumption DEF Init, LossInv, Errors
  <1>2. FetchInv /\ SavedInv /\ LossInv /\ [Next]_vars => LossInv'
    BY LossStep
  <1>3. LossInv => ToleratesLoss BY DEF LossInv, ToleratesLoss
  <1> QED BY <1>1, <1>2, <1>3, FetchInvHolds, SavedInvHolds, PTL DEF SafeSpec
=============================================================================
