---------------------------- MODULE ChunkClient ----------------------------
(***************************************************************************)
(* The pull side's reassembly (lib/chunk.js) and the partial transfers it  *)
(* leaves on disk (lib/store.js): what ChunkClient does with a frame, which *)
(* chunks it asks for next, what PayloadStore writes and reads back.       *)
(*                                                                         *)
(* An image stands for its bytes and for their CRC, which do not collide;  *)
(* its payload id and its shape (bytes and chunks) may be another's too.   *)
(* The bytes of a chunk are the image they come from.                      *)
(***************************************************************************)
EXTENDS Integers, FiniteSets

CONSTANTS
  Image,                 \* what a device may publish
  Pid,                   \* [Image -> Nat \ {0}], the payload id
  Count,                 \* [Image -> Nat \ {0}], chunks
  None                   \* no manifest, no bytes, no file

ASSUME ImageAssumption == /\ Pid \in [Image -> Nat \ {0}]
                          /\ Count \in [Image -> Nat \ {0}]
                          /\ None \notin Image

Idx(v) == 0 .. Count[v] - 1
Pids == {Pid[v] : v \in Image}
AllIdx == UNION {Idx(v) : v \in Image}
Bytes == Image \cup {None}

\* null is neither a buffer nor a sidecar.
ASSUME NoneAssumption == /\ \A v \in Image : None \notin [Idx(v) -> Bytes]
                         /\ None \notin [crc : Image, have : SUBSET AllIdx]

SamePid(v, w) == Pid[v] = Pid[w]
SameShape(v, w) == Count[v] = Count[w]

-----------------------------------------------------------------------------
\* The frames a device sends on port 261.
Manifest(v) == [type |-> "manifest", image |-> v]
Chunk(i, v) == [type |-> "chunk", idx |-> i, image |-> v]
Gone(p) == [type |-> "gone", pid |-> p]
Busy(p) == [type |-> "busy", pid |-> p]
Frames == {Manifest(v) : v \in Image}
          \cup (UNION {{Chunk(i, v) : i \in Idx(v)} : v \in Image})
          \cup {Gone(p) : p \in Pids} \cup {Busy(p) : p \in Pids}

-----------------------------------------------------------------------------
(* ChunkClient: man is the manifest adopted, busy a BUSY not yet obeyed.   *)

Blank(n) == [i \in 0 .. n - 1 |-> None]
NewClient == [man |-> None, buf |-> Blank(0), have |-> {}, gone |-> FALSE,
              busy |-> FALSE]

\* Mutant: every manifest is applied.
NeverRepeat(c, v) == FALSE

\* The manifest repeats what is known: same id, same shape.  The CRC is not
\* compared.
IsRepeat(c, v) == c.man # None /\ SamePid(c.man, v) /\ SameShape(c.man, v)

Adopt(c, v) == [c EXCEPT !.man = v, !.buf = Blank(Count[v]), !.have = {},
                         !.gone = FALSE]

\* Mutant: the last chunk is taken for one too many.
BelongsOffByOne(c, i, v) == c.man # None /\ SamePid(c.man, v) /\ i + 1 \in Idx(c.man)

\* The chunk says it belongs to the payload being fetched.
Belongs(c, i, v) == /\ c.man # None
                    /\ SamePid(c.man, v) /\ SameShape(c.man, v)
                    /\ i \in Idx(c.man)

\* onFrame().  A GONE is taken whatever payload it names.
OnFrame(c, f) ==
  CASE f.type = "manifest" -> IF IsRepeat(c, f.image) THEN c ELSE Adopt(c, f.image)
    [] f.type = "chunk" ->
         IF Belongs(c, f.idx, f.image)
         THEN [c EXCEPT !.buf[f.idx] = f.image, !.have = @ \cup {f.idx}]
         ELSE c
    [] f.type = "gone" -> [c EXCEPT !.gone = TRUE]
    [] f.type = "busy" ->
         IF c.man # None /\ Pid[c.man] = f.pid THEN [c EXCEPT !.busy = TRUE] ELSE c

Whole(v) == [i \in Idx(v) |-> v]
IsComplete(c) == c.man # None /\ c.have = Idx(c.man)

\* Mutant: completeness is taken for correctness.
IsVerifiedByCount(c) == IsComplete(c)

\* The CRC of the whole is the assertion.
IsVerified(c) == IsComplete(c) /\ c.buf = Whole(c.man)

\* requestNext(): the first gap, up to batch chunks in a row.
NextRun(c, batch) ==
  {i \in Idx(c.man) \ c.have :
     \E first \in Idx(c.man) \ c.have :
       /\ first <= i /\ i < first + batch
       /\ 0 .. first - 1 \subseteq c.have
       /\ first .. i \cap c.have = {}}

-----------------------------------------------------------------------------
(* PayloadStore: per payload id a buffer file and a sidecar file.          *)

NoFiles == [buf |-> None, meta |-> None]

\* savePartial() writes the buffer and the sidecar, ...
Save(c) == [buf |-> c.buf, meta |-> [crc |-> c.man, have |-> c.have]]

\* Mutant: the sidecar goes first.
SidecarFirst(files, c) == [files EXCEPT !.meta = [crc |-> c.man, have |-> c.have]]

\* ... the buffer first; clearPartial() removes it first, too.
SaveFirst(files, c) == [files EXCEPT !.buf = c.buf]
ClearFirst(files) == [files EXCEPT !.buf = None]

\* loadPartial(): both files, and they agree on the length.
HasPartial(files) == /\ files.buf # None /\ files.meta # None
                     /\ DOMAIN files.buf = Idx(files.meta.crc)

\* The partial is of the payload the manifest describes.
Matches(files, c) == files.meta.crc = c.man

\* seed(): the saved bytes over the fresh buffer, if they fit it.
Seed(c, files) ==
  [c EXCEPT !.buf = IF DOMAIN files.buf = Idx(c.man) THEN files.buf ELSE @,
            !.have = @ \cup (files.meta.have \cap Idx(c.man))]
=============================================================================
