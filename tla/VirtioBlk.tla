----------------------------- MODULE VirtioBlk -----------------------------
(***************************************************************************)
(* The virtio-mmio block device: a split virtqueue in guest memory, the    *)
(* device registers and the disk image, which all runners of an SMP        *)
(* machine share, and the read cache that each runner has of its own.      *)
(*                                                                         *)
(* A request chain is a record: its kind, its first sector, the sectors    *)
(* its data descriptors cover (one each), what the guest put into them,    *)
(* and whether it ends in a status byte the device may write.  Sectors     *)
(* stand for 512 bytes; the read-ahead is Ahead sectors; ring indices wrap *)
(* at IdxMod (2^16 in the code).                                           *)
(***************************************************************************)
EXTENDS Integers, Sequences, SequencesExt, FiniteSets

CONSTANTS
  Harts,
  Requests,  \* the chains a guest may publish
  Capacity,  \* sectors of the disk
  Vals,      \* contents of a sector; 0 is what a read past the end gives
  Images,    \* images the host may load
  Q,         \* queue_num
  IdxMod,
  Ahead,
  NoCache,
  NoChain    \* a descriptor the driver has not filled

ASSUME DiskAssumption ==
  /\ Capacity \in Nat \ {0} /\ Ahead \in Nat \ {0} /\ 0 \in Vals
  /\ Images \subseteq [0 .. Capacity - 1 -> Vals]
  /\ Q \in Nat \ {0} /\ IdxMod \in Nat /\ IdxMod > Q /\ IdxMod % Q = 0
  /\ \A r \in Requests :
       /\ r.kind \in {"in", "out", "other"} /\ r.at \in Nat /\ r.len \in Nat
       /\ r.whole \in BOOLEAN /\ r.vals \in Seq(Vals)
       /\ r.kind = "out" => Len(r.vals) = r.len
  /\ NoCache \notin [base : Nat, content : Seq(Vals)]

VARIABLES
  disk,                     \* the image
  cache,                    \* cache[h]: read cache of runner h
  ready, lastAvail, int,    \* device registers: queue set up, next avail index, interrupt status
  chain, avail, availIdx,   \* written by the driver: chains, avail ring, its index
  used, usedIdx,            \* written by the device: used ring, its index
  status, buf               \* written by the device: status bytes, data read

device == <<ready, lastAvail, int>>
rings == <<chain, avail, availIdx, used, usedIdx, status, buf>>
diskVars == <<disk, cache, device, rings>>

Heads == 0 .. Q - 1

Plus_NoWrap(i, n) == i + n

Plus(i, n) == (i + n) % IdxMod
Distance(i, j) == (j - i) % IdxMod

Contents(d, sector, n) ==
  [i \in 1 .. n |-> IF sector + i - 1 \in DOMAIN d THEN d[sector + i - 1] ELSE 0]

Overwritten(d, sector, vals) ==
  [s \in DOMAIN d |->
     IF s \in sector .. sector + Len(vals) - 1 THEN vals[s - sector + 1] ELSE d[s]]

-----------------------------------------------------------------------------
(* Serving one chain.  s collects what the device has changed so far.      *)

Covers(c, sector) == c # NoCache /\ sector \in c.base .. c.base + Ahead - 1

\* A miss replaces the cache by a snapshot that starts at the sector read.
Looked(d, c, sector) ==
  IF Covers(c, sector) THEN c
  ELSE [base |-> sector, content |-> Contents(d, sector, Ahead)]

ReadSectors(s, r) ==
  FoldLeft(LAMBDA p, sector :
             LET c == Looked(s.disk, p.cache, sector) IN
             [cache |-> c, data |-> Append(p.data, c.content[sector - c.base + 1])],
           [cache |-> s.cache, data |-> <<>>],
           [i \in 1 .. r.len |-> r.at + i - 1])

CopyIn(s, head) ==
  LET r == ReadSectors(s, chain[head]) IN
  [s EXCEPT !.cache = r.cache, !.buf[head] = r.data]

CopyOut_KeepsCache(s, head) ==
  LET r == chain[head] IN [s EXCEPT !.disk = Overwritten(@, r.at, r.vals)]

\* Only the cache of the runner that processes the queue is dropped, and only
\* if some byte was copied.
CopyOut(s, head) ==
  LET r == chain[head] IN
  [s EXCEPT !.disk = Overwritten(@, r.at, r.vals),
            !.cache = IF r.len > 0 /\ r.at < Capacity THEN NoCache ELSE @]

FinishUsed_Coalesced(s, head, st) ==
  [s EXCEPT !.status[head] = st,
            !.used[s.usedIdx % Q] = head,
            !.usedIdx = Plus(@, 1),
            !.int = @ \/ s.usedIdx % Q = Q - 1]

FinishUsed(s, head, st) ==
  [s EXCEPT !.status[head] = st,
            !.used[s.usedIdx % Q] = head,
            !.usedIdx = Plus(@, 1),
            !.int = TRUE]

Moved(s, head) ==
  CASE chain[head].kind = "in" -> CopyIn(s, head)
    [] chain[head].kind = "out" -> CopyOut(s, head)
    [] OTHER -> s

ProcessChain_AnswersTorn(s, head) ==
  FinishUsed(Moved(s, head), head, IF chain[head].whole THEN "ok" ELSE "unsupp")

\* A chain whose last descriptor is not writable ends here, its data moved.
ProcessChain(s, head) ==
  LET st == IF chain[head].kind = "other" THEN "unsupp" ELSE "ok" IN
  IF chain[head].whole THEN FinishUsed(Moved(s, head), head, st) ELSE Moved(s, head)

Batch_LeavesOne ==
  LET n == Distance(lastAvail, availIdx) IN
  [i \in 1 .. (IF n < Q THEN n ELSE Q - 1) |-> avail[Plus(lastAvail, i - 1) % Q]]

\* The avail entries one notification consumes.
Batch ==
  LET n == Distance(lastAvail, availIdx) IN
  [i \in 1 .. (IF n < Q THEN n ELSE Q) |-> avail[Plus(lastAvail, i - 1) % Q]]

-----------------------------------------------------------------------------
(* Register writes.                                                        *)

\* QueueNotify: virtio_blk_process_available.
Notify(h) ==
  IF ~ready THEN UNCHANGED diskVars
  ELSE LET s == FoldLeft(ProcessChain,
                         [disk |-> disk, cache |-> cache[h], buf |-> buf, status |-> status,
                          used |-> used, usedIdx |-> usedIdx, int |-> int],
                         Batch)
       IN
       /\ disk' = s.disk
       /\ cache' = [cache EXCEPT ![h] = s.cache]
       /\ buf' = s.buf
       /\ status' = s.status
       /\ used' = s.used
       /\ usedIdx' = s.usedIdx
       /\ int' = s.int
       /\ lastAvail' = Plus(lastAvail, Len(Batch))
       /\ UNCHANGED <<ready, chain, avail, availIdx>>

InterruptAck ==
  /\ int' = FALSE
  /\ UNCHANGED <<disk, cache, ready, lastAvail, rings>>

\* Status := 0 clears every register and keeps the read cache.
ResetDevice ==
  /\ ready' = FALSE /\ lastAvail' = 0 /\ int' = FALSE
  /\ UNCHANGED <<disk, cache, rings>>

\* The driver clears its rings and hands them to the device (QueueReady).
SetUpQueue ==
  /\ ready' = TRUE
  /\ availIdx' = 0 /\ usedIdx' = 0
  /\ avail' = [i \in Heads |-> 0] /\ used' = [i \in Heads |-> 0]
  /\ chain' = [i \in Heads |-> NoChain]
  /\ status' = [i \in Heads |-> "none"] /\ buf' = [i \in Heads |-> <<>>]
  /\ UNCHANGED <<disk, cache, lastAvail, int>>

\* The embedder gives runner h another image.
LoadDisk(h) ==
  /\ disk' \in Images
  /\ cache' = [cache EXCEPT ![h] = NoCache]
  /\ UNCHANGED <<device, rings>>

DiskInit ==
  /\ disk \in Images
  /\ cache = [h \in Harts |-> NoCache]
  /\ ready = FALSE /\ lastAvail = 0 /\ int = FALSE
  /\ chain = [i \in Heads |-> NoChain]
  /\ avail = [i \in Heads |-> 0] /\ availIdx = 0
  /\ used = [i \in Heads |-> 0] /\ usedIdx = 0
  /\ status = [i \in Heads |-> "none"]
  /\ buf = [i \in Heads |-> <<>>]

=============================================================================
