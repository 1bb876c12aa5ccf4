------------------------------ MODULE DiskSpec ------------------------------
(***************************************************************************)
(* What the block device promises its guest, without rings, caches or      *)
(* interrupts: requests are served one at a time in the order they were    *)
(* made available, each read returns what the disk holds at that moment,   *)
(* and each well-formed request is answered once.                          *)
(***************************************************************************)
EXTENDS Integers, Sequences, SequencesExt

CONSTANTS
  Heads,     \* names of the requests in flight
  Requests,  \* records [kind, at, len, vals, whole]
  Images     \* images the host may load

VARIABLES
  disk,      \* disk[s]: contents of sector s
  queue,     \* requests not yet served: <<[head, req], ...>>
  done       \* answers not yet collected: <<[head, status, data], ...>>

vars == <<disk, queue, done>>

\* Reads past the end are zero-filled; writes past the end are dropped.
ReadFrom(d, at, n) ==
  [i \in 1 .. n |-> IF at + i - 1 \in DOMAIN d THEN d[at + i - 1] ELSE 0]

WriteTo(d, at, vals) ==
  [s \in DOMAIN d |-> IF s \in at .. at + Len(vals) - 1 THEN vals[s - at + 1] ELSE d[s]]

Status(r) == IF r.kind \in {"in", "out"} THEN "ok" ELSE "unsupp"

Answer(d, head, r) ==
  [head |-> head, status |-> Status(r),
   data |-> IF r.kind = "in" THEN ReadFrom(d, r.at, r.len) ELSE <<>>]

\* Serving one request.  A chain without a status byte moves its data and is
\* never answered.
One(s, e) ==
  [disk |-> IF e.req.kind = "out" THEN WriteTo(s.disk, e.req.at, e.req.vals) ELSE s.disk,
   done |-> IF e.req.whole THEN Append(s.done, Answer(s.disk, e.head, e.req)) ELSE s.done]

Init == disk \in Images /\ queue = <<>> /\ done = <<>>

Submit(head, r) ==
  /\ queue' = Append(queue, [head |-> head, req |-> r])
  /\ UNCHANGED <<disk, done>>

\* One notification serves any number of waiting requests.
Serve ==
  /\ \E n \in 1 .. Len(queue) :
       LET s == FoldLeft(One, [disk |-> disk, done |-> done], SubSeq(queue, 1, n)) IN
       /\ disk' = s.disk
       /\ done' = s.done
       /\ queue' = SubSeq(queue, n + 1, Len(queue))

Collect ==
  /\ done # <<>>
  /\ done' = Tail(done)
  /\ UNCHANGED <<disk, queue>>

\* The guest resets the device, or the host gives it another image.
Reset == queue' = <<>> /\ done' = <<>> /\ UNCHANGED disk
Load == disk' \in Images /\ UNCHANGED <<queue, done>>

Next ==
  \/ \E head \in Heads, r \in Requests : Submit(head, r)
  \/ Serve \/ Collect \/ Reset \/ Load

Spec == Init /\ [][Next]_vars
=============================================================================
