----------------------------- MODULE MCDiskPath -----------------------------
(***************************************************************************)
(* A disk of two sectors, a queue of two entries whose indices wrap at     *)
(* four, and a read-ahead of two sectors.  Requests: a read and a write of *)
(* the last sector and the one past the end, a write whose chain is torn   *)
(* and a request of a kind the device does not know.                       *)
(***************************************************************************)
EXTENDS DiskPath

CONSTANTS h1, h2

Req(kind, at, len, vals, whole) ==
  [kind |-> kind, at |-> at, len |-> len, vals |-> vals, whole |-> whole]

MCRequests ==
  {Req("in", 1, 2, <<>>, TRUE), Req("out", 1, 2, <<1, 1>>, TRUE),
   Req("out", 1, 1, <<0>>, FALSE), Req("other", 0, 0, <<>>, TRUE)}

MCImages == {[s \in 0 .. 1 |-> 0]}
=============================================================================
