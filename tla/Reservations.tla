---------------------------- MODULE Reservations ----------------------------
(***************************************************************************)
(* LR/SC reservations of the harts of one machine, and everything that     *)
(* writes the memory they guard.                                           *)
(*                                                                         *)
(* The harts made by make_smp_runners share the bus and the two arrays     *)
(* lr_sc_reserved_pas and lr_sc_reserved_sizes.  A reservation is the exact*)
(* physical range the hart's last LR read.  A step of Runner::step is      *)
(* atomic, so each action is one whole memory instruction that passed its  *)
(* alignment, translation and range checks (one that fails a check traps   *)
(* and touches neither memory nor reservations), one device write, or one  *)
(* write of the embedder, between two steps.                               *)
(*                                                                         *)
(* Memory is counted in cells; a cell is the smallest unit the instance    *)
(* stores to.  A store leaves the same value in every cell it covers.      *)
(***************************************************************************)
EXTENDS Naturals

CONSTANTS
  Harts,
  NumCells,      \* cells 0 .. NumCells-1 are the RAM
  Vals,          \* contents of a cell
  StoreWidths,   \* widths, in cells, of SB SH SW SD and the FP stores
  AtomicWidths,  \* widths, in cells, of the W and D forms
  DmaWidths,     \* lengths of the block device's writes
  PteCells,      \* cells holding page-table entries the MMU may update
  VectorCells,   \* cells the guest writes with vector stores
  HostCells      \* cells the embedder writes while the machine is up

Cells == 0 .. NumCells - 1

ASSUME SizeAssumption == NumCells \in Nat
ASSUME WidthAssumption ==
  StoreWidths \cup AtomicWidths \cup DmaWidths \subseteq Nat \ {0}

\* What is written past invalidate_lr_sc_reservations.
Bypassed == VectorCells \cup PteCells \cup HostCells
ASSUME CellAssumption == Bypassed \subseteq Cells

VARIABLES
  mem,      \* the RAM
  res,      \* res[h]: lr_sc_reserved_pas[h] and lr_sc_reserved_sizes[h]
  touched,  \* history: cells of h's reserved range written since its LR
  last      \* history: who did the last step and the cells it wrote

vars == <<mem, res, touched, last>>

\* LR_SC_NO_RESERVATION; a size of zero is what marks it.
NoReservation == [pa |-> 0, size |-> 0]

Range(a, w) == a .. a + w - 1

\* Mutant: the range may end one past the RAM.
InRam_OffByOne(a, w) == Range(a, w) \subseteq 0 .. NumCells

InRam(a, w) == Range(a, w) \subseteq Cells
Aligned(a, w) == a % w = 0

Live(h) == res[h].size # 0
Reserved(h) == IF Live(h) THEN Range(res[h].pa, res[h].size) ELSE {}

\* physical_ranges_overlap compares the two half-open ranges by their ends.
Overlap(a, w, b, v) == a < b + v /\ b < a + w

\* Mutants: the start of the write is off by one; every entry is dropped.
Invalidated_ShortRange(h, a, w) ==
  [g \in Harts |-> IF res[g].size # 0 /\ res[g].pa < a + w
                        /\ a + 1 < res[g].pa + res[g].size
                   THEN NoReservation ELSE res[g]]
Invalidated_All(h, a, w) == [g \in Harts |-> NoReservation]

\* invalidate_lr_sc_reservations after a write by h.
Invalidated(h, a, w) ==
  [g \in Harts |-> IF res[g].size # 0 /\ Overlap(res[g].pa, res[g].size, a, w)
                   THEN NoReservation ELSE res[g]]

\* lr_sc_reservation_matches
Matches(h, a, w) == res[h].pa = a /\ res[h].size = w

\* The bus stores v to the cells of the range.
BusStore(a, w, v) == mem' = [c \in Cells |-> IF c \in Range(a, w) THEN v ELSE mem[c]]

\* History of a write that leaves the reservations r.
Record(h, r, cells) ==
  /\ touched' = [g \in Harts |-> IF r[g].size = 0 THEN {}
                                 ELSE touched[g] \cup (cells \cap Reserved(g))]
  /\ last' = [hart |-> h, sc |-> FALSE, cells |-> cells]

-----------------------------------------------------------------------------

\* Mutant: an LR also cancels the other harts' overlapping reservations.
Lr_Exclusive(h, a, w) ==
  /\ InRam(a, w) /\ Aligned(a, w)
  /\ res' = [Invalidated(h, a, w) EXCEPT ![h] = [pa |-> a, size |-> w]]
  /\ touched' = [touched EXCEPT ![h] = {}]
  /\ last' = [hart |-> h, sc |-> FALSE, cells |-> {}]
  /\ UNCHANGED mem

\* LR.W and LR.D: replaces whatever the hart had reserved.
Lr(h, a, w) ==
  /\ InRam(a, w) /\ Aligned(a, w)
  /\ res' = [res EXCEPT ![h] = [pa |-> a, size |-> w]]
  /\ touched' = [touched EXCEPT ![h] = {}]
  /\ last' = [hart |-> h, sc |-> FALSE, cells |-> {}]
  /\ UNCHANGED mem

\* Mutant: a failing SC keeps the reservation.
Sc_KeptOnFailure(h, a, w, v) ==
  /\ InRam(a, w) /\ Aligned(a, w)
  /\ IF Matches(h, a, w)
     THEN /\ BusStore(a, w, v)
          /\ res' = Invalidated(h, a, w)
          /\ last' = [hart |-> h, sc |-> TRUE, cells |-> Range(a, w)]
     ELSE /\ last' = [hart |-> h, sc |-> TRUE, cells |-> {}]
          /\ UNCHANGED <<mem, res>>
  /\ UNCHANGED touched

\* SC.W and SC.D: stores only against a matching reservation; either way the
\* hart's reservation is gone afterwards.
Sc(h, a, w, v) ==
  /\ InRam(a, w) /\ Aligned(a, w)
  /\ LET hit == Matches(h, a, w)
         r == [(IF hit THEN Invalidated(h, a, w) ELSE res) EXCEPT ![h] = NoReservation]
         cells == IF hit THEN Range(a, w) ELSE {}
     IN /\ IF hit THEN BusStore(a, w, v) ELSE UNCHANGED mem
        /\ res' = r
        /\ touched' = [g \in Harts |-> IF r[g].size = 0 THEN {}
                                       ELSE touched[g] \cup (cells \cap Reserved(g))]
        /\ last' = [hart |-> h, sc |-> TRUE, cells |-> cells]

\* A store of h: execute_store, store_and_commit; also the store half of an
\* AMO, whose new value depends on the old one.
StoreAt(h, a, w, v) ==
  /\ BusStore(a, w, v)
  /\ res' = Invalidated(h, a, w)
  /\ Record(h, Invalidated(h, a, w), Range(a, w))

Store(h, a, w, v) == InRam(a, w) /\ StoreAt(h, a, w, v)

Amo(h, a, w, v) == InRam(a, w) /\ Aligned(a, w) /\ StoreAt(h, a, w, v)

\* device_store_* and device_write_bytes_from: the block device writes while
\* the hart that notified it executes its store to the queue register.
DeviceStore(h, a, w, v) == InRam(a, w) /\ StoreAt(h, a, w, v)

\* vector_store_elem_bits goes straight to phy_store_*.  All elements are
\* checked before the first is written, so the instruction is atomic too.
VectorStore(h, a, w, v) ==
  /\ Range(a, w) \subseteq VectorCells
  /\ BusStore(a, w, v)
  /\ Record(h, res, Range(a, w))
  /\ UNCHANGED res

\* sv39_translate sets the A and D bits of a leaf with bus.store_u64.
PteUpdate(h, a, v) ==
  /\ a \in PteCells
  /\ BusStore(a, 1, v)
  /\ Record(h, res, {a})
  /\ UNCHANGED res

\* load_program_u64, write_memory_bytes and load_dtb, called on h's runner, write
\* through bus.write_bytes.
HostWrite(h, a, w, v) ==
  /\ Range(a, w) \subseteq HostCells
  /\ BusStore(a, w, v)
  /\ Record(h, res, Range(a, w))
  /\ UNCHANGED res

Next == \E h \in Harts, a \in Cells, v \in Vals :
  \/ \E w \in AtomicWidths : Lr(h, a, w) \/ Sc(h, a, w, v) \/ Amo(h, a, w, v)
  \/ \E w \in StoreWidths : Store(h, a, w, v) \/ VectorStore(h, a, w, v) \/ HostWrite(h, a, w, v)
  \/ \E w \in DmaWidths : DeviceStore(h, a, w, v)
  \/ PteUpdate(h, a, v)

Init ==
  /\ mem \in [Cells -> Vals]
  /\ res = [h \in Harts |-> NoReservation]
  /\ touched = [h \in Harts |-> {}]
  /\ last \in [hart : Harts, sc : {FALSE}, cells : {{}}]

Spec == Init /\ [][Next]_vars

-----------------------------------------------------------------------------
\* Properties

TypeOK ==
  /\ mem \in [Cells -> Vals]
  /\ res \in [Harts -> [pa : Nat, size : Nat]]
  /\ touched \in [Harts -> SUBSET Cells]
  /\ last \in [hart : Harts, sc : BOOLEAN, cells : SUBSET Cells]

\* What the A extension needs of a reservation: while it is live nobody, the
\* owner, another hart or a device, has written a byte of its range, so the SC
\* it lets succeed replaces exactly what the LR read.  Cells reached by vector
\* stores, by the page walker and by the embedder are excepted: those paths do
\* not go through invalidate_lr_sc_reservations.
LiveReservationUntouched ==
  \A h \in Harts : Live(h) => touched[h] \subseteq Bypassed

\* The same with no exception, as the comment on lr_sc_reserved_pas and the
\* hardening notes state it of stores.
OverlappingStoreBreaksReservation ==
  \A h \in Harts : Live(h) => touched[h] = {}

\* A reservation is lost only to its owner's SC or to a write that overlaps
\* it: neither a store next to it, nor another hart's LR, nor another hart's
\* failing SC makes a retry loop go round again.
LostOnlyByOverlap ==
  [][\A h \in Harts : (Live(h) /\ ~Live(h)') =>
       \/ last'.hart = h /\ last'.sc
       \/ last'.cells \cap Reserved(h) # {}]_vars

=============================================================================
