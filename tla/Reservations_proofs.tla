------------------------ MODULE Reservations_proofs ------------------------
(***************************************************************************)
(* Proofs about Reservations for any number of harts, cells and widths.    *)
(* LiveReservationUntouched is inductive relative to the types: a write    *)
(* that goes through Invalidated leaves alive only the reservations it     *)
(* does not overlap, and the paths that bypass it write excepted cells.    *)
(***************************************************************************)
EXTENDS Reservations, TLAPS

\* Two ranges that do not overlap by their ends share no cell.
LEMMA DisjointRanges ==
  ASSUME NEW a \in Nat, NEW w \in Nat, NEW b \in Nat, NEW v \in Nat, ~Overlap(a, w, b, v)
  PROVE  Range(a, w) \cap Range(b, v) = {}
BY DEF Overlap, Range

\* The reservations in r are old ones that a write to cells does not touch,
\* the excepted cells aside.
Survive(r, cells) ==
  \A g \in Harts : r[g].size # 0
    => r[g] = res[g] /\ cells \cap Reserved(g) \subseteq Bypassed

\* What a write recorded by Record leaves of the invariant: enough that no
\* reservation in r that survives is touched outside the excepted cells.
LEMMA RecordKeepsUntouched ==
  ASSUME NEW h, NEW r \in [Harts -> [pa : Nat, size : Nat]], NEW cells,
         Survive(r, cells), LiveReservationUntouched, res' = r,
         touched' = [g \in Harts |-> IF r[g].size = 0 THEN {}
                                     ELSE touched[g] \cup (cells \cap Reserved(g))]
  PROVE  LiveReservationUntouched'
<1> SUFFICES ASSUME NEW g \in Harts, res'[g].size # 0
             PROVE  touched'[g] \subseteq Bypassed
  BY DEF LiveReservationUntouched, Live
<1>1. r[g] = res[g] /\ cells \cap Reserved(g) \subseteq Bypassed
  BY DEF Survive
<1>2. touched[g] \subseteq Bypassed
  BY <1>1 DEF LiveReservationUntouched, Live
<1>3. touched'[g] = touched[g] \cup (cells \cap Reserved(g))
  OBVIOUS
<1> QED
  BY <1>1, <1>2, <1>3

\* invalidate_lr_sc_reservations keeps the types, changes an entry only by
\* dropping it, and drops every entry whose range shares a cell with the write.
LEMMA InvalidatedFacts ==
  ASSUME TypeOK, NEW h \in Harts, NEW a \in Cells, NEW w \in Nat
  PROVE  /\ Invalidated(h, a, w) \in [Harts -> [pa : Nat, size : Nat]]
         /\ \A g \in Harts : Invalidated(h, a, w)[g].size # 0
              => /\ Invalidated(h, a, w)[g] = res[g]
                 /\ Range(a, w) \cap Reserved(g) = {}
<1> DEFINE I == Invalidated(h, a, w)
<1>1. a \in Nat
  BY SizeAssumption DEF Cells
<1>2. NoReservation \in [pa : Nat, size : Nat] /\ NoReservation.size = 0
  BY DEF NoReservation
<1>3. I \in [Harts -> [pa : Nat, size : Nat]]
  BY <1>2 DEF Invalidated, TypeOK
<1>4. ASSUME NEW g \in Harts, I[g].size # 0
      PROVE  I[g] = res[g] /\ Range(a, w) \cap Reserved(g) = {}
  <2>1. I[g] = res[g] /\ res[g].size # 0 /\ ~Overlap(res[g].pa, res[g].size, a, w)
    BY <1>2, <1>4 DEF Invalidated
  <2>2. res[g].pa \in Nat /\ res[g].size \in Nat
    BY DEF TypeOK
  <2>3. Range(res[g].pa, res[g].size) \cap Range(a, w) = {}
    BY <1>1, <2>1, <2>2, DisjointRanges
  <2> QED
    BY <2>1, <2>3 DEF Reserved, Live
<1> QED
  BY <1>3, <1>4

\* Every store that goes through invalidate_lr_sc_reservations keeps the
\* invariant; one lemma for Store, Amo and DeviceStore.
LEMMA StoreAtStep ==
  ASSUME TypeOK, LiveReservationUntouched,
         NEW h \in Harts, NEW a \in Cells, NEW w \in Nat, NEW v \in Vals,
         InRam(a, w), StoreAt(h, a, w, v)
  PROVE  TypeOK' /\ LiveReservationUntouched'
<1> DEFINE r == Invalidated(h, a, w)
<1>1. r \in [Harts -> [pa : Nat, size : Nat]]
  BY InvalidatedFacts
<1>2. \A g \in Harts : r[g].size # 0 => r[g] = res[g] /\ Range(a, w) \cap Reserved(g) = {}
  BY InvalidatedFacts
<1>3. res' = r /\ Record(h, r, Range(a, w)) /\ BusStore(a, w, v)
  BY DEF StoreAt
<1>4. touched' = [g \in Harts |-> IF r[g].size = 0 THEN {}
                                  ELSE touched[g] \cup (Range(a, w) \cap Reserved(g))]
  BY <1>3 DEF Record
<1> HIDE DEF r
<1>5. LiveReservationUntouched'
  <2>1. Survive(r, Range(a, w))
    BY <1>2 DEF Survive
  <2> QED
    BY <1>1, <1>3, <1>4, <2>1, RecordKeepsUntouched
<1>6. TypeOK'
  BY <1>1, <1>3, <1>4 DEF TypeOK, BusStore, Record, InRam
<1> QED
  BY <1>5, <1>6

\* The paths that leave the reservations alone.
LEMMA BypassStep ==
  ASSUME TypeOK, LiveReservationUntouched,
         NEW h \in Harts, NEW a \in Cells, NEW w \in Nat, NEW v \in Vals,
         Range(a, w) \subseteq Bypassed,
         BusStore(a, w, v), Record(h, res, Range(a, w)), res' = res
  PROVE  TypeOK' /\ LiveReservationUntouched'
<1>1. res \in [Harts -> [pa : Nat, size : Nat]]
  BY DEF TypeOK
<1>2. touched' = [g \in Harts |-> IF res[g].size = 0 THEN {}
                                  ELSE touched[g] \cup (Range(a, w) \cap Reserved(g))]
  BY DEF Record
<1>3. LiveReservationUntouched'
  <2>1. Survive(res, Range(a, w))
    BY DEF Survive
  <2> QED
    BY <1>1, <1>2, <2>1, RecordKeepsUntouched
<1>4. Range(a, w) \subseteq Cells
  BY CellAssumption
<1>5. TypeOK'
  BY <1>2, <1>4 DEF TypeOK, BusStore, Record
<1> QED
  BY <1>3, <1>5

LEMMA LrStep ==
  ASSUME TypeOK, LiveReservationUntouched,
         NEW h \in Harts, NEW a \in Cells, NEW w \in Nat, Lr(h, a, w)
  PROVE  TypeOK' /\ LiveReservationUntouched'
<1>1. [pa |-> a, size |-> w] \in [pa : Nat, size : Nat]
  BY SizeAssumption DEF Cells
<1>2. TypeOK'
  BY <1>1 DEF TypeOK, Lr
<1>3. LiveReservationUntouched'
  BY DEF TypeOK, Lr, LiveReservationUntouched, Live
<1> QED
  BY <1>2, <1>3

LEMMA ScStep ==
  ASSUME TypeOK, LiveReservationUntouched,
         NEW h \in Harts, NEW a \in Cells, NEW w \in Nat, NEW v \in Vals, Sc(h, a, w, v)
  PROVE  TypeOK' /\ LiveReservationUntouched'
<1> DEFINE hit == Matches(h, a, w)
           base == IF hit THEN Invalidated(h, a, w) ELSE res
           r == [base EXCEPT ![h] = NoReservation]
           cells == IF hit THEN Range(a, w) ELSE {}
<1>1. base \in [Harts -> [pa : Nat, size : Nat]]
  BY InvalidatedFacts DEF TypeOK
<1>2. NoReservation \in [pa : Nat, size : Nat] /\ NoReservation.size = 0
  BY DEF NoReservation
<1>3. \A g \in Harts : base[g].size # 0 => base[g] = res[g] /\ cells \cap Reserved(g) = {}
  <2>1. CASE hit
    <3>1. base = Invalidated(h, a, w) /\ cells = Range(a, w)
      BY <2>1
    <3> HIDE DEF base, cells
    <3> QED
      BY <3>1, InvalidatedFacts
  <2>2. CASE ~hit
    BY <2>2
  <2> QED
    BY <2>1, <2>2
<1> HIDE DEF base
<1>4. r \in [Harts -> [pa : Nat, size : Nat]]
  BY <1>1, <1>2
<1>5. \A g \in Harts : r[g].size # 0 => r[g] = res[g] /\ cells \cap Reserved(g) = {}
  BY <1>1, <1>2, <1>3
<1>6. /\ res' = r
      /\ touched' = [g \in Harts |-> IF r[g].size = 0 THEN {}
                                     ELSE touched[g] \cup (cells \cap Reserved(g))]
      /\ last' = [hart |-> h, sc |-> TRUE, cells |-> cells]
      /\ IF hit THEN BusStore(a, w, v) ELSE UNCHANGED mem
      /\ InRam(a, w)
  BY DEF Sc, base
<1>7. cells \subseteq Cells
  BY <1>6 DEF InRam
<1> HIDE DEF r, cells
<1>8. LiveReservationUntouched'
  <2>1. Survive(r, cells)
    BY <1>5 DEF Survive
  <2> QED
    BY <1>4, <1>6, <2>1, RecordKeepsUntouched
<1>9. mem' \in [Cells -> Vals]
  BY <1>6 DEF TypeOK, BusStore
<1>10. TypeOK'
  BY <1>4, <1>6, <1>7, <1>9 DEF TypeOK
<1> QED
  BY <1>8, <1>10

LEMMA InitEstablishes == Init => TypeOK /\ LiveReservationUntouched
<1> SUFFICES ASSUME Init PROVE TypeOK /\ LiveReservationUntouched
  OBVIOUS
<1>1. NoReservation \in [pa : Nat, size : Nat] /\ NoReservation.size = 0
  BY DEF NoReservation
<1>2. [hart : Harts, sc : {FALSE}, cells : {{}}]
        \subseteq [hart : Harts, sc : BOOLEAN, cells : SUBSET Cells]
  OBVIOUS
<1>3. TypeOK
  BY <1>1, <1>2 DEF Init, TypeOK
<1>4. LiveReservationUntouched
  BY <1>1 DEF Init, LiveReservationUntouched, Live
<1> QED
  BY <1>3, <1>4

LEMMA NextPreserves ==
  ASSUME TypeOK, LiveReservationUntouched, [Next]_vars
  PROVE  TypeOK' /\ LiveReservationUntouched'
<1>1. CASE UNCHANGED vars
  BY <1>1 DEF vars, TypeOK, LiveReservationUntouched, Live
<1>2. CASE Next
  <2>1. PICK h \in Harts, a \in Cells, v \in Vals :
          \/ \E w \in AtomicWidths : Lr(h, a, w) \/ Sc(h, a, w, v) \/ Amo(h, a, w, v)
          \/ \E w \in StoreWidths : Store(h, a, w, v) \/ VectorStore(h, a, w, v) \/ HostWrite(h, a, w, v)
          \/ \E w \in DmaWidths : DeviceStore(h, a, w, v)
          \/ PteUpdate(h, a, v)
    BY <1>2 DEF Next
  <2>2. CASE \E w \in AtomicWidths : Lr(h, a, w)
    BY <2>2, WidthAssumption, LrStep
  <2>3. CASE \E w \in AtomicWidths : Sc(h, a, w, v)
    BY <2>3, WidthAssumption, ScStep
  <2>4. CASE \E w \in AtomicWidths : Amo(h, a, w, v)
    BY <2>4, WidthAssumption, StoreAtStep DEF Amo
  <2>5. CASE \E w \in StoreWidths : Store(h, a, w, v)
    BY <2>5, WidthAssumption, StoreAtStep DEF Store
  <2>6. CASE \E w \in DmaWidths : DeviceStore(h, a, w, v)
    BY <2>6, WidthAssumption, StoreAtStep DEF DeviceStore
  <2>7. CASE \E w \in StoreWidths : VectorStore(h, a, w, v) \/ HostWrite(h, a, w, v)
    BY <2>7, WidthAssumption, BypassStep DEF VectorStore, HostWrite, Bypassed
  <2>8. CASE PteUpdate(h, a, v)
    <3>1. Range(a, 1) = {a}
      BY SizeAssumption DEF Range, Cells
    <3> QED
      BY <2>8, <3>1, BypassStep DEF PteUpdate, Bypassed
  <2> QED
    BY <2>1, <2>2, <2>3, <2>4, <2>5, <2>6, <2>7, <2>8
<1> QED
  BY <1>1, <1>2

\* No step puts a reservation or a cell outside its domain.
THEOREM Typing == Spec => []TypeOK
<1> USE DEF Spec
<1>1. Init => TypeOK /\ LiveReservationUntouched
  BY InitEstablishes
<1>2. TypeOK /\ LiveReservationUntouched /\ [Next]_vars
        => (TypeOK /\ LiveReservationUntouched)'
  BY NextPreserves
<1> QED
  BY <1>1, <1>2, PTL

\* While a reservation is live nobody has written its range, except through
\* vector stores, page-table updates and the embedder, for any number of harts
\* and any widths of the accesses.
THEOREM Untouched == Spec => []LiveReservationUntouched
<1> USE DEF Spec
<1>1. Init => TypeOK /\ LiveReservationUntouched
  BY InitEstablishes
<1>2. TypeOK /\ LiveReservationUntouched /\ [Next]_vars
        => (TypeOK /\ LiveReservationUntouched)'
  BY NextPreserves
<1> QED
  BY <1>1, <1>2, PTL

\* Two ranges that overlap by their ends share a cell.
LEMMA OverlapMeets ==
  ASSUME NEW a \in Nat, NEW w \in Nat \ {0}, NEW b \in Nat, NEW v \in Nat \ {0}, Overlap(a, w, b, v)
  PROVE  Range(b, v) \cap Range(a, w) # {}
<1>1. CASE a <= b
  <2>1. b \in Range(a, w) /\ b \in Range(b, v)
    BY <1>1 DEF Overlap, Range
  <2> QED
    BY <2>1
<1>2. CASE ~(a <= b)
  <2>1. a \in Range(a, w) /\ a \in Range(b, v)
    BY <1>2 DEF Overlap, Range
  <2> QED
    BY <2>1
<1> QED
  BY <1>1, <1>2

\* The reservation of g survives, or the step explains why it does not.
Explained(g) ==
  (Live(g) /\ res'[g].size = 0) =>
    \/ last'.hart = g /\ last'.sc
    \/ last'.cells \cap Reserved(g) # {}

\* A write that invalidates drops what it overlaps.
LEMMA InvalidatedExplained ==
  ASSUME TypeOK, NEW h \in Harts, NEW a \in Cells, NEW w \in Nat \ {0},
         NEW g \in Harts, Live(g), Invalidated(h, a, w)[g].size = 0
  PROVE  Range(a, w) \cap Reserved(g) # {}
<1>1. a \in Nat /\ res[g].pa \in Nat /\ res[g].size \in Nat \ {0}
  BY SizeAssumption DEF Cells, TypeOK, Live
<1>2. Overlap(res[g].pa, res[g].size, a, w)
  BY DEF Invalidated, Live
<1>3. Reserved(g) = Range(res[g].pa, res[g].size)
  BY DEF Reserved
<1> QED
  BY <1>1, <1>2, <1>3, OverlapMeets

\* Every step explains the reservations it ends.
LEMMA StepExplains ==
  ASSUME TypeOK, Next, NEW g \in Harts
  PROVE  Explained(g)
<1> PICK h \in Harts, a \in Cells, v \in Vals :
      \/ \E w \in AtomicWidths : Lr(h, a, w) \/ Sc(h, a, w, v) \/ Amo(h, a, w, v)
      \/ \E w \in StoreWidths : Store(h, a, w, v) \/ VectorStore(h, a, w, v) \/ HostWrite(h, a, w, v)
      \/ \E w \in DmaWidths : DeviceStore(h, a, w, v)
      \/ PteUpdate(h, a, v)
  BY DEF Next
<1>1. StoreWidths \subseteq Nat \ {0} /\ AtomicWidths \subseteq Nat \ {0} /\ DmaWidths \subseteq Nat \ {0}
  BY WidthAssumption
<1>2. CASE \E w \in AtomicWidths : Lr(h, a, w)
  <2>1. PICK w \in Nat \ {0} : Lr(h, a, w)
    BY <1>1, <1>2
  <2>2. res' = [res EXCEPT ![h] = [pa |-> a, size |-> w]]
    BY <2>1 DEF Lr
  <2>3. res'[g].size # 0 \/ res'[g] = res[g]
    BY <2>2 DEF TypeOK
  <2> QED
    BY <2>3 DEF Explained, Live
<1>3. CASE \E w \in AtomicWidths : Sc(h, a, w, v)
  <2>1. PICK w \in Nat \ {0} : Sc(h, a, w, v)
    BY <1>1, <1>3
  <2>2. CASE g = h
    BY <2>1, <2>2 DEF Sc, Explained
  <2>3. CASE g # h /\ Matches(h, a, w)
    <3>1. res'[g] = Invalidated(h, a, w)[g] /\ last'.cells = Range(a, w)
      BY <2>1, <2>3 DEF Sc, Invalidated
    <3> QED
      BY <3>1, InvalidatedExplained DEF Explained
  <2>4. CASE g # h /\ ~Matches(h, a, w)
    <3>1. res'[g] = res[g]
      BY <2>1, <2>4 DEF Sc, TypeOK
    <3> QED
      BY <3>1 DEF Explained, Live
  <2> QED
    BY <2>2, <2>3, <2>4
<1>4. ASSUME NEW w \in Nat \ {0}, StoreAt(h, a, w, v) PROVE Explained(g)
  <2>1. res' = Invalidated(h, a, w) /\ last'.cells = Range(a, w)
    BY <1>4 DEF StoreAt, Record
  <2> QED
    BY <2>1, InvalidatedExplained DEF Explained
<1>5. CASE res' = res
  BY <1>5 DEF Explained, Live
<1> QED
  BY <1>1, <1>2, <1>3, <1>4, <1>5 DEF Amo, Store, DeviceStore, VectorStore, PteUpdate, HostWrite

\* LostOnlyByOverlap of the reservations run: whatever the widths and however
\* many harts there are, a reservation ends only with an SC of its owner or a
\* write to its own range (invalidate_lr_sc_reservations).
THEOREM LostToOverlap == Spec => LostOnlyByOverlap
<1>1. TypeOK /\ [Next]_vars => [\A h \in Harts : Explained(h)]_vars
  BY StepExplains
<1>2. TypeOK /\ TypeOK' /\ [\A h \in Harts : Explained(h)]_vars
        => [\A h \in Harts : (Live(h) /\ ~Live(h)') =>
              \/ last'.hart = h /\ last'.sc
              \/ last'.cells \cap Reserved(h) # {}]_vars
  BY DEF Explained, Live
<1> QED
  BY <1>1, <1>2, Typing, PTL DEF Spec, LostOnlyByOverlap

=============================================================================
