---------------------------- MODULE Hart_proofs ----------------------------
(***************************************************************************)
(* Proofs about Hart for every profile, guest and set of vectors.          *)
(*                                                                         *)
(* The inductive invariant HartInv is the conjunction of the safety        *)
(* invariants of Hart with two facts none of them says alone: MPP and the  *)
(* supervisor bits of mstatus stay within the profile, and nothing is      *)
(* delegated without supervisor mode.                                      *)
(***************************************************************************)
EXTENDS Hart, TLAPS

\* What legalize_mstatus_csr maintains, given a user mode to fall back on.
StatusWithinProfile ==
  /\ HasU => MppLegal(mstatus)
  /\ ~HasS => mstatus \cap SBits = {}

DelegationNeedsS == ~HasS => mideleg = {} /\ medeleg = {}

StatusInv == MprvOnlyInMachineMode /\ SavedContextIntact /\ StatusWithinProfile
ModeInv == HasU => ModeImplemented

HartInv == TypeOK /\ StatusInv /\ DelegationNeedsS /\ ModeInv /\ SeipBitIsSoftware

-----------------------------------------------------------------------------
\* Facts about the operators on mstatus

LEMMA BottomFacts == Bottom \in Modes /\ Bottom \in Implemented /\ Bottom # "S"
BY DEF Bottom, Modes, Implemented

\* MPP reads back as the mode it was set to, and the other bits stay.
LEMMA SetMppFacts ==
  ASSUME NEW v, NEW p \in Modes
  PROVE  /\ Mpp(SetMpp(v, p)) = p
         /\ \A b : b \notin MppBits => ((b \in SetMpp(v, p)) <=> (b \in v))
         /\ p \in Implemented => MppLegal(SetMpp(v, p))
BY DEF Modes, Mpp, SetMpp, MppBits, MppLegal, Implemented

\* MPP and its legality depend on the two MPP bits only.
LEMMA MppDepends ==
  ASSUME NEW v, NEW w, \A b \in MppBits : (b \in v) <=> (b \in w)
  PROVE  Mpp(v) = Mpp(w) /\ (MppLegal(v) <=> MppLegal(w))
<1>1. v \cap MppBits = w \cap MppBits
  OBVIOUS
<1>2. (MppBits \subseteq v) <=> (MppBits \subseteq w)
  OBVIOUS
<1>3. ("MPP0" \in v) <=> ("MPP0" \in w)
  BY DEF MppBits
<1> QED
  BY <1>1, <1>2, <1>3 DEF Mpp, MppLegal

LEMMA MppRange == \A v : Mpp(v) \in Modes /\ Spp(v) \in {"U", "S"}
BY DEF Mpp, Spp, Modes

\* A legal MPP names an implemented mode.
LEMMA MppLegalImplemented == \A v : HasU /\ MppLegal(v) => Mpp(v) \in Implemented
BY DEF MppLegal, Mpp, MppBits, Implemented

LEMMA EnterMFacts ==
  ASSUME NEW v \in SUBSET StatusBits, NEW p \in Modes
  PROVE  LET e == EnterM(v, p) IN
         /\ e \in SUBSET StatusBits
         /\ Mpp(e) = p
         /\ p \in Implemented => MppLegal(e)
         /\ ("MPIE" \in e) <=> ("MIE" \in v)
         /\ "MIE" \notin e
         /\ \A b : b \notin MppBits \cup {"MIE", "MPIE"} => ((b \in e) <=> (b \in v))
<1> DEFINE s == SetMpp(v, p)
           t == Put(s, "MPIE", "MIE" \in v)
           e == EnterM(v, p)
<1>1. e = Put(t, "MIE", FALSE)
  BY DEF EnterM
<1>2. /\ ("MPIE" \in t) <=> ("MIE" \in v)
      /\ \A b : b # "MPIE" => ((b \in t) <=> (b \in s))
  BY DEF Put
<1>3. "MIE" \notin e /\ \A b : b # "MIE" => ((b \in e) <=> (b \in t))
  BY <1>1 DEF Put
<1>4. \A b \in MppBits : (b \in e) <=> (b \in s)
  BY <1>2, <1>3 DEF MppBits
<1>5. Mpp(e) = Mpp(s) /\ (MppLegal(e) <=> MppLegal(s))
  BY <1>4, MppDepends
<1>6. e \in SUBSET StatusBits
  BY DEF EnterM, Put, SetMpp, StatusBits, MppBits, SBits, Modes
<1> HIDE DEF s, t, e
<1>7. \A b : b \notin MppBits \cup {"MIE", "MPIE"} => ((b \in e) <=> (b \in v))
  BY <1>2, <1>3, SetMppFacts DEF s
<1> QED
  BY <1>2, <1>3, <1>5, <1>6, <1>7, SetMppFacts DEF s, e

LEMMA EnterSFacts ==
  ASSUME NEW v \in SUBSET StatusBits, NEW p \in {"U", "S"}
  PROVE  LET e == EnterS(v, p) IN
         /\ e \in SUBSET StatusBits
         /\ Spp(e) = p
         /\ ("SPIE" \in e) <=> ("SIE" \in v)
         /\ "SIE" \notin e
         /\ \A b : b \notin {"SPP", "SIE", "SPIE"} => ((b \in e) <=> (b \in v))
<1> DEFINE s == Put(v, "SPP", p = "S")
           t == Put(s, "SPIE", "SIE" \in v)
           e == EnterS(v, p)
<1>1. e = Put(t, "SIE", FALSE)
  BY DEF EnterS
<1>2. (("SPP" \in s) <=> p = "S") /\ \A b : b # "SPP" => ((b \in s) <=> (b \in v))
  BY DEF Put
<1>3. (("SPIE" \in t) <=> ("SIE" \in v)) /\ \A b : b # "SPIE" => ((b \in t) <=> (b \in s))
  BY DEF Put
<1>4. "SIE" \notin e /\ \A b : b # "SIE" => ((b \in e) <=> (b \in t))
  BY <1>1 DEF Put
<1>5. e \in SUBSET StatusBits
  BY DEF EnterS, Put, StatusBits, SBits
<1> HIDE DEF s, t, e
<1>6. Spp(e) = p
  BY <1>2, <1>3, <1>4 DEF Spp
<1> QED
  BY <1>2, <1>3, <1>4, <1>5, <1>6 DEF e

LEMMA AfterMretFacts ==
  ASSUME NEW v \in SUBSET StatusBits
  PROVE  LET e == AfterMret(v) IN
         /\ e \in SUBSET StatusBits
         /\ MppLegal(e)
         /\ "MPRV" \in e => Mpp(v) = "M"
         /\ \A b \in SBits : (b \in e) <=> (b \in v)
<1> DEFINE s == SetMpp(v, Bottom)
           t == Put(s, "MIE", "MPIE" \in v)
           u == Put(t, "MPIE", TRUE)
           e == AfterMret(v)
<1>1. e = DropMprv(u, Mpp(v))
  BY DEF AfterMret
<1>2. \A b : b # "MIE" => ((b \in t) <=> (b \in s))
  BY DEF Put
<1>3. \A b : b # "MPIE" => ((b \in u) <=> (b \in t))
  BY DEF Put
<1>4. /\ "MPRV" \in e => Mpp(v) = "M"
      /\ \A b : b # "MPRV" => ((b \in e) <=> (b \in u))
  BY <1>1 DEF DropMprv
<1>5. e \in SUBSET StatusBits
  <2>1. Bottom \in Modes
    BY BottomFacts
  <2> QED
    BY <2>1 DEF AfterMret, DropMprv, Put, SetMpp, StatusBits, MppBits, SBits, Modes
<1> HIDE DEF s, t, u, e
<1>6. \A b \in MppBits : (b \in e) <=> (b \in s)
  BY <1>2, <1>3, <1>4 DEF MppBits
<1>7. MppLegal(e)
  BY <1>6, MppDepends, SetMppFacts, BottomFacts DEF s
<1>8. \A b \in SBits : (b \in e) <=> (b \in v)
  BY <1>2, <1>3, <1>4, SetMppFacts, BottomFacts DEF s, SBits, MppBits
<1> QED
  BY <1>4, <1>5, <1>7, <1>8 DEF e

LEMMA AfterSretFacts ==
  ASSUME NEW v \in SUBSET StatusBits
  PROVE  LET e == AfterSret(v) IN
         /\ e \in SUBSET StatusBits
         /\ "MPRV" \notin e
         /\ \A b \in MppBits \cup {"MIE", "MPIE"} : (b \in e) <=> (b \in v)
<1> DEFINE s == Put(v, "SIE", "SPIE" \in v)
           t == Put(s, "SPIE", TRUE)
           u == Put(t, "SPP", Bottom = "S")
           e == AfterSret(v)
<1>1. e = u \ {"MPRV"}
  BY MppRange DEF AfterSret, DropMprv
<1>2. \A b : b # "SIE" => ((b \in s) <=> (b \in v))
  BY DEF Put
<1>3. \A b : b # "SPIE" => ((b \in t) <=> (b \in s))
  BY DEF Put
<1>4. \A b : b # "SPP" => ((b \in u) <=> (b \in t))
  BY DEF Put
<1>5. e \in SUBSET StatusBits
  BY DEF AfterSret, DropMprv, Put, StatusBits, SBits
<1> HIDE DEF s, t, u, e
<1>6. \A b \in MppBits \cup {"MIE", "MPIE"} : (b \in e) <=> (b \in v)
  BY <1>1, <1>2, <1>3, <1>4 DEF MppBits
<1> QED
  BY <1>1, <1>5, <1>6 DEF e

LEMMA LegalizeFacts ==
  ASSUME NEW v
  PROVE  LET e == LegalizeStatus(v) IN
         /\ v \in SUBSET StatusBits => e \in SUBSET StatusBits
         /\ MppLegal(e)
         /\ ~HasS => e \cap SBits = {}
         /\ HasS /\ MppLegal(v) => e = v
         /\ "MPRV" \in e => "MPRV" \in v
<1> DEFINE b == (v \ (IF HasS THEN {} ELSE SBits)) \ (IF HasU THEN {} ELSE {"MPRV", "TW"})
           e == LegalizeStatus(v)
<1>1. e = IF MppLegal(b) THEN b ELSE SetMpp(b, Bottom)
  BY DEF LegalizeStatus
<1>2. b \subseteq v /\ (~HasS => b \cap SBits = {})
  OBVIOUS
<1>3. HasS => b = v
  BY ProfileAssumption
<1> HIDE DEF b, e
<1>4. CASE MppLegal(b)
  BY <1>1, <1>2, <1>3, <1>4 DEF e
<1>5. CASE ~MppLegal(b)
  <2>1. e = SetMpp(b, Bottom)
    BY <1>1, <1>5
  <2>2. MppLegal(e) /\ \A x : x \notin MppBits => ((x \in e) <=> (x \in b))
    BY <2>1, SetMppFacts, BottomFacts
  <2>3. \A x \in SBits : x \notin MppBits
    BY DEF SBits, MppBits
  <2>4. ~HasS => e \cap SBits = {}
    BY <1>2, <2>2, <2>3
  <2>5. v \in SUBSET StatusBits => e \in SUBSET StatusBits
    BY <1>2, <2>2 DEF StatusBits
  <2>6. "MPRV" \in e => "MPRV" \in v
    BY <1>2, <2>2 DEF MppBits
  <2> QED
    BY <1>3, <1>5, <2>2, <2>4, <2>5, <2>6 DEF e
<1> QED
  BY <1>4, <1>5

-----------------------------------------------------------------------------
\* Interrupt registers

LEMMA IrqMaskFacts ==
  /\ MachineIrqs \subseteq IrqMask /\ SeipIrq \notin MachineIrqs
  /\ SeipIrq \in IrqMask <=> HasS
  /\ \A i \in IrqMask : i \in Nat
BY ProfileAssumption DEF IrqMask, MachineIrqs, SupervisorIrqs, SeipIrq

\* update_timer neither leaves the mask nor touches the SEIP bit.
LEMMA SampledFacts ==
  ASSUME TypeOK
  PROVE  SampledMip \in SUBSET IrqMask /\ ((SeipIrq \in SampledMip) <=> (SeipIrq \in mip))
BY IrqMaskFacts DEF TypeOK, SampledMip

\* highest_interrupt_cause returns one of the pending interrupts.
LEMMA HighestFacts ==
  ASSUME NEW p \in SUBSET (MachineIrqs \cup SupervisorIrqs), p # {}
  PROVE  Highest(p) \in p /\ Highest(p) \in Nat
<1>1. \A i \in p : i \in {1, 3, 5, 7, 9, 11}
  BY DEF MachineIrqs, SupervisorIrqs
<1>2. /\ Priority(11) = 1 /\ Priority(3) = 2 /\ Priority(7) = 3
      /\ Priority(9) = 4 /\ Priority(1) = 5 /\ Priority(5) = 6
  BY DEF Priority
<1>3. \E i \in p : \A j \in p : Priority(i) <= Priority(j)
  <2>1. CASE 11 \in p
    BY <1>1, <1>2, <2>1
  <2>2. CASE 11 \notin p /\ 3 \in p
    BY <1>1, <1>2, <2>2
  <2>3. CASE 11 \notin p /\ 3 \notin p /\ 7 \in p
    BY <1>1, <1>2, <2>3
  <2>4. CASE 11 \notin p /\ 3 \notin p /\ 7 \notin p /\ 9 \in p
    BY <1>1, <1>2, <2>4
  <2>5. CASE p \subseteq {1, 5} /\ 1 \in p
    BY <1>1, <1>2, <2>5
  <2>6. CASE p \subseteq {5}
    <3>1. p = {5}
      BY <2>6
    <3> QED
      BY <1>2, <3>1
  <2> QED
    BY <1>1, <2>1, <2>2, <2>3, <2>4, <2>5, <2>6
<1>4. Highest(p) \in p
  BY <1>3 DEF Highest
<1> QED
  BY <1>1, <1>4

-----------------------------------------------------------------------------
\* Trap entry

LEMMA EnterMStep ==
  ASSUME HartInv, NEW offset \in Nat, Enter("M", offset)
  PROVE  HartInv'
<1>1. /\ mstatus \in SUBSET StatusBits /\ priv \in Modes /\ pc \in Nat
      /\ tvec \in [{"M", "S"} -> [base : Nat, vectored : BOOLEAN]]
      /\ epc \in [{"M", "S"} -> Nat] /\ saved \in [{"M", "S"} -> Contexts]
  BY DEF HartInv, TypeOK
<1>2. /\ mstatus' = EnterM(mstatus, priv) /\ priv' = "M"
      /\ epc' = [epc EXCEPT !["M"] = pc]
      /\ pc' = (IF tvec["M"].base + offset # 0 THEN tvec["M"].base + offset ELSE pc)
      /\ result' = (IF tvec["M"].base + offset # 0 THEN "Running" ELSE "Trap")
      /\ mip' = SampledMip
      /\ saved' = [saved EXCEPT !["M"] = [valid |-> TRUE, priv |-> priv, pc |-> pc,
                                          ie |-> "MIE" \in mstatus]]
      /\ UNCHANGED <<mie, mideleg, medeleg, tvec, lines, seipBit>>
  BY DEF Enter
<1>3. /\ mstatus' \in SUBSET StatusBits /\ Mpp(mstatus') = priv
      /\ priv \in Implemented => MppLegal(mstatus')
      /\ ("MPIE" \in mstatus') <=> ("MIE" \in mstatus)
      /\ \A b : b \notin MppBits \cup {"MIE", "MPIE"} => ((b \in mstatus') <=> (b \in mstatus))
  BY <1>1, <1>2, EnterMFacts
<1>4. [valid |-> TRUE, priv |-> priv, pc |-> pc, ie |-> "MIE" \in mstatus] \in Contexts
  BY <1>1 DEF Contexts
<1>5. TypeOK'
  <2>1. pc' \in Nat /\ result' \in {"Running", "Trap"}
    BY <1>1, <1>2
  <2>2. saved' \in [{"M", "S"} -> Contexts] /\ epc' \in [{"M", "S"} -> Nat]
    BY <1>1, <1>2, <1>4
  <2> QED
    BY <1>2, <1>3, <2>1, <2>2, SampledFacts DEF HartInv, TypeOK, Modes, IrqMask, Delegable
<1>6. SavedContextIntact'
  <2>1. /\ saved'["M"].priv = priv /\ saved'["M"].pc = pc
        /\ saved'["M"].ie = ("MIE" \in mstatus) /\ epc'["M"] = pc
    BY <1>1, <1>2
  <2>2. saved'["S"] = saved["S"] /\ epc'["S"] = epc["S"]
    BY <1>1, <1>2
  <2>3. Spp(mstatus') = Spp(mstatus) /\ (("SPIE" \in mstatus') <=> ("SPIE" \in mstatus))
    BY <1>3 DEF Spp, MppBits
  <2> QED
    BY <1>3, <2>1, <2>2, <2>3 DEF HartInv, StatusInv, SavedContextIntact
<1>7. StatusWithinProfile'
  BY <1>3 DEF HartInv, StatusInv, ModeInv, ModeImplemented, StatusWithinProfile, SBits, MppBits
<1>8. MprvOnlyInMachineMode' /\ ModeInv' /\ DelegationNeedsS'
  BY <1>2 DEF HartInv, MprvOnlyInMachineMode, ModeInv, ModeImplemented, Implemented,
              DelegationNeedsS
<1>9. SeipBitIsSoftware'
  BY <1>2, SampledFacts DEF HartInv, SeipBitIsSoftware
<1> QED
  BY <1>5, <1>6, <1>7, <1>8, <1>9 DEF HartInv, StatusInv

LEMMA EnterSStep ==
  ASSUME HartInv, NEW offset \in Nat, Enter("S", offset), priv # "M", HasS
  PROVE  HartInv'
<1>1. /\ mstatus \in SUBSET StatusBits /\ priv \in {"U", "S"} /\ pc \in Nat
      /\ tvec \in [{"M", "S"} -> [base : Nat, vectored : BOOLEAN]]
      /\ epc \in [{"M", "S"} -> Nat] /\ saved \in [{"M", "S"} -> Contexts]
  BY DEF HartInv, TypeOK, Modes
<1>2. /\ mstatus' = EnterS(mstatus, priv) /\ priv' = "S"
      /\ epc' = [epc EXCEPT !["S"] = pc]
      /\ pc' = (IF tvec["S"].base + offset # 0 THEN tvec["S"].base + offset ELSE pc)
      /\ result' = (IF tvec["S"].base + offset # 0 THEN "Running" ELSE "Trap")
      /\ mip' = SampledMip
      /\ saved' = [saved EXCEPT !["S"] = [valid |-> TRUE, priv |-> priv, pc |-> pc,
                                          ie |-> "SIE" \in mstatus]]
      /\ UNCHANGED <<mie, mideleg, medeleg, tvec, lines, seipBit>>
  BY DEF Enter
<1>3. /\ mstatus' \in SUBSET StatusBits /\ Spp(mstatus') = priv
      /\ ("SPIE" \in mstatus') <=> ("SIE" \in mstatus)
      /\ \A b : b \notin {"SPP", "SIE", "SPIE"} => ((b \in mstatus') <=> (b \in mstatus))
  BY <1>1, <1>2, EnterSFacts
<1>4. [valid |-> TRUE, priv |-> priv, pc |-> pc, ie |-> "SIE" \in mstatus] \in Contexts
  BY <1>1 DEF Contexts, Modes
<1>5. TypeOK'
  <2>1. pc' \in Nat /\ result' \in {"Running", "Trap"}
    BY <1>1, <1>2
  <2>2. saved' \in [{"M", "S"} -> Contexts] /\ epc' \in [{"M", "S"} -> Nat]
    BY <1>1, <1>2, <1>4
  <2> QED
    BY <1>2, <1>3, <2>1, <2>2, SampledFacts DEF HartInv, TypeOK, Modes, IrqMask, Delegable
<1>6. Mpp(mstatus') = Mpp(mstatus) /\ (MppLegal(mstatus') <=> MppLegal(mstatus))
  BY <1>3, MppDepends DEF MppBits
<1>7. SavedContextIntact'
  <2>1. /\ saved'["S"].priv = priv /\ saved'["S"].pc = pc
        /\ saved'["S"].ie = ("SIE" \in mstatus) /\ epc'["S"] = pc
    BY <1>1, <1>2
  <2>2. saved'["M"] = saved["M"] /\ epc'["M"] = epc["M"]
    BY <1>1, <1>2
  <2> QED
    BY <1>3, <1>6, <2>1, <2>2 DEF HartInv, StatusInv, SavedContextIntact
<1>8. StatusWithinProfile' /\ MprvOnlyInMachineMode'
  BY <1>3, <1>6 DEF HartInv, StatusInv, StatusWithinProfile, MprvOnlyInMachineMode
<1>9. ModeInv' /\ DelegationNeedsS'
  BY <1>2 DEF ModeInv, ModeImplemented, Implemented, DelegationNeedsS
<1>10. SeipBitIsSoftware'
  BY <1>2, SampledFacts DEF HartInv, SeipBitIsSoftware
<1> QED
  BY <1>5, <1>7, <1>8, <1>9, <1>10 DEF HartInv, StatusInv

\* A cause delegated by either register implies supervisor mode.
LEMMA DelegatedFacts ==
  ASSUME HartInv, NEW c
  PROVE  /\ Delegated(medeleg, c) = "S" => priv # "M" /\ HasS
         /\ Delegated(mideleg, c) = "S" => priv # "M" /\ HasS
         /\ Delegated(medeleg, c) \in {"M", "S"} /\ Delegated(mideleg, c) \in {"M", "S"}
BY DEF HartInv, DelegationNeedsS, Delegated

LEMMA ExceptionStep == ASSUME HartInv, NEW c, Exception(c) PROVE HartInv'
<1>1. Enter(Delegated(medeleg, c), 0)
  BY DEF Exception
<1>2. CASE Delegated(medeleg, c) = "M"
  BY <1>1, <1>2, EnterMStep
<1>3. CASE Delegated(medeleg, c) = "S"
  BY <1>1, <1>3, EnterSStep, DelegatedFacts
<1> QED
  BY <1>2, <1>3, DelegatedFacts

\* take_pending_interrupt delivers some interrupt.
LEMMA InterruptTaken ==
  ASSUME HartInv, TakeInterrupt
  PROVE  \E i \in Nat : Interrupt(i)
<1>1. /\ MPending \in SUBSET (MachineIrqs \cup SupervisorIrqs)
      /\ SPending \in SUBSET (MachineIrqs \cup SupervisorIrqs)
  BY DEF HartInv, TypeOK, MPending, SPending, Pending, IrqMask
<1>2. MPending # {} => Highest(MPending) \in Nat
  BY <1>1, HighestFacts
<1>3. SPending # {} => Highest(SPending) \in Nat
  BY <1>1, HighestFacts
<1> QED
  BY <1>2, <1>3 DEF TakeInterrupt, MTaken, STaken

\* Interrupt delivery.
LEMMA InterruptStep == ASSUME HartInv, TakeInterrupt PROVE HartInv'
<1>1. PICK i \in Nat : Interrupt(i)
  BY InterruptTaken
<1> DEFINE t == Delegated(mideleg, i)
           offset == IF tvec[t].vectored THEN 4 * i ELSE 0
<1>2. offset \in Nat /\ Enter(t, offset)
  BY <1>1 DEF Interrupt
<1> HIDE DEF offset
<1>3. CASE t = "M"
  BY <1>2, <1>3, EnterMStep
<1>4. CASE t = "S"
  BY <1>2, <1>4, EnterSStep, DelegatedFacts
<1> QED
  BY <1>3, <1>4, DelegatedFacts

-----------------------------------------------------------------------------
\* Returns

LEMMA MretStep == ASSUME HartInv, MretInstr PROVE HartInv'
<1>1. CASE priv # "M"
  BY <1>1, ExceptionStep DEF MretInstr
<1>2. CASE priv = "M"
  <2>1. /\ mstatus \in SUBSET StatusBits /\ epc \in [{"M", "S"} -> Nat]
        /\ saved \in [{"M", "S"} -> Contexts]
    BY DEF HartInv, TypeOK
  <2>2. /\ mstatus' = AfterMret(mstatus) /\ priv' = Mpp(mstatus) /\ pc' = epc["M"]
        /\ mip' = SampledMip /\ saved' = [saved EXCEPT !["M"] = NoContext]
        /\ result' = "Running"
        /\ UNCHANGED <<mie, mideleg, medeleg, tvec, epc, seipBit, lines>>
    BY <1>2 DEF MretInstr, Forget, Complete
  <2>3. /\ mstatus' \in SUBSET StatusBits /\ MppLegal(mstatus')
        /\ "MPRV" \in mstatus' => Mpp(mstatus) = "M"
        /\ \A b \in SBits : (b \in mstatus') <=> (b \in mstatus)
    BY <2>1, <2>2, AfterMretFacts
  <2>4. NoContext \in Contexts /\ ~NoContext.valid
    BY DEF NoContext, Contexts, Modes
  <2>5. saved' \in [{"M", "S"} -> Contexts] /\ ~saved'["M"].valid /\ saved'["S"] = saved["S"]
    BY <2>1, <2>2, <2>4
  <2>6. priv' \in Modes
    BY <2>2, MppRange
  <2>7. TypeOK'
    BY <2>1, <2>2, <2>3, <2>5, <2>6, SampledFacts DEF HartInv, TypeOK, IrqMask, Delegable
  <2>8. Spp(mstatus') = Spp(mstatus) /\ (("SPIE" \in mstatus') <=> ("SPIE" \in mstatus))
    BY <2>3 DEF Spp, SBits
  <2>9. SavedContextIntact'
    BY <2>2, <2>5, <2>8 DEF HartInv, StatusInv, SavedContextIntact
  <2>10. StatusWithinProfile' /\ MprvOnlyInMachineMode'
    BY <2>2, <2>3 DEF HartInv, StatusInv, StatusWithinProfile, MprvOnlyInMachineMode
  <2>11. ModeInv' /\ DelegationNeedsS'
    BY <2>2, MppLegalImplemented
    DEF HartInv, StatusInv, StatusWithinProfile, ModeInv, ModeImplemented, Implemented,
        DelegationNeedsS
  <2>12. SeipBitIsSoftware'
    BY <2>2, SampledFacts DEF HartInv, SeipBitIsSoftware
  <2> QED
    BY <2>7, <2>9, <2>10, <2>11, <2>12 DEF HartInv, StatusInv
<1> QED
  BY <1>1, <1>2

LEMMA SretStep == ASSUME HartInv, SretInstr PROVE HartInv'
<1> DEFINE illegal == ~HasS \/ priv = "U" \/ (priv = "S" /\ "TSR" \in mstatus)
<1>1. CASE illegal
  BY <1>1, ExceptionStep DEF SretInstr
<1>2. CASE ~illegal
  <2>1. /\ mstatus \in SUBSET StatusBits /\ epc \in [{"M", "S"} -> Nat]
        /\ saved \in [{"M", "S"} -> Contexts]
    BY DEF HartInv, TypeOK
  <2>2. /\ mstatus' = AfterSret(mstatus) /\ priv' = Spp(mstatus) /\ pc' = epc["S"]
        /\ mip' = SampledMip /\ saved' = [saved EXCEPT !["S"] = NoContext]
        /\ result' = "Running"
        /\ UNCHANGED <<mie, mideleg, medeleg, tvec, epc, seipBit, lines>>
    BY <1>2 DEF SretInstr, Forget, Complete
  <2>3. /\ mstatus' \in SUBSET StatusBits /\ "MPRV" \notin mstatus'
        /\ \A b \in MppBits \cup {"MIE", "MPIE"} : (b \in mstatus') <=> (b \in mstatus)
    BY <2>1, <2>2, AfterSretFacts
  <2>4. NoContext \in Contexts /\ ~NoContext.valid
    BY DEF NoContext, Contexts, Modes
  <2>5. saved' \in [{"M", "S"} -> Contexts] /\ ~saved'["S"].valid /\ saved'["M"] = saved["M"]
    BY <2>1, <2>2, <2>4
  <2>6. HasS /\ HasU
    BY <1>2, ProfileAssumption
  <2>7. priv' \in {"U", "S"} /\ priv' \in Modes /\ priv' \in Implemented
    BY <2>2, <2>6, MppRange DEF Modes, Implemented
  <2>8. TypeOK'
    BY <2>1, <2>2, <2>3, <2>5, <2>7, SampledFacts DEF HartInv, TypeOK, IrqMask, Delegable
  <2>9. Mpp(mstatus') = Mpp(mstatus) /\ (MppLegal(mstatus') <=> MppLegal(mstatus))
    BY <2>3, MppDepends
  <2>10. SavedContextIntact'
    BY <2>2, <2>3, <2>5, <2>9 DEF HartInv, StatusInv, SavedContextIntact
  <2>11. StatusWithinProfile' /\ MprvOnlyInMachineMode'
    BY <2>3, <2>6, <2>9 DEF HartInv, StatusInv, StatusWithinProfile, MprvOnlyInMachineMode
  <2>12. ModeInv' /\ DelegationNeedsS'
    BY <2>6, <2>7 DEF ModeInv, ModeImplemented, Implemented, DelegationNeedsS
  <2>13. SeipBitIsSoftware'
    BY <2>2, SampledFacts DEF HartInv, SeipBitIsSoftware
  <2> QED
    BY <2>8, <2>10, <2>11, <2>12, <2>13 DEF HartInv, StatusInv
<1> QED
  BY <1>1, <1>2

-----------------------------------------------------------------------------
\* Instructions that stay in their mode

\* A step that keeps mode, mstatus and saved contexts keeps what they satisfy.
LEMMA QuietStatus ==
  ASSUME HartInv, UNCHANGED <<priv, mstatus, epc, saved>>
  PROVE  StatusInv' /\ ModeInv'
BY DEF HartInv, StatusInv, ModeInv, ModeImplemented, Implemented, StatusWithinProfile,
       MprvOnlyInMachineMode, SavedContextIntact

LEMMA RetireStep == ASSUME HartInv, Retire PROVE HartInv'
<1>1. /\ UNCHANGED <<priv, mstatus, mie, mideleg, medeleg, tvec, epc, saved, seipBit, lines>>
      /\ mip' = SampledMip /\ result' = "Running" /\ pc' \in Nat
  BY ArgsAssumption DEF Retire, Advance, Complete
<1>2. TypeOK'
  BY <1>1, SampledFacts DEF HartInv, TypeOK, IrqMask, Delegable
<1>3. SeipBitIsSoftware' /\ DelegationNeedsS'
  BY <1>1, SampledFacts DEF HartInv, SeipBitIsSoftware, DelegationNeedsS
<1> QED
  BY <1>1, <1>2, <1>3, QuietStatus DEF HartInv

LEMMA WrittenFacts ==
  ASSUME NEW S, NEW op \in Ops, NEW base \in SUBSET S, NEW arg \in SUBSET S
  PROVE  Written(op, base, arg) \in SUBSET S
BY DEF Written, Ops

\* A CSR write that leaves the mode, mstatus and the interrupted contexts alone.
LEMMA QuietWrite ==
  ASSUME HartInv, Advance,
         UNCHANGED <<mstatus, epc, saved>>,
         mie' \in SUBSET IrqMask, mip' \in SUBSET IrqMask,
         mideleg' \in SUBSET SupervisorIrqs, medeleg' \in SUBSET Delegable,
         tvec' \in [{"M", "S"} -> [base : Nat, vectored : BOOLEAN]],
         seipBit' \in BOOLEAN, DelegationNeedsS', SeipBitIsSoftware'
  PROVE  HartInv'
<1>1. UNCHANGED <<priv, lines>> /\ result' = "Running" /\ pc' \in Nat
  BY ArgsAssumption DEF Advance, Complete
<1>2. TypeOK'
  BY <1>1 DEF HartInv, TypeOK, IrqMask, Delegable
<1> QED
  BY <1>1, <1>2, QuietStatus DEF HartInv

LEMMA AllowedFacts ==
  ASSUME HartInv, NEW csr, Allowed(csr)
  PROVE  /\ csr \in MachineCsrs => priv = "M"
         /\ csr \in NeedS => HasS
BY DEF HartInv, TypeOK, Modes, Allowed, Rank

LEMMA NoContextFacts == NoContext \in Contexts /\ ~NoContext.valid
BY DEF NoContext, Contexts, Modes

LEMMA CsrMstatusStep ==
  ASSUME HartInv, NEW op \in Ops, NEW arg \in StatusArgs, CsrMstatus(op, arg)
  PROVE  HartInv'
<1> DEFINE w == Written(op, LegalizeStatus(mstatus), arg)
<1>1. /\ mstatus' = LegalizeStatus(w) /\ priv = "M" /\ pc' \in Nat /\ result' = "Running"
      /\ mip' = SampledMip /\ saved' = [t \in {"M", "S"} |-> NoContext]
      /\ UNCHANGED <<priv, lines, mie, mideleg, medeleg, tvec, epc, seipBit>>
  BY AllowedFacts, ArgsAssumption DEF CsrMstatus, Advance, Complete, MachineCsrs
<1>2. w \in SUBSET StatusBits
  <2>1. LegalizeStatus(mstatus) \in SUBSET StatusBits /\ arg \in SUBSET StatusBits
    BY LegalizeFacts, StatusArgsAssumption DEF HartInv, TypeOK
  <2> QED
    BY <2>1, WrittenFacts
<1> HIDE DEF w
<1>3. mstatus' \in SUBSET StatusBits /\ MppLegal(mstatus') /\ (~HasS => mstatus' \cap SBits = {})
  BY <1>1, <1>2, LegalizeFacts
<1>4. saved' \in [{"M", "S"} -> Contexts] /\ ~saved'["M"].valid /\ ~saved'["S"].valid
  BY <1>1, NoContextFacts
<1>5. TypeOK'
  BY <1>1, <1>3, <1>4, SampledFacts DEF HartInv, TypeOK, IrqMask, Delegable
<1>6. StatusInv'
  BY <1>1, <1>3, <1>4
  DEF StatusInv, StatusWithinProfile, MprvOnlyInMachineMode, SavedContextIntact
<1>7. ModeInv' /\ DelegationNeedsS' /\ SeipBitIsSoftware'
  BY <1>1, SampledFacts
  DEF HartInv, ModeInv, ModeImplemented, Implemented, DelegationNeedsS, SeipBitIsSoftware
<1> QED
  BY <1>5, <1>6, <1>7 DEF HartInv

LEMMA CsrSstatusStep ==
  ASSUME HartInv, NEW op \in Ops, NEW arg \in StatusArgs, CsrSstatus(op, arg)
  PROVE  HartInv'
<1> DEFINE v == Written(op, mstatus \cap SstatusBits, arg)
           w == (mstatus \ SstatusBits) \cup (v \cap SstatusBits)
<1>1. /\ mstatus' = LegalizeStatus(w) /\ HasS /\ HasU /\ pc' \in Nat /\ result' = "Running"
      /\ mip' = SampledMip /\ saved' = [saved EXCEPT !["S"] = NoContext]
      /\ UNCHANGED <<priv, lines, mie, mideleg, medeleg, tvec, epc, seipBit>>
  BY AllowedFacts, ArgsAssumption, ProfileAssumption
  DEF CsrSstatus, Advance, Complete, SupervisorCsrs, NeedS, Forget
<1>2. /\ w \in SUBSET StatusBits
      /\ \A b : b \notin SstatusBits => ((b \in w) <=> (b \in mstatus))
  BY DEF HartInv, TypeOK, StatusBits, SstatusBits, SBits
<1> HIDE DEF w
<1>3. \A b \in MppBits \cup {"MPIE", "MPRV"} : b \notin SstatusBits
  BY DEF MppBits, SstatusBits
<1>4. Mpp(w) = Mpp(mstatus) /\ MppLegal(w)
  BY <1>1, <1>2, <1>3, MppDepends DEF HartInv, StatusInv, StatusWithinProfile
<1>5. mstatus' = w
  BY <1>1, <1>4, LegalizeFacts
<1>6. saved' \in [{"M", "S"} -> Contexts] /\ saved'["M"] = saved["M"] /\ ~saved'["S"].valid
  BY <1>1, NoContextFacts DEF HartInv, TypeOK
<1>7. TypeOK'
  BY <1>1, <1>2, <1>5, <1>6, SampledFacts DEF HartInv, TypeOK, IrqMask, Delegable
<1>8. SavedContextIntact'
  BY <1>1, <1>2, <1>3, <1>4, <1>5, <1>6 DEF HartInv, StatusInv, SavedContextIntact
<1>9. StatusWithinProfile' /\ MprvOnlyInMachineMode'
  BY <1>1, <1>2, <1>3, <1>4, <1>5
  DEF HartInv, StatusInv, StatusWithinProfile, MprvOnlyInMachineMode
<1>10. ModeInv' /\ DelegationNeedsS' /\ SeipBitIsSoftware'
  BY <1>1, SampledFacts
  DEF HartInv, ModeInv, ModeImplemented, Implemented, DelegationNeedsS, SeipBitIsSoftware
<1> QED
  BY <1>7, <1>8, <1>9, <1>10 DEF HartInv, StatusInv

LEMMA CsrEpcStep ==
  ASSUME HartInv, NEW t \in {"M", "S"}, NEW p \in CodePcs, CsrEpc(t, p)
  PROVE  HartInv'
<1>1. /\ epc' = [epc EXCEPT ![t] = p] /\ saved' = [saved EXCEPT ![t] = NoContext]
      /\ p \in Nat /\ pc' \in Nat /\ result' = "Running" /\ mip' = SampledMip
      /\ UNCHANGED <<priv, lines, mstatus, mie, mideleg, medeleg, tvec, seipBit>>
  BY ArgsAssumption DEF CsrEpc, Advance, Complete, Forget
<1>2. /\ epc' \in [{"M", "S"} -> Nat] /\ saved' \in [{"M", "S"} -> Contexts]
      /\ ~saved'[t].valid
      /\ \A u \in {"M", "S"} : u # t => epc'[u] = epc[u] /\ saved'[u] = saved[u]
  BY <1>1, NoContextFacts DEF HartInv, TypeOK
<1>3. TypeOK'
  BY <1>1, <1>2, SampledFacts DEF HartInv, TypeOK, IrqMask, Delegable
<1>4. SavedContextIntact'
  <2>1. CASE t = "M"
    BY <1>1, <1>2, <2>1 DEF HartInv, StatusInv, SavedContextIntact
  <2>2. CASE t = "S"
    BY <1>1, <1>2, <2>2 DEF HartInv, StatusInv, SavedContextIntact
  <2> QED
    BY <2>1, <2>2
<1>5. StatusWithinProfile' /\ MprvOnlyInMachineMode'
  BY <1>1 DEF HartInv, StatusInv, StatusWithinProfile, MprvOnlyInMachineMode
<1>6. ModeInv' /\ DelegationNeedsS' /\ SeipBitIsSoftware'
  BY <1>1, SampledFacts
  DEF HartInv, ModeInv, ModeImplemented, Implemented, DelegationNeedsS, SeipBitIsSoftware
<1> QED
  BY <1>3, <1>4, <1>5, <1>6 DEF HartInv, StatusInv

\* The stored SEIP bit moves only with a write to mip, and then as written.
LEMMA CsrMipStep ==
  ASSUME HartInv, NEW op \in Ops, NEW arg, CsrMip(op, arg)
  PROVE  HartInv'
<1> DEFINE v == Written(op, RmwBaseMip, arg)
<1>1. /\ mip' = (SampledMip \ MipWritable) \cup (v \cap MipWritable)
      /\ UNCHANGED <<mstatus, mie, mideleg, medeleg, tvec, epc, saved>> /\ Advance
  BY DEF CsrMip
<1>2. /\ SampledMip \in SUBSET IrqMask /\ RmwBaseMip = SampledMip
      /\ (SeipIrq \in SampledMip) <=> seipBit
  BY SampledFacts DEF RmwBaseMip, HartInv, SeipBitIsSoftware, TypeOK
<1>3. MipWritable \subseteq IrqMask /\ (SeipIrq \in MipWritable <=> HasS)
  BY ProfileAssumption DEF MipWritable, IrqMask, SupervisorIrqs, SeipIrq
<1>4. mip' \in SUBSET IrqMask
  BY <1>1, <1>2, <1>3
<1>5. seipBit' \in BOOLEAN /\ ((SeipIrq \in mip') <=> seipBit')
  <2>1. CASE ~HasS
    <3>1. seipBit' = seipBit /\ ((SeipIrq \in mip') <=> (SeipIrq \in SampledMip))
      BY <1>1, <1>3, <2>1 DEF CsrMip
    <3> QED
      BY <1>2, <3>1 DEF HartInv, TypeOK
  <2>2. CASE HasS
    <3>1. (SeipIrq \in mip') <=> (SeipIrq \in v)
      BY <1>1, <1>3, <2>2
    <3>2. CASE op = "rw"
      <4>1. seipBit' = (SeipIrq \in arg) /\ v = arg
        BY <2>2, <3>2 DEF CsrMip, Written
      <4>2. (SeipIrq \in arg) \in BOOLEAN
        OBVIOUS
      <4> HIDE DEF v
      <4> QED
        BY <3>1, <4>1, <4>2
    <3>3. CASE op = "rs"
      BY <1>2, <2>2, <3>1, <3>3 DEF CsrMip, Written, HartInv, TypeOK
    <3>4. CASE op = "rc"
      BY <1>2, <2>2, <3>1, <3>4 DEF CsrMip, Written, HartInv, TypeOK
    <3> QED
      BY <3>2, <3>3, <3>4 DEF Ops
  <2> QED
    BY <2>1, <2>2
<1>6. DelegationNeedsS' /\ SeipBitIsSoftware'
  BY <1>1, <1>5 DEF HartInv, DelegationNeedsS, SeipBitIsSoftware
<1> QED
  BY <1>1, <1>4, <1>5, <1>6, QuietWrite DEF HartInv, TypeOK

LEMMA CsrQuietStep ==
  ASSUME HartInv, NEW op \in Ops, NEW arg
  PROVE  /\ CsrMie(op, arg) => HartInv'
         /\ CsrSie(op, arg) => HartInv'
         /\ CsrSip(op, arg) => HartInv'
         /\ CsrMideleg(arg) => HartInv'
         /\ CsrMedeleg(arg) => HartInv'
<1>1. SampledMip \in SUBSET IrqMask /\ (SeipIrq \in SampledMip <=> seipBit)
  BY SampledFacts DEF HartInv, SeipBitIsSoftware
<1>2. TypeOK /\ DelegationNeedsS
  BY DEF HartInv
<1>3. ASSUME CsrMie(op, arg) PROVE HartInv'
  <2>1. mie' \in SUBSET IrqMask
    BY <1>3 DEF CsrMie
  <2> QED
    BY <1>1, <1>2, <1>3, <2>1, QuietWrite DEF CsrMie, TypeOK, DelegationNeedsS, SeipBitIsSoftware
<1>4. ASSUME CsrSie(op, arg) PROVE HartInv'
  <2>1. mie' \in SUBSET IrqMask
    BY <1>2, <1>4 DEF CsrSie, TypeOK, SMask, IrqMask
  <2> QED
    BY <1>1, <1>2, <1>4, <2>1, QuietWrite DEF CsrSie, TypeOK, DelegationNeedsS, SeipBitIsSoftware
<1>5. ASSUME CsrSip(op, arg) PROVE HartInv'
  <2>1. mip' \in SUBSET IrqMask /\ (SeipIrq \in mip' <=> SeipIrq \in SampledMip)
    BY <1>1, <1>5 DEF CsrSip, SMask, IrqMask, SeipIrq, SoftwareIrq
  <2> QED
    BY <1>1, <1>2, <1>5, <2>1, QuietWrite DEF CsrSip, TypeOK, DelegationNeedsS, SeipBitIsSoftware
<1>6. ASSUME CsrMideleg(arg) PROVE HartInv'
  <2>1. HasS
    BY <1>6, AllowedFacts DEF CsrMideleg, NeedS
  <2>2. mideleg' \in SUBSET SupervisorIrqs /\ DelegationNeedsS'
    BY <1>6, <2>1 DEF CsrMideleg, DelegationNeedsS
  <2> QED
    BY <1>1, <1>2, <1>6, <2>2, QuietWrite DEF CsrMideleg, TypeOK, SeipBitIsSoftware
<1>7. ASSUME CsrMedeleg(arg) PROVE HartInv'
  <2>1. HasS
    BY <1>7, AllowedFacts DEF CsrMedeleg, NeedS
  <2>2. medeleg' \in SUBSET Delegable /\ DelegationNeedsS'
    BY <1>7, <2>1 DEF CsrMedeleg, DelegationNeedsS
  <2> QED
    BY <1>1, <1>2, <1>7, <2>2, QuietWrite DEF CsrMedeleg, TypeOK, SeipBitIsSoftware
<1> QED
  BY <1>3, <1>4, <1>5, <1>6, <1>7

LEMMA CsrTvecStep ==
  ASSUME HartInv, NEW t \in {"M", "S"}, NEW v \in Vectors, CsrTvec(t, v)
  PROVE  HartInv'
<1>1. tvec' \in [{"M", "S"} -> [base : Nat, vectored : BOOLEAN]]
  BY ArgsAssumption DEF CsrTvec, HartInv, TypeOK
<1>2. mip' \in SUBSET IrqMask /\ SeipBitIsSoftware' /\ DelegationNeedsS'
  BY SampledFacts DEF CsrTvec, HartInv, SeipBitIsSoftware, DelegationNeedsS
<1> QED
  BY <1>1, <1>2, QuietWrite DEF CsrTvec, HartInv, TypeOK

-----------------------------------------------------------------------------
\* The specification

LEMMA DevicesStep == ASSUME HartInv, Devices PROVE HartInv'
<1>1. lines' \in SUBSET (MachineIrqs \cup {SeipIrq})
  BY DEF Devices
<1>2. UNCHANGED <<priv, mstatus, mie, mip, mideleg, medeleg, tvec, epc, pc, result, saved,
                  seipBit>>
  BY DEF Devices
<1>3. TypeOK' /\ SeipBitIsSoftware' /\ DelegationNeedsS'
  BY <1>1, <1>2 DEF HartInv, TypeOK, IrqMask, Delegable, SeipBitIsSoftware, DelegationNeedsS
<1> QED
  BY <1>2, <1>3, QuietStatus DEF HartInv

LEMMA CsrStep == ASSUME HartInv, CsrInstr PROVE HartInv'
<1>1. CASE CsrDenied
  BY <1>1, ExceptionStep DEF CsrDenied
<1>2. CASE CsrSatp
  BY <1>2, RetireStep DEF CsrSatp
<1>3. ASSUME NEW op \in Ops, NEW arg \in StatusArgs, CsrMstatus(op, arg) \/ CsrSstatus(op, arg)
      PROVE  HartInv'
  BY <1>3, CsrMstatusStep, CsrSstatusStep
<1>4. ASSUME NEW op \in Ops, NEW arg \in IrqArgs,
             CsrMie(op, arg) \/ CsrSie(op, arg) \/ CsrMip(op, arg) \/ CsrSip(op, arg)
      PROVE  HartInv'
  BY <1>4, CsrQuietStep, CsrMipStep
<1>5. ASSUME NEW d, CsrMideleg(d) \/ CsrMedeleg(d) PROVE HartInv'
  BY <1>5, CsrQuietStep DEF Ops
<1>6. ASSUME NEW t \in {"M", "S"}, NEW v \in Vectors, CsrTvec(t, v) PROVE HartInv'
  BY <1>6, CsrTvecStep
<1>7. ASSUME NEW t \in {"M", "S"}, NEW p \in CodePcs, CsrEpc(t, p) PROVE HartInv'
  BY <1>7, CsrEpcStep
<1> QED
  BY <1>1, <1>2, <1>3, <1>4, <1>5, <1>6, <1>7 DEF CsrInstr

LEMMA InitEstablishes == ASSUME Init PROVE HartInv
<1>1. /\ priv = "M" /\ pc \in Nat /\ result = "Running"
      /\ mstatus = {} /\ mie = {} /\ mip = {} /\ mideleg = {} /\ medeleg = {}
      /\ tvec = [t \in {"M", "S"} |-> [base |-> 0, vectored |-> FALSE]]
      /\ epc = [t \in {"M", "S"} |-> 0] /\ lines = {}
      /\ saved = [t \in {"M", "S"} |-> NoContext] /\ seipBit = FALSE
  BY ArgsAssumption DEF Init
<1>2. TypeOK
  <2>1. saved \in [{"M", "S"} -> Contexts]
    BY <1>1, NoContextFacts
  <2> QED
    BY <1>1, <2>1 DEF TypeOK, Modes
<1>3. StatusInv
  BY <1>1, NoContextFacts
  DEF StatusInv, StatusWithinProfile, MprvOnlyInMachineMode, SavedContextIntact, MppLegal, MppBits
<1>4. DelegationNeedsS /\ ModeInv
  BY <1>1 DEF DelegationNeedsS, ModeInv, ModeImplemented, Implemented
<1>5. SeipIrq \notin mip /\ ~seipBit
  BY <1>1
<1>6. SeipBitIsSoftware
  BY <1>5, <1>1 DEF SeipBitIsSoftware
<1> QED
  BY <1>2, <1>3, <1>4, <1>6 DEF HartInv

LEMMA NextPreserves == ASSUME HartInv, [Next]_vars PROVE HartInv'
<1>1. CASE TakeInterrupt
  BY <1>1, InterruptStep
<1>2. CASE Fault \/ EcallInstr
  BY <1>2, ExceptionStep DEF Fault, EcallInstr
<1>3. CASE Retire \/ WfiInstr \/ SfenceInstr
  BY <1>3, RetireStep, ExceptionStep DEF WfiInstr, SfenceInstr
<1>4. CASE MretInstr \/ SretInstr
  BY <1>4, MretStep, SretStep
<1>5. CASE CsrInstr
  BY <1>5, CsrStep
<1>6. CASE Devices
  BY <1>6, DevicesStep
<1>7. CASE UNCHANGED vars
  <2>1. UNCHANGED <<priv, mstatus, mie, mip, mideleg, medeleg, tvec, epc, pc, result, saved,
                    seipBit>> /\ lines' = lines
    BY <1>7 DEF vars
  <2>2. TypeOK' /\ SeipBitIsSoftware' /\ DelegationNeedsS'
    BY <2>1 DEF HartInv, TypeOK, IrqMask, Delegable, SeipBitIsSoftware, DelegationNeedsS
  <2> QED
    BY <2>1, <2>2, QuietStatus DEF HartInv
<1> QED
  BY <1>1, <1>2, <1>3, <1>4, <1>5, <1>6, <1>7 DEF Next, Step

LEMMA Inductive == Spec => []HartInv
<1>1. Init => HartInv
  BY InitEstablishes
<1>2. HartInv /\ [Next]_vars => HartInv'
  BY NextPreserves
<1> QED
  BY <1>1, <1>2, PTL DEF Spec

\* Every register keeps its range: mie and mip within what the profile wires
\* up, the delegation registers within their writable masks.
THEOREM Typing == Spec => []TypeOK
<1>1. HartInv => TypeOK
  BY DEF HartInv
<1> QED
  BY <1>1, Inductive, PTL

\* MPRV is never set below M, whatever returns and sstatus writes a guest
\* strings together.
THEOREM MprvConfined == Spec => []MprvOnlyInMachineMode
<1>1. HartInv => MprvOnlyInMachineMode
  BY DEF HartInv, StatusInv
<1> QED
  BY <1>1, Inductive, PTL

\* The context a trap saved stays in the CSRs of the mode that took it until
\* that mode's xRET or a write to those CSRs.
THEOREM ContextsKept == Spec => []SavedContextIntact
<1>1. HartInv => SavedContextIntact
  BY DEF HartInv, StatusInv
<1> QED
  BY <1>1, Inductive, PTL

\* A read-modify-write of mip never copies the PLIC signal into the stored SEIP.
THEOREM SeipStored == Spec => []SeipBitIsSoftware
<1>1. HartInv => SeipBitIsSoftware
  BY DEF HartInv
<1> QED
  BY <1>1, Inductive, PTL

\* With user mode in the profile the hart stays in implemented modes.  Without
\* it the claim is false: the first MRET of a machine-only hart enters U.
THEOREM ModesWithinProfile == ASSUME HasU PROVE Spec => []ModeImplemented
<1>1. HartInv => ModeImplemented
  BY DEF HartInv, ModeInv
<1> QED
  BY <1>1, Inductive, PTL

-----------------------------------------------------------------------------
\* Steps

\* The step is a trap, into S only from below M.
TrapsInto(t) == \E offset \in Nat : Enter(t, offset)
Trapped == TrapsInto("M") \/ (TrapsInto("S") /\ priv # "M" /\ HasS)

\* What a trap that raises the privilege does.
RisesByTrap ==
  /\ priv' \in {"M", "S"}
  /\ epc'[priv'] = pc
  /\ \/ result' = "Trap" /\ pc' = pc
     \/ result' = "Running" /\ tvec[priv'].base <= pc'
  /\ (IF priv' = "M" THEN "MIE" ELSE "SIE") \notin mstatus'
  /\ (IF priv' = "M" THEN Mpp(mstatus') ELSE Spp(mstatus')) = priv

\* The state that belongs to M alone stays.
KeepsMachine ==
  /\ MachineOnly(mstatus') \ {"MPRV"} = MachineOnly(mstatus) \ {"MPRV"}
  /\ mideleg' = mideleg /\ medeleg' = medeleg
  /\ tvec'["M"] = tvec["M"] /\ epc'["M"] = epc["M"]
  /\ mie' \ mideleg = mie \ mideleg
  /\ (mip' \cap SupervisorIrqs) \ (mideleg \cap {SoftwareIrq})
       = (mip \cap SupervisorIrqs) \ (mideleg \cap {SoftwareIrq})

\* Exceptions and interrupts are traps.
LEMMA TrapFacts ==
  ASSUME HartInv
  PROVE  /\ \A c : Exception(c) => Trapped
         /\ TakeInterrupt => Trapped
<1>1. ASSUME NEW c, Exception(c) PROVE Trapped
  <2>1. Enter(Delegated(medeleg, c), 0) /\ 0 \in Nat
    BY <1>1 DEF Exception
  <2>2. /\ Delegated(medeleg, c) = "S" => priv # "M" /\ HasS
        /\ Delegated(medeleg, c) \in {"M", "S"}
    BY DelegatedFacts
  <2> QED
    BY <2>1, <2>2 DEF Trapped, TrapsInto
<1>2. ASSUME TakeInterrupt PROVE Trapped
  <2>1. PICK i \in Nat : Interrupt(i)
    BY <1>2, InterruptTaken
  <2> DEFINE t == Delegated(mideleg, i)
             offset == IF tvec[t].vectored THEN 4 * i ELSE 0
  <2>2. offset \in Nat /\ Enter(t, offset)
    BY <2>1 DEF Interrupt
  <2>3. (t = "S" => priv # "M" /\ HasS) /\ t \in {"M", "S"}
    BY DelegatedFacts
  <2> HIDE DEF t, offset
  <2> QED
    BY <2>2, <2>3 DEF Trapped, TrapsInto
<1> QED
  BY <1>1, <1>2

\* A trap saves what it interrupts, and masks the interrupts of its mode.
LEMMA TrapRises == ASSUME HartInv, Trapped PROVE RisesByTrap
<1>1. /\ mstatus \in SUBSET StatusBits /\ priv \in Modes /\ pc \in Nat
      /\ tvec \in [{"M", "S"} -> [base : Nat, vectored : BOOLEAN]]
      /\ epc \in [{"M", "S"} -> Nat]
  BY DEF HartInv, TypeOK
<1>2. ASSUME NEW t \in {"M", "S"}, NEW offset \in Nat, Enter(t, offset)
      PROVE  /\ priv' = t /\ epc'[t] = pc
             /\ \/ result' = "Trap" /\ pc' = pc
                \/ result' = "Running" /\ tvec[t].base <= pc'
             /\ mstatus' = IF t = "M" THEN EnterM(mstatus, priv) ELSE EnterS(mstatus, priv)
  <2>1. tvec[t].base \in Nat
    BY <1>1
  <2>2. tvec[t].base <= tvec[t].base + offset
    BY <2>1
  <2> QED
    BY <1>1, <1>2, <2>2 DEF Enter
<1>3. CASE TrapsInto("M")
  <2>1. "MIE" \notin EnterM(mstatus, priv) /\ Mpp(EnterM(mstatus, priv)) = priv
    BY <1>1, EnterMFacts
  <2> QED
    BY <1>2, <1>3, <2>1 DEF TrapsInto, RisesByTrap
<1>4. CASE TrapsInto("S") /\ priv # "M"
  <2>1. "SIE" \notin EnterS(mstatus, priv) /\ Spp(EnterS(mstatus, priv)) = priv
    BY <1>1, <1>4, EnterSFacts DEF Modes
  <2> QED
    BY <1>2, <1>4, <2>1 DEF TrapsInto, RisesByTrap
<1> QED
  BY <1>3, <1>4 DEF Trapped

\* update_timer moves machine bits of mip only.
LEMMA SampledKeeps ==
  ASSUME mip' = SampledMip
  PROVE  mip' \cap SupervisorIrqs = mip \cap SupervisorIrqs
BY DEF SampledMip, SupervisorIrqs, MachineIrqs

\* A step that leaves the registers alone,
LEMMA QuietKeeps ==
  ASSUME mip' = SampledMip, UNCHANGED <<mstatus, mie, mideleg, medeleg>>,
         tvec'["M"] = tvec["M"], epc'["M"] = epc["M"]
  PROVE  KeepsMachine
BY SampledKeeps DEF KeepsMachine

\* one that changes the supervisor bits of mstatus,
LEMMA StatusKeeps ==
  ASSUME mip' = SampledMip, UNCHANGED <<mie, mideleg, medeleg>>,
         tvec'["M"] = tvec["M"], epc'["M"] = epc["M"],
         \A b : b \notin SstatusBits \cup {"MPRV"} => ((b \in mstatus') <=> (b \in mstatus))
  PROVE  KeepsMachine
<1>1. \A b : b \in MachineOnly(mstatus') \ {"MPRV"} <=> b \in MachineOnly(mstatus) \ {"MPRV"}
  BY DEF MachineOnly
<1>2. MachineOnly(mstatus') \ {"MPRV"} = MachineOnly(mstatus) \ {"MPRV"}
  BY <1>1
<1> QED
  BY <1>2, SampledKeeps DEF KeepsMachine

\* and a trap into S keep the state of M.
LEMMA TrapKeeps ==
  ASSUME HartInv, TrapsInto("S"), priv # "M"
  PROVE  KeepsMachine
<1>1. PICK offset \in Nat : Enter("S", offset)
  BY DEF TrapsInto
<1>2. mstatus \in SUBSET StatusBits /\ priv \in {"U", "S"} /\ epc \in [{"M", "S"} -> Nat]
  BY DEF HartInv, TypeOK, Modes
<1>3. /\ mstatus' = EnterS(mstatus, priv) /\ mip' = SampledMip
      /\ UNCHANGED <<mie, mideleg, medeleg, tvec>> /\ epc' = [epc EXCEPT !["S"] = pc]
  BY <1>1 DEF Enter
<1>4. \A b : b \notin {"SPP", "SIE", "SPIE"} => ((b \in mstatus') <=> (b \in mstatus))
  BY <1>2, <1>3, EnterSFacts
<1>5. epc'["M"] = epc["M"]
  BY <1>2, <1>3
<1>6. \A b : b \notin SstatusBits \cup {"MPRV"} => ((b \in mstatus') <=> (b \in mstatus))
  BY <1>4 DEF SstatusBits
<1> QED
  BY <1>3, <1>5, <1>6, StatusKeeps

\* A CSR instruction that completes below M.
LEMMA CsrKeeps ==
  ASSUME HartInv, CsrInstr, ~CsrDenied, priv # "M"
  PROVE  KeepsMachine
<1>1. \A csr : Allowed(csr) => csr \notin MachineCsrs /\ (csr \in NeedS => HasS)
  BY AllowedFacts
<1>2. /\ ~Allowed("mstatus") /\ ~Allowed("mie") /\ ~Allowed("mip")
      /\ ~Allowed("mideleg") /\ ~Allowed("medeleg") /\ ~Allowed("mtvec") /\ ~Allowed("mepc")
  BY <1>1 DEF MachineCsrs
<1>3. CASE CsrSatp
  BY <1>3, QuietKeeps DEF CsrSatp, Retire
<1>4. ASSUME NEW op \in Ops, NEW arg \in StatusArgs, CsrSstatus(op, arg) PROVE KeepsMachine
  <2> DEFINE v == Written(op, mstatus \cap SstatusBits, arg)
             w == (mstatus \ SstatusBits) \cup (v \cap SstatusBits)
  <2>1. /\ mstatus' = LegalizeStatus(w) /\ mip' = SampledMip
        /\ UNCHANGED <<mie, mideleg, medeleg, tvec, epc>>
    BY <1>4 DEF CsrSstatus
  <2>2. HasS /\ HasU
    BY <1>1, <1>4, ProfileAssumption DEF CsrSstatus, NeedS, SupervisorCsrs
  <2>3. \A b : b \notin SstatusBits => ((b \in w) <=> (b \in mstatus))
    OBVIOUS
  <2> HIDE DEF v, w
  <2>4. \A b \in MppBits : b \notin SstatusBits
    BY DEF MppBits, SstatusBits
  <2>5. MppLegal(w)
    BY <2>2, <2>3, <2>4, MppDepends DEF HartInv, StatusInv, StatusWithinProfile
  <2>6. mstatus' = w
    BY <2>1, <2>2, <2>5, LegalizeFacts
  <2> QED
    BY <2>1, <2>3, <2>6, StatusKeeps
<1>5. ASSUME NEW op \in Ops, NEW arg \in IrqArgs, CsrSie(op, arg) PROVE KeepsMachine
  <2> DEFINE v == Written(op, mie \cap SMask, arg)
  <2>1. /\ mie' = (mie \ SMask) \cup (v \cap SMask) /\ mip' = SampledMip
        /\ UNCHANGED <<mstatus, mideleg, medeleg, tvec, epc>>
    BY <1>5 DEF CsrSie
  <2>2. SMask \subseteq mideleg
    BY DEF SMask
  <2> HIDE DEF v
  <2>3. mie' \ mideleg = mie \ mideleg
    BY <2>1, <2>2
  <2> QED
    BY <2>1, <2>3, SampledKeeps DEF KeepsMachine
<1>6. ASSUME NEW op \in Ops, NEW arg \in IrqArgs, CsrSip(op, arg) PROVE KeepsMachine
  <2> DEFINE v == Written(op, RmwBaseMip \cap SMask, arg)
             w == SMask \cap {SoftwareIrq}
  <2>1. /\ mip' = (SampledMip \ w) \cup (v \cap w)
        /\ UNCHANGED <<mstatus, mie, mideleg, medeleg, tvec, epc>>
    BY <1>6 DEF CsrSip
  <2>2. w \subseteq mideleg \cap {SoftwareIrq}
    BY DEF SMask
  <2>3. SampledMip \cap SupervisorIrqs = mip \cap SupervisorIrqs
    BY DEF SampledMip, SupervisorIrqs, MachineIrqs
  <2> HIDE DEF v, w
  <2>4. (mip' \cap SupervisorIrqs) \ (mideleg \cap {SoftwareIrq})
          = (mip \cap SupervisorIrqs) \ (mideleg \cap {SoftwareIrq})
    BY <2>1, <2>2, <2>3
  <2> QED
    BY <2>1, <2>4 DEF KeepsMachine
<1>7. ASSUME NEW v \in Vectors, CsrTvec("S", v) PROVE KeepsMachine
  <2>1. tvec'["M"] = tvec["M"]
    BY <1>7 DEF CsrTvec, HartInv, TypeOK
  <2> QED
    BY <1>7, <2>1, QuietKeeps DEF CsrTvec
<1>8. ASSUME NEW p \in CodePcs, CsrEpc("S", p) PROVE KeepsMachine
  <2>1. epc'["M"] = epc["M"]
    BY <1>8 DEF CsrEpc, HartInv, TypeOK
  <2> QED
    BY <1>8, <2>1, QuietKeeps DEF CsrEpc
<1>9. \A t \in {"M", "S"} : t = "S" \/ (TvecCsr(t) = "mtvec" /\ EpcCsr(t) = "mepc")
  BY DEF TvecCsr, EpcCsr
<1> QED
  BY <1>2, <1>3, <1>4, <1>5, <1>6, <1>7, <1>8, <1>9
  DEF CsrInstr, CsrMstatus, CsrMie, CsrMip, CsrMideleg, CsrMedeleg, CsrTvec, CsrEpc

\* A step traps, or it does not raise the privilege and, below M, leaves the
\* state of M alone.
LEMMA StepKinds ==
  ASSUME HartInv, Step
  PROVE  Trapped \/ (~Raises /\ (priv # "M" => KeepsMachine))
<1>1. priv \in Modes /\ mstatus \in SUBSET StatusBits
  BY DEF HartInv, TypeOK
<1>2. ASSUME priv' = priv PROVE ~Raises
  <2>1. Rank(priv) \in Nat
    BY <1>1 DEF Rank, Modes
  <2> QED
    BY <1>2, <2>1 DEF Raises
<1>3. CASE TakeInterrupt \/ Fault \/ EcallInstr
  BY <1>3, TrapFacts DEF Fault, EcallInstr
<1>4. CASE Retire
  BY <1>2, <1>4, QuietKeeps DEF Retire, Advance
<1>5. CASE WfiInstr \/ SfenceInstr
  BY <1>4, <1>5, TrapFacts DEF WfiInstr, SfenceInstr
<1>6. CASE MretInstr
  <2>1. CASE priv # "M"
    BY <1>6, <2>1, TrapFacts DEF MretInstr
  <2>2. CASE priv = "M"
    <3>1. priv' \in Modes
      BY <1>6, <2>2, MppRange DEF MretInstr
    <3> QED
      BY <2>2, <3>1 DEF Raises, Rank, Modes
  <2> QED
    BY <2>1, <2>2
<1>7. CASE SretInstr
  <2>1. CASE ~HasS \/ priv = "U" \/ (priv = "S" /\ "TSR" \in mstatus)
    BY <1>7, <2>1, TrapFacts DEF SretInstr
  <2>2. CASE ~(~HasS \/ priv = "U" \/ (priv = "S" /\ "TSR" \in mstatus))
    <3>1. /\ mstatus' = AfterSret(mstatus) /\ priv' = Spp(mstatus) /\ mip' = SampledMip
          /\ UNCHANGED <<mie, mideleg, medeleg, tvec, epc>>
      BY <1>7, <2>2 DEF SretInstr
    <3>2. priv \in {"S", "M"} /\ priv' \in {"U", "S"}
      BY <1>1, <2>2, <3>1, MppRange DEF Modes
    <3>3. ~Raises
      BY <3>2 DEF Raises, Rank
    <3>4. \A b : b \notin SstatusBits \cup {"MPRV"} => ((b \in mstatus') <=> (b \in mstatus))
      BY <3>1 DEF AfterSret, DropMprv, Put, SstatusBits
    <3> QED
      BY <3>1, <3>3, <3>4, StatusKeeps
  <2> QED
    BY <2>1, <2>2
<1>8. CASE CsrInstr
  <2>1. CASE CsrDenied
    BY <2>1, TrapFacts DEF CsrDenied
  <2>2. CASE ~CsrDenied
    <3>1. priv' = priv
      BY <1>8, <2>2 DEF CsrInstr, CsrSatp, Retire, CsrMstatus, CsrSstatus, CsrMie, CsrSie, CsrMip, CsrSip,
                        CsrMideleg, CsrMedeleg, CsrTvec, CsrEpc, Advance
    <3> QED
      BY <1>2, <1>8, <2>2, <3>1, CsrKeeps
  <2> QED
    BY <2>1, <2>2
<1> QED
  BY <1>3, <1>4, <1>5, <1>6, <1>7, <1>8 DEF Step

\* An interrupt is taken under the conditions of its mode.
LEMMA InterruptFacts ==
  ASSUME HartInv, TakeInterrupt
  PROVE  /\ MTaken => priv' = "M"
         /\ MTaken \/ STaken
<1>1. ASSUME MTaken PROVE priv' = "M"
  <2>1. MPending # {} /\ Interrupt(Highest(MPending))
    BY <1>1 DEF TakeInterrupt, MTaken
  <2>2. MPending \in SUBSET (MachineIrqs \cup SupervisorIrqs)
    BY DEF HartInv, TypeOK, MPending, Pending, IrqMask
  <2>3. Highest(MPending) \in MPending
    BY <2>1, <2>2, HighestFacts
  <2>4. Delegated(mideleg, Highest(MPending)) = "M"
    BY <2>3 DEF Delegated, MPending
  <2> QED
    BY <2>1, <2>4 DEF Interrupt, Enter
<1> QED
  BY <1>1 DEF TakeInterrupt

-----------------------------------------------------------------------------
\* The action properties

\* PrivilegeRisesOnlyByTrap of the hart run: whatever instructions the guest
\* strings together, only trap entry raises the privilege, with the old context
\* saved in the new mode and that mode's interrupts masked (raise_trap,
\* enter_machine_trap, enter_supervisor_trap).
THEOREM OnlyTrapsRaise == Spec => PrivilegeRisesOnlyByTrap
<1>1. HartInv /\ [Next]_vars => [Raises => RisesByTrap]_vars
  <2> SUFFICES ASSUME HartInv, Next, Raises PROVE RisesByTrap
    BY DEF vars
  <2>1. CASE Step
    BY <2>1, StepKinds, TrapRises
  <2>2. CASE Devices
    <3>1. priv' = priv /\ Rank(priv) \in Nat
      BY <2>2 DEF Devices, HartInv, TypeOK, Modes, Rank
    <3> QED
      BY <3>1 DEF Raises
  <2> QED
    BY <2>1, <2>2 DEF Next
<1>2. [Raises => RisesByTrap]_vars
        => [Raises =>
              /\ priv' \in {"M", "S"}
              /\ epc'[priv'] = pc
              /\ \/ result' = "Trap" /\ pc' = pc
                 \/ result' = "Running" /\ tvec[priv'].base <= pc'
              /\ (IF priv' = "M" THEN "MIE" ELSE "SIE") \notin mstatus'
              /\ (IF priv' = "M" THEN Mpp(mstatus') ELSE Spp(mstatus')) = priv]_vars
  BY DEF RisesByTrap
<1> QED
  BY <1>1, <1>2, Inductive, PTL DEF Spec, PrivilegeRisesOnlyByTrap

\* LowerModesCannotTouchMachineState of the hart run: below M, and short of a
\* trap into M, no step changes what belongs to M (the sstatus, sie and sip
\* views, SRET and delegated traps).
THEOREM MachineStateKept == Spec => LowerModesCannotTouchMachineState
<1>1. HartInv /\ [Next]_vars => [(priv # "M" /\ priv' # "M") => KeepsMachine]_vars
  <2> SUFFICES ASSUME HartInv, Next, priv # "M", priv' # "M" PROVE KeepsMachine
    BY DEF vars
  <2>1. CASE Step
    <3>1. ~TrapsInto("M")
      BY DEF TrapsInto, Enter
    <3> QED
      BY <2>1, <3>1, StepKinds, TrapKeeps DEF Trapped
  <2>2. CASE Devices
    BY <2>2 DEF Devices, KeepsMachine
  <2> QED
    BY <2>1, <2>2 DEF Next
<1>2. [(priv # "M" /\ priv' # "M") => KeepsMachine]_vars
        => [(priv # "M" /\ priv' # "M") =>
              /\ MachineOnly(mstatus') \ {"MPRV"} = MachineOnly(mstatus) \ {"MPRV"}
              /\ mideleg' = mideleg /\ medeleg' = medeleg
              /\ tvec'["M"] = tvec["M"] /\ epc'["M"] = epc["M"]
              /\ mie' \ mideleg = mie \ mideleg
              /\ (mip' \cap SupervisorIrqs) \ (mideleg \cap {SoftwareIrq})
                   = (mip \cap SupervisorIrqs) \ (mideleg \cap {SoftwareIrq})]_vars
  BY DEF KeepsMachine
<1> QED
  BY <1>1, <1>2, Inductive, PTL DEF Spec, LowerModesCannotTouchMachineState

\* InterruptsRespectPrivilege of the hart run: an interrupt that is enabled and
\* not delegated preempts all code below M, and none enters a handler that runs
\* with its interrupts off (take_pending_interrupt).
THEOREM InterruptsPreempt == Spec => InterruptsRespectPrivilege
<1> DEFINE Respects ==
      lines' = lines =>
        /\ (priv # "M" /\ (lines \cap mie) \ mideleg # {}) => priv' = "M"
        /\ (priv = "M" /\ saved["M"].valid /\ "MIE" \notin mstatus) => ~TakeInterrupt
        /\ (priv = "S" /\ saved["S"].valid /\ "SIE" \notin mstatus)
             => ~(TakeInterrupt /\ priv' = "S")
<1>1. HartInv /\ [Next]_vars => [Respects]_vars
  <2> SUFFICES ASSUME HartInv, Next, lines' = lines, vars' # vars
               PROVE  /\ (priv # "M" /\ (lines \cap mie) \ mideleg # {}) => priv' = "M"
                      /\ (priv = "M" /\ "MIE" \notin mstatus) => ~TakeInterrupt
                      /\ (priv = "S" /\ "SIE" \notin mstatus) => ~(TakeInterrupt /\ priv' = "S")
    BY DEF vars
  <2>1. ASSUME priv # "M", (lines \cap mie) \ mideleg # {} PROVE priv' = "M"
    <3>1. lines \cap mie \subseteq Pending
      BY IrqMaskFacts DEF HartInv, TypeOK, Pending, SampledMip, ExternalSeip
    <3>2. MTaken
      BY <2>1, <3>1 DEF MTaken, MPending
    <3>3. ~Devices
      BY DEF Devices, vars
    <3>4. TakeInterrupt
      BY <3>2, <3>3 DEF Next, Step, Exception, NoInterrupt, Fault, EcallInstr, MretInstr, SretInstr,
                        WfiInstr, SfenceInstr, Retire, CsrInstr, CsrDenied, CsrSatp, CsrMstatus, CsrSstatus,
                        CsrMie, CsrSie, CsrMip, CsrSip, CsrMideleg, CsrMedeleg, CsrTvec, CsrEpc,
                        Advance, Complete
    <3> QED
      BY <3>2, <3>4, InterruptFacts
  <2>2. ASSUME priv = "M", "MIE" \notin mstatus PROVE ~TakeInterrupt
    BY <2>2 DEF TakeInterrupt, MTaken, STaken
  <2>3. ASSUME priv = "S", "SIE" \notin mstatus, TakeInterrupt PROVE priv' # "S"
    BY <2>3, InterruptFacts DEF STaken
  <2> QED
    BY <2>1, <2>2, <2>3
<1> QED
  BY <1>1, Inductive, PTL DEF Spec, InterruptsRespectPrivilege

=============================================================================
