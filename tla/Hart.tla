-------------------------------- MODULE Hart --------------------------------
(***************************************************************************)
(* One RV64 hart of the emulator, seen through its privilege level, its    *)
(* trap and return state and its interrupt CSRs.                           *)
(*                                                                         *)
(* An action of Next that is not Devices is one call of Runner::step:      *)
(* update_timer copies the interrupt lines into mip, then either a pending *)
(* interrupt is delivered or one instruction executes.                     *)
(*                                                                         *)
(* A CSR made of flag bits is the set of its bits that are one, so the bit *)
(* operations of the code are set operations here: value | m is            *)
(* value \cup m, value & ~m is value \ m.  Interrupts go by their mip bit  *)
(* number, exceptions by name.                                             *)
(*                                                                         *)
(* Abstracted: general registers, memory and the effect of instructions on *)
(* them (an instruction that completes just moves pc); the SUM, MXR and FS *)
(* bits of mstatus, which no operation below reads or moves; xcause, xtval *)
(* and xscratch, which the emulator writes and never reads for control;    *)
(* the counters.                                                           *)
(***************************************************************************)
EXTENDS Naturals

CONSTANTS
  HasS,        \* the profile implements supervisor mode (MISA_EXT_S)
  HasU,        \* the profile implements user mode (MISA_EXT_U)
  Irqs,        \* interrupt numbers this instance raises and enables
  Excs,        \* synchronous exceptions besides ECALL an instruction may raise
  CodePcs,     \* where an instruction that completes may leave pc
  Vectors,     \* trap vectors the guest installs
  StatusArgs,  \* operands (sets of bits) of CSR instructions on m/sstatus
  IrqArgs,     \* operands (sets of interrupts) of those on m/sie and m/sip
  ExcArgs      \* values (sets of exceptions) written to medeleg

\* canonical_machine_extensions: clearing U clears S as well.
ASSUME ProfileAssumption == HasS \in BOOLEAN /\ HasU \in BOOLEAN /\ (HasS => HasU)

ASSUME ArgsAssumption ==
  /\ Irqs \subseteq {1, 3, 5, 7, 9, 11}
  /\ "illegal" \in Excs
  /\ CodePcs \subseteq Nat
  /\ Vectors \subseteq [base : Nat, vectored : BOOLEAN]

VARIABLES
  priv,      \* CpuState.privilege
  mstatus,   \* stored bits of mstatus
  mie,       \* stored bits of mie
  mip,       \* stored bits of mip
  mideleg,
  medeleg,
  tvec,      \* tvec["M"] is mtvec, tvec["S"] is stvec; base 0 means none
  epc,       \* epc["M"] is mepc, epc["S"] is sepc
  pc,
  result,    \* StepResult of the last call of Runner::step
  lines,     \* interrupt signals the platform presents (CLINT, PLIC)
  saved,     \* history: context interrupted by the last trap into M, into S
  seipBit    \* history: the value software last gave to mip.SEIP

vars == <<priv, mstatus, mie, mip, mideleg, medeleg, tvec, epc, pc, result,
          lines, saved, seipBit>>

Modes == {"U", "S", "M"}
Rank(p) == CASE p = "U" -> 0 [] p = "S" -> 1 [] p = "M" -> 3

\* Modes the profile implements.
Implemented == {"M"} \cup (IF HasS THEN {"S"} ELSE {})
                     \cup (IF HasU THEN {"U"} ELSE {})
Bottom == IF HasU THEN "U" ELSE "M"

SupervisorIrqs == {1, 5, 9}      \* SIP_VISIBLE_MASK
MachineIrqs == {3, 7, 11}
SoftwareIrq == 1                 \* SIP_WRITABLE_MASK
SeipIrq == 9
Ecall(p) == CASE p = "U" -> "ecallU" [] p = "S" -> "ecallS" [] p = "M" -> "ecallM"
\* MEDELEG_WRITABLE_MASK leaves out the environment call from M.
Delegable == Excs \cup {"ecallU", "ecallS"}

-----------------------------------------------------------------------------
\* mstatus

MppBits == {"MPP0", "MPP1"}
SBits == {"SIE", "SPIE", "SPP", "TVM", "TSR"}
StatusBits == {"MIE", "MPIE", "MPRV", "TW"} \cup MppBits \cup SBits
SstatusBits == {"SIE", "SPIE", "SPP"}

ASSUME StatusArgsAssumption == StatusArgs \subseteq SUBSET StatusBits

Put(v, bit, on) == IF on THEN v \cup {bit} ELSE v \ {bit}

Mpp(v) == IF MppBits \subseteq v THEN "M"
          ELSE IF "MPP0" \in v THEN "S" ELSE "U"
Spp(v) == IF "SPP" \in v THEN "S" ELSE "U"
SetMpp(v, p) == (v \ MppBits) \cup (CASE p = "U" -> {} [] p = "S" -> {"MPP0"}
                                      [] p = "M" -> MppBits)

\* MPP holds the encoding of an implemented mode (2 encodes none).
MppLegal(v) ==
  \/ MppBits \subseteq v
  \/ v \cap MppBits = {"MPP0"} /\ HasS
  \/ v \cap MppBits = {} /\ HasU

\* Mutant: MPP is stored as written.
LegalizeStatus_AnyMpp(v) ==
  (v \ (IF HasS THEN {} ELSE SBits)) \ (IF HasU THEN {} ELSE {"MPRV", "TW"})

LegalizeStatus(v) ==
  LET b == (v \ (IF HasS THEN {} ELSE SBits))
             \ (IF HasU THEN {} ELSE {"MPRV", "TW"})
  IN IF MppLegal(b) THEN b ELSE SetMpp(b, Bottom)

\* Mutant: xRET leaves MPRV alone.
DropMprv_Kept(v, target) == v

\* mstatus_after_xret_mprv: MPRV survives only a return to M.
DropMprv(v, target) == IF target = "M" THEN v ELSE v \ {"MPRV"}

AfterMret(v) ==
  DropMprv(Put(Put(SetMpp(v, Bottom), "MIE", "MPIE" \in v), "MPIE", TRUE), Mpp(v))

AfterSret(v) ==
  DropMprv(Put(Put(Put(v, "SIE", "SPIE" \in v), "SPIE", TRUE), "SPP", Bottom = "S"),
           Spp(v))

\* Mutant: a machine trap saves MIE and forgets to clear it.
EnterM_KeepsMie(v, p) == Put(SetMpp(v, p), "MPIE", "MIE" \in v)
EnterM(v, p) == Put(Put(SetMpp(v, p), "MPIE", "MIE" \in v), "MIE", FALSE)
\* Mutant: a supervisor trap saves the mode in MPP.
EnterS_IntoMpp(v, p) == Put(Put(SetMpp(v, p), "SPIE", "SIE" \in v), "SIE", FALSE)
EnterS(v, p) == Put(Put(Put(v, "SPP", p = "S"), "SPIE", "SIE" \in v), "SIE", FALSE)

-----------------------------------------------------------------------------
\* Interrupts

\* update_timer: the machine bits of mip follow the lines; SEIP is not stored.
SampledMip == (mip \ MachineIrqs) \cup (lines \cap MachineIrqs)

\* read_mip_visible: SEIP reads as the stored bit OR the PLIC signal.
ExternalSeip == IF HasS THEN lines \cap {SeipIrq} ELSE {}
Pending == (SampledMip \cup ExternalSeip) \cap mie

MPending == Pending \ mideleg
SPending == Pending \cap mideleg
\* Mutant: MIE gates machine interrupts in every mode.
MTaken_GatedEverywhere == MPending # {} /\ "MIE" \in mstatus
MTaken == MPending # {} /\ (priv = "M" => "MIE" \in mstatus)
STaken == SPending # {} /\ (priv = "U" \/ (priv = "S" /\ "SIE" \in mstatus))

\* Priority 11, 3, 7, 9, 1, 5.
Priority(i) == CASE i = 11 -> 1 [] i = 3 -> 2 [] i = 7 -> 3
                 [] i = 9 -> 4 [] i = 1 -> 5 [] i = 5 -> 6
Highest(p) == CHOOSE i \in p : \A j \in p : Priority(i) <= Priority(j)

NoInterrupt == ~MTaken /\ ~STaken

-----------------------------------------------------------------------------
\* Trap entry

NoContext == [valid |-> FALSE, priv |-> "U", pc |-> 0, ie |-> FALSE]

\* raise_trap and enter_machine_trap / enter_supervisor_trap: into mode t,
\* which is chosen by the callers, at the offset of a vectored interrupt.
\* With no vector installed the call returns Trap and pc stays.
Enter(t, offset) ==
  LET target == tvec[t].base + offset
  IN /\ mstatus' = IF t = "M" THEN EnterM(mstatus, priv) ELSE EnterS(mstatus, priv)
     /\ epc' = [epc EXCEPT ![t] = pc]
     /\ priv' = t
     /\ pc' = IF target # 0 THEN target ELSE pc
     /\ result' = IF target # 0 THEN "Running" ELSE "Trap"
     /\ mip' = SampledMip
     /\ saved' = [saved EXCEPT ![t] = [valid |-> TRUE, priv |-> priv, pc |-> pc,
                                       ie |-> (IF t = "M" THEN "MIE" ELSE "SIE")
                                                \in mstatus]]
     /\ UNCHANGED <<mie, mideleg, medeleg, tvec, lines, seipBit>>

Delegated(set, cause) == IF priv # "M" /\ cause \in set THEN "S" ELSE "M"

Exception(c) == NoInterrupt /\ Enter(Delegated(medeleg, c), 0)

Interrupt(i) ==
  LET t == Delegated(mideleg, i)
  IN Enter(t, IF tvec[t].vectored THEN 4 * i ELSE 0)

\* take_pending_interrupt: machine interrupts first, then delegated ones.
TakeInterrupt ==
  \/ MTaken /\ Interrupt(Highest(MPending))
  \/ ~MTaken /\ STaken /\ Interrupt(Highest(SPending))

-----------------------------------------------------------------------------
\* Instructions

\* The part common to every instruction that completes.
Complete ==
  /\ NoInterrupt
  /\ result' = "Running"
  /\ UNCHANGED lines

\* ... and goes on in the same mode.
Advance == Complete /\ pc' \in CodePcs /\ UNCHANGED priv

Retire ==
  /\ Advance
  /\ mip' = SampledMip
  /\ UNCHANGED <<mstatus, mie, mideleg, medeleg, tvec, epc, saved, seipBit>>

\* A fetch, decode, memory or breakpoint exception.
Fault == \E c \in Excs : Exception(c)

EcallInstr == Exception(Ecall(priv))

Forget(t) == [saved EXCEPT ![t] = NoContext]

MretInstr ==
  IF priv # "M" THEN Exception("illegal")
  ELSE /\ Complete
       /\ mstatus' = AfterMret(mstatus)
       /\ priv' = Mpp(mstatus)
       /\ pc' = epc["M"]
       /\ mip' = SampledMip
       /\ saved' = Forget("M")
       /\ UNCHANGED <<mie, mideleg, medeleg, tvec, epc, seipBit>>

SretInstr ==
  IF ~HasS \/ priv = "U" \/ (priv = "S" /\ "TSR" \in mstatus)
  THEN Exception("illegal")
  ELSE /\ Complete
       /\ mstatus' = AfterSret(mstatus)
       /\ priv' = Spp(mstatus)
       /\ pc' = epc["S"]
       /\ mip' = SampledMip
       /\ saved' = Forget("S")
       /\ UNCHANGED <<mie, mideleg, medeleg, tvec, epc, seipBit>>

\* A legal WFI is a hint; its effect on mtime belongs to module Timer.
WfiInstr ==
  IF priv = "M" \/ (priv = "S" /\ "TW" \notin mstatus) THEN Retire
  ELSE Exception("illegal")

\* The flush is the business of module Mmu.
SfenceInstr ==
  IF HasS /\ (priv = "M" \/ (priv = "S" /\ "TVM" \notin mstatus)) THEN Retire
  ELSE Exception("illegal")

-----------------------------------------------------------------------------
\* CSR instructions

MachineCsrs == {"mstatus", "mie", "mip", "mtvec", "mepc", "mideleg", "medeleg"}
SupervisorCsrs == {"sstatus", "sie", "sip", "stvec", "sepc", "satp"}
NeedS == SupervisorCsrs \cup {"mideleg", "medeleg"}

Allowed(csr) ==
  /\ Rank(priv) >= (IF csr \in MachineCsrs THEN 3 ELSE 1)
  /\ csr \in NeedS => HasS
  /\ csr = "satp" => ~(priv = "S" /\ "TVM" \in mstatus)

CsrDenied == \E csr \in MachineCsrs \cup SupervisorCsrs :
  ~Allowed(csr) /\ Exception("illegal")

Ops == {"rw", "rs", "rc"}

\* What CSRRW, CSRRS and CSRRC write, from the write base and the operand.
Written(op, base, arg) ==
  CASE op = "rw" -> arg [] op = "rs" -> base \cup arg [] op = "rc" -> base \ arg

CsrMstatus(op, arg) ==
  /\ Allowed("mstatus") /\ Advance
  /\ mstatus' = LegalizeStatus(Written(op, LegalizeStatus(mstatus), arg))
  /\ mip' = SampledMip
  /\ saved' = [t \in {"M", "S"} |-> NoContext]
  /\ UNCHANGED <<mie, mideleg, medeleg, tvec, epc, seipBit>>

CsrSstatus(op, arg) ==
  /\ Allowed("sstatus") /\ Advance
  /\ LET v == Written(op, mstatus \cap SstatusBits, arg)
     IN mstatus' = LegalizeStatus((mstatus \ SstatusBits) \cup (v \cap SstatusBits))
  /\ mip' = SampledMip
  /\ saved' = Forget("S")
  /\ UNCHANGED <<mie, mideleg, medeleg, tvec, epc, seipBit>>

IrqMask == MachineIrqs \cup (IF HasS THEN SupervisorIrqs ELSE {})

\* Mutant: sie and sip show every supervisor interrupt, delegated or not.
SMask_Undelegated == IF HasS THEN SupervisorIrqs ELSE {}

\* delegated_s_interrupt_mask: what sie and sip show of mie and mip.
SMask == IF HasS THEN mideleg \cap SupervisorIrqs ELSE {}

CsrMie(op, arg) ==
  /\ Allowed("mie") /\ Advance
  /\ mie' = Written(op, mie, arg) \cap IrqMask
  /\ mip' = SampledMip
  /\ UNCHANGED <<mstatus, mideleg, medeleg, tvec, epc, saved, seipBit>>

CsrSie(op, arg) ==
  /\ Allowed("sie") /\ Advance
  /\ LET v == Written(op, mie \cap SMask, arg)
     IN mie' = (mie \ SMask) \cup (v \cap SMask)
  /\ mip' = SampledMip
  /\ UNCHANGED <<mstatus, mideleg, medeleg, tvec, epc, saved, seipBit>>

\* Mutant: the base is the value a read returns.
RmwBaseMip_Visible == (SampledMip \cup ExternalSeip) \cap IrqMask

\* The write base of mip and sip is the stored register: the PLIC signal that
\* a read merges into SEIP must not be copied back into the stored bit.
RmwBaseMip == SampledMip \cap IrqMask

MipWritable == IF HasS THEN SupervisorIrqs ELSE {}

CsrMip(op, arg) ==
  /\ Allowed("mip") /\ Advance
  /\ LET v == Written(op, RmwBaseMip, arg)
     IN mip' = (SampledMip \ MipWritable) \cup (v \cap MipWritable)
  /\ seipBit' = IF HasS THEN CASE op = "rw" -> SeipIrq \in arg
                               [] op = "rs" -> seipBit \/ SeipIrq \in arg
                               [] op = "rc" -> seipBit /\ SeipIrq \notin arg
                ELSE seipBit
  /\ UNCHANGED <<mstatus, mie, mideleg, medeleg, tvec, epc, saved>>

CsrSip(op, arg) ==
  /\ Allowed("sip") /\ Advance
  /\ LET v == Written(op, RmwBaseMip \cap SMask, arg)
         w == SMask \cap {SoftwareIrq}
     IN mip' = (SampledMip \ w) \cup (v \cap w)
  /\ UNCHANGED <<mstatus, mie, mideleg, medeleg, tvec, epc, saved, seipBit>>

CsrMideleg(d) ==
  /\ Allowed("mideleg") /\ Advance
  /\ mideleg' = d \cap SupervisorIrqs
  /\ mip' = SampledMip
  /\ UNCHANGED <<mstatus, mie, medeleg, tvec, epc, saved, seipBit>>

\* Mutant: medeleg is stored as written.
CsrMedeleg_AnyCause(d) ==
  /\ Allowed("medeleg") /\ Advance
  /\ medeleg' = d
  /\ mip' = SampledMip
  /\ UNCHANGED <<mstatus, mie, mideleg, tvec, epc, saved, seipBit>>

CsrMedeleg(d) ==
  /\ Allowed("medeleg") /\ Advance
  /\ medeleg' = d \cap Delegable
  /\ mip' = SampledMip
  /\ UNCHANGED <<mstatus, mie, mideleg, tvec, epc, saved, seipBit>>

TvecCsr(t) == IF t = "M" THEN "mtvec" ELSE "stvec"
EpcCsr(t) == IF t = "M" THEN "mepc" ELSE "sepc"

CsrTvec(t, v) ==
  /\ Allowed(TvecCsr(t)) /\ Advance
  /\ tvec' = [tvec EXCEPT ![t] = v]
  /\ mip' = SampledMip
  /\ UNCHANGED <<mstatus, mie, mideleg, medeleg, epc, saved, seipBit>>

CsrEpc(t, p) ==
  /\ Allowed(EpcCsr(t)) /\ Advance
  /\ epc' = [epc EXCEPT ![t] = p]
  /\ mip' = SampledMip
  /\ saved' = Forget(t)
  /\ UNCHANGED <<mstatus, mie, mideleg, medeleg, tvec, seipBit>>

CsrSatp == Allowed("satp") /\ Retire

-----------------------------------------------------------------------------

\* Between two steps of this hart devices, other harts and the guest's own
\* device accesses change the lines.
Devices == lines' \in SUBSET (Irqs \cap (MachineIrqs \cup {SeipIrq}))
           /\ UNCHANGED <<priv, mstatus, mie, mip, mideleg, medeleg, tvec, epc, pc,
                          result, saved, seipBit>>

CsrInstr ==
  \/ CsrDenied \/ CsrSatp
  \/ \E op \in Ops :
       \/ \E arg \in StatusArgs : CsrMstatus(op, arg) \/ CsrSstatus(op, arg)
       \/ \E arg \in IrqArgs : \/ CsrMie(op, arg) \/ CsrSie(op, arg)
                               \/ CsrMip(op, arg) \/ CsrSip(op, arg)
  \/ \E d \in IrqArgs : CsrMideleg(d)
  \/ \E d \in ExcArgs : CsrMedeleg(d)
  \/ \E t \in {"M", "S"} : \/ \E v \in Vectors : CsrTvec(t, v)
                           \/ \E p \in CodePcs : CsrEpc(t, p)

Step == \/ TakeInterrupt \/ Retire \/ Fault \/ EcallInstr \/ MretInstr \/ SretInstr
        \/ WfiInstr \/ SfenceInstr \/ CsrInstr

Next == Step \/ Devices

Init ==
  /\ priv = "M" /\ pc \in CodePcs /\ result = "Running"
  /\ mstatus = {} /\ mie = {} /\ mip = {} /\ mideleg = {} /\ medeleg = {}
  /\ tvec = [t \in {"M", "S"} |-> [base |-> 0, vectored |-> FALSE]]
  /\ epc = [t \in {"M", "S"} |-> 0]
  /\ lines = {}
  /\ saved = [t \in {"M", "S"} |-> NoContext]
  /\ seipBit = FALSE

Spec == Init /\ [][Next]_vars

-----------------------------------------------------------------------------
\* Properties

Contexts == [valid : BOOLEAN, priv : Modes, pc : Nat, ie : BOOLEAN]

TypeOK ==
  /\ priv \in Modes
  /\ mstatus \in SUBSET StatusBits
  /\ mie \in SUBSET IrqMask
  /\ mip \in SUBSET IrqMask
  /\ mideleg \in SUBSET SupervisorIrqs
  /\ medeleg \in SUBSET Delegable
  /\ tvec \in [{"M", "S"} -> [base : Nat, vectored : BOOLEAN]]
  /\ epc \in [{"M", "S"} -> Nat]
  /\ pc \in Nat
  /\ result \in {"Running", "Trap"}
  /\ lines \in SUBSET (MachineIrqs \cup {SeipIrq})
  /\ saved \in [{"M", "S"} -> Contexts]
  /\ seipBit \in BOOLEAN

\* The hart never runs in a mode its profile does not implement, whatever
\* sequence of trap entries, returns and mstatus writes led there.
ModeImplemented == priv \in Implemented

\* MPRV redirects data accesses to the mode in MPP; it is never left set in a
\* mode below M, where loads and stores would run with another mode's rights
\* (mstatus_after_xret_mprv, SSTATUS_VISIBLE_MASK).
MprvOnlyInMachineMode == "MPRV" \in mstatus => priv = "M"

\* The context a trap interrupted stays in the CSRs of the mode that took it
\* until software rewrites them: neither a trap into the other mode, nor that
\* mode's xRET, nor a write through its CSR views disturbs it.
SavedContextIntact ==
  /\ saved["M"].valid => /\ Mpp(mstatus) = saved["M"].priv
                         /\ ("MPIE" \in mstatus) = saved["M"].ie
                         /\ epc["M"] = saved["M"].pc
  /\ saved["S"].valid => /\ Spp(mstatus) = saved["S"].priv
                         /\ ("SPIE" \in mstatus) = saved["S"].ie
                         /\ epc["S"] = saved["S"].pc

\* The stored SEIP bit is what software last wrote, never the PLIC signal
\* that reads of mip and sip merge into it (csr_rmw_write_base).
SeipBitIsSoftware == SeipIrq \in mip <=> seipBit

Raises == Rank(priv') > Rank(priv)
\* Privilege rises only by entering a trap handler: pc goes to the installed
\* vector of the new mode (or the host is told of the trap), the old context
\* is saved there and the new mode's interrupts are disabled.
PrivilegeRisesOnlyByTrap ==
  [][Raises =>
       /\ priv' \in {"M", "S"}
       /\ epc'[priv'] = pc
       /\ \/ result' = "Trap" /\ pc' = pc
          \/ result' = "Running" /\ tvec[priv'].base <= pc'
       /\ (IF priv' = "M" THEN "MIE" ELSE "SIE") \notin mstatus'
       /\ (IF priv' = "M" THEN Mpp(mstatus') ELSE Spp(mstatus')) = priv]_vars

\* A step that starts below M and does not trap into M leaves all state that
\* belongs to M alone: the sstatus, sie and sip views and SRET reach only
\* what was delegated.
MachineOnly(v) == v \ SstatusBits
LowerModesCannotTouchMachineState ==
  [][(priv # "M" /\ priv' # "M") =>
       /\ MachineOnly(mstatus') \ {"MPRV"} = MachineOnly(mstatus) \ {"MPRV"}
       /\ mideleg' = mideleg /\ medeleg' = medeleg
       /\ tvec'["M"] = tvec["M"] /\ epc'["M"] = epc["M"]
       /\ mie' \ mideleg = mie \ mideleg
       /\ (mip' \cap SupervisorIrqs) \ (mideleg \cap {SoftwareIrq})
            = (mip \cap SupervisorIrqs) \ (mideleg \cap {SoftwareIrq})]_vars

\* An enabled interrupt that is not delegated preempts any code below M at
\* its next step, whatever that code did to its own interrupt enables and to
\* the sie and sip views; and no interrupt enters a handler over the context
\* of a trap into the same mode that is still running with interrupts off.
InterruptsRespectPrivilege ==
  [][lines' = lines =>
       /\ (priv # "M" /\ (lines \cap mie) \ mideleg # {}) => priv' = "M"
       /\ (priv = "M" /\ saved["M"].valid /\ "MIE" \notin mstatus) => ~TakeInterrupt
       /\ (priv = "S" /\ saved["S"].valid /\ "SIE" \notin mstatus)
            => ~(TakeInterrupt /\ priv' = "S")]_vars

=============================================================================
