------------------------------- MODULE MCHart -------------------------------
(***************************************************************************)
(* Small instances of Hart for TLC, one for each value of profile, in one  *)
(* run: the properties are about the states and steps of all of them.  One *)
(* code address and one vector per instance besides "none"; the operands   *)
(* are single bits, so a sequence of CSRRS and CSRRC reaches every value,  *)
(* and MPP1 alone writes the reserved encoding of MPP.                     *)
(***************************************************************************)
EXTENDS Hart

VARIABLE profile

MCCodePcs == {4}
MCExcs == {"illegal"}

\* "traps": exceptions and returns, no interrupt.
NoIrqs == {}
TrapVectors == {[base |-> 8, vectored |-> FALSE]}
TrapStatusArgs == {{"MPP0"}, {"MPP1"}, {"MPRV"}, {"MIE"}, {"SIE"}, {"SPP"}, {"TSR"}}
NoIrqArgs == {{}}
TrapExcArgs == {{}, {"illegal", "ecallU", "ecallM"}}

\* "interrupts": one machine and one supervisor interrupt, and the CSRs that
\* enable, delegate and inject them.
External == {9}
IrqVectors == {[base |-> 8, vectored |-> TRUE]}
IrqStatusArgs == {{"MIE"}, {"SIE"}}
OneIrqArgs == {{}, {9}}
NoExcArgs == {{}}

\* "machine-user": a profile with machine and user mode only, two machine
\* interrupts.
TwoMachineIrqs == {7, 11}
MachineIrqArgs == {{7}, {11}}
MuStatusArgs == {{"MIE"}, {"MPRV"}, {"MPP0"}, {"MPP1"}}

Interrupts == INSTANCE Hart WITH
  Irqs <- External, Vectors <- IrqVectors, StatusArgs <- IrqStatusArgs,
  IrqArgs <- OneIrqArgs, ExcArgs <- NoExcArgs
MachineUser == INSTANCE Hart WITH
  HasS <- FALSE, Irqs <- TwoMachineIrqs, Vectors <- IrqVectors, StatusArgs <- MuStatusArgs,
  IrqArgs <- MachineIrqArgs, ExcArgs <- NoExcArgs

ProfileInit ==
  \/ profile = "traps" /\ Init
  \/ profile = "interrupts" /\ Interrupts!Init
  \/ profile = "machine-user" /\ MachineUser!Init

ProfileNext ==
  /\ \/ profile = "traps" /\ Next
     \/ profile = "interrupts" /\ Interrupts!Next
     \/ profile = "machine-user" /\ MachineUser!Next
  /\ UNCHANGED profile

ProfileSpec == ProfileInit /\ [][ProfileNext]_<<vars, profile>>

\* ModeImplemented of Hart on the profile that lacks a mode: a hart without
\* supervisor mode is never in it, whatever MPP and SPP were given.
ProfileModes == profile = "machine-user" => MachineUser!ModeImplemented
=============================================================================
