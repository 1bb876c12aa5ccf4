---------------------------- MODULE MCMachineOnly ----------------------------
(***************************************************************************)
(* A hart that has machine mode only, with two machine interrupts.         *)
(***************************************************************************)
EXTENDS Hart

MCCodePcs == {4}
MCExcs == {"illegal"}
TwoMachineIrqs == {7, 11}
MCVectors == {[base |-> 8, vectored |-> TRUE]}
MCStatusArgs == {{"MIE"}, {"MPRV"}, {"MPP0"}, {"MPP1"}}
MachineIrqArgs == {{7}, {11}}
NoExcArgs == {{}}
=============================================================================
