------------------------------- MODULE MCMmu -------------------------------
\* Two-level instances of Mmu.  Page numbers: 0 is null, 1 and 2 hold tables, 4 is
\* aligned for a superpage, 5 is not.
EXTENDS Mmu, TLC

CONSTANTS h1, h2, none

MCPpns == {0, 1, 2, 4, 5}
MCAligned == [i \in {1} |-> {4}]
Va == [l \in {0, 1} |-> 0]
Vb == [l \in {0, 1} |-> 1 - l]
MCVPages == {Va, Vb}
MCSetOf == [v \in {Va, Vb} |-> 0]
MCSlotOf == [t \in {1, 2} |-> t]
MCOneSlot == [t \in {1, 2} |-> 1]

Pte(flags, p) == [flags |-> flags \cup {"V"}, ppn |-> p]
Rw == {"R", "W"}
\* In table 1 a pointer to table 2 and a superpage a user may only execute; in
\* table 2 a page with other rights before and after a change, where the table is
\* the root a misaligned superpage and an aligned one.
MCWrites ==
  {<<1, 0, Pte({}, 2)>>, <<1, 0, Pte({"X", "U"}, 4)>>,
   <<2, 0, Pte(Rw, 5)>>, <<2, 0, Pte({"R", "U"}, 4)>>}

\* Contexts that differ in the mode alone, in SUM alone and in MXR alone, the last
\* two so that they decide whether the supervisor reads a user's page.
Context(priv, sum, mxr) == [priv |-> priv, sum |-> sum, mxr |-> mxr]
MCContexts == {Context("U", FALSE, FALSE), Context("S", FALSE, FALSE),
               Context("S", TRUE, FALSE), Context("S", TRUE, TRUE)}

HartSymmetry == Permutations(Harts)
=============================================================================
