--------------------------- MODULE MCReservations ---------------------------
(***************************************************************************)
(* Two harts and RAM in halfword cells: a plain doubleword, then a word    *)
(* whose low half is reached by vector stores and the embedder and whose   *)
(* high half stands for a page-table entry.  SH, SW, SD, the W and D       *)
(* atomics and a device write that straddles words.                        *)
(*                                                                         *)
(* The guest is any program, or three threads that increment a counter in  *)
(* the low word of the doubleword: enough for a hart to be taken from a    *)
(* thread between its LR and its SC and given to one past its LR.          *)
(***************************************************************************)
EXTENDS LrScLoop

VARIABLE program

MCHarts == {"h0", "h1"}
MCThreads == {"a", "b", "c"}
MCVals == {0, 1}
HalfWordDouble == {1, 2, 4}
WordDouble == {2, 4}
MCDma == {3}
NoCells == {}
LastLow == {4}
LastHigh == {5}

threadVars == <<on, at, reg, won, switches>>

ProgramInit ==
  \/ /\ program = "any" /\ Init
     /\ on = <<>> /\ at = <<>> /\ reg = <<>> /\ won = 0 /\ switches = 0
  \/ program = "loops" /\ LoopInit

ProgramNext ==
  /\ \/ program = "any" /\ Next /\ UNCHANGED threadVars
     \/ program = "loops" /\ LoopNext
  /\ UNCHANGED program

ProgramSpec ==
  /\ ProgramInit /\ [][ProgramNext]_<<loopVars, program>>
  /\ \A h \in Harts : WF_loopVars(program = "loops" /\ ThreadStep(h))

\* NoLostUpdate and SomeScSucceeds of LrScLoop, for the program they speak of: no
\* increment that reported success is lost or done twice, and the loops never
\* cancel each other for ever.
LoopsLoseNothing == program = "loops" => NoLostUpdate
LoopsProgress == program = "loops" => SomeScSucceeds
=============================================================================
