------------------------------ MODULE LrScLoop ------------------------------
(***************************************************************************)
(* What guest software builds from LR and SC: threads that increment one   *)
(* shared counter with a retry loop, on harts an operating system switches *)
(* between them.  The instructions are those of Reservations.              *)
(*                                                                         *)
(* A reservation belongs to the hart, not to the thread, and the emulator  *)
(* keeps it across trap entry and xRET; the code leaves it to the guest to *)
(* drop it at a context switch with an SC to a scratch location, which     *)
(* Switch does.                                                            *)
(***************************************************************************)
EXTENDS Reservations

CONSTANTS
  Threads,
  Width,        \* of the loop's LR and SC
  Counter,      \* address of the counter
  Scratch,      \* address of the dummy SC
  Modulus,      \* the counter wraps here
  MaxSwitches   \* bound on context switches

ASSUME LoopAssumption ==
  /\ Width \in AtomicWidths /\ Counter \in Cells /\ Scratch \in Cells
  /\ Aligned(Counter, Width) /\ InRam(Counter, Width)
  /\ Aligned(Scratch, Width) /\ InRam(Scratch, Width)
  /\ Range(Counter, Width) \cap Range(Scratch, Width) = {}
  /\ Modulus \in Nat /\ Modulus > 1 /\ 0 .. Modulus - 1 \subseteq Vals
  /\ MaxSwitches \in Nat

VARIABLES
  on,        \* on[h]: the thread hart h runs
  at,        \* at[t]: the instruction thread t executes next
  reg,       \* reg[t]: what its last LR read
  won,       \* increments that reported success, modulo Modulus
  switches   \* context switches so far

loopVars == <<mem, res, touched, last, on, at, reg, won, switches>>

ThreadLr(h) ==
  LET t == on[h] IN
  /\ at[t] = "lr"
  /\ Lr(h, Counter, Width)
  /\ at' = [at EXCEPT ![t] = "sc"]
  /\ reg' = [reg EXCEPT ![t] = mem[Counter]]
  /\ UNCHANGED <<on, won, switches>>

ThreadSc(h) ==
  LET t == on[h] IN
  /\ at[t] = "sc"
  /\ Sc(h, Counter, Width, (reg[t] + 1) % Modulus)
  /\ won' = IF Matches(h, Counter, Width) THEN (won + 1) % Modulus ELSE won
  /\ at' = [at EXCEPT ![t] = "lr"]
  /\ UNCHANGED <<on, reg, switches>>

Waiting == {t \in Threads : \A h \in Harts : on[h] # t}

Switch(h, t) ==
  /\ t \in Waiting
  /\ switches < MaxSwitches
  /\ Sc(h, Scratch, Width, mem[Scratch])
  /\ on' = [on EXCEPT ![h] = t]
  /\ switches' = switches + 1
  /\ UNCHANGED <<at, reg, won>>

LoopInit ==
  /\ mem = [c \in Cells |-> 0]
  /\ res = [h \in Harts |-> NoReservation]
  /\ touched = [h \in Harts |-> {}]
  /\ last \in [hart : Harts, sc : {FALSE}, cells : {{}}]
  /\ on \in {f \in [Harts -> Threads] : \A g, h \in Harts : g # h => f[g] # f[h]}
  /\ at = [t \in Threads |-> "lr"]
  /\ reg = [t \in Threads |-> 0]
  /\ won = 0
  /\ switches = 0

ThreadStep(h) == ThreadLr(h) \/ ThreadSc(h)

LoopNext == \E h \in Harts : ThreadStep(h) \/ \E t \in Threads : Switch(h, t)

\* The embedder steps every runner of the array in turn.
LoopSpec == LoopInit /\ [][LoopNext]_loopVars /\ \A h \in Harts : WF_loopVars(ThreadStep(h))

-----------------------------------------------------------------------------

\* No increment that reported success is lost or done twice, whatever the
\* interleaving of the harts and the context switches between LR and SC.
NoLostUpdate == mem[Counter] = won

\* Some hart's SC always succeeds again: harts that only run such loops never
\* cancel each other for ever (the forward progress that the comment on
\* lr_sc_reservation_matches speaks of).
SomeScSucceeds == []<><<won' # won>>_loopVars

=============================================================================
