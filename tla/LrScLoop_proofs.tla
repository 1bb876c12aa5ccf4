-------------------------- MODULE LrScLoop_proofs --------------------------
(***************************************************************************)
(* NoLostUpdate for any number of harts and threads and any modulus.       *)
(*                                                                         *)
(* The inductive invariant says what a live reservation stands for: the    *)
(* thread on that hart is between its LR and its SC, and the value it read *)
(* is still the counter's.  A successful SC cancels every reservation, so  *)
(* it holds afterwards for want of one; a context switch drops the hart's, *)
(* which is why the thread that comes in cannot use the other's.           *)
(***************************************************************************)
EXTENDS LrScLoop, TLAPS

Typed ==
  /\ res \in [Harts -> [pa : Nat, size : Nat]]
  /\ on \in [Harts -> Threads]
  /\ at \in [Threads -> {"lr", "sc"}]
  /\ DOMAIN reg = Threads

\* No two harts run one thread.
OneHartPerThread == \A g, h \in Harts : on[g] = on[h] => g = h

\* A live reservation is on the counter.
OnCounter == \A h \in Harts : Live(h) => res[h] = [pa |-> Counter, size |-> Width]

\* ... and its thread read what the counter still holds.
ReadIsCurrent == \A h \in Harts : Live(h) => /\ at[on[h]] = "sc"
                                             /\ reg[on[h]] = mem[Counter]

LoopInv == Typed /\ OneHartPerThread /\ OnCounter /\ ReadIsCurrent /\ NoLostUpdate

LEMMA LoopConstants ==
  /\ Counter \in Nat /\ Scratch \in Nat /\ Width \in Nat \ {0}
  /\ Counter \in Cells /\ Counter # Scratch
  /\ Counter \in Range(Counter, Width) /\ Counter \notin Range(Scratch, Width)
<1>1. Width \in Nat \ {0}
  BY LoopAssumption, WidthAssumption
<1>2. Counter \in Nat /\ Scratch \in Nat
  BY LoopAssumption, SizeAssumption DEF Cells
<1>3. Counter \in Range(Counter, Width) /\ Scratch \in Range(Scratch, Width)
  BY <1>1, <1>2 DEF Range
<1>4. Counter \notin Range(Scratch, Width)
  BY <1>3, LoopAssumption
<1> QED
  BY <1>1, <1>2, <1>3, <1>4, LoopAssumption

LEMMA LoopInitEstablishes == LoopInit => LoopInv
<1> SUFFICES ASSUME LoopInit PROVE LoopInv
  OBVIOUS
<1>1. NoReservation \in [pa : Nat, size : Nat] /\ NoReservation.size = 0
  BY DEF NoReservation
<1>2. \A h \in Harts : ~Live(h)
  BY <1>1 DEF LoopInit, Live
<1>3. NoLostUpdate
  BY LoopConstants DEF LoopInit, NoLostUpdate
<1> QED
  BY <1>1, <1>2, <1>3 DEF LoopInit, LoopInv, Typed, OneHartPerThread, OnCounter, ReadIsCurrent

LEMMA LrKeeps == ASSUME LoopInv, NEW h \in Harts, ThreadLr(h) PROVE LoopInv'
<1> USE LoopConstants
<1> DEFINE t == on[h]
<1>1. t \in Threads
  BY DEF LoopInv, Typed
<1>2. /\ res' = [res EXCEPT ![h] = [pa |-> Counter, size |-> Width]]
      /\ at' = [at EXCEPT ![t] = "sc"] /\ reg' = [reg EXCEPT ![t] = mem[Counter]]
      /\ mem' = mem /\ on' = on /\ won' = won
  BY DEF ThreadLr, Lr
<1>3. Typed'
  BY <1>1, <1>2 DEF LoopInv, Typed
<1>4. OneHartPerThread' /\ NoLostUpdate'
  BY <1>2 DEF LoopInv, OneHartPerThread, NoLostUpdate
<1>5. OnCounter'
  BY <1>2 DEF LoopInv, Typed, OnCounter, Live
<1>6. ReadIsCurrent'
  <2> SUFFICES ASSUME NEW g \in Harts, Live(g)'
               PROVE  at'[on'[g]] = "sc" /\ reg'[on'[g]] = mem'[Counter]
    BY DEF ReadIsCurrent
  <2>1. CASE g = h
    BY <1>1, <1>2, <2>1 DEF LoopInv, Typed
  <2>2. CASE g # h
    <3>1. on[g] # t /\ Live(g)
      BY <1>2, <2>2 DEF LoopInv, Typed, OneHartPerThread, Live
    <3> QED
      BY <1>1, <1>2, <3>1 DEF LoopInv, Typed, ReadIsCurrent
  <2> QED
    BY <2>1, <2>2
<1> QED
  BY <1>3, <1>4, <1>5, <1>6 DEF LoopInv

\* A successful SC by any hart cancels every reservation there is.
LEMMA SuccessCancelsAll ==
  ASSUME LoopInv, NEW h \in Harts, NEW g \in Harts
  PROVE  Invalidated(h, Counter, Width)[g] \in [pa : Nat, size : Nat]
         /\ Invalidated(h, Counter, Width)[g].size = 0
<1>1. NoReservation \in [pa : Nat, size : Nat] /\ NoReservation.size = 0
  BY DEF NoReservation
<1>2. CASE res[g].size # 0
  <2>1. res[g].pa = Counter /\ res[g].size = Width
    BY <1>2 DEF LoopInv, OnCounter, Live
  <2>2. Overlap(res[g].pa, res[g].size, Counter, Width)
    BY <2>1, LoopConstants DEF Overlap
  <2> QED
    BY <1>1, <1>2, <2>2 DEF Invalidated
<1>3. CASE res[g].size = 0
  BY <1>3 DEF Invalidated, LoopInv, Typed
<1> QED
  BY <1>2, <1>3

LEMMA ScKeeps == ASSUME LoopInv, NEW h \in Harts, ThreadSc(h) PROVE LoopInv'
<1> USE LoopConstants
<1> DEFINE t == on[h]
           hit == Matches(h, Counter, Width)
<1>1. t \in Threads /\ at[t] = "sc"
  BY DEF LoopInv, Typed, ThreadSc
<1>2. NoReservation \in [pa : Nat, size : Nat] /\ NoReservation.size = 0
  BY DEF NoReservation
<1>3. /\ at' = [at EXCEPT ![t] = "lr"] /\ reg' = reg /\ on' = on
      /\ won' = IF hit THEN (won + 1) % Modulus ELSE won
      /\ res' = [(IF hit THEN Invalidated(h, Counter, Width) ELSE res)
                   EXCEPT ![h] = NoReservation]
      /\ IF hit THEN BusStore(Counter, Width, (reg[t] + 1) % Modulus) ELSE UNCHANGED mem
  BY DEF ThreadSc, Sc
<1>4. OneHartPerThread'
  BY <1>3 DEF LoopInv, OneHartPerThread
<1>5. CASE hit
  <2>1. res' = [Invalidated(h, Counter, Width) EXCEPT ![h] = NoReservation]
    BY <1>3, <1>5
  <2>2. res' \in [Harts -> [pa : Nat, size : Nat]] /\ \A g \in Harts : res'[g].size = 0
    BY <1>2, <2>1, SuccessCancelsAll DEF Invalidated
  <2>3. Typed'
    BY <1>1, <1>3, <2>2 DEF LoopInv, Typed
  <2>4. OnCounter' /\ ReadIsCurrent'
    BY <2>2 DEF OnCounter, ReadIsCurrent, Live
  <2>5. reg[t] = mem[Counter]
    <3>1. Live(h)
      BY <1>5 DEF Matches, Live
    <3> QED
      BY <3>1 DEF LoopInv, ReadIsCurrent
  <2>6. mem'[Counter] = (reg[t] + 1) % Modulus
    BY <1>3, <1>5 DEF BusStore
  <2>7. NoLostUpdate'
    BY <1>3, <1>5, <2>5, <2>6 DEF LoopInv, NoLostUpdate
  <2> QED
    BY <1>4, <2>3, <2>4, <2>7 DEF LoopInv
<1>6. CASE ~hit
  <2>1. res' = [res EXCEPT ![h] = NoReservation] /\ mem' = mem /\ won' = won
    BY <1>3, <1>6
  <2>2. Typed'
    <3>1. res' \in [Harts -> [pa : Nat, size : Nat]]
      BY <1>2, <2>1 DEF LoopInv, Typed
    <3>2. at' \in [Threads -> {"lr", "sc"}]
      BY <1>3 DEF LoopInv, Typed
    <3> QED
      BY <1>3, <3>1, <3>2 DEF LoopInv, Typed
  <2>3. OnCounter' /\ NoLostUpdate'
    BY <1>2, <2>1 DEF LoopInv, Typed, OnCounter, Live, NoLostUpdate
  <2>4. ReadIsCurrent'
    <3> SUFFICES ASSUME NEW g \in Harts, Live(g)'
                 PROVE  at'[on'[g]] = "sc" /\ reg'[on'[g]] = mem'[Counter]
      BY DEF ReadIsCurrent
    <3>1. g # h /\ Live(g)
      BY <1>2, <2>1 DEF LoopInv, Typed, Live
    <3>2. on[g] # t
      BY <3>1 DEF LoopInv, OneHartPerThread
    <3> QED
      BY <1>3, <2>1, <3>1, <3>2 DEF LoopInv, Typed, ReadIsCurrent
  <2> QED
    BY <1>4, <2>2, <2>3, <2>4 DEF LoopInv
<1> QED
  BY <1>5, <1>6

LEMMA SwitchKeeps ==
  ASSUME LoopInv, NEW h \in Harts, NEW t \in Threads, Switch(h, t) PROVE LoopInv'
<1> USE LoopConstants
<1>1. NoReservation \in [pa : Nat, size : Nat] /\ NoReservation.size = 0
  BY DEF NoReservation
<1>2. ~Matches(h, Scratch, Width)
  <2>1. res[h].size # 0 => res[h].pa = Counter
    BY DEF LoopInv, OnCounter, Live
  <2> QED
    BY <2>1 DEF Matches
<1>3. /\ res' = [res EXCEPT ![h] = NoReservation] /\ mem' = mem
      /\ on' = [on EXCEPT ![h] = t] /\ at' = at /\ reg' = reg /\ won' = won
      /\ \A g \in Harts : on[g] # t
  BY <1>2 DEF Switch, Sc, Waiting
<1>4. Typed' /\ NoLostUpdate'
  BY <1>1, <1>3 DEF LoopInv, Typed, NoLostUpdate
<1>5. OneHartPerThread'
  BY <1>3 DEF LoopInv, Typed, OneHartPerThread
<1>6. \A g \in Harts : Live(g)' => Live(g) /\ res'[g] = res[g] /\ on'[g] = on[g]
  BY <1>1, <1>3 DEF LoopInv, Typed, Live
<1>7. OnCounter' /\ ReadIsCurrent'
  BY <1>3, <1>6 DEF LoopInv, OnCounter, ReadIsCurrent
<1> QED
  BY <1>4, <1>5, <1>7 DEF LoopInv

LEMMA LoopNextPreserves == ASSUME LoopInv, [LoopNext]_loopVars PROVE LoopInv'
<1>1. CASE UNCHANGED loopVars
  BY <1>1 DEF loopVars, LoopInv, Typed, OneHartPerThread, OnCounter, ReadIsCurrent,
              NoLostUpdate, Live
<1>2. CASE LoopNext
  BY <1>2, LrKeeps, ScKeeps, SwitchKeeps DEF LoopNext, ThreadStep
<1> QED
  BY <1>1, <1>2

\* The counter always equals the number of increments that reported success,
\* modulo its size, whatever the number of harts and threads.
THEOREM NoLostUpdates == LoopSpec => []NoLostUpdate
<1>1. LoopInit => LoopInv
  BY LoopInitEstablishes
<1>2. LoopInv /\ [LoopNext]_loopVars => LoopInv'
  BY LoopNextPreserves
<1>3. LoopInv => NoLostUpdate
  BY DEF LoopInv
<1> QED
  BY <1>1, <1>2, <1>3, PTL DEF LoopSpec

=============================================================================
