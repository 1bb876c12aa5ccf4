---------------------------- MODULE Timer_proofs ----------------------------
(***************************************************************************)
(* No timer interrupt before its deadline, one WFI per deadline, and time  *)
(* that never goes back, for every number of harts, word size, bound and   *)
(* set of deadlines.                                                       *)
(***************************************************************************)
EXTENDS Timer, TLAPS

\* Where the guest program stands, a software interrupt's handler aside.
Place(h) == IF pc[h] \in {"clear", "work", "return"} THEN back[h] ELSE pc[h]

\* What the compare register holds at each place.
CompareInv(h) ==
  /\ Place(h) \in {"idle", "high"} => mtimecmp[h] = Unset
  /\ Place(h) = "low" =>
       mtimecmp[h] = <<Digits(target[h])[1], Word - 1>>
  /\ Place(h) \in {"armed", "wfi", "wake"} => mtimecmp[h] = Digits(target[h])
  /\ Place(h) = "disarm" => mtimecmp[h][1] = Word - 1

\* Interrupts are on only where the program expects them, and a handler
\* returns to such a place.
EnableInv(h) ==
  /\ ie[h] => pc[h] \in {"idle", "high", "low", "armed"}
  /\ pc[h] \in {"clear", "work", "return"} => back[h] \in {"idle", "high", "low", "armed"}
  /\ pc[h] \in {"expired", "disarm"} => back[h] = "idle"

\* What holds of one hart.
HartInv(h) ==
  /\ CompareInv(h) /\ EnableInv(h)
  /\ pc[h] = "expired" => mtime >= target[h]
  /\ pc[h] = "wake" => Pending(h)

TimerInv == TypeOK /\ \A h \in Harts : HartInv(h)

-----------------------------------------------------------------------------
\* Registers as numbers

LEMMA UnsetValue == Value(Unset) > MaxTime + 1 /\ Unset \in Words \X Words
<1>1. Word \in Nat /\ Word > 1 /\ MaxTime \in Nat /\ MaxTime < Word * Word - 2
  BY TimerAssumption
<1>2. Value(Unset) = (Word - 1) * Word + (Word - 1)
  BY DEF Value, Unset
<1>3. (Word - 1) * Word + (Word - 1) = Word * Word - 1
  BY <1>1
<1> QED BY <1>1, <1>2, <1>3 DEF Unset, Words

\* A deadline survives being split into words, and its high word with the
\* greatest low word is not below it.
LEMMA DigitsValue ==
  ASSUME NEW t \in 0 .. MaxTime
  PROVE /\ Digits(t) \in Words \X Words
        /\ Value(Digits(t)) = t
        /\ Value(<<Digits(t)[1], Word - 1>>) >= t
        /\ <<Digits(t)[1], Word - 1>> \in Words \X Words
        /\ Digits(t) # Unset
<1> DEFINE q == t \div Word
           r == t % Word
<1>1. Word \in Nat /\ Word > 1 /\ MaxTime \in Nat /\ MaxTime < Word * Word - 2 /\ t \in Nat /\ t <= MaxTime
  BY TimerAssumption
<1>2. q \in Nat /\ r \in 0 .. Word - 1 /\ t = q * Word + r
  BY <1>1
<1>3. Digits(t) = <<q, r>>
  BY DEF Digits
<1> HIDE DEF q, r
<1>4. q < Word
  <2>1. SUFFICES ASSUME q >= Word PROVE FALSE
    BY <1>1, <1>2
  <2>2. q * Word >= Word * Word
    BY <2>1, <1>1, <1>2
  <2> QED BY <2>2, <1>1, <1>2
<1>5. Value(Digits(t)) = t
  BY <1>2, <1>3 DEF Value
<1>6. Value(<<Digits(t)[1], Word - 1>>) >= t
  <2>1. Value(<<Digits(t)[1], Word - 1>>) = q * Word + (Word - 1)
    BY <1>3 DEF Value
  <2>2. q * Word \in Nat
    BY <1>1, <1>2
  <2> QED BY <2>1, <2>2, <1>1, <1>2
<1>7. Digits(t) # Unset
  BY <1>5, <1>1, UnsetValue
<1> QED BY <1>1, <1>2, <1>3, <1>4, <1>5, <1>6, <1>7 DEF Words

LEMMA ValueIsNat == ASSUME NEW r \in Words \X Words PROVE Value(r) \in Nat
<1>1. Word \in Nat /\ r[1] \in Nat /\ r[2] \in Nat
  BY TimerAssumption DEF Words
<1>2. r[1] * Word \in Nat
  BY <1>1
<1> QED BY <1>1, <1>2 DEF Value

LEMMA NowMoves ==
  ASSUME mtime \in 0 .. MaxTime
  PROVE Now \in 0 .. MaxTime /\ Now >= mtime
BY TimerAssumption DEF Now

LEMMA NowMonotone ==
  ASSUME mtime \in 0 .. MaxTime, mtime' \in 0 .. MaxTime, mtime' >= mtime
  PROVE Now \in Nat /\ Now' \in Nat /\ Now' >= Now
<1>1. ASSUME NEW m \in Nat, NEW a \in 0 .. m, NEW b \in 0 .. m, b >= a
      PROVE LET na == IF a < m THEN a + 1 ELSE m
                nb == IF b < m THEN b + 1 ELSE m
            IN  na \in Nat /\ nb \in Nat /\ nb >= na
  BY <1>1
<1>2. MaxTime \in Nat
  BY TimerAssumption
<1> QED BY <1>1, <1>2 DEF Now

\* A fast-forward goes no further than the deadline, and the step after it
\* sees an interrupt pending.
LEMMA SleepLands ==
  ASSUME TypeOK, NEW h \in Harts, HartInv(h), pc[h] = "wfi"
  PROVE LET f == FastForwarded(h)
            n == IF f < MaxTime THEN f + 1 ELSE MaxTime
        IN  /\ f \in 0 .. MaxTime /\ f >= mtime
            /\ n >= Value(mtimecmp[h]) \/ msip[h]
<1> DEFINE v == Value(mtimecmp[h])
<1>1. MaxTime \in Nat /\ mtime \in 0 .. MaxTime /\ target[h] \in 0 .. MaxTime
  BY TimerAssumption DEF TypeOK
<1>2. mtimecmp[h] = Digits(target[h])
  BY DEF HartInv, CompareInv, Place
<1>3. v \in 0 .. MaxTime /\ mtimecmp[h] # Unset
  BY <1>1, <1>2, DigitsValue
<1>4. Now \in 0 .. MaxTime /\ Now >= mtime
  BY <1>1, NowMoves
<1> HIDE DEF v
<1>5. FastForwarded(h) = IF ~(Now >= v \/ msip[h]) /\ v > Now THEN v - 1 ELSE Now
  BY <1>3 DEF FastForwarded, Pending, TimerPending, SoftwarePending, v
<1>6. CASE ~(Now >= v \/ msip[h]) /\ v > Now
  BY <1>1, <1>3, <1>4, <1>5, <1>6 DEF v
<1>7. CASE Now >= v
  BY <1>1, <1>3, <1>4, <1>5, <1>7 DEF v
<1>8. CASE msip[h]
  BY <1>1, <1>3, <1>4, <1>5, <1>8
<1> QED BY <1>3, <1>4, <1>6, <1>7, <1>8

\* What a step of one hart leaves of another.
LeftAlone(g) ==
  /\ mtimecmp'[g] = mtimecmp[g]
  /\ msip[g] => msip'[g]
  /\ pc'[g] = pc[g] /\ back'[g] = back[g]
  /\ ie'[g] <=> ie[g]
  /\ target'[g] = target[g]

\* What a hart knows survives the steps of the others: they leave its state
\* and its compare register alone, only ever set its msip, and move the time
\* forwards.
LEMMA OthersKeep ==
  ASSUME TypeOK, NEW g \in Harts, HartInv(g),
         mtime' \in 0 .. MaxTime, mtime' >= mtime,
         LeftAlone(g)
  PROVE HartInv(g)'
<1> USE DEF LeftAlone
<1>1. CompareInv(g)' /\ EnableInv(g)'
  BY DEF HartInv, CompareInv, EnableInv, Place
<1>2. (pc[g] = "expired" => mtime >= target[g])'
  <2>1. target[g] \in Nat /\ mtime \in Nat /\ mtime' \in Nat
    BY TimerAssumption DEF TypeOK
  <2> QED BY <2>1 DEF HartInv
<1>3. ASSUME pc'[g] = "wake" PROVE Pending(g)'
  <2>1. Now >= Value(mtimecmp[g]) \/ msip[g]
    BY <1>3 DEF HartInv, Pending, TimerPending, SoftwarePending
  <2>2. Now \in Nat /\ Now' \in Nat /\ Now' >= Now
    BY NowMonotone DEF TypeOK
  <2>3. Value(mtimecmp[g]) \in Nat /\ Value(mtimecmp[g])' = Value(mtimecmp[g])
    BY ValueIsNat DEF TypeOK, Value
  <2>4. Now >= Value(mtimecmp[g]) => Now' >= Value(mtimecmp[g])'
    BY <2>2, <2>3
  <2> QED BY <2>1, <2>4 DEF Pending, TimerPending, SoftwarePending
<1> QED BY <1>1, <1>2, <1>3 DEF HartInv

\* A step of hart h keeps the invariant if it keeps h's part of it.
LEMMA OneHartSteps ==
  ASSUME TimerInv, NEW h \in Harts, TypeOK', mtime' >= mtime,
         \A g \in Harts \ {h} : LeftAlone(g), HartInv(h)'
  PROVE TimerInv'
<1>1. mtime' \in 0 .. MaxTime
  BY DEF TypeOK
<1>2. ASSUME NEW g \in Harts \ {h} PROVE HartInv(g)'
  BY <1>1, <1>2, OthersKeep DEF TimerInv
<1> QED BY <1>2 DEF TimerInv

\* Executing an instruction other than WFI moves the time by a tick.
LEMMA Ticks ==
  ASSUME TypeOK, mtime' = Now
  PROVE mtime' \in 0 .. MaxTime /\ mtime' >= mtime
BY NowMoves DEF TypeOK

LEMMA InitHolds == Init => TimerInv
<1> SUFFICES ASSUME Init PROVE TimerInv
  OBVIOUS
<1>1. TypeOK
  <2>1. MaxTime \in Nat /\ MaxSends \in Nat
    BY TimerAssumption
  <2> QED BY <2>1, UnsetValue DEF Init, TypeOK, Labels
<1>2. ASSUME NEW h \in Harts PROVE HartInv(h)
  BY DEF Init, HartInv, CompareInv, EnableInv, Place
<1> QED BY <1>1, <1>2 DEF TimerInv

-----------------------------------------------------------------------------
\* One lemma for each action.  A hart's own part of the invariant is what each
\* has to show anew.

LEMMA TakeSoftwareKeeps ==
  ASSUME TimerInv, NEW h \in Harts, TakeSoftware(h)
  PROVE TimerInv'
<1>1. mtime' \in 0 .. MaxTime /\ mtime' >= mtime
  BY Ticks DEF TimerInv, TakeSoftware
<1>2. TypeOK'
  BY <1>1 DEF TakeSoftware, Goto, TypeOK, Labels, TimerInv
<1>3. \A g \in Harts \ {h} : LeftAlone(g)
  BY DEF TakeSoftware, Goto, TypeOK, Labels, TimerInv, LeftAlone
<1>4. HartInv(h)'
  BY DEF TakeSoftware, Goto, TypeOK, TimerInv, HartInv, CompareInv, EnableInv, Place
<1> QED BY <1>1, <1>2, <1>3, <1>4, OneHartSteps

LEMMA TakeTimerKeeps ==
  ASSUME TimerInv, NEW h \in Harts, TakeTimer(h)
  PROVE TimerInv'
<1>1. mtime' \in 0 .. MaxTime /\ mtime' >= mtime
  BY Ticks DEF TimerInv, TakeTimer
<1>2. TypeOK'
  BY <1>1 DEF TakeTimer, Goto, TypeOK, Labels, TimerInv
<1>3. \A g \in Harts \ {h} : LeftAlone(g)
  BY DEF TakeTimer, Goto, TypeOK, Labels, TimerInv, LeftAlone
<1>4. HartInv(h)'
  <2>1. Now >= Value(mtimecmp[h]) /\ Now \in 0 .. MaxTime /\ target[h] \in 0 .. MaxTime
    BY NowMoves DEF TakeTimer, TimerPending, TimerInv, TypeOK
  <2>2. pc[h] \in {"idle", "high", "low", "armed"} /\ Place(h) = pc[h]
    BY DEF TakeTimer, TimerInv, HartInv, EnableInv, Place
  <2>3. CASE pc[h] \in {"idle", "high"}
    <3>1. Value(mtimecmp[h]) = Value(Unset)
      BY <2>2, <2>3 DEF TimerInv, HartInv, CompareInv
    <3>2. MaxTime \in Nat /\ Value(Unset) > MaxTime + 1 /\ Value(Unset) \in Nat
      BY TimerAssumption, UnsetValue, ValueIsNat
    <3> QED BY <2>1, <3>1, <3>2
  <2>4. CASE pc[h] \in {"low", "armed"}
    <3>1. mtimecmp[h] \in {<<Digits(target[h])[1], Word - 1>>, Digits(target[h])}
      BY <2>2, <2>4 DEF TimerInv, HartInv, CompareInv
    <3>2. mtimecmp[h] \in Words \X Words /\ Value(mtimecmp[h]) \in Nat
      BY ValueIsNat DEF TimerInv, TypeOK
    <3>3. target[h] \in Nat /\ Value(Digits(target[h])) = target[h]
          /\ Value(<<Digits(target[h])[1], Word - 1>>) >= target[h]
      BY <2>1, DigitsValue
    <3>4. Value(mtimecmp[h]) >= target[h]
      BY <3>1, <3>3
    <3>5. mtime' >= target[h]
      BY <2>1, <3>2, <3>3, <3>4 DEF TakeTimer
    <3> QED BY <3>5 DEF TakeTimer, Goto, TypeOK, TimerInv, HartInv, CompareInv, EnableInv, Place
  <2> QED BY <2>2, <2>3, <2>4
<1> QED BY <1>1, <1>2, <1>3, <1>4, OneHartSteps

LEMMA ArmAtOnceKeeps ==
  ASSUME TimerInv, NEW h \in Harts, NEW t \in Deadlines, ArmAtOnce(h, t)
  PROVE TimerInv'
<1>1. mtime' \in 0 .. MaxTime /\ mtime' >= mtime
  BY Ticks DEF TimerInv, ArmAtOnce, Executes
<1>2. TypeOK'
  <2>1. mtimecmp'[h] \in Words \X Words
    BY DigitsValue, TimerAssumption DEF ArmAtOnce, TypeOK, TimerInv
  <2>2. t \in 0 .. MaxTime
    BY TimerAssumption
  <2> QED BY <1>1, <2>1, <2>2 DEF ArmAtOnce, Executes, Goto, TypeOK, Labels, TimerInv
<1>3. \A g \in Harts \ {h} : LeftAlone(g)
  BY DEF ArmAtOnce, Executes, Goto, TypeOK, Labels, TimerInv, LeftAlone
<1>4. HartInv(h)'
  BY DEF ArmAtOnce, Executes, Goto, TypeOK, TimerInv, HartInv, CompareInv, EnableInv, Place
<1> QED BY <1>1, <1>2, <1>3, <1>4, OneHartSteps

LEMMA ArmFirstKeeps ==
  ASSUME TimerInv, NEW h \in Harts, NEW t \in Deadlines, ArmFirst(h, t)
  PROVE TimerInv'
<1>1. mtime' \in 0 .. MaxTime /\ mtime' >= mtime
  BY Ticks DEF TimerInv, ArmFirst, Executes
<1>2. TypeOK'
  <2>1. mtimecmp'[h] \in Words \X Words
    BY UnsetValue DEF ArmFirst, TypeOK, TimerInv, StoreLow, Unset
  <2>2. t \in 0 .. MaxTime
    BY TimerAssumption
  <2> QED BY <1>1, <2>1, <2>2 DEF ArmFirst, Executes, Goto, TypeOK, Labels, TimerInv
<1>3. \A g \in Harts \ {h} : LeftAlone(g)
  BY DEF ArmFirst, Executes, Goto, TypeOK, Labels, TimerInv, LeftAlone
<1>4. HartInv(h)'
  <2>1. mtimecmp'[h] = Unset
    BY DEF ArmFirst, TypeOK, TimerInv, HartInv, CompareInv, Place, StoreLow, Unset
  <2> QED BY <2>1 DEF ArmFirst, Executes, Goto, TypeOK, TimerInv, HartInv, CompareInv, EnableInv, Place
<1> QED BY <1>1, <1>2, <1>3, <1>4, OneHartSteps

LEMMA ArmHighKeeps ==
  ASSUME TimerInv, NEW h \in Harts, ArmHigh(h)
  PROVE TimerInv'
<1>1. mtime' \in 0 .. MaxTime /\ mtime' >= mtime
  BY Ticks DEF TimerInv, ArmHigh, Executes
<1>2. TypeOK'
  <2>1. mtimecmp'[h] \in Words \X Words
    BY DigitsValue DEF ArmHigh, TypeOK, TimerInv, StoreHigh
  <2> QED BY <1>1, <2>1 DEF ArmHigh, Executes, Goto, guest, TypeOK, Labels, TimerInv
<1>3. \A g \in Harts \ {h} : LeftAlone(g)
  BY DEF ArmHigh, Executes, Goto, guest, TypeOK, Labels, TimerInv, LeftAlone
<1>4. HartInv(h)'
  <2>1. mtimecmp'[h] = <<Digits(target[h])[1], Word - 1>>
    BY DEF ArmHigh, TypeOK, TimerInv, HartInv, CompareInv, Place, StoreHigh, Unset
  <2> QED BY <2>1 DEF ArmHigh, Executes, Goto, guest, TypeOK, TimerInv, HartInv, CompareInv, EnableInv, Place
<1> QED BY <1>1, <1>2, <1>3, <1>4, OneHartSteps

LEMMA ArmLowKeeps ==
  ASSUME TimerInv, NEW h \in Harts, ArmLow(h)
  PROVE TimerInv'
<1>1. mtime' \in 0 .. MaxTime /\ mtime' >= mtime
  BY Ticks DEF TimerInv, ArmLow, Executes
<1>2. TypeOK'
  <2>1. mtimecmp'[h] \in Words \X Words
    BY DigitsValue DEF ArmLow, TypeOK, TimerInv, StoreLow
  <2> QED BY <1>1, <2>1 DEF ArmLow, Executes, Goto, guest, TypeOK, Labels, TimerInv
<1>3. \A g \in Harts \ {h} : LeftAlone(g)
  BY DEF ArmLow, Executes, Goto, guest, TypeOK, Labels, TimerInv, LeftAlone
<1>4. HartInv(h)'
  <2>1. mtimecmp'[h] = Digits(target[h])
    BY DEF ArmLow, TypeOK, TimerInv, HartInv, CompareInv, Place, StoreLow, Digits
  <2> QED BY <2>1 DEF ArmLow, Executes, Goto, guest, TypeOK, TimerInv, HartInv, CompareInv, EnableInv, Place
<1> QED BY <1>1, <1>2, <1>3, <1>4, OneHartSteps

LEMMA DozeKeeps ==
  ASSUME TimerInv, NEW h \in Harts, Doze(h)
  PROVE TimerInv'
<1>1. mtime' \in 0 .. MaxTime /\ mtime' >= mtime
  BY Ticks DEF TimerInv, Doze, Executes
<1>2. TypeOK'
  BY <1>1 DEF Doze, Executes, Goto, TypeOK, Labels, TimerInv
<1>3. \A g \in Harts \ {h} : LeftAlone(g)
  BY DEF Doze, Executes, Goto, TypeOK, Labels, TimerInv, LeftAlone
<1>4. HartInv(h)'
  BY DEF Doze, Executes, Goto, TypeOK, TimerInv, HartInv, CompareInv, EnableInv, Place
<1> QED BY <1>1, <1>2, <1>3, <1>4, OneHartSteps

LEMMA WfiKeeps ==
  ASSUME TimerInv, NEW h \in Harts, Wfi(h)
  PROVE TimerInv'
<1>1. mtime' \in 0 .. MaxTime /\ mtime' >= mtime
  BY SleepLands DEF TimerInv, Wfi
<1>2. TypeOK'
  BY <1>1 DEF Wfi, Goto, guest, TypeOK, Labels, TimerInv
<1>3. \A g \in Harts \ {h} : LeftAlone(g)
  BY DEF Wfi, Goto, guest, TypeOK, Labels, TimerInv, LeftAlone
<1>4. HartInv(h)'
  <2>1. pc'[h] = "wake"
    BY DEF Wfi, Goto, TypeOK, TimerInv
  <2>2. Pending(h)'
    <3> DEFINE n == IF FastForwarded(h) < MaxTime THEN FastForwarded(h) + 1 ELSE MaxTime
    <3>1. n >= Value(mtimecmp[h]) \/ msip[h]
      BY SleepLands DEF Wfi, TimerInv
    <3>2. Now' = n /\ Value(mtimecmp[h])' = Value(mtimecmp[h]) /\ (msip'[h] <=> msip[h])
      BY DEF Wfi, Now, Value
    <3> HIDE DEF n
    <3> QED BY <3>1, <3>2 DEF Pending, TimerPending, SoftwarePending
  <2> QED BY <2>1, <2>2 DEF Wfi, guest, TimerInv, HartInv, CompareInv, EnableInv, Place
<1> QED BY <1>1, <1>2, <1>3, <1>4, OneHartSteps

LEMMA WakeKeeps ==
  ASSUME TimerInv, NEW h \in Harts, Wake(h)
  PROVE TimerInv'
<1>1. mtime' \in 0 .. MaxTime /\ mtime' >= mtime
  BY Ticks DEF TimerInv, Wake, Executes
<1>2. TypeOK'
  BY <1>1 DEF Wake, Executes, Goto, TypeOK, Labels, TimerInv
<1>3. \A g \in Harts \ {h} : LeftAlone(g)
  BY DEF Wake, Executes, Goto, TypeOK, Labels, TimerInv, LeftAlone
<1>4. HartInv(h)'
  BY DEF Wake, Executes, Goto, TypeOK, TimerInv, HartInv, CompareInv, EnableInv, Place
<1> QED BY <1>1, <1>2, <1>3, <1>4, OneHartSteps

LEMMA DisarmKeeps ==
  ASSUME TimerInv, NEW h \in Harts, Disarm(h)
  PROVE TimerInv'
<1>1. mtime' \in 0 .. MaxTime /\ mtime' >= mtime
  BY Ticks DEF TimerInv, Disarm, Executes
<1>2. TypeOK'
  <2>1. mtimecmp'[h] \in Words \X Words
    BY UnsetValue DEF Disarm, TypeOK, TimerInv, StoreHigh, Unset
  <2> QED BY <1>1, <2>1 DEF Disarm, Executes, Goto, guest, TypeOK, Labels, TimerInv
<1>3. \A g \in Harts \ {h} : LeftAlone(g)
  BY DEF Disarm, Executes, Goto, guest, TypeOK, Labels, TimerInv, LeftAlone
<1>4. HartInv(h)'
  BY DEF Disarm, Executes, Goto, guest, TypeOK, TimerInv, HartInv, CompareInv, EnableInv, Place, StoreHigh
<1> QED BY <1>1, <1>2, <1>3, <1>4, OneHartSteps

LEMMA DisarmedKeeps ==
  ASSUME TimerInv, NEW h \in Harts, Disarmed(h)
  PROVE TimerInv'
<1>1. mtime' \in 0 .. MaxTime /\ mtime' >= mtime
  BY Ticks DEF TimerInv, Disarmed, Executes
<1>2. TypeOK'
  <2>1. mtimecmp'[h] \in Words \X Words
    BY UnsetValue DEF Disarmed, TypeOK, TimerInv, StoreLow, Unset
  <2> QED BY <1>1, <2>1 DEF Disarmed, Executes, Goto, guest, TypeOK, Labels, TimerInv
<1>3. \A g \in Harts \ {h} : LeftAlone(g)
  BY DEF Disarmed, Executes, Goto, guest, TypeOK, Labels, TimerInv, LeftAlone
<1>4. HartInv(h)'
  <2>1. mtimecmp'[h] = Unset
    BY DEF Disarmed, TypeOK, TimerInv, HartInv, CompareInv, Place, StoreLow, Unset
  <2> QED BY <2>1 DEF Disarmed, Executes, Goto, guest, TypeOK, TimerInv, HartInv, CompareInv, EnableInv, Place
<1> QED BY <1>1, <1>2, <1>3, <1>4, OneHartSteps

LEMMA ClearSoftwareKeeps ==
  ASSUME TimerInv, NEW h \in Harts, ClearSoftware(h)
  PROVE TimerInv'
<1>1. mtime' \in 0 .. MaxTime /\ mtime' >= mtime
  BY Ticks DEF TimerInv, ClearSoftware, Executes
<1>2. TypeOK'
  BY <1>1 DEF ClearSoftware, Executes, Goto, guest, TypeOK, Labels, TimerInv
<1>3. \A g \in Harts \ {h} : LeftAlone(g)
  BY DEF ClearSoftware, Executes, Goto, guest, TypeOK, Labels, TimerInv, LeftAlone
<1>4. HartInv(h)'
  BY DEF ClearSoftware, Executes, Goto, guest, TypeOK, TimerInv, HartInv, CompareInv, EnableInv, Place
<1> QED BY <1>1, <1>2, <1>3, <1>4, OneHartSteps

LEMMA WorkKeeps ==
  ASSUME TimerInv, NEW h \in Harts, Work(h)
  PROVE TimerInv'
<1>1. mtime' \in 0 .. MaxTime /\ mtime' >= mtime
  BY Ticks DEF TimerInv, Work, Executes
<1>2. TypeOK'
  BY <1>1 DEF Work, Executes, Goto, TypeOK, Labels, TimerInv
<1>3. \A g \in Harts \ {h} : LeftAlone(g)
  BY DEF Work, Executes, Goto, TypeOK, Labels, TimerInv, LeftAlone
<1>4. HartInv(h)'
  BY DEF Work, Executes, Goto, TypeOK, TimerInv, HartInv, CompareInv, EnableInv, Place
<1> QED BY <1>1, <1>2, <1>3, <1>4, OneHartSteps

LEMMA ReturnKeeps ==
  ASSUME TimerInv, NEW h \in Harts, Return(h)
  PROVE TimerInv'
<1>1. mtime' \in 0 .. MaxTime /\ mtime' >= mtime
  BY Ticks DEF TimerInv, Return, Executes
<1>2. TypeOK'
  BY <1>1 DEF Return, Executes, Goto, TypeOK, Labels, TimerInv
<1>3. \A g \in Harts \ {h} : LeftAlone(g)
  BY DEF Return, Executes, Goto, TypeOK, Labels, TimerInv, LeftAlone
<1>4. HartInv(h)'
  BY DEF Return, Executes, Goto, TypeOK, TimerInv, HartInv, CompareInv, EnableInv, Place
<1> QED BY <1>1, <1>2, <1>3, <1>4, OneHartSteps

LEMMA SendKeeps ==
  ASSUME TimerInv, NEW h \in Harts, NEW o \in Harts, Send(h, o)
  PROVE TimerInv'
<1>1. mtime' \in 0 .. MaxTime /\ mtime' >= mtime
  BY Ticks DEF TimerInv, Send, Executes
<1>2. TypeOK'
  BY <1>1, TimerAssumption DEF Send, Executes, TypeOK, TimerInv
<1>3. \A g \in Harts \ {h} : LeftAlone(g)
  BY DEF Send, Executes, TypeOK, Labels, TimerInv, LeftAlone
<1>4. HartInv(h)'
  BY DEF Send, Executes, TypeOK, TimerInv, HartInv, CompareInv, EnableInv, Place
<1> QED BY <1>1, <1>2, <1>3, <1>4, OneHartSteps

LEMMA IdleKeeps ==
  ASSUME TimerInv, NEW h \in Harts, Idle(h)
  PROVE TimerInv'
<1>1. mtime' = Now
  <2>1. mtimecmp[h] = Unset
    BY DEF Idle, TimerInv, HartInv, CompareInv, Place
  <2> QED BY <2>1 DEF Idle, FastForwarded
<1>2. mtime' \in 0 .. MaxTime /\ mtime' >= mtime
  BY <1>1, Ticks DEF TimerInv
<1>3. TypeOK'
  BY <1>2 DEF Idle, guest, TypeOK, TimerInv
<1>4. \A g \in Harts \ {h} : LeftAlone(g)
  BY DEF Idle, guest, LeftAlone
<1>5. HartInv(h)'
  BY DEF Idle, guest, TypeOK, TimerInv, HartInv, CompareInv, EnableInv, Place
<1> QED BY <1>2, <1>3, <1>4, <1>5, OneHartSteps

-----------------------------------------------------------------------------
LEMMA StepHolds == TimerInv /\ Next => TimerInv'
<1> SUFFICES ASSUME TimerInv, NEW h \in Harts, Step(h) PROVE TimerInv'
  BY DEF Next
<1>1. CASE TakeSoftware(h) \/ TakeTimer(h)
  BY <1>1, TakeSoftwareKeeps, TakeTimerKeeps
<1>2. CASE \E t \in Deadlines : ArmAtOnce(h, t) \/ ArmFirst(h, t)
  BY <1>2, ArmAtOnceKeeps, ArmFirstKeeps
<1>3. CASE ArmHigh(h) \/ ArmLow(h)
  BY <1>3, ArmHighKeeps, ArmLowKeeps
<1>4. CASE Doze(h) \/ Wfi(h) \/ Wake(h)
  BY <1>4, DozeKeeps, WfiKeeps, WakeKeeps
<1>5. CASE Disarm(h) \/ Disarmed(h)
  BY <1>5, DisarmKeeps, DisarmedKeeps
<1>6. CASE ClearSoftware(h) \/ Work(h) \/ Return(h)
  BY <1>6, ClearSoftwareKeeps, WorkKeeps, ReturnKeeps
<1>7. CASE \E g \in Harts : Send(h, g)
  BY <1>7, SendKeeps
<1>8. CASE Idle(h)
  BY <1>8, IdleKeeps
<1> QED BY <1>1, <1>2, <1>3, <1>4, <1>5, <1>6, <1>7, <1>8 DEF Step

\* Every step moves the time forwards or leaves it, and by more than a tick only
\* in a WFI, to before the deadline of the hart that sleeps.
Onward ==
  /\ mtime' >= mtime
  /\ mtime' > mtime + 1 => \E h \in Harts : pc[h] = "wfi" /\ mtime' < Value(mtimecmp[h])

LEMMA OneTick == ASSUME TimerInv, mtime' = Now PROVE Onward
<1>1. mtime \in 0 .. MaxTime /\ MaxTime \in Nat
  BY TimerAssumption DEF TimerInv, TypeOK
<1>2. mtime' >= mtime /\ ~(mtime' > mtime + 1)
  BY <1>1 DEF Now
<1> QED BY <1>2 DEF Onward

LEMMA StepsForward == TimerInv /\ Next => Onward
<1> SUFFICES ASSUME TimerInv, NEW h \in Harts, Step(h) PROVE Onward
  BY DEF Next
<1>1. CASE Wfi(h)
  <2>1. mtime' = FastForwarded(h) /\ pc[h] = "wfi" /\ mtime' >= mtime
    BY <1>1, SleepLands DEF Wfi, TimerInv
  <2>2. CASE mtime' = Now
    BY <2>2, OneTick
  <2>3. CASE mtime' # Now
    <3>1. Value(mtimecmp[h]) \in Nat
      BY ValueIsNat DEF TimerInv, TypeOK
    <3>2. mtime' = Value(mtimecmp[h]) - 1
      BY <2>1, <2>3 DEF FastForwarded
    <3>3. mtime' < Value(mtimecmp[h])
      BY <3>1, <3>2
    <3> QED BY <2>1, <3>3 DEF Onward
  <2> QED BY <2>2, <2>3
<1>2. CASE Idle(h)
  <2>1. mtimecmp[h] = Unset
    BY <1>2 DEF Idle, TimerInv, HartInv, CompareInv, Place
  <2>2. mtime' = Now
    BY <1>2, <2>1 DEF Idle, FastForwarded
  <2> QED BY <2>2, OneTick
<1>3. CASE ~Wfi(h) /\ ~Idle(h)
  <2>1. mtime' = Now
    BY <1>3 DEF Step, TakeSoftware, TakeTimer, ArmAtOnce, ArmFirst, ArmHigh, ArmLow, Doze, Wake,
       Disarm, Disarmed, ClearSoftware, Work, Return, Send, Executes
  <2> QED BY <2>1, OneTick
<1> QED BY <1>1, <1>2, <1>3

LEMMA StutterHolds == TimerInv /\ UNCHANGED vars => TimerInv'
BY DEF vars, TimerInv, TypeOK, HartInv, CompareInv, EnableInv, Place, Pending, TimerPending,
   SoftwarePending, Now, Value

LEMMA Inductive == Spec => []TimerInv
<1>1. TimerInv /\ [Next]_vars => TimerInv'
  BY StepHolds, StutterHolds
<1> QED BY <1>1, InitHolds, PTL DEF Spec

\* Every register stays within its width and the time within its bound: the two
\* words of a compare register are never mixed up with one another, and WFI's
\* jump lands inside the clock's range.
THEOREM Typing == Spec => []TypeOK
<1>1. TimerInv => TypeOK
  BY DEF TimerInv
<1> QED BY <1>1, Inductive, PTL

\* For any number of harts, word size and deadlines: a timer interrupt taken in
\* Runner::step is never ahead of the deadline the guest chose, though the compare
\* register is written in two stores to the CLINT and the other harts' steps and
\* WFIs move the one mtime.
THEOREM NotBeforeDeadline == Spec => []NeverEarly
<1>1. TimerInv => NeverEarly
  BY DEF TimerInv, HartInv, NeverEarly
<1> QED BY <1>1, Inductive, PTL

\* After one WFI with an armed timer the next step of that hart finds an
\* interrupt pending: fast_forward_wfi_timer's jump to one tick before the deadline is neither
\* short nor undone by another hart.
THEOREM SleepSuffices == Spec => []OneSleepIsEnough
<1>1. TimerInv => OneSleepIsEnough
  BY DEF TimerInv, HartInv, OneSleepIsEnough
<1> QED BY <1>1, Inductive, PTL

\* For any number of harts, word size and deadlines: no step of a hart moves the
\* one mtime back, and fast_forward_wfi_timer, the only one that moves it by more
\* than a tick, stops before the deadline of the hart that executes the WFI.
THEOREM TimeMonotone == Spec => NoOversleep
<1>1. TimerInv /\ [Next]_vars
        => [/\ mtime' >= mtime
            /\ mtime' > mtime + 1 =>
                 \E h \in Harts : pc[h] = "wfi" /\ mtime' < Value(mtimecmp[h])]_mtime
  BY StepsForward DEF vars, Onward
<1> QED BY <1>1, Inductive, PTL DEF Spec, NoOversleep

=============================================================================
