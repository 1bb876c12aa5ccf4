------------------------------- MODULE Timer -------------------------------
(***************************************************************************)
(* Time: the CLINT (one mtime for the machine, mtimecmp and msip for each  *)
(* hart), the part of a step that samples it, and WFI's fast-forward, under*)
(* harts that arm timers, sleep and send each other software interrupts.   *)
(* The guest program is external: the two-register update of mtimecmp is   *)
(* that of the privileged specification, the sleep (WFI with interrupts    *)
(* off) that of an idle loop.                                              *)
(*                                                                         *)
(* Each action is one whole step of a hart: mtime advances, the interrupt  *)
(* bits are sampled, and then an interrupt is taken or an instruction      *)
(* executed.  A register is a pair <<hi, lo>> of digits below Word (two    *)
(* words of 32 bits in the code); mtime stands still at MaxTime.           *)
(***************************************************************************)
EXTENDS Integers

CONSTANTS
  NumHarts,
  Word,       \* values of one word
  MaxTime,    \* bound on mtime
  Deadlines,  \* what guests arm their timers for
  MaxSends    \* bound on software interrupts sent: one outranks the timer

Harts == 0 .. NumHarts - 1
Words == 0 .. Word - 1

ASSUME TimerAssumption ==
  /\ NumHarts \in Nat \ {0} /\ Word \in Nat /\ Word > 1
  /\ MaxTime \in Nat /\ MaxTime < Word * Word - 2
  /\ Deadlines \subseteq 0 .. MaxTime
  /\ MaxSends \in Nat

VARIABLES
  mtime,
  mtimecmp,  \* mtimecmp[h], as <<hi, lo>>
  msip,      \* msip[h]
  pc,        \* pc[h]: what the guest on hart h does next
  back,      \* back[h]: where its interrupt handler returns to
  ie,        \* ie[h]: mstatus.MIE
  target,    \* target[h]: the deadline the guest last chose
  work,      \* work[h]: something was left for h before an interrupt was sent
  sends      \* software interrupts sent

vars == <<mtime, mtimecmp, msip, pc, back, ie, target, work, sends>>
guest == <<back, ie, target, work, sends>>

Value(r) == r[1] * Word + r[2]
Digits(n) == <<n \div Word, n % Word>>
Unset == <<Word - 1, Word - 1>>

\* The time this step sees.
Now == IF mtime < MaxTime THEN mtime + 1 ELSE MaxTime

TimerPending_Hart0(h) == Now >= Value(mtimecmp[0])

\* update_timer: MTIP and MSIP of the stepping hart.
TimerPending(h) == Now >= Value(mtimecmp[h])

SoftwarePending_Hart0(h) == msip[0]

SoftwarePending(h) == msip[h]

Pending(h) == TimerPending(h) \/ SoftwarePending(h)

FastForwarded_Past(h) ==
  IF ~Pending(h) /\ mtimecmp[h] # Unset /\ Value(mtimecmp[h]) > Now
  THEN Value(mtimecmp[h])
  ELSE Now

FastForwarded_EvenUnset(h) ==
  IF ~Pending(h) /\ Value(mtimecmp[h]) > Now THEN Value(mtimecmp[h]) - 1 ELSE Now

FastForwarded_Short(h) ==
  IF ~Pending(h) /\ mtimecmp[h] # Unset /\ Value(mtimecmp[h]) > Now + 1
  THEN Value(mtimecmp[h]) - 2
  ELSE Now

\* WFI: to one tick before this hart's deadline, unless something is pending.
FastForwarded(h) ==
  IF ~Pending(h) /\ mtimecmp[h] # Unset /\ Value(mtimecmp[h]) > Now
  THEN Value(mtimecmp[h]) - 1
  ELSE Now

StoreHigh_ClearsLow(r, w) == <<w, 0>>

\* Word stores into a compare register keep its other word.
StoreHigh(r, w) == <<w, r[2]>>
StoreLow(r, w) == <<r[1], w>>

-----------------------------------------------------------------------------
(* Steps of hart h.                                                        *)

Goto(h, label) == pc' = [pc EXCEPT ![h] = label]

TakeSoftware(h) ==
  /\ ie[h] /\ SoftwarePending(h)
  /\ mtime' = Now
  /\ Goto(h, "clear")
  /\ back' = [back EXCEPT ![h] = pc[h]]
  /\ ie' = [ie EXCEPT ![h] = FALSE]
  /\ UNCHANGED <<mtimecmp, msip, target, work, sends>>

TakeTimer(h) ==
  /\ ie[h] /\ TimerPending(h) /\ ~SoftwarePending(h)
  /\ mtime' = Now
  /\ Goto(h, "expired")
  /\ back' = [back EXCEPT ![h] = "idle"]
  /\ ie' = [ie EXCEPT ![h] = FALSE]
  /\ UNCHANGED <<mtimecmp, msip, target, work, sends>>

Executes(h) == ~(ie[h] /\ Pending(h)) /\ mtime' = Now

\* Arming by one store (RV64), or by three that never pass through a value
\* below both the old and the new deadline.
ArmAtOnce(h, t) ==
  /\ pc[h] = "idle" /\ Executes(h)
  /\ mtimecmp' = [mtimecmp EXCEPT ![h] = Digits(t)]
  /\ target' = [target EXCEPT ![h] = t]
  /\ Goto(h, "armed")
  /\ UNCHANGED <<msip, back, ie, work, sends>>

ArmFirst(h, t) ==
  /\ pc[h] = "idle" /\ Executes(h)
  /\ mtimecmp' = [mtimecmp EXCEPT ![h] = StoreLow(@, Word - 1)]
  /\ target' = [target EXCEPT ![h] = t]
  /\ Goto(h, "high")
  /\ UNCHANGED <<msip, back, ie, work, sends>>

ArmHigh(h) ==
  /\ pc[h] = "high" /\ Executes(h)
  /\ mtimecmp' = [mtimecmp EXCEPT ![h] = StoreHigh(@, Digits(target[h])[1])]
  /\ Goto(h, "low")
  /\ UNCHANGED <<msip, guest>>

ArmLow(h) ==
  /\ pc[h] = "low" /\ Executes(h)
  /\ mtimecmp' = [mtimecmp EXCEPT ![h] = StoreLow(@, Digits(target[h])[2])]
  /\ Goto(h, "armed")
  /\ UNCHANGED <<msip, guest>>

\* The idle loop turns interrupts off, waits and turns them on.
Doze(h) ==
  /\ pc[h] = "armed" /\ Executes(h)
  /\ ie' = [ie EXCEPT ![h] = FALSE]
  /\ Goto(h, "wfi")
  /\ UNCHANGED <<mtimecmp, msip, back, target, work, sends>>

Wfi(h) ==
  /\ pc[h] = "wfi"
  /\ mtime' = FastForwarded(h)
  /\ Goto(h, "wake")
  /\ UNCHANGED <<mtimecmp, msip, guest>>

Wake(h) ==
  /\ pc[h] = "wake" /\ Executes(h)
  /\ ie' = [ie EXCEPT ![h] = TRUE]
  /\ Goto(h, "armed")
  /\ UNCHANGED <<mtimecmp, msip, back, target, work, sends>>

\* The timer's handler disarms it before it returns.
Disarm(h) ==
  /\ pc[h] = "expired" /\ Executes(h)
  /\ mtimecmp' = [mtimecmp EXCEPT ![h] = StoreHigh(@, Word - 1)]
  /\ Goto(h, "disarm")
  /\ UNCHANGED <<msip, guest>>

Disarmed(h) ==
  /\ pc[h] = "disarm" /\ Executes(h)
  /\ mtimecmp' = [mtimecmp EXCEPT ![h] = StoreLow(@, Word - 1)]
  /\ Goto(h, "return")
  /\ UNCHANGED <<msip, guest>>

\* The software interrupt's handler clears msip, then does what was left.
ClearSoftware(h) ==
  /\ pc[h] = "clear" /\ Executes(h)
  /\ msip' = [msip EXCEPT ![h] = FALSE]
  /\ Goto(h, "work")
  /\ UNCHANGED <<mtimecmp, guest>>

Work(h) ==
  /\ pc[h] = "work" /\ Executes(h)
  /\ work' = [work EXCEPT ![h] = FALSE]
  /\ Goto(h, "return")
  /\ UNCHANGED <<mtimecmp, msip, back, ie, target, sends>>

Return(h) ==
  /\ pc[h] = "return" /\ Executes(h)
  /\ Goto(h, back[h])
  /\ ie' = [ie EXCEPT ![h] = TRUE]
  /\ UNCHANGED <<mtimecmp, msip, back, target, work, sends>>

\* An idle hart leaves work for another and writes the other's msip.
Send(h, g) ==
  /\ pc[h] = "idle" /\ g # h /\ Executes(h)
  /\ work' = [work EXCEPT ![g] = TRUE]
  /\ msip' = [msip EXCEPT ![g] = TRUE]
  /\ sends < MaxSends /\ sends' = sends + 1
  /\ UNCHANGED <<mtimecmp, pc, back, ie, target>>

\* With no timer armed a WFI, like any other instruction, is one tick.
Idle(h) ==
  /\ pc[h] = "idle" /\ ~(ie[h] /\ Pending(h))
  /\ mtime' = FastForwarded(h)
  /\ UNCHANGED <<mtimecmp, msip, pc, guest>>

Step(h) ==
  \/ TakeSoftware(h) \/ TakeTimer(h)
  \/ \E t \in Deadlines : ArmAtOnce(h, t) \/ ArmFirst(h, t)
  \/ ArmHigh(h) \/ ArmLow(h)
  \/ Doze(h) \/ Wfi(h) \/ Wake(h)
  \/ Disarm(h) \/ Disarmed(h) \/ ClearSoftware(h) \/ Work(h) \/ Return(h)
  \/ \E g \in Harts : Send(h, g)
  \/ Idle(h)

Init ==
  /\ mtime = 0
  /\ mtimecmp = [h \in Harts |-> Unset]
  /\ msip = [h \in Harts |-> FALSE]
  /\ pc = [h \in Harts |-> "idle"]
  /\ back = [h \in Harts |-> "idle"]
  /\ ie = [h \in Harts |-> TRUE]
  /\ target = [h \in Harts |-> 0]
  /\ work = [h \in Harts |-> FALSE]
  /\ sends = 0

Next == \E h \in Harts : Step(h)

\* The embedder steps every runner of the array in turn.
Spec == Init /\ [][Next]_vars /\ \A h \in Harts : WF_vars(Step(h))

-----------------------------------------------------------------------------
(* Properties.                                                             *)

Labels == {"idle", "high", "low", "armed", "wfi", "wake", "expired", "disarm",
           "clear", "work", "return"}

TypeOK ==
  /\ mtime \in 0 .. MaxTime
  /\ mtimecmp \in [Harts -> Words \X Words]
  /\ msip \in [Harts -> BOOLEAN] /\ ie \in [Harts -> BOOLEAN] /\ work \in [Harts -> BOOLEAN]
  /\ pc \in [Harts -> Labels] /\ back \in [Harts -> Labels]
  /\ target \in [Harts -> 0 .. MaxTime]
  /\ sends \in 0 .. MaxSends

\* A timer interrupt is never taken before the deadline the guest chose, though
\* the compare register is written in pieces while time runs, and other harts
\* move the time.
NeverEarly == \A h \in Harts : pc[h] = "expired" => mtime >= target[h]

\* The time all harts share never goes back, whichever of them sleeps, and leaps
\* only in a WFI, which ends before the sleeper's own deadline: from there on it
\* is again the steps of every hart that bring it closer.
NoOversleep ==
  [][/\ mtime' >= mtime
     /\ mtime' > mtime + 1 => \E h \in Harts : pc[h] = "wfi" /\ mtime' < Value(mtimecmp[h])]_mtime

\* One WFI is enough: a hart that slept on an armed timer finds an interrupt
\* pending at its next step, whatever the others did to the time meanwhile.
OneSleepIsEnough == \A h \in Harts : pc[h] = "wake" => Pending(h)

\* An armed timer expires, though harts sleep, move the time for each other and
\* interrupt each other.
TimerExpires == \A h \in Harts : (pc[h] = "armed") ~> (pc[h] = "expired")

\* What is left for a hart with a software interrupt gets done, also when its
\* timer expires at the same time.
WorkGetsDone == \A h \in Harts : work[h] ~> ~work[h]

=============================================================================
