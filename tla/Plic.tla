-------------------------------- MODULE Plic --------------------------------
(***************************************************************************)
(* The interrupt controller, with its two sources (the block device and    *)
(* the UART) and its two contexts.  Whatever hart looks, context 0 drives  *)
(* its mip.MEIP and context 1 its mip.SEIP.                                *)
(***************************************************************************)
EXTENDS Integers, FiniteSets

CONSTANTS
  MaxPriority

ASSUME PriorityAssumption == MaxPriority \in Nat \ {0}

Disk == 1
Uart == 10
Sources == {Disk, Uart}
Contexts == {0, 1}

VARIABLES
  priority,   \* priority[s]
  enabled,    \* enabled[c]: sources enabled in context c
  threshold,  \* threshold[c]
  claimed     \* sources claimed and not completed

plicVars == <<priority, enabled, threshold, claimed>>

Waiting_EvenClaimed(c, raised) == {s \in raised : s \in enabled[c]}

\* raised: the sources whose device asks for an interrupt now.
Waiting(c, raised) == {s \in raised \ claimed : s \in enabled[c]}

\* The line to the hart: the threshold counts.
Line(c, raised) == \E s \in Waiting(c, raised) : priority[s] > threshold[c]

\* What a claim returns: the threshold does not count, 0 means none, and the
\* lower source number wins among equals.
ClaimResult(c, raised) ==
  LET cand == {s \in Waiting(c, raised) : priority[s] > 0}
      best == {s \in cand : \A t \in cand : priority[t] <= priority[s]}
  IN IF best = {} THEN 0 ELSE CHOOSE s \in best : \A t \in best : s <= t

\* Reading the claim register.
Claim(c, raised) ==
  /\ claimed' = claimed \cup ({ClaimResult(c, raised)} \ {0})
  /\ UNCHANGED <<priority, enabled, threshold>>

\* Writing it: ignored for a source the context does not enable.
CompleteClaim(c, s) ==
  /\ claimed' = IF s \in enabled[c] THEN claimed \ {s} ELSE claimed
  /\ UNCHANGED <<priority, enabled, threshold>>

WritePriority(s, p) ==
  /\ priority' = [priority EXCEPT ![s] = p]
  /\ UNCHANGED <<enabled, threshold, claimed>>

WriteEnable(c, on) ==
  /\ enabled' = [enabled EXCEPT ![c] = on]
  /\ UNCHANGED <<priority, threshold, claimed>>

WriteThreshold(c, p) ==
  /\ threshold' = [threshold EXCEPT ![c] = p]
  /\ UNCHANGED <<priority, enabled, claimed>>

PlicInit ==
  /\ priority = [s \in Sources |-> 0]
  /\ enabled = [c \in Contexts |-> {}]
  /\ threshold = [c \in Contexts |-> 0]
  /\ claimed = {}

=============================================================================
