------------------------------ MODULE DiskPath ------------------------------
(***************************************************************************)
(* The disk as the guest uses it: the block device, the interrupt          *)
(* controller, and an operating system's driver on top of them (external;  *)
(* what the code, its comments and its probes expect of Linux).  A hart    *)
(* submits requests and notifies the device; any hart may take the         *)
(* supervisor external interrupt, and its handler claims the source,       *)
(* acknowledges the device, collects the used ring and completes.          *)
(***************************************************************************)
EXTENDS VirtioBlk, Plic

CONSTANTS
  Kickers,  \* harts that write QueueNotify
  Loaders   \* runners the host gives another image to

ASSUME RolesAssumption == Kickers \subseteq Harts /\ Loaders \subseteq Harts

VARIABLES
  boot,      \* boot steps done
  busy,      \* heads submitted and not collected
  lastUsed,  \* used entries collected, modulo IdxMod
  unkicked,  \* something was submitted since the last notification
  pc,        \* pc[h]: where hart h is in its interrupt handler
  serving,   \* serving[h]: the source it claimed, or 0
  input      \* the UART has received data

driver == <<boot, busy, lastUsed, unkicked, pc, serving, input>>
pathVars == <<diskVars, plicVars, driver>>

\* The sources that ask for service: plic_virtio_blk_pending and
\* uart_interrupt_pending, recomputed from the devices.
Raised == (IF int THEN {Disk} ELSE {}) \cup (IF input THEN {Uart} ELSE {})

\* mip.SEIP of any hart.
ExternalPending == Line(1, Raised)

-----------------------------------------------------------------------------
(* Boot: firmware masks the context, the kernel enables both sources with  *)
(* equal priorities and opens it.                                          *)

BootDone == boot = 5

Boot ==
  /\ \/ boot = 0 /\ WriteThreshold(1, MaxPriority)
     \/ boot = 1 /\ WriteEnable(1, Sources)
     \/ boot = 2 /\ WritePriority(Uart, 1)
     \/ boot = 3 /\ WritePriority(Disk, 1)
     \/ boot = 4 /\ WriteThreshold(1, 0)
  /\ boot' = boot + 1
  /\ UNCHANGED <<diskVars, busy, lastUsed, unkicked, pc, serving, input>>

SetUp ==
  /\ BootDone /\ ~ready
  /\ SetUpQueue
  /\ busy' = {} /\ lastUsed' = 0 /\ unkicked' = FALSE
  /\ UNCHANGED <<plicVars, boot, pc, serving, input>>

\* A reset is requested while no handler runs.
Reset ==
  /\ ready /\ \A h \in Harts : pc[h] = "idle"
  /\ ResetDevice
  /\ busy' = {} /\ unkicked' = FALSE
  /\ UNCHANGED <<plicVars, boot, lastUsed, pc, serving, input>>

\* The driver takes its first free descriptor.
Submit(head, r) ==
  /\ ready /\ head \notin busy /\ 0 .. head - 1 \subseteq busy
  /\ chain' = [chain EXCEPT ![head] = r]
  /\ avail' = [avail EXCEPT ![availIdx % Q] = head]
  /\ availIdx' = Plus(availIdx, 1)
  /\ busy' = busy \cup {head}
  /\ unkicked' = TRUE
  /\ UNCHANGED <<disk, cache, device, used, usedIdx, status, buf, plicVars,
                 boot, lastUsed, pc, serving, input>>

Kick(h) ==
  /\ unkicked /\ h \in Kickers
  /\ Notify(h)
  /\ unkicked' = FALSE
  /\ UNCHANGED <<plicVars, boot, busy, lastUsed, pc, serving, input>>

-----------------------------------------------------------------------------
(* The interrupt handler of hart h.                                        *)

Goto(h, label) == pc' = [pc EXCEPT ![h] = label]

Trap(h) ==
  /\ pc[h] = "idle" /\ ExternalPending
  /\ Goto(h, "claim")
  /\ UNCHANGED <<diskVars, plicVars, boot, busy, lastUsed, unkicked, serving, input>>

ClaimSource(h) ==
  /\ pc[h] = "claim"
  /\ Claim(1, Raised)
  /\ serving' = [serving EXCEPT ![h] = ClaimResult(1, Raised)]
  /\ Goto(h, CASE ClaimResult(1, Raised) = Disk -> "ack"
               [] ClaimResult(1, Raised) = Uart -> "drain"
               [] OTHER -> "idle")
  /\ UNCHANGED <<diskVars, boot, busy, lastUsed, unkicked, input>>

Ack(h) ==
  /\ pc[h] = "ack"
  /\ InterruptAck
  /\ Goto(h, "collect")
  /\ UNCHANGED <<plicVars, boot, busy, lastUsed, unkicked, serving, input>>

\* The driver takes the answer and frees the chain.
Collect(h) ==
  LET head == used[lastUsed % Q] IN
  /\ pc[h] = "collect"
  /\ lastUsed # usedIdx
  /\ busy' = busy \ {head}
  /\ lastUsed' = Plus(lastUsed, 1)
  /\ chain' = [chain EXCEPT ![head] = NoChain]
  /\ status' = [status EXCEPT ![head] = "none"]
  /\ buf' = [buf EXCEPT ![head] = <<>>]
  /\ UNCHANGED <<disk, cache, device, avail, availIdx, used, usedIdx, plicVars,
                 boot, unkicked, pc, serving, input>>

AllCollected(h) ==
  /\ pc[h] = "collect"
  /\ lastUsed = usedIdx
  /\ Goto(h, "complete")
  /\ UNCHANGED <<diskVars, plicVars, boot, busy, lastUsed, unkicked, serving, input>>

\* Reading the UART's receive buffer lowers its request.
Drain(h) ==
  /\ pc[h] = "drain"
  /\ input' = FALSE
  /\ Goto(h, "complete")
  /\ UNCHANGED <<diskVars, plicVars, boot, busy, lastUsed, unkicked, serving>>

Finish(h) ==
  /\ pc[h] = "complete"
  /\ CompleteClaim(1, serving[h])
  /\ serving' = [serving EXCEPT ![h] = 0]
  /\ Goto(h, "idle")
  /\ UNCHANGED <<diskVars, boot, busy, lastUsed, unkicked, input>>

Handler(h) ==
  \/ Trap(h) \/ ClaimSource(h) \/ Ack(h) \/ Collect(h) \/ AllCollected(h)
  \/ Drain(h) \/ Finish(h)

HostInput ==
  /\ ~input
  /\ input' = TRUE
  /\ UNCHANGED <<diskVars, plicVars, boot, busy, lastUsed, unkicked, pc, serving>>

HostLoad(h) == h \in Loaders /\ LoadDisk(h) /\ UNCHANGED <<plicVars, driver>>

-----------------------------------------------------------------------------
PathInit ==
  /\ DiskInit /\ PlicInit
  /\ boot = 0 /\ busy = {} /\ lastUsed = 0 /\ unkicked = FALSE
  /\ pc = [h \in Harts |-> "idle"] /\ serving = [h \in Harts |-> 0]
  /\ input = FALSE

PathNext ==
  \/ Boot \/ SetUp \/ Reset \/ HostInput
  \/ \E head \in Heads, r \in Requests : Submit(head, r)
  \/ \E h \in Harts : Kick(h) \/ Handler(h) \/ HostLoad(h)

\* What was submitted is sent, or forgotten in a reset.
Sends == unkicked /\ unkicked' = FALSE

\* The embedder steps every runner in turn, so that a handler and a driver
\* that has something to send go on; nobody owes the guest a request, a reset,
\* an input or an image.
Fairness ==
  /\ WF_pathVars(Boot) /\ WF_pathVars(SetUp)
  /\ WF_unkicked(Sends)
  /\ \A h \in Harts : WF_pathVars(Handler(h))

PathSpec == PathInit /\ [][PathNext]_pathVars /\ Fairness

-----------------------------------------------------------------------------
(* Properties.                                                             *)

TypeOK ==
  /\ disk \in [0 .. Capacity - 1 -> Vals]
  /\ \A h \in Harts : cache[h] # NoCache =>
       cache[h].base \in Nat /\ cache[h].content \in [1 .. Ahead -> Vals]
  /\ {ready, int, unkicked, input} \subseteq BOOLEAN
  /\ {lastAvail, availIdx, usedIdx, lastUsed} \subseteq 0 .. IdxMod - 1
  /\ avail \in [Heads -> Heads] /\ used \in [Heads -> Heads]
  /\ chain \in [Heads -> Requests \cup {NoChain}]
  /\ status \in [Heads -> {"none", "ok", "unsupp"}]
  /\ \A i \in Heads : buf[i] \in Seq(Vals)
  /\ boot \in 0 .. 5 /\ busy \subseteq Heads
  /\ pc \in [Harts -> {"idle", "claim", "ack", "collect", "drain", "complete"}]
  /\ serving \in [Harts -> Sources \cup {0}]
  /\ priority \in [Sources -> 0 .. MaxPriority] /\ claimed \subseteq Sources
  /\ enabled \in [Contexts -> SUBSET Sources] /\ threshold \in [Contexts -> 0 .. MaxPriority]

\* The read cache never differs from the disk, however requests, resets and
\* image loads are mixed ("the cache is invalidated ... whenever the guest
\* writes to the backing image").
CacheMatchesDisk ==
  \A h \in Harts : cache[h] # NoCache =>
    cache[h].content = Contents(disk, cache[h].base, Ahead)

\* No answer is left without a signal: while the used ring holds an entry the
\* driver has not collected, the device's interrupt bit is up or a handler is
\* collecting (level-triggered service: an answer that arrives between the
\* acknowledgement and the completion is not lost).
AnswerSignalled ==
  ready /\ lastUsed # usedIdx => int \/ \E h \in Harts : pc[h] = "collect"

\* Two harts never service one source: a claim hides it from both until the
\* completion, and what is claimed is exactly what some handler serves.
ServiceExclusive ==
  /\ \A g, h \in Harts : g # h /\ serving[g] # 0 => serving[g] # serving[h]
  /\ claimed = {serving[h] : h \in Harts} \ {0}

\* Every submitted request that ends in a status byte is answered, and its
\* head given back, unless the driver resets the device.
RequestsAnswered ==
  \A head \in Heads : (head \in busy /\ chain[head] # NoChain /\ chain[head].whole) ~> (head \notin busy)

\* The rings, the cache and the batches implement the device of DiskSpec: each
\* request served once, in order, reads seeing all earlier writes.
Queue ==
  [i \in 1 .. (IF ready THEN Distance(lastAvail, availIdx) ELSE 0) |->
     LET head == avail[Plus(lastAvail, i - 1) % Q] IN
     [head |-> head, req |-> chain[head]]]

Done ==
  [i \in 1 .. (IF ready THEN Distance(lastUsed, usedIdx) ELSE 0) |->
     LET head == used[Plus(lastUsed, i - 1) % Q] IN
     [head |-> head, status |-> status[head],
      data |-> IF chain[head].kind = "in" THEN buf[head] ELSE <<>>]]

Promise == INSTANCE DiskSpec WITH queue <- Queue, done <- Done
PromiseKept == Promise!Spec

=============================================================================
