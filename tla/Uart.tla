-------------------------------- MODULE Uart --------------------------------
(***************************************************************************)
(* The 16550 of riscv_platform, as operators on its state u: the interrupt *)
(* enables, the divisor latch bit of LCR, the queue of received bytes and  *)
(* the bytes transmitted and not yet fetched by the host.  A transmitted   *)
(* byte leaves the chip at once, so the transmitter is always empty.       *)
(* Bytes are members of an unspecified set.                                *)
(***************************************************************************)
EXTENDS Naturals, Sequences

UartReset == [ier |-> {}, dlab |-> FALSE, rx |-> <<>>, tx |-> <<>>]

\* IER bits 0 and 1.
Rdi == "rdi"
Thri == "thri"

RdiPending(u) == Rdi \in u.ier /\ u.rx # <<>>
ThrePending(u) == Thri \in u.ier
UartPending(u) == RdiPending(u) \/ ThrePending(u)

\* IIR: received data is reported before the empty transmitter.
Iir(u) == IF RdiPending(u) THEN Rdi ELSE IF ThrePending(u) THEN Thri ELSE "none"

\* Offset 0 is RBR and THR, and the divisor while DLAB is set.
RbrRead(u) == ~u.dlab /\ u.rx # <<>>
AfterRbr(u) == IF RbrRead(u) THEN [u EXCEPT !.rx = Tail(@)] ELSE u

WriteThr(u, byte) == IF u.dlab THEN u ELSE [u EXCEPT !.tx = Append(@, byte)]

\* Offset 1 is IER, and the divisor while DLAB is set.
WriteIer(u, bits) == IF u.dlab THEN u ELSE [u EXCEPT !.ier = bits]

WriteLcr(u, dlab) == [u EXCEPT !.dlab = dlab]

\* The host's side: uart_push_input_byte for each byte, uart_output_byte_at
\* for each followed by uart_clear_output.
PushInput(u, bytes) == [u EXCEPT !.rx = @ \o bytes]

ClearOutput_Kept(u) == u
ClearOutput(u) == [u EXCEPT !.tx = <<>>]

=============================================================================
